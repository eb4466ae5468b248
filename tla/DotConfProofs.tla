--------------------------- MODULE DotConfProofs ----------------------------
(***************************************************************************)
(* What setContent makes of a configuration, for all documents: an         *)
(* accepted configuration is complete; the links between the nodes are     *)
(* those of the text; no word is read from memory given back but those of  *)
(* a file that was cut short.  The invariant says what has been checked    *)
(* and looked into so far, which file the words that wait are from, and,   *)
(* for the links, where the next node will go: behind the last node of the *)
(* innermost open tag, which is at curPrev unless the tag is still empty.  *)
(***************************************************************************)
EXTENDS DotConf, SequenceTheorems, FiniteSetTheorems, WellFoundedInduction, TLAPS

FileNames == UNION {DOMAIN d : d \in Documents}

Value == [macro : BOOLEAN, is : STRING]
NodeRecord == [name : STRING, closed : BOOLEAN, parent : Nat, next : Nat, child : Nat,
               values : Seq(Value), within : Nat]

PoolWord == [word : Word, round : Nat, of : FileNames]

TypeOK ==
    /\ files \in Documents /\ file \in DOMAIN files
    /\ nodeTree \in Seq(NodeRecord) /\ curParent \in Nat /\ curPrev \in Nat
    /\ words \in Seq(PoolWord) /\ newNode \in BOOLEAN
    /\ processedFiles \in Seq(FileNames)
    /\ at \in Nat \ {0} /\ from \in Nat \ {0} /\ i \in Nat \ {0} /\ vi \in Nat \ {0}
    /\ round \in Nat /\ ret \in {-1, 0, 1}
    /\ pc \in {"read", "words", "check", "include", "done"}
    /\ open \in Seq(Nat) /\ misnested \in BOOLEAN


\* Where parseFile is: what it has returned so far says how the line before ended.
ReadInv ==
    /\ pc \in {"read", "words"} => at <= Len(files[file]) + 1
    /\ pc = "words" => ret = 0
    /\ pc = "read" =>
          /\ ret # -1
          /\ ret = 1 => at > 1 /\ files[file][at - 1].ends = "continued"

\* The nodes before the file that is read have been checked; the ones setContent
\* has gone through are among them and do not change any more.
CheckInv ==
    /\ pc \in {"read", "words", "check"} =>
          /\ from <= Len(nodeTree) + 1
          /\ i < from \/ (i = 1 /\ vi = 1)
    /\ pc \in {"read", "words"} => \A n \in 1 .. from - 1 : nodeTree[n].closed
    /\ pc = "words" /\ ~newNode => from <= Len(nodeTree)
    /\ pc = "check" =>
          /\ from <= at /\ at <= Len(nodeTree) + 1
          /\ \A n \in 1 .. at - 1 : nodeTree[n].closed
    /\ pc = "include" => \A n \in DOMAIN nodeTree : nodeTree[n].closed

\* The files processed are those that the values setContent has been at name; of
\* these values it has looked into all but those it broke off at.
Visited(n, k) == n < i \/ (n = i /\ k < vi)
NamedBefore(f) == \E n \in DOMAIN nodeTree : \E k \in DOMAIN Named(n) :
                      Visited(n, k) /\ Named(n)[k].is = f
LookedInto(n, k) == Processed(Named(n)[k].is) \/ \E j \in 1 .. k - 1 : Repeated(n, j)
IncludeInv ==
    pc # "done" =>
        /\ \A f : Processed(f) => f = MAIN \/ NamedBefore(f)
        /\ \A n \in DOMAIN nodeTree : \A k \in DOMAIN Named(n) : Visited(n, k) => LookedInto(n, k)

\* The words that wait are of the file that is read, or of files that were left
\* hanging, and are not read again.
WasCutShort(f) == f # MAIN /\ CutShort(f)
WordsInv ==
    /\ pc # "done" => Processed(file)
    /\ \A k \in DOMAIN words :
          /\ pc # "done" => Processed(words[k].of)
          /\ pc \in {"read", "words"} =>
                \/ words[k].of = file /\ words[k].round = round
                \/ words[k].of # file /\ WasCutShort(words[k].of)
          /\ pc = "read" /\ words[k].of = file => ret = 1
          /\ pc \in {"check", "include"} => WasCutShort(words[k].of)
          /\ pc = "done" => words[k].round = round \/ WasCutShort(words[k].of)

Inner == IF open = << >> THEN 0 ELSE Head(open)

\* n is the least element of s, or 0 if it has none.
LeastOf(n, s) == IF s = {} THEN n = 0 ELSE n \in s /\ \A m \in s : n <= m

Later(n) == {m \in n + 1 .. Len(nodeTree) : nodeTree[m].parent = nodeTree[n].parent}
Inside(n) == {m \in n + 1 .. Len(nodeTree) : nodeTree[m].parent = n}

\* The links are those of the text.
NodesInv ==
    \A n \in DOMAIN nodeTree :
        /\ nodeTree[n].parent < n
        /\ nodeTree[n].parent = nodeTree[n].within
        /\ LeastOf(nodeTree[n].next, Later(n))
        /\ LeastOf(nodeTree[n].child, Inside(n))

\* The open tags stand in each other; what follows one of them stands in it.
OpenInv ==
    /\ \A k \in DOMAIN open :
          /\ open[k] \in DOMAIN nodeTree
          /\ ~nodeTree[open[k]].closed
          /\ nodeTree[open[k]].parent = IF k = Len(open) THEN 0 ELSE open[k + 1]
          /\ \A m \in open[k] + 1 .. Len(nodeTree) : nodeTree[m].parent >= open[k]
    /\ \A j, k \in DOMAIN open : j < k => open[k] < open[j]
    /\ \A n \in DOMAIN nodeTree : ~nodeTree[n].closed => \E k \in DOMAIN open : open[k] = n

\* Where the next node goes: behind the last node of the innermost open tag.
PlaceInv ==
    /\ nodeTree = << >> => curParent = 0
    /\ nodeTree # << >> /\ Last(nodeTree).closed =>
          /\ curParent = Inner
          /\ curPrev \in DOMAIN nodeTree
          /\ nodeTree[curPrev].parent = curParent
          /\ \A m \in curPrev + 1 .. Len(nodeTree) : nodeTree[m].parent # curParent

TreeInv == ~misnested => NodesInv /\ OpenInv /\ PlaceInv

LEMMA HasLeast ==
    ASSUME NEW S \in SUBSET Nat, S # {}
    PROVE  \E m \in S : \A k \in S : m <= k
  <1> DEFINE R == OpToRel(<, Nat)
  <1>1. IsWellFoundedOn(R, Nat)
    BY NatLessThanWellFounded, Zenon
  <1>2. PICK m \in S : \A k \in S : <<k, m>> \notin R
    <2> HIDE DEF R
    <2> QED BY <1>1, WFMin
  <1>3. \A k \in S : ~(k < m)
    BY <1>2 DEF OpToRel
  <1> QED BY <1>3

\* Min and Max of a set of positions are what their names say.
LEMMA MinMax ==
    ASSUME NEW len \in Nat, NEW S \in SUBSET (1 .. len), S # {}
    PROVE  /\ Min(S) \in S /\ \A k \in S : Min(S) <= k
           /\ Max(S) \in S /\ \A k \in S : Max(S) >= k
  <1>1. PICK l \in S : \A k \in S : l <= k
    <2>1. S \in SUBSET Nat
      OBVIOUS
    <2> QED BY <2>1, HasLeast
  <1>2. PICK g \in S : \A k \in S : g >= k
    <2> DEFINE B == {b \in Nat : \A k \in S : k <= b}
    <2>1. len \in B
      OBVIOUS
    <2>2. B \in SUBSET Nat /\ B # {}
      BY <2>1
    <2>3. PICK b \in B : \A c \in B : b <= c
      BY <2>2, HasLeast
    <2>4. b \in Nat /\ \A k \in S : k <= b
      BY <2>3
    <2>5. b > 0
      BY <2>4
    <2>6. b - 1 \in Nat /\ b - 1 \notin B
      BY <2>3, <2>4, <2>5
    <2>7. PICK k \in S : ~(k <= b - 1)
      BY <2>6
    <2>8. k = b
      BY <2>4, <2>7
    <2> QED BY <2>4, <2>8
  <1>3. Min(S) \in S /\ \A k \in S : Min(S) <= k
    BY <1>1 DEF Min
  <1>4. Max(S) \in S /\ \A k \in S : Max(S) >= k
    BY <1>2 DEF Max
  <1> QED BY <1>3, <1>4

LEMMA Positions ==
    ASSUME NEW S, NEW t \in Seq(S)
    PROVE  /\ Len(t) \in Nat /\ DOMAIN t = 1 .. Len(t)
           /\ \A m \in DOMAIN t : t[m] \in S
           /\ t # << >> <=> Len(t) # 0
           /\ t # << >> => Head(t) = t[1] /\ Tail(t) \in Seq(S)
  OBVIOUS

\* An assignment to a member of a sequence.
LEMMA Replace ==
    ASSUME NEW S, NEW t \in Seq(S), NEW p, NEW r, p \in DOMAIN t => r \in S
    PROVE  LET u == [t EXCEPT ![p] = r]
           IN  /\ u \in Seq(S) /\ Len(u) = Len(t)
               /\ \A m \in DOMAIN t : u[m] = IF m = p THEN r ELSE t[m]
  <1> DEFINE u == [t EXCEPT ![p] = r]
  <1>1. /\ Len(t) \in Nat /\ DOMAIN t = 1 .. Len(t) /\ \A m \in DOMAIN t : t[m] \in S
        /\ t = [m \in DOMAIN t |-> t[m]]
    OBVIOUS
  <1>2. u = [m \in DOMAIN t |-> IF m = p THEN r ELSE t[m]]
    BY <1>1
  <1>3. u \in [1 .. Len(t) -> S] /\ \A m \in DOMAIN t : u[m] = IF m = p THEN r ELSE t[m]
    <2> HIDE DEF u
    <2> QED BY <1>1, <1>2
  <1>4. u \in Seq(S) /\ Len(u) = Len(t)
    <2> HIDE DEF u
    <2> QED BY <1>1, <1>3
  <1> QED BY <1>3, <1>4

LEMMA Attach ==
    ASSUME NEW S, NEW t \in Seq(S), NEW e \in S
    PROVE  LET u == Append(t, e)
           IN  /\ u \in Seq(S) /\ Len(u) = Len(t) + 1
               /\ \A m \in DOMAIN t : u[m] = t[m]
               /\ u[Len(t) + 1] = e
  OBVIOUS

LEMMA FromFunction ==
    ASSUME NEW S, NEW len \in Nat, NEW f \in [1 .. len -> S]
    PROVE  f \in Seq(S) /\ Len(f) = len /\ DOMAIN f = 1 .. len
  OBVIOUS

LEMMA Join ==
    ASSUME NEW S, NEW t \in Seq(S), NEW u \in Seq(S)
    PROVE  /\ t \o u \in Seq(S) /\ DOMAIN (t \o u) = 1 .. Len(t) + Len(u)
           /\ \A k \in 1 .. Len(t) + Len(u) :
                 (t \o u)[k] = IF k <= Len(t) THEN t[k] ELSE u[k - Len(t)]
  OBVIOUS

LEMMA HeadWord ==
    ASSUME TypeOK, TakeWord
    PROVE  /\ Head(words).word \in Word
           /\ words' \in Seq(PoolWord) /\ newNode' \in BOOLEAN
  <1>1. words \in Seq(PoolWord) /\ words # << >> /\ words' = Tail(words)
    BY DEF TypeOK, TakeWord
  <1>2. Head(words) \in PoolWord /\ words' \in Seq(PoolWord)
    BY <1>1
  <1>3. Head(words).word \in Word
    BY <1>2 DEF PoolWord
  <1> QED BY <1>2, <1>3 DEF TakeWord, Word

\* What the steps of parseLine and checkConfig do to the fields of the nodes.
SameBut(m, value) ==
    /\ nodeTree'[m].name = nodeTree[m].name
    /\ nodeTree'[m].parent = nodeTree[m].parent
    /\ nodeTree'[m].within = nodeTree[m].within
    /\ value \/ nodeTree'[m].values = nodeTree[m].values

SameLinks(m) ==
    /\ nodeTree'[m].next = nodeTree[m].next
    /\ nodeTree'[m].child = nodeTree[m].child

Deeper == nodeTree # << >> /\ ~Last(nodeTree).closed

LEMMA NewNodeDoes ==
    ASSUME TypeOK, NewNode
    PROVE  LET n == Len(nodeTree) + 1
               w == Head(words).word
               parent == IF nodeTree = << >> THEN 0 ELSE IF Deeper THEN n - 1 ELSE curParent
           IN  /\ nodeTree' \in Seq(NodeRecord) /\ Len(nodeTree') = n
               /\ nodeTree'[n] = Node(w, parent)
               /\ \A m \in DOMAIN nodeTree :
                     /\ SameBut(m, FALSE)
                     /\ nodeTree'[m].closed = nodeTree[m].closed
                     /\ nodeTree'[m].next = IF ~Deeper /\ m = curPrev THEN n ELSE nodeTree[m].next
                     /\ nodeTree'[m].child = IF Deeper /\ m = n - 1 THEN n ELSE nodeTree[m].child
               /\ curParent' = IF Deeper THEN n - 1 ELSE curParent
               /\ curPrev' = n
  <1> DEFINE n == Len(nodeTree) + 1
             w == Head(words).word
  <1>1. Len(nodeTree) \in Nat /\ \A m \in DOMAIN nodeTree : nodeTree[m] \in NodeRecord
    BY Positions DEF TypeOK
  <1>2. \A q \in Nat : Node(w, q) \in NodeRecord
    <2>1. w \in Word
      BY HeadWord DEF NewNode
    <2>2. (IF open = << >> THEN 0 ELSE Head(open)) \in Nat
      BY Positions DEF TypeOK
    <2> HIDE DEF w
    <2> QED BY <2>1, <2>2 DEF Node, NodeRecord, Word
  <1>3. CASE /\ nodeTree = << >>
             /\ nodeTree' = <<Node(w, 0)>>
             /\ UNCHANGED curParent /\ curPrev' = n
    <2>1. nodeTree' = <<Node(w, 0)>> /\ Node(w, 0) \in NodeRecord
      BY <1>2, <1>3
    <2> HIDE DEF w
    <2>2. nodeTree' \in Seq(NodeRecord)
      BY <2>1
    <2> QED BY <1>1, <1>3, <2>2 DEF Deeper, w
  <1>4. CASE /\ nodeTree # << >> /\ Last(nodeTree).closed
             /\ nodeTree' = Append([nodeTree EXCEPT ![curPrev].next = n], Node(w, curParent))
             /\ UNCHANGED curParent /\ curPrev' = n
    <2> DEFINE u == [nodeTree EXCEPT ![curPrev] = [nodeTree[curPrev] EXCEPT !.next = n]]
    <2>1. /\ u \in Seq(NodeRecord) /\ Len(u) = Len(nodeTree) /\ DOMAIN u = DOMAIN nodeTree
          /\ \A m \in DOMAIN nodeTree :
                u[m] = IF m = curPrev THEN [nodeTree[curPrev] EXCEPT !.next = n] ELSE nodeTree[m]
      <3> DEFINE r == [nodeTree[curPrev] EXCEPT !.next = n]
      <3>1. ASSUME curPrev \in DOMAIN nodeTree PROVE r \in NodeRecord
        <4>1. nodeTree[curPrev] \in NodeRecord /\ n \in Nat
          BY <1>1, <3>1
        <4> HIDE DEF n
        <4> QED BY <4>1 DEF NodeRecord
      <3>2. nodeTree \in Seq(NodeRecord) /\ u = [nodeTree EXCEPT ![curPrev] = r]
        BY DEF TypeOK
      <3> HIDE DEF n, r, u
      <3>3. /\ u \in Seq(NodeRecord) /\ Len(u) = Len(nodeTree)
            /\ \A m \in DOMAIN nodeTree : u[m] = IF m = curPrev THEN r ELSE nodeTree[m]
        BY <3>1, <3>2, Replace
      <3>4. DOMAIN u = DOMAIN nodeTree
        BY <3>2, <3>3, Positions
      <3> QED BY <3>3, <3>4 DEF r
    <2>2. nodeTree' = Append(u, Node(w, curParent)) /\ curParent \in Nat
      BY <1>4 DEF TypeOK
    <2> HIDE DEF u, w
    <2>3. /\ nodeTree' \in Seq(NodeRecord) /\ Len(nodeTree') = n /\ nodeTree'[n] = Node(w, curParent)
          /\ \A m \in DOMAIN nodeTree : nodeTree'[m] = u[m]
      BY <1>2, <2>1, <2>2, Attach
    <2>4. ~Deeper
      BY <1>4 DEF Deeper
    <2>5. ASSUME NEW m \in DOMAIN nodeTree
          PROVE  /\ SameBut(m, FALSE)
                 /\ nodeTree'[m].closed = nodeTree[m].closed
                 /\ nodeTree'[m].next = IF m = curPrev THEN n ELSE nodeTree[m].next
                 /\ nodeTree'[m].child = nodeTree[m].child
      <3>1. nodeTree'[m] = IF m = curPrev THEN [nodeTree[curPrev] EXCEPT !.next = n] ELSE nodeTree[m]
        BY <2>1, <2>3
      <3>2. nodeTree[m] \in NodeRecord
        BY <1>1
      <3> HIDE DEF n
      <3> QED BY <3>1, <3>2 DEF SameBut, NodeRecord
    <2> QED BY <1>4, <2>3, <2>4, <2>5 DEF w
  <1>5. CASE /\ nodeTree # << >> /\ ~Last(nodeTree).closed
             /\ nodeTree' = Append([nodeTree EXCEPT ![n - 1].child = n], Node(w, n - 1))
             /\ curParent' = n - 1 /\ curPrev' = n
    <2> DEFINE q == n - 1
               r == [nodeTree[q] EXCEPT !.child = n]
               u == [nodeTree EXCEPT ![q] = r]
    <2>1. /\ u \in Seq(NodeRecord) /\ Len(u) = Len(nodeTree) /\ DOMAIN u = DOMAIN nodeTree
          /\ \A m \in DOMAIN nodeTree : u[m] = IF m = q THEN r ELSE nodeTree[m]
      <3>1. ASSUME q \in DOMAIN nodeTree PROVE r \in NodeRecord
        <4>1. nodeTree[q] \in NodeRecord /\ n \in Nat
          BY <1>1, <3>1
        <4> HIDE DEF n, q
        <4> QED BY <4>1 DEF NodeRecord
      <3>2. nodeTree \in Seq(NodeRecord) /\ u = [nodeTree EXCEPT ![q] = r]
        BY DEF TypeOK
      <3> HIDE DEF n, r, u, q
      <3>3. /\ u \in Seq(NodeRecord) /\ Len(u) = Len(nodeTree)
            /\ \A m \in DOMAIN nodeTree : u[m] = IF m = q THEN r ELSE nodeTree[m]
        BY <3>1, <3>2, Replace
      <3> QED BY <3>2, <3>3, Positions
    <2>2. nodeTree' = Append(u, Node(w, q)) /\ q \in Nat
      BY <1>1, <1>5
    <2> HIDE DEF u, w
    <2>3. /\ nodeTree' \in Seq(NodeRecord) /\ Len(nodeTree') = n /\ nodeTree'[n] = Node(w, q)
          /\ \A m \in DOMAIN nodeTree : nodeTree'[m] = u[m]
      <3> HIDE DEF q
      <3> QED BY <1>2, <2>1, <2>2, Attach
    <2>4. Deeper
      BY <1>5 DEF Deeper
    <2>5. ASSUME NEW m \in DOMAIN nodeTree
          PROVE  /\ SameBut(m, FALSE)
                 /\ nodeTree'[m].closed = nodeTree[m].closed
                 /\ nodeTree'[m].next = nodeTree[m].next
                 /\ nodeTree'[m].child = IF m = q THEN n ELSE nodeTree[m].child
      <3>1. nodeTree'[m] = IF m = q THEN [nodeTree[q] EXCEPT !.child = n] ELSE nodeTree[m]
        BY <2>1, <2>3
      <3>2. nodeTree[m] \in NodeRecord
        BY <1>1
      <3> HIDE DEF n, q
      <3> QED BY <3>1, <3>2 DEF SameBut, NodeRecord
    <2> QED BY <1>5, <2>3, <2>4, <2>5 DEF w
  <1> QED BY <1>3, <1>4, <1>5 DEF NewNode

LEMMA CloseTagDoes ==
    ASSUME TypeOK, CloseTag
    PROVE  \E n \in DOMAIN nodeTree :
              /\ n \in OpenNamed(Head(words).word.is)
              /\ \A m \in OpenNamed(Head(words).word.is) : m <= n
              /\ nodeTree' \in Seq(NodeRecord) /\ Len(nodeTree') = Len(nodeTree)
              /\ \A m \in DOMAIN nodeTree :
                    /\ SameBut(m, FALSE) /\ SameLinks(m)
                    /\ nodeTree'[m].closed = (nodeTree[m].closed \/ m = n)
              /\ curParent' = nodeTree[n].parent /\ curPrev' = n
  <1> DEFINE S == OpenNamed(Head(words).word.is)
  <1>1. /\ Len(nodeTree) \in Nat /\ DOMAIN nodeTree = 1 .. Len(nodeTree)
        /\ \A m \in DOMAIN nodeTree : nodeTree[m] \in NodeRecord
    BY Positions DEF TypeOK
  <1>2. S \in SUBSET (1 .. Len(nodeTree)) /\ S # {}
    BY <1>1 DEF CloseTag, OpenNamed
  <1>3. PICK n \in DOMAIN nodeTree : n = LastMatch(S) /\ n \in S /\ \A m \in S : m <= n
    <2> HIDE DEF S
    <2>1. Max(S) \in S /\ \A m \in S : Max(S) >= m
      BY <1>1, <1>2, MinMax
    <2> QED BY <1>1, <1>2, <2>1 DEF LastMatch
  <1> DEFINE r == [nodeTree[n] EXCEPT !.closed = TRUE]
  <1>4. nodeTree' = [nodeTree EXCEPT ![n] = r] /\ curParent' = nodeTree[n].parent /\ curPrev' = n
    BY <1>3 DEF CloseTag
  <1>5. r \in NodeRecord
    BY <1>1 DEF NodeRecord
  <1>6. /\ nodeTree' \in Seq(NodeRecord) /\ Len(nodeTree') = Len(nodeTree)
        /\ \A m \in DOMAIN nodeTree : nodeTree'[m] = IF m = n THEN r ELSE nodeTree[m]
    <2> HIDE DEF r
    <2> QED BY <1>4, <1>5, Replace DEF TypeOK
  <1>7. ASSUME NEW m \in DOMAIN nodeTree
        PROVE  /\ SameBut(m, FALSE) /\ SameLinks(m)
               /\ nodeTree'[m].closed = (nodeTree[m].closed \/ m = n)
    <2>1. nodeTree[m] \in NodeRecord /\ nodeTree'[m] = IF m = n THEN r ELSE nodeTree[m]
      BY <1>1, <1>6
    <2>2. CASE m = n
      <3>1. nodeTree'[m] = [nodeTree[m] EXCEPT !.closed = TRUE]
        BY <2>1, <2>2
      <3> QED BY <2>1, <2>2, <3>1 DEF SameBut, SameLinks, NodeRecord
    <2>3. CASE m # n
      <3>1. nodeTree'[m] = nodeTree[m] /\ nodeTree[m].closed \in BOOLEAN
        BY <2>1, <2>3 DEF NodeRecord
      <3> QED BY <2>3, <3>1 DEF SameBut, SameLinks
    <2> QED BY <2>2, <2>3
  <1> QED BY <1>3, <1>4, <1>6, <1>7

\* AddValue and CheckNode change the values of one node.
LEMMA ValuesDo ==
    ASSUME TypeOK, NEW n, NEW vs, n \in DOMAIN nodeTree => vs \in Seq(Value),
           nodeTree' = [nodeTree EXCEPT ![n] = [nodeTree[n] EXCEPT !.values = vs]]
    PROVE  /\ nodeTree' \in Seq(NodeRecord) /\ Len(nodeTree') = Len(nodeTree)
           /\ \A m \in DOMAIN nodeTree :
                 /\ SameBut(m, m = n) /\ SameLinks(m)
                 /\ nodeTree'[m].closed = nodeTree[m].closed
  <1> DEFINE r == [nodeTree[n] EXCEPT !.values = vs]
  <1>1. \A m \in DOMAIN nodeTree : nodeTree[m] \in NodeRecord
    BY Positions DEF TypeOK
  <1>2. ASSUME n \in DOMAIN nodeTree PROVE r \in NodeRecord
    <2>1. nodeTree[n] \in NodeRecord
      BY <1>1, <1>2
    <2> QED BY <1>2, <2>1 DEF NodeRecord
  <1>3. /\ nodeTree' \in Seq(NodeRecord) /\ Len(nodeTree') = Len(nodeTree)
        /\ \A m \in DOMAIN nodeTree : nodeTree'[m] = IF m = n THEN r ELSE nodeTree[m]
    <2>1. nodeTree \in Seq(NodeRecord) /\ nodeTree' = [nodeTree EXCEPT ![n] = r]
      BY DEF TypeOK
    <2> HIDE DEF r
    <2>2. n \in DOMAIN nodeTree => r \in NodeRecord
      BY <1>2
    <2> DEFINE u == [nodeTree EXCEPT ![n] = r]
    <2>3. /\ u \in Seq(NodeRecord) /\ Len(u) = Len(nodeTree)
          /\ \A m \in DOMAIN nodeTree : u[m] = IF m = n THEN r ELSE nodeTree[m]
      BY <2>1, <2>2, Replace
    <2>4. nodeTree' = u
      BY <2>1
    <2> HIDE DEF u
    <2> QED BY <2>3, <2>4
  <1>4. ASSUME NEW m \in DOMAIN nodeTree
        PROVE  /\ SameBut(m, m = n) /\ SameLinks(m)
               /\ nodeTree'[m].closed = nodeTree[m].closed
    <2>1. nodeTree[m] \in NodeRecord /\ nodeTree'[m] = IF m = n THEN r ELSE nodeTree[m]
      BY <1>1, <1>3
    <2>2. CASE m = n
      <3>1. nodeTree'[m] = [nodeTree[m] EXCEPT !.values = vs]
        BY <2>1, <2>2
      <3> QED BY <2>1, <2>2, <3>1 DEF SameBut, SameLinks, NodeRecord
    <2>3. CASE m # n
      BY <2>1, <2>3 DEF SameBut, SameLinks
    <2> QED BY <2>2, <2>3
  <1> QED BY <1>3, <1>4

LEMMA AddValueDoes ==
    ASSUME TypeOK, AddValue
    PROVE  /\ nodeTree' \in Seq(NodeRecord) /\ Len(nodeTree') = Len(nodeTree)
           /\ \A m \in DOMAIN nodeTree :
                 /\ SameBut(m, m = Len(nodeTree)) /\ SameLinks(m)
                 /\ nodeTree'[m].closed = nodeTree[m].closed
  <1> DEFINE n == Len(nodeTree)
             v == [macro |-> Head(words).word.tag = "macro", is |-> Head(words).word.is]
             vs == Append(nodeTree[n].values, v)
  <1>1. v \in Value
    <2>1. Head(words).word \in Word
      BY HeadWord DEF AddValue
    <2> QED BY <2>1 DEF Value, Word
  <1>2. ASSUME n \in DOMAIN nodeTree PROVE vs \in Seq(Value)
    <2>1. nodeTree[n] \in NodeRecord
      BY <1>2, Positions DEF TypeOK
    <2>2. nodeTree[n].values \in Seq(Value)
      BY <2>1 DEF NodeRecord
    <2> HIDE DEF n, v
    <2> QED BY <1>1, <2>2
  <1>3. nodeTree' = [nodeTree EXCEPT ![n] = [nodeTree[n] EXCEPT !.values = vs]]
    BY DEF AddValue
  <1> HIDE DEF n, vs
  <1>4. /\ nodeTree' \in Seq(NodeRecord) /\ Len(nodeTree') = Len(nodeTree)
        /\ \A m \in DOMAIN nodeTree :
              /\ SameBut(m, m = n) /\ SameLinks(m)
              /\ nodeTree'[m].closed = nodeTree[m].closed
    BY <1>2, <1>3, ValuesDo
  <1> QED BY <1>4 DEF n

LEMMA CheckNodeDoes ==
    ASSUME TypeOK, CheckNode
    PROVE  /\ nodeTree' \in Seq(NodeRecord) /\ Len(nodeTree') = Len(nodeTree)
           /\ \A m \in DOMAIN nodeTree :
                 /\ SameBut(m, m = at) /\ SameLinks(m)
                 /\ nodeTree'[m].closed = nodeTree[m].closed
           /\ round' \in Nat
  <1>1. at \in DOMAIN nodeTree /\ nodeTree[at] \in NodeRecord /\ nodeTree[at].values \in Seq(Value)
    <2>1. at \in DOMAIN nodeTree
      BY Positions DEF CheckNode, TypeOK
    <2>2. nodeTree[at] \in NodeRecord
      BY <2>1, Positions DEF TypeOK
    <2> QED BY <2>1, <2>2 DEF NodeRecord
  <1> DEFINE vs == nodeTree[at].values
             new == [k \in DOMAIN vs |-> IF vs[k].macro THEN Substitution(vs[k].is) ELSE vs[k]]
  <1>2. ASSUME NEW k \in DOMAIN vs PROVE new[k] \in Value
    <2>1. vs[k] \in Value
      BY <1>1, <1>2
    <2>2. CASE ~vs[k].macro
      BY <2>1, <2>2
    <2>3. CASE vs[k].macro
      <3> DEFINE name == vs[k].is
      <3>1. name \in STRING /\ new[k] = Substitution(name)
        BY <2>1, <2>3 DEF Value
      <3>2. Found(name)
        BY <1>2, <2>3 DEF CheckNode, Passes, Macros
      <3> HIDE DEF name, new
      <3>3. CASE name \in Env
        BY <3>1, <3>3 DEF Substitution, Value
      <3>4. CASE name \notin Env
        <4>1. Sources(name) \in SUBSET (1 .. Len(nodeTree)) /\ Sources(name) # {}
          BY <3>2, <3>4 DEF Found, Sources, TypeOK
        <4>2. Min(Sources(name)) \in Sources(name)
          BY <4>1, MinMax, Positions DEF TypeOK
        <4>3. PICK n \in DOMAIN nodeTree : n = Min(Sources(name)) /\ nodeTree[n].values # << >>
          BY <4>2 DEF Sources
        <4>4. nodeTree[n].values \in Seq(Value)
          <5>1. nodeTree[n] \in NodeRecord
            BY <4>3, Positions DEF TypeOK
          <5> QED BY <5>1 DEF NodeRecord
        <4>5. nodeTree[n].values[1] \in Value
          BY <4>3, <4>4
        <4> QED BY <3>1, <3>4, <4>3, <4>5 DEF Substitution
      <3> QED BY <3>3, <3>4
    <2> QED BY <2>2, <2>3
  <1>3. new \in Seq(Value)
    <2>1. DOMAIN vs = 1 .. Len(vs) /\ Len(vs) \in Nat
      BY <1>1
    <2>2. DOMAIN new = DOMAIN vs
      OBVIOUS
    <2>3. new \in [1 .. Len(vs) -> Value]
      <3>1. new = [k \in DOMAIN vs |-> new[k]]
        BY <2>2
      <3> HIDE DEF new, vs
      <3> QED BY <1>2, <2>1, <3>1
    <2> HIDE DEF new, vs
    <2> QED BY <2>1, <2>3
  <1>4. nodeTree' = [nodeTree EXCEPT ![at] = [nodeTree[at] EXCEPT !.values = new]]
    BY DEF CheckNode
  <1> HIDE DEF new, vs
  <1>5. round' \in Nat
    <2>1. DOMAIN vs = 1 .. Len(vs) /\ Len(vs) \in Nat
      BY <1>1 DEF vs
    <2>2. Macros(at) \subseteq 1 .. Len(vs)
      BY <2>1 DEF Macros, vs
    <2>3. Cardinality(Macros(at)) \in Nat
      <3> HIDE DEF vs
      <3>1. IsFiniteSet(1 .. Len(vs))
        BY <2>1, FS_Interval
      <3>2. IsFiniteSet(Macros(at))
        BY <2>2, <3>1, FS_Subset
      <3> QED BY <3>2, FS_CardinalityType
    <2> QED BY <2>3 DEF CheckNode, TypeOK
  <1>6. /\ nodeTree' \in Seq(NodeRecord) /\ Len(nodeTree') = Len(nodeTree)
        /\ \A m \in DOMAIN nodeTree :
              /\ SameBut(m, m = at) /\ SameLinks(m)
              /\ nodeTree'[m].closed = nodeTree[m].closed
    BY <1>3, <1>4, ValuesDo
  <1> QED BY <1>5, <1>6

LEMMA TypeStep == ASSUME TypeOK, [Next]_vars PROVE TypeOK'
  <1>0. files[file] \in Seq(TextLine) /\ Len(files[file]) \in Nat /\ Len(nodeTree) \in Nat
    BY DocumentsAssumption DEF TypeOK
  <1>1. ASSUME NEW e \in Ends, Reading(e) PROVE Pending \in Seq(PoolWord)
    <2>1. Line \in TextLine
      BY <1>0, <1>1 DEF Line, Reading, TypeOK
    <2>2. Line.words \in Seq(Word)
      BY <2>1 DEF TextLine
    <2> DEFINE new == [k \in DOMAIN Line.words |->
                          [word |-> Line.words[k], round |-> round, of |-> file]]
    <2>3. new \in Seq(PoolWord)
      <3>1. DOMAIN Line.words = 1 .. Len(Line.words) /\ Len(Line.words) \in Nat
        BY <2>2
      <3>2. \A k \in 1 .. Len(Line.words) : Line.words[k] \in Word
        BY <2>2
      <3>3. new \in [1 .. Len(Line.words) -> PoolWord]
        BY <3>1, <3>2 DEF TypeOK, PoolWord, FileNames
      <3> QED BY <3>1, <3>3
    <2>4. Pending = words \o new
      BY DEF Pending
    <2>5. words \in Seq(PoolWord)
      BY DEF TypeOK
    <2> HIDE DEF new
    <2> QED BY <2>3, <2>4, <2>5
  <1>2. CASE ReadUnterminated
    <2>1. words' \in Seq(PoolWord)
      BY <1>1, <1>2 DEF ReadUnterminated, Ends
    <2> QED BY <1>2, <2>1 DEF ReadUnterminated, TypeOK, place, text
  <1>3. CASE ReadContinued
    <2>1. words' \in Seq(PoolWord)
      BY <1>1, <1>3 DEF ReadContinued, Ends
    <2> QED BY <1>3, <2>1 DEF ReadContinued, RoundAfterPart, TypeOK, place, text
  <1>4. CASE ReadLine
    <2>1. words' \in Seq(PoolWord)
      BY <1>1, <1>4 DEF ReadLine, Ends
    <2> QED BY <1>4, <2>1 DEF ReadLine, TypeOK, place, text
  <1>5. CASE FileEnd \/ CheckEnd \/ CheckFails \/ Finish \/ LineEnd \/ IncludeMissing
    <2>1. /\ UNCHANGED <<files, nodeTree, curParent, curPrev, words, newNode, processedFiles, text>>
          /\ UNCHANGED <<file, from, i, vi>> /\ at' \in {at, from} /\ round' \in {round, round + 1}
          /\ ret' \in {ret, 0, -1} /\ pc' \in {"done", "check", "include", "read"}
      BY <1>5 DEF FileEnd, CheckEnd, CheckFails, Finish, LineEnd, IncludeMissing, place, text
    <2> QED BY <2>1 DEF TypeOK, text
  <1>6. CASE IncludeAgain \/ NextNode
    BY <1>6 DEF IncludeAgain, NextNode, NextPlace, TypeOK, place, text
  <1>7. CASE Include
    <2>1. Target \in DOMAIN files /\ Target \in FileNames
      BY <1>7 DEF Include, TypeOK, FileNames
    <2> HIDE DEF Target
    <2> QED BY <1>0, <1>7, <2>1 DEF Include, NextValue, TypeOK, place, text
  <1>8. CASE TakeWord /\ (CloseTag \/ CloseUnmatched \/ NewNode \/ AddValue)
    <2>2. /\ words' \in Seq(PoolWord) /\ newNode' \in BOOLEAN
          /\ UNCHANGED <<files, processedFiles, place, round>>
      BY <1>8, HeadWord DEF TakeWord
    <2>3. CASE CloseUnmatched
      BY <2>2, <2>3 DEF CloseUnmatched, TypeOK, place, text
    <2>4. CASE CloseTag
      <3>1. PICK n \in DOMAIN nodeTree : /\ nodeTree' \in Seq(NodeRecord)
                                        /\ curParent' = nodeTree[n].parent /\ curPrev' = n
        BY <2>4, CloseTagDoes
      <3>2. n \in Nat /\ nodeTree[n].parent \in Nat
        <4>1. nodeTree[n] \in NodeRecord
          BY Positions DEF TypeOK
        <4>2. n \in Nat
          BY Positions DEF TypeOK
        <4> QED BY <4>1, <4>2 DEF NodeRecord
      <3>3. open' \in Seq(Nat) /\ misnested' \in BOOLEAN /\ UNCHANGED <<ret, pc>>
        BY <2>4 DEF CloseTag, TypeOK, ClosesInTurn
      <3> QED BY <2>2, <3>1, <3>2, <3>3 DEF TypeOK, place
    <2>5. CASE NewNode
      <3>1. /\ nodeTree' \in Seq(NodeRecord) /\ curPrev' \in Nat
            /\ curParent' = IF Deeper THEN Len(nodeTree) ELSE curParent
        BY <1>0, <2>5, NewNodeDoes
      <3>2. open' \in Seq(Nat) /\ UNCHANGED <<ret, pc, misnested>>
        BY <1>0, <2>5 DEF NewNode, TypeOK
      <3>3. curParent' \in Nat
        BY <1>0, <3>1 DEF TypeOK
      <3> QED BY <2>2, <3>1, <3>2, <3>3 DEF TypeOK, place
    <2>6. CASE AddValue
      <3>1. nodeTree' \in Seq(NodeRecord)
        BY <2>6, AddValueDoes
      <3> QED BY <2>2, <2>6, <3>1 DEF AddValue, TypeOK, place, text
    <2> QED BY <1>8, <2>3, <2>4, <2>5, <2>6
  <1>9. CASE CheckNode
    <2>1. nodeTree' \in Seq(NodeRecord) /\ round' \in Nat
      BY <1>9, CheckNodeDoes
    <2>2. /\ at' = at + 1
          /\ UNCHANGED <<files, curParent, curPrev, words, newNode, processedFiles, file, from, i, vi,
                         ret, pc, text>>
      BY <1>9 DEF CheckNode
    <2> QED BY <2>1, <2>2 DEF TypeOK, text
  <1>10. CASE UNCHANGED vars
    BY <1>10 DEF vars, TypeOK, place, text
  <1>11. CloseTag \/ CloseUnmatched \/ NewNode \/ AddValue => TakeWord
    BY DEF CloseTag, CloseUnmatched, NewNode, AddValue
  <1> QED BY <1>2, <1>3, <1>4, <1>5, <1>6, <1>7, <1>8, <1>9, <1>10, <1>11 DEF Next


LEMMA FileLines ==
    ASSUME TypeOK, NEW f \in DOMAIN files
    PROVE  files[f] \in Seq(TextLine) /\ Len(files[f]) \in Nat
  BY DocumentsAssumption DEF TypeOK

LEMMA ReadStep == ASSUME TypeOK, ReadInv, [Next]_vars PROVE ReadInv'
  <1>1. Len(files[file]) \in Nat /\ at \in Nat
    BY FileLines DEF TypeOK
  <1>2. CASE ReadUnterminated \/ FileEnd \/ CloseUnmatched \/ CheckNode \/ CheckFails \/ CheckEnd
             \/ IncludeMissing \/ IncludeAgain \/ NextNode \/ Finish
    <2>1. pc' \notin {"read", "words"}
      BY <1>2 DEF ReadUnterminated, FileEnd, CloseUnmatched, CheckNode, CheckFails, CheckEnd,
         IncludeMissing, IncludeAgain, NextNode, Finish, AtValue, AtNode
    <2> QED BY <2>1 DEF ReadInv
  <1>3. CASE ReadContinued
    <2>1. /\ pc' = "read" /\ ret' = 1 /\ at' = at + 1 /\ UNCHANGED <<files, file>>
          /\ at <= Len(files[file]) /\ files[file][at].ends = "continued"
      BY <1>3 DEF ReadContinued, Reading, Line
    <2>2. at' - 1 = at /\ at' <= Len(files[file]) + 1 /\ at' > 1
      BY <1>1, <2>1 DEF TypeOK
    <2> QED BY <2>1, <2>2 DEF ReadInv
  <1>4. CASE ReadLine
    BY <1>1, <1>4 DEF ReadInv, ReadLine, Reading, Line
  <1>5. CASE CloseTag \/ NewNode \/ AddValue \/ LineEnd
    BY <1>5 DEF ReadInv, CloseTag, NewNode, AddValue, LineEnd, TakeWord, place
  <1>6. CASE Include
    <2>1. Target \in DOMAIN files /\ at' = 1 /\ file' = Target /\ ret' = 0 /\ pc' = "read"
          /\ UNCHANGED files
      BY <1>6 DEF Include
    <2>2. Len(files[Target]) \in Nat
      BY <2>1, FileLines
    <2> HIDE DEF Target
    <2> QED BY <2>1, <2>2 DEF ReadInv
  <1>7. CASE UNCHANGED vars
    BY <1>7 DEF ReadInv, vars, place
  <1> QED BY <1>2, <1>3, <1>4, <1>5, <1>6, <1>7 DEF Next

\* What Include does to the list of files.
LEMMA IncludeAdds ==
    ASSUME TypeOK, Include
    PROVE  \A f : Contains(processedFiles', f) <=> Contains(processedFiles, f) \/ f = Target
  <1>1. /\ processedFiles \in Seq(FileNames) /\ Target \in FileNames
        /\ processedFiles' = Append(processedFiles, Target)
    BY DEF Include, TypeOK, FileNames
  <1> HIDE DEF Target
  <1>2. /\ Len(processedFiles) \in Nat /\ DOMAIN processedFiles = 1 .. Len(processedFiles)
        /\ DOMAIN processedFiles' = 1 .. Len(processedFiles) + 1
        /\ \A k \in 1 .. Len(processedFiles) : processedFiles'[k] = processedFiles[k]
        /\ processedFiles'[Len(processedFiles) + 1] = Target
    BY <1>1
  <1>3. \A k : k \in 1 .. Len(processedFiles) + 1
                 <=> k \in 1 .. Len(processedFiles) \/ k = Len(processedFiles) + 1
    BY <1>2
  <1> QED BY <1>2, <1>3 DEF Contains

\* The words of a line are added to those that wait.
LEMMA PendingWords ==
    ASSUME TypeOK, NEW e, Reading(e)
    PROVE  /\ Pending = << >> => words = << >>
           /\ \A k \in DOMAIN Pending :
                 \/ k \in DOMAIN words /\ Pending[k] = words[k]
                 \/ Pending[k].round = round /\ Pending[k].of = file
  <1> DEFINE new == [k \in DOMAIN Line.words |->
                        [word |-> Line.words[k], round |-> round, of |-> file]]
  <1>1. Line.words \in Seq(Word)
    <2>1. files[file] \in Seq(TextLine) /\ at \in Nat \ {0} /\ at <= Len(files[file])
      BY FileLines DEF TypeOK, Reading
    <2>2. Line \in TextLine
      BY <2>1 DEF Line
    <2> QED BY <2>2 DEF TextLine
  <1>2. DOMAIN words = 1 .. Len(words) /\ Len(words) \in Nat /\ words \in Seq(PoolWord)
    BY DEF TypeOK
  <1>3. DOMAIN Line.words = 1 .. Len(Line.words) /\ Len(Line.words) \in Nat
    BY <1>1
  <1>4. /\ new \in Seq(PoolWord) /\ Len(new) = Len(Line.words)
        /\ \A k \in 1 .. Len(Line.words) : new[k].round = round /\ new[k].of = file
    <2>1. \A k \in 1 .. Len(Line.words) : Line.words[k] \in Word
      BY <1>1
    <2>2. new \in [1 .. Len(Line.words) -> PoolWord]
      BY <1>3, <2>1 DEF TypeOK, PoolWord, FileNames
    <2>3. \A k \in 1 .. Len(Line.words) : new[k].round = round /\ new[k].of = file
      BY <1>3
    <2>4. new \in Seq(PoolWord) /\ Len(new) = Len(Line.words)
      <3> HIDE DEF new
      <3> QED BY <1>3, <2>2, FromFunction
    <2> QED BY <2>3, <2>4
  <1>5. Pending = words \o new
    BY DEF Pending
  <1> HIDE DEF new
  <1>6. /\ DOMAIN Pending = 1 .. Len(words) + Len(new)
        /\ \A k \in 1 .. Len(words) + Len(new) :
              Pending[k] = IF k <= Len(words) THEN words[k] ELSE new[k - Len(words)]
    <2> DEFINE S == PoolWord
    <2>1. words \in Seq(S) /\ new \in Seq(S)
      BY <1>2, <1>4
    <2> HIDE DEF S
    <2> QED BY <2>1, <1>5, Join
  <1>7. \A k \in 1 .. Len(words) + Len(new) :
            k \in 1 .. Len(words) \/ (~(k <= Len(words)) /\ k - Len(words) \in 1 .. Len(new))
    BY <1>2, <1>3, <1>4
  <1>8. ASSUME Pending = << >> PROVE words = << >>
    <2>1. DOMAIN Pending = {}
      BY <1>8
    <2>2. 1 \notin 1 .. Len(words) + Len(new)
      BY <1>6, <2>1
    <2>3. Len(words) \in Nat /\ Len(new) \in Nat
      BY <1>2, <1>3, <1>4
    <2>4. Len(words) = 0
      BY <2>2, <2>3
    <2> QED BY <1>2, <2>4, Positions
  <1>9. ASSUME NEW k \in DOMAIN Pending
        PROVE  \/ k \in DOMAIN words /\ Pending[k] = words[k]
               \/ Pending[k].round = round /\ Pending[k].of = file
    <2>1. CASE k \in 1 .. Len(words)
      BY <1>2, <1>6, <1>9, <2>1
    <2>2. CASE ~(k <= Len(words)) /\ k - Len(words) \in 1 .. Len(new)
      BY <1>4, <1>6, <1>9, <2>2
    <2> QED BY <1>6, <1>7, <1>9, <2>1, <2>2
  <1> QED BY <1>8, <1>9

LEMMA WordsStep == ASSUME TypeOK, ReadInv, WordsInv, [Next]_vars PROVE WordsInv'
  <1>1. files' = files
    BY DEF Next, vars, ReadUnterminated, ReadContinued, ReadLine, FileEnd, CloseTag,
       CloseUnmatched, NewNode, AddValue, TakeWord, LineEnd, CheckNode, CheckFails, CheckEnd,
       IncludeMissing, Include, IncludeAgain, NextNode, Finish
  <1>2. \A f : WasCutShort(f)' <=> WasCutShort(f)
    BY <1>1 DEF WasCutShort, CutShort
  <1>3. ASSUME NEW e, Reading(e), words' = Pending, UNCHANGED <<file, round, processedFiles>>,
               \/ pc' = "read" /\ ret' = 1
               \/ pc' = "read" /\ words' = << >>
               \/ pc' \in {"words", "done"}
        PROVE  WordsInv'
    <2>1. pc = "read" /\ Processed(file)
      BY <1>3 DEF Reading, WordsInv
    <2>2. \A f : Processed(f)' <=> Processed(f)
      BY <1>3 DEF Processed
    <2>3. SUFFICES ASSUME NEW k \in DOMAIN words'
                   PROVE  /\ Processed(words'[k].of)
                          /\ \/ words'[k].of = file /\ words'[k].round = round
                             \/ words'[k].of # file /\ WasCutShort(words'[k].of)
                          /\ pc' = "read" => ret' = 1
      BY <1>2, <1>3, <2>1, <2>2 DEF WordsInv
    <2>4. \/ k \in DOMAIN words /\ words'[k] = words[k]
          \/ words'[k].round = round /\ words'[k].of = file
      BY <1>3, <2>3, PendingWords
    <2>5. pc' = "read" => ret' = 1
      BY <1>3, <2>3
    <2> QED BY <2>1, <2>4, <2>5 DEF WordsInv
  <1>4. CASE ReadUnterminated \/ ReadContinued \/ ReadLine
    BY <1>3, <1>4 DEF ReadUnterminated, ReadContinued, ReadLine, RoundAfterPart, Reading, place
  <1>5. CASE FileEnd
    <2>1. /\ pc = "read" /\ pc' \in {"done", "check"} /\ (pc' = "check" => file # MAIN \/ ret = 0)
          /\ UNCHANGED <<words, processedFiles, file, round>> /\ at > Len(files[file])
      BY <1>5 DEF FileEnd
    <2>2. ASSUME NEW k \in DOMAIN words, pc' = "check" PROVE WasCutShort(words[k].of)
      <3>1. SUFFICES ASSUME words[k].of = file PROVE WasCutShort(file)
        BY <2>1, <2>2 DEF WordsInv
      <3>2. ret = 1 /\ file # MAIN
        BY <2>1, <2>2, <3>1 DEF WordsInv
      <3>3. at > 1 /\ files[file][at - 1].ends = "continued" /\ at <= Len(files[file]) + 1
        BY <2>1, <3>2 DEF ReadInv
      <3>4. at \in Nat /\ Len(files[file]) \in Nat /\ file \in DOMAIN files
        BY FileLines DEF TypeOK
      <3>5. at - 1 = Len(files[file]) /\ files[file] # << >>
        BY <2>1, <3>3, <3>4, FileLines
      <3> QED BY <3>2, <3>3, <3>5 DEF WasCutShort, CutShort, Last
    <2>3. \A f : Processed(f)' <=> Processed(f)
      BY <2>1 DEF Processed
    <2> QED BY <1>2, <2>1, <2>2, <2>3 DEF WordsInv
  <1>6. CASE CloseTag \/ CloseUnmatched \/ NewNode \/ AddValue
    <2>1. words \in Seq(PoolWord) /\ words # << >> /\ words' = Tail(words)
          /\ UNCHANGED <<round, file, processedFiles>> /\ pc = "words" /\ pc' \in {"words", "done"}
      BY <1>6 DEF CloseTag, CloseUnmatched, NewNode, AddValue, TakeWord, TypeOK, place
    <2>2. \A k \in DOMAIN words' : k + 1 \in DOMAIN words /\ words'[k] = words[k + 1]
      BY <2>1
    <2>3. \A f : Processed(f)' <=> Processed(f)
      BY <2>1 DEF Processed
    <2>4. SUFFICES ASSUME NEW k \in DOMAIN words'
                   PROVE  /\ Processed(words'[k].of)
                          /\ \/ words'[k].of = file /\ words'[k].round = round
                             \/ words'[k].of # file /\ WasCutShort(words'[k].of)
      BY <1>2, <2>1, <2>3 DEF WordsInv
    <2>5. k + 1 \in DOMAIN words /\ words'[k] = words[k + 1]
      BY <2>2
    <2> QED BY <2>1, <2>5 DEF WordsInv
  <1>7. CASE LineEnd
    BY <1>7 DEF LineEnd, WordsInv, Processed, place
  <1>8. CASE CheckNode \/ CheckFails \/ CheckEnd \/ IncludeMissing \/ IncludeAgain \/ NextNode \/ Finish
    <2>1. /\ pc \in {"check", "include"} /\ pc' \in {"check", "include", "done"}
          /\ UNCHANGED <<words, processedFiles, file>>
      BY <1>8 DEF CheckNode, CheckFails, CheckEnd, IncludeMissing, IncludeAgain, NextNode, Finish,
         AtNode, AtValue, place
    <2>2. \A f : Processed(f)' <=> Processed(f)
      BY <2>1 DEF Processed
    <2> QED BY <1>2, <2>1, <2>2 DEF WordsInv
  <1>9. CASE Include
    <2>1. /\ pc = "include" /\ pc' = "read" /\ UNCHANGED words /\ file' = Target
          /\ ~Processed(Target) /\ processedFiles' = Append(processedFiles, Target)
      BY <1>9 DEF Include, AtNode, AtValue
    <2>2. Contains(processedFiles', Target) /\ \A f : Processed(f) => Processed(f)'
      BY <1>9, IncludeAdds DEF Processed
    <2>3. Processed(file)'
      BY <2>1, <2>2 DEF Processed
    <2>4. ASSUME NEW k \in DOMAIN words
          PROVE  Processed(words[k].of) /\ WasCutShort(words[k].of) /\ words[k].of # Target
      BY <2>1 DEF WordsInv
    <2> QED BY <1>2, <2>1, <2>2, <2>3, <2>4 DEF WordsInv
  <1>10. CASE UNCHANGED vars
    BY <1>2, <1>10 DEF WordsInv, Processed, vars, place
  <1> QED BY <1>4, <1>5, <1>6, <1>7, <1>8, <1>9, <1>10 DEF Next

LEMMA CheckStep == ASSUME TypeOK, CheckInv, [Next]_vars PROVE CheckInv'
  <1>1. /\ Len(nodeTree) \in Nat /\ DOMAIN nodeTree = 1 .. Len(nodeTree)
        /\ from \in Nat \ {0} /\ i \in Nat \ {0} /\ at \in Nat \ {0}
    BY Positions DEF TypeOK
  <1>2. CASE ReadUnterminated \/ CloseUnmatched \/ CheckFails \/ IncludeMissing \/ Finish
    BY <1>2 DEF CheckInv, ReadUnterminated, CloseUnmatched, CheckFails, IncludeMissing, Finish
  <1>3. CASE ReadContinued \/ ReadLine \/ LineEnd
    BY <1>3 DEF CheckInv, ReadContinued, ReadLine, LineEnd, Reading, place
  <1>4. CASE FileEnd
    BY <1>1, <1>4 DEF CheckInv, FileEnd
  <1>5. CASE CloseTag
    <2>1. PICK n \in DOMAIN nodeTree : /\ n \in OpenNamed(Head(words).word.is)
                                      /\ Len(nodeTree') = Len(nodeTree)
                                      /\ \A m \in DOMAIN nodeTree :
                                            nodeTree'[m].closed = (nodeTree[m].closed \/ m = n)
      BY <1>5, CloseTagDoes
    <2>2. pc = "words" /\ pc' = "words" /\ UNCHANGED <<from, i, vi>>
      BY <1>5 DEF CloseTag, TakeWord, place
    <2>3. n \notin 1 .. from - 1
      BY <2>1, <2>2 DEF CheckInv, OpenNamed
    <2>4. from <= Len(nodeTree)
      BY <1>1, <2>1, <2>3
    <2>5. from <= Len(nodeTree) + 1 /\ (i < from \/ (i = 1 /\ vi = 1))
      BY <2>2 DEF CheckInv
    <2>6. ASSUME NEW m \in 1 .. from - 1 PROVE nodeTree'[m].closed
      <3>1. m \in DOMAIN nodeTree /\ nodeTree[m].closed
        BY <1>1, <2>2, <2>4 DEF CheckInv
      <3>2. nodeTree'[m].closed = (nodeTree[m].closed \/ m = n)
        BY <2>1, <3>1
      <3> QED BY <3>1, <3>2, Zenon
    <2> QED BY <2>1, <2>2, <2>4, <2>5, <2>6 DEF CheckInv
  <1>6. CASE NewNode
    <2>1. /\ Len(nodeTree') = Len(nodeTree) + 1
          /\ \A m \in DOMAIN nodeTree : nodeTree'[m].closed = nodeTree[m].closed
      BY <1>6, NewNodeDoes
    <2>2. pc = "words" /\ pc' = "words" /\ UNCHANGED <<from, i, vi>>
      BY <1>6 DEF NewNode, TakeWord, place
    <2>3. from <= Len(nodeTree) + 1 /\ (i < from \/ (i = 1 /\ vi = 1))
      BY <2>2 DEF CheckInv
    <2>4. \A m \in 1 .. from - 1 : nodeTree'[m].closed
      BY <1>1, <2>1, <2>2, <2>3 DEF CheckInv
    <2>5. from <= Len(nodeTree') /\ from <= Len(nodeTree') + 1
      BY <1>1, <2>1, <2>3
    <2> QED BY <2>2, <2>3, <2>4, <2>5 DEF CheckInv
  <1>7. CASE AddValue
    <2>1. /\ Len(nodeTree') = Len(nodeTree)
          /\ \A m \in DOMAIN nodeTree : nodeTree'[m].closed = nodeTree[m].closed
      BY <1>7, AddValueDoes
    <2>2. pc = "words" /\ pc' = "words" /\ UNCHANGED <<from, i, vi>> /\ ~newNode
      BY <1>7 DEF AddValue, TakeWord, Begins, place
    <2>3. from <= Len(nodeTree) + 1 /\ (i < from \/ (i = 1 /\ vi = 1)) /\ from <= Len(nodeTree)
      BY <2>2 DEF CheckInv
    <2>4. \A m \in 1 .. from - 1 : nodeTree'[m].closed
      BY <1>1, <2>1, <2>2, <2>3 DEF CheckInv
    <2> QED BY <2>1, <2>2, <2>3, <2>4 DEF CheckInv
  <1>8. CASE CheckNode
    <2>1. /\ Len(nodeTree') = Len(nodeTree)
          /\ \A m \in DOMAIN nodeTree : nodeTree'[m].closed = nodeTree[m].closed
      BY <1>8, CheckNodeDoes
    <2>2. /\ pc = "check" /\ pc' = "check" /\ at' = at + 1 /\ UNCHANGED <<from, i, vi>>
          /\ at <= Len(nodeTree) /\ nodeTree[at].closed
      BY <1>8 DEF CheckNode, Passes
    <2>3. \A m \in 1 .. at' - 1 : nodeTree'[m].closed
      <3>1. SUFFICES ASSUME NEW m \in 1 .. at' - 1 PROVE nodeTree'[m].closed
        OBVIOUS
      <3>2. m \in DOMAIN nodeTree /\ (m = at \/ m \in 1 .. at - 1)
        BY <1>1, <2>2, <3>1
      <3> QED BY <2>1, <2>2, <3>2 DEF CheckInv
    <2>4. from <= at' /\ at' <= Len(nodeTree') + 1 /\ from <= Len(nodeTree') + 1
          /\ (i < from \/ (i = 1 /\ vi = 1))
      BY <1>1, <2>1, <2>2 DEF CheckInv
    <2> QED BY <2>2, <2>3, <2>4 DEF CheckInv
  <1>9. CASE CheckEnd
    BY <1>1, <1>9 DEF CheckInv, CheckEnd
  <1>10. CASE Include
    <2>1. /\ pc' = "read" /\ at' = 1 /\ from' = Len(nodeTree) + 1 /\ UNCHANGED <<nodeTree, i>>
          /\ pc = "include" /\ i <= Len(nodeTree)
      BY <1>10 DEF Include, AtValue, AtNode
    <2>2. \A m \in 1 .. from' - 1 : nodeTree'[m].closed
      BY <1>1, <2>1 DEF CheckInv
    <2> QED BY <1>1, <2>1, <2>2 DEF CheckInv
  <1>11. CASE IncludeAgain \/ NextNode
    BY <1>11 DEF CheckInv, IncludeAgain, NextNode, AtValue, AtNode
  <1>12. CASE UNCHANGED vars
    BY <1>12 DEF CheckInv, vars, place
  <1> QED BY <1>2, <1>3, <1>4, <1>5, <1>6, <1>7, <1>8, <1>9, <1>10, <1>11, <1>12 DEF Next

LEMMA NamedValues ==
    ASSUME TypeOK, NEW n \in DOMAIN nodeTree
    PROVE  Named(n) \in Seq(Value) /\ DOMAIN Named(n) = 1 .. Len(Named(n)) /\ Len(Named(n)) \in Nat
  <1>1. nodeTree[n] \in NodeRecord
    BY Positions DEF TypeOK
  <1>2. nodeTree[n].values \in Seq(Value)
    BY <1>1 DEF NodeRecord
  <1>3. Named(n) \in Seq(Value)
    BY <1>2 DEF Named
  <1> QED BY <1>3

\* A step that touches only nodes setContent has not come to.
LEMMA VisitedStay ==
    ASSUME TypeOK, IncludeInv, pc # "done", UNCHANGED <<i, vi, processedFiles>>,
           \A m \in DOMAIN nodeTree : m \in DOMAIN nodeTree',
           \A m \in DOMAIN nodeTree : (m < i \/ (m = i /\ vi > 1)) => SameBut(m, FALSE),
           \A m \in DOMAIN nodeTree' : (m < i \/ (m = i /\ vi > 1)) => m \in DOMAIN nodeTree,
           nodeTree' \in Seq(NodeRecord)
    PROVE  IncludeInv'
  <1> DEFINE Passed(m) == m < i \/ (m = i /\ vi > 1)
  <1>1. /\ DOMAIN nodeTree = 1 .. Len(nodeTree) /\ Len(nodeTree) \in Nat
        /\ i \in Nat \ {0} /\ vi \in Nat \ {0}
    BY Positions DEF TypeOK
  <1>2. ASSUME NEW m \in DOMAIN nodeTree, Passed(m)
        PROVE  m \in DOMAIN nodeTree' /\ Named(m)' = Named(m)
    <2>1. nodeTree'[m].name = nodeTree[m].name /\ nodeTree'[m].values = nodeTree[m].values
      BY <1>2 DEF SameBut
    <2> QED BY <1>2, <2>1 DEF Named
  <1>3. \A f : Processed(f)' <=> Processed(f)
    BY DEF Processed
  <1>4. \A n, k : Visited(n, k)' <=> Visited(n, k)
    BY DEF Visited
  <1>5. ASSUME NEW f, Processed(f)' PROVE f = MAIN \/ NamedBefore(f)'
    <2>1. SUFFICES ASSUME NEW n \in DOMAIN nodeTree, NEW k \in DOMAIN Named(n), Visited(n, k),
                          Named(n)[k].is = f
                   PROVE  NamedBefore(f)'
      BY <1>3, <1>5 DEF IncludeInv, NamedBefore
    <2>2. Passed(n)
      <3>1. k \in Nat \ {0}
        BY NamedValues
      <3> QED BY <1>1, <2>1, <3>1 DEF Visited
    <2>3. n \in DOMAIN nodeTree' /\ Named(n)' = Named(n)
      BY <1>2, <2>2
    <2> QED BY <1>4, <2>1, <2>3 DEF NamedBefore
  <1>6. ASSUME NEW n \in DOMAIN nodeTree', NEW k \in DOMAIN Named(n)', Visited(n, k)'
        PROVE  LookedInto(n, k)'
    <2>1. n \in Nat /\ k \in Nat \ {0}
      <3>1. n \in Nat
        BY Positions
      <3>2. nodeTree'[n].values \in Seq(Value)
        <4>1. nodeTree'[n] \in NodeRecord
          BY Positions
        <4> QED BY <4>1 DEF NodeRecord
      <3>3. Named(n)' \in Seq(Value)
        BY <3>2 DEF Named
      <3>4. k \in Nat \ {0}
        BY <1>6, <3>3
      <3> QED BY <3>1, <3>4
    <2>2. Passed(n)
      BY <1>1, <1>4, <1>6, <2>1 DEF Visited
    <2>3. n \in DOMAIN nodeTree /\ Named(n)' = Named(n)
      BY <1>2, <2>2
    <2>4. LookedInto(n, k)
      BY <1>4, <1>6, <2>3 DEF IncludeInv
    <2>5. \A m \in 1 .. n : Named(m)' = Named(m)
      <3>1. ASSUME NEW m \in 1 .. n PROVE m \in DOMAIN nodeTree /\ Passed(m)
        BY <1>1, <2>1, <2>2, <2>3
      <3> QED BY <1>2, <3>1
    <2>6. \A j : Repeated(n, j)' <=> Repeated(n, j)
      BY <2>3, <2>5 DEF Repeated
    <2> QED BY <1>3, <2>3, <2>4, <2>6 DEF LookedInto
  <1> QED BY <1>5, <1>6 DEF IncludeInv

LEMMA IncludeStep == ASSUME TypeOK, CheckInv, IncludeInv, [Next]_vars PROVE IncludeInv'
  <1>1. /\ Len(nodeTree) \in Nat /\ DOMAIN nodeTree = 1 .. Len(nodeTree)
        /\ from \in Nat \ {0} /\ i \in Nat \ {0} /\ at \in Nat \ {0} /\ vi \in Nat \ {0}
    BY Positions DEF TypeOK
  <1>2. nodeTree' \in Seq(NodeRecord)
    BY TypeStep DEF TypeOK
  <1>3. CASE ReadUnterminated \/ CloseUnmatched \/ CheckFails \/ IncludeMissing \/ Finish
    BY <1>3 DEF IncludeInv, ReadUnterminated, CloseUnmatched, CheckFails, IncludeMissing, Finish
  <1>4. CASE UNCHANGED <<nodeTree, i, vi, processedFiles>> /\ pc # "done"
    <2>1. \A m \in DOMAIN nodeTree : SameBut(m, FALSE)
      BY <1>4 DEF SameBut
    <2> QED BY <1>2, <1>4, <2>1, VisitedStay
  <1>5. CASE ReadContinued \/ ReadLine \/ LineEnd \/ FileEnd \/ CheckEnd
    BY <1>4, <1>5 DEF ReadContinued, ReadLine, LineEnd, FileEnd, CheckEnd, Reading, place
  <1>6. CASE CloseTag \/ NewNode \/ AddValue
    <2>1. /\ pc = "words" /\ UNCHANGED <<i, vi, processedFiles>>
          /\ i < from \/ (i = 1 /\ vi = 1)
          /\ from <= Len(nodeTree) + 1
          /\ AddValue => from <= Len(nodeTree)
      BY <1>6 DEF CheckInv, CloseTag, NewNode, AddValue, TakeWord, Begins, place
    <2>2. ASSUME NEW m \in DOMAIN nodeTree, m < i \/ (m = i /\ vi > 1) PROVE SameBut(m, FALSE)
      <3>1. CASE CloseTag
        BY <3>1, CloseTagDoes
      <3>2. CASE NewNode
        BY <3>2, NewNodeDoes
      <3>3. CASE AddValue
        <4>1. m # Len(nodeTree)
          BY <1>1, <2>1, <2>2, <3>3
        <4> QED BY <3>3, <4>1, AddValueDoes DEF SameBut
      <3> QED BY <1>6, <3>1, <3>2, <3>3
    <2>3. DOMAIN nodeTree' = 1 .. Len(nodeTree') /\ Len(nodeTree') \in {Len(nodeTree), Len(nodeTree) + 1}
      <3>1. CASE CloseTag
        BY <1>1, <3>1, CloseTagDoes, Positions
      <3>2. CASE NewNode
        <4>1. nodeTree' \in Seq(NodeRecord) /\ Len(nodeTree') = Len(nodeTree) + 1
          BY <3>2, NewNodeDoes
        <4> QED BY <1>1, <4>1, Positions
      <3>3. CASE AddValue
        BY <1>1, <3>3, AddValueDoes, Positions
      <3> QED BY <1>6, <3>1, <3>2, <3>3
    <2>4. \A m \in DOMAIN nodeTree : m \in DOMAIN nodeTree'
      <3>1. CASE Len(nodeTree') = Len(nodeTree)
        BY <1>1, <2>3, <3>1
      <3>2. CASE Len(nodeTree') = Len(nodeTree) + 1
        BY <1>1, <2>3, <3>2
      <3> QED BY <2>3, <3>1, <3>2
    <2>5. \A m \in DOMAIN nodeTree' : (m < i \/ (m = i /\ vi > 1)) => m \in DOMAIN nodeTree
      <3>1. CASE Len(nodeTree') = Len(nodeTree)
        BY <1>1, <2>3, <3>1
      <3>2. CASE Len(nodeTree') = Len(nodeTree) + 1
        BY <1>1, <2>1, <2>3, <3>2
      <3> QED BY <2>3, <3>1, <3>2
    <2> QED BY <1>2, <2>1, <2>2, <2>4, <2>5, VisitedStay
  <1>7. CASE CheckNode
    <2>1. /\ pc = "check" /\ UNCHANGED <<i, vi, processedFiles>>
          /\ i < at \/ (i = 1 /\ vi = 1)
      BY <1>1, <1>7 DEF CheckInv, CheckNode
    <2>2. DOMAIN nodeTree' = DOMAIN nodeTree
      BY <1>1, <1>7, CheckNodeDoes, Positions
    <2>3. ASSUME NEW m \in DOMAIN nodeTree, m < i \/ (m = i /\ vi > 1) PROVE SameBut(m, FALSE)
      <3>1. m # at
        BY <1>1, <2>1, <2>3
      <3> QED BY <1>7, <3>1, CheckNodeDoes DEF SameBut
    <2> QED BY <1>2, <2>1, <2>2, <2>3, VisitedStay
  <1>8. CASE Include \/ IncludeAgain \/ NextNode
    <2>1. /\ pc = "include" /\ i \in DOMAIN nodeTree /\ UNCHANGED nodeTree
          /\ \/ Include /\ i' = i /\ vi' = vi + 1
             \/ (IncludeAgain \/ NextNode) /\ i' = i + 1 /\ vi' = 1
      BY <1>1, <1>8 DEF Include, IncludeAgain, NextNode, NextPlace, NextValue, AtValue, AtNode
    <2>2. \A n : Named(n)' = Named(n)
      BY <2>1 DEF Named
    <2>3. \A f : Processed(f) => Processed(f)'
      <3>1. IncludeAgain \/ NextNode => UNCHANGED processedFiles
        BY DEF IncludeAgain, NextNode
      <3> QED BY <1>8, <3>1, IncludeAdds DEF Processed
    <2>4. \A n \in DOMAIN nodeTree : \A k \in DOMAIN Named(n) :
              /\ Visited(n, k) => Visited(n, k)'
              /\ Visited(n, k)' /\ ~Visited(n, k) => n = i /\ k >= vi /\ (Include => k = vi)
      <3>1. ASSUME NEW n \in DOMAIN nodeTree, NEW k \in DOMAIN Named(n) PROVE n \in Nat /\ k \in Nat \ {0}
        <4>1. DOMAIN Named(n) = 1 .. Len(Named(n)) /\ Len(Named(n)) \in Nat
          BY NamedValues
        <4> QED BY <1>1, <4>1
      <3>2. ASSUME NEW n \in Nat, NEW k \in Nat \ {0}
            PROVE  /\ Visited(n, k) => Visited(n, k)'
                   /\ Visited(n, k)' /\ ~Visited(n, k) => n = i /\ k >= vi /\ (Include => k = vi)
        <4>1. CASE Include
          <5>1. i' = i /\ vi' = vi + 1
            BY <4>1 DEF Include, NextValue
          <5> QED BY <1>1, <5>1 DEF Visited
        <4>2. CASE ~Include
          BY <1>1, <2>1, <4>2 DEF Visited
        <4> QED BY <4>1, <4>2
      <3> QED BY <3>1, <3>2
    <2>5. AtValue <=> vi \in DOMAIN Named(i)
      <3>1. DOMAIN Named(i) = 1 .. Len(Named(i)) /\ Len(Named(i)) \in Nat
        BY <2>1, NamedValues
      <3> QED BY <1>1, <2>1, <3>1 DEF AtValue, AtNode, Named
    <2>6. AtValue => Target = Named(i)[vi].is
      BY DEF AtValue, Target, Named
    <2>7. ASSUME NEW f, Processed(f)', f # MAIN PROVE NamedBefore(f)'
      <3>1. CASE Processed(f)
        <4>1. PICK n \in DOMAIN nodeTree : \E k \in DOMAIN Named(n) :
                      Visited(n, k) /\ Named(n)[k].is = f
          BY <2>1, <2>7, <3>1 DEF IncludeInv, NamedBefore
        <4> QED BY <2>1, <2>2, <2>4, <4>1 DEF NamedBefore
      <3>2. CASE ~Processed(f)
        <4>1. Include /\ f = Target
          <5>1. IncludeAgain \/ NextNode => UNCHANGED processedFiles
            BY DEF IncludeAgain, NextNode
          <5> QED BY <1>8, <2>7, <3>2, <5>1, IncludeAdds DEF Processed
        <4>2. PICK n \in DOMAIN nodeTree : n = i /\ \E k \in DOMAIN Named(n) : k = vi /\ f = Named(n)[k].is
          BY <2>1, <2>5, <2>6, <4>1 DEF Include
        <4>3. PICK k \in DOMAIN Named(n) : k = vi /\ f = Named(n)[k].is
          BY <4>2
        <4>4. Visited(n, k)'
          <5>1. i' = i /\ vi' = vi + 1
            BY <4>1 DEF Include, NextValue
          <5> QED BY <1>1, <4>2, <4>3, <5>1 DEF Visited
        <4> QED BY <2>1, <2>2, <4>3, <4>4 DEF NamedBefore
      <3> QED BY <3>1, <3>2
    <2>8. ASSUME NEW n \in DOMAIN nodeTree, NEW k \in DOMAIN Named(n), Visited(n, k)'
          PROVE  LookedInto(n, k)'
      <3>1. \A j : Repeated(n, j)' <=> Repeated(n, j)
        BY <2>2 DEF Repeated
      <3>2. SUFFICES Contains(processedFiles', Named(n)[k].is) \/ \E j \in 1 .. k - 1 : Repeated(n, j)
        BY <2>2, <3>1 DEF LookedInto, Processed
      <3>3. CASE Visited(n, k)
        <4>1. LookedInto(n, k)
          BY <2>1, <3>3 DEF IncludeInv
        <4> QED BY <2>3, <4>1 DEF LookedInto, Processed
      <3>4. CASE ~Visited(n, k)
        <4>1. n = i /\ k >= vi /\ (Include => k = vi) /\ k \in 1 .. Len(Named(i)) /\ Len(Named(i)) \in Nat
          BY <2>4, <2>8, <3>4, NamedValues
        <4>2. AtValue
          BY <1>1, <2>5, <4>1, NamedValues
        <4>3. Target = Named(n)[vi].is
          BY <2>6, <4>1, <4>2
        <4>4. CASE Include
          <5>1. Contains(processedFiles', Target)
            BY <4>4, IncludeAdds
          <5> QED BY <4>1, <4>3, <4>4, <5>1
        <4>5. CASE IncludeAgain
          <5>1. Processed(Target)
            BY <4>5 DEF IncludeAgain
          <5>2. Repeated(n, vi)
            <6>1. CASE Target = MAIN
              BY <4>3, <6>1 DEF Repeated
            <6>2. CASE Target # MAIN
              <7>1. PICK m \in DOMAIN nodeTree : \E l \in DOMAIN Named(m) :
                            Visited(m, l) /\ Named(m)[l].is = Target
                BY <2>1, <5>1, <6>2 DEF IncludeInv, NamedBefore
              <7>2. m \in 1 .. n /\ \A l : Visited(m, l) => m < n \/ l < vi
                BY <1>1, <4>1, <7>1 DEF Visited
              <7> QED BY <4>3, <7>1, <7>2 DEF Repeated
            <6> QED BY <6>1, <6>2
          <5>3. k = vi \/ vi \in 1 .. k - 1
            BY <1>1, <4>1
          <5>4. Contains(processedFiles', Target)
            BY <2>3, <5>1 DEF Processed
          <5> QED BY <4>3, <5>2, <5>3, <5>4
        <4> QED BY <1>8, <4>2, <4>4, <4>5 DEF NextNode
      <3> QED BY <3>3, <3>4
    <2> QED BY <2>1, <2>2, <2>7, <2>8 DEF IncludeInv
  <1>9. CASE UNCHANGED vars
    <2>1. pc = "done" => pc' = "done"
      BY <1>9 DEF vars
    <2> QED BY <1>4, <1>9, <2>1 DEF IncludeInv, vars, place
  <1>10. ReadContinued \/ ReadLine \/ LineEnd \/ FileEnd \/ CheckEnd => pc # "done"
    BY DEF ReadContinued, ReadLine, LineEnd, FileEnd, CheckEnd, Reading
  <1> QED BY <1>3, <1>5, <1>6, <1>7, <1>8, <1>9 DEF Next

LEMMA AcceptStep ==
    ASSUME TypeOK, ReadInv, CheckInv, IncludeInv, AcceptedIsComplete, [Next]_vars
    PROVE  AcceptedIsComplete'
  <1>1. SUFFICES ASSUME pc' = "done", ret' # -1
                 PROVE  Complete' \/ (ret' = 1 /\ CutShort(MAIN)')
    BY DEF AcceptedIsComplete
  <1>2. CASE UNCHANGED vars
    <2>1. UNCHANGED <<files, nodeTree, processedFiles, pc, ret>>
      BY <1>2 DEF vars
    <2>2. \A n : Named(n)' = Named(n)
      BY <2>1 DEF Named
    <2>3. Complete' <=> Complete
      BY <2>1, <2>2 DEF Complete, Repeated, Processed, Missing
    <2> QED BY <1>1, <2>1, <2>3 DEF AcceptedIsComplete, CutShort
  <1>3. CASE Finish
    <2>1. Missing = {} /\ pc = "include" /\ i > Len(nodeTree) /\ UNCHANGED <<nodeTree, processedFiles>>
      BY <1>1, <1>3 DEF Finish, Missing
    <2>2. ASSUME NEW n \in DOMAIN nodeTree
          PROVE  /\ nodeTree[n].closed
                 /\ \A k \in DOMAIN Named(n) :
                       Processed(Named(n)[k].is) \/ \E j \in 1 .. k - 1 : Repeated(n, j)
      <3>1. n < i
        BY <2>1, Positions DEF TypeOK
      <3> QED BY <2>1, <3>1 DEF CheckInv, IncludeInv, Visited, LookedInto
    <2>3. \A n : Named(n)' = Named(n)
      BY <2>1 DEF Named
    <2>4. Complete
      BY <2>1, <2>2 DEF Complete
    <2> QED BY <2>1, <2>3, <2>4 DEF Complete, Repeated, Processed, Missing
  <1>4. CASE FileEnd
    <2>1. /\ file = MAIN /\ ret # 0 /\ pc = "read" /\ at > Len(files[file])
          /\ UNCHANGED <<files, ret>>
      BY <1>1, <1>4 DEF FileEnd
    <2>2. ret = 1
      BY <2>1 DEF ReadInv, TypeOK
    <2>3. /\ at > 1 /\ files[file][at - 1].ends = "continued" /\ at <= Len(files[file]) + 1
          /\ at \in Nat /\ Len(files[file]) \in Nat /\ file \in DOMAIN files
      BY <2>1, <2>2, FileLines DEF ReadInv, TypeOK
    <2>4. at - 1 = Len(files[file]) /\ files[file] # << >>
      BY <2>1, <2>3, FileLines
    <2>5. CutShort(MAIN)
      BY <2>1, <2>3, <2>4 DEF CutShort, Last
    <2> QED BY <1>1, <2>1, <2>2, <2>5 DEF CutShort
  <1>5. CASE ReadUnterminated \/ CloseUnmatched \/ CheckFails \/ IncludeMissing
    BY <1>1, <1>5 DEF ReadUnterminated, CloseUnmatched, CheckFails, IncludeMissing
  <1>6. CASE ReadContinued \/ ReadLine \/ LineEnd \/ CloseTag \/ NewNode \/ AddValue
    BY <1>1, <1>6 DEF ReadContinued, ReadLine, LineEnd, CloseTag, NewNode, AddValue, TakeWord,
       Reading
  <1>7. CASE CheckNode \/ CheckEnd \/ Include \/ IncludeAgain \/ NextNode
    BY <1>1, <1>7 DEF CheckNode, CheckEnd, Include, IncludeAgain, NextNode, AtValue, AtNode
  <1> QED BY <1>2, <1>3, <1>4, <1>5, <1>6, <1>7 DEF Next

\* Steps that leave the links and the tags alone.
LEMMA SameTree ==
    ASSUME TypeOK, NodesInv, OpenInv, PlaceInv,
           nodeTree' \in Seq(NodeRecord), Len(nodeTree') = Len(nodeTree),
           \A m \in DOMAIN nodeTree :
              /\ SameBut(m, TRUE) /\ SameLinks(m) /\ nodeTree'[m].closed = nodeTree[m].closed,
           UNCHANGED <<open, curParent, curPrev>>
    PROVE  NodesInv' /\ OpenInv' /\ PlaceInv'
  <1>1. /\ Len(nodeTree) \in Nat /\ DOMAIN nodeTree = 1 .. Len(nodeTree)
        /\ DOMAIN nodeTree' = 1 .. Len(nodeTree)
        /\ nodeTree # << >> <=> Len(nodeTree) # 0
        /\ nodeTree' # << >> <=> Len(nodeTree) # 0
    BY Positions DEF TypeOK
  <1>2. \A m \in 1 .. Len(nodeTree) :
            /\ nodeTree'[m].parent = nodeTree[m].parent
            /\ nodeTree'[m].within = nodeTree[m].within
            /\ nodeTree'[m].next = nodeTree[m].next
            /\ nodeTree'[m].child = nodeTree[m].child
            /\ nodeTree'[m].closed = nodeTree[m].closed
    BY <1>1 DEF SameBut, SameLinks
  <1>3. NodesInv'
    <2>1. ASSUME NEW n \in 1 .. Len(nodeTree)
          PROVE  Later(n)' = Later(n) /\ Inside(n)' = Inside(n)
      BY <1>1, <1>2 DEF Later, Inside
    <2> QED BY <1>1, <1>2, <2>1 DEF NodesInv, LeastOf
  <1>4. OpenInv'
    <2>1. \A k \in DOMAIN open : open[k] \in 1 .. Len(nodeTree)
      BY <1>1 DEF OpenInv
    <2>2. ASSUME NEW k \in DOMAIN open
          PROVE  /\ ~nodeTree'[open[k]].closed
                 /\ nodeTree'[open[k]].parent = IF k = Len(open) THEN 0 ELSE open[k + 1]
                 /\ \A m \in open[k] + 1 .. Len(nodeTree) : nodeTree'[m].parent >= open[k]
      <3>1. \A m \in open[k] + 1 .. Len(nodeTree) : m \in 1 .. Len(nodeTree)
        BY <1>1, <2>1
      <3>2. /\ ~nodeTree[open[k]].closed
            /\ nodeTree[open[k]].parent = IF k = Len(open) THEN 0 ELSE open[k + 1]
            /\ \A m \in open[k] + 1 .. Len(nodeTree) : nodeTree[m].parent >= open[k]
        BY DEF OpenInv
      <3> QED BY <1>2, <2>1, <3>1, <3>2
    <2>3. \A m \in 1 .. Len(nodeTree) : ~nodeTree'[m].closed => \E k \in DOMAIN open : open[k] = m
      BY <1>1, <1>2 DEF OpenInv
    <2>4. \A j, k \in DOMAIN open : j < k => open[k] < open[j]
      BY DEF OpenInv
    <2> QED BY <1>1, <2>1, <2>2, <2>3, <2>4 DEF OpenInv
  <1>5. PlaceInv'
    <2>1. Last(nodeTree') = nodeTree'[Len(nodeTree)] /\ Last(nodeTree) = nodeTree[Len(nodeTree)]
      BY DEF Last
    <2>2. nodeTree # << >> => Last(nodeTree').closed = Last(nodeTree).closed
      BY <1>1, <1>2, <2>1
    <2>3. Inner' = Inner
      BY DEF Inner
    <2>4. curPrev \in Nat
      BY DEF TypeOK
    <2> QED BY <1>1, <1>2, <2>2, <2>3, <2>4 DEF PlaceInv
  <1> QED BY <1>3, <1>4, <1>5

LEMMA NewNodeTree ==
    ASSUME TypeOK, NodesInv, OpenInv, PlaceInv, NewNode
    PROVE  NodesInv' /\ OpenInv' /\ PlaceInv'
  <1> DEFINE len == Len(nodeTree)
             n == len + 1
             w == Head(words).word
             P == IF nodeTree = << >> THEN 0 ELSE IF Deeper THEN n - 1 ELSE curParent
  <1>1. /\ nodeTree' \in Seq(NodeRecord) /\ Len(nodeTree') = n
        /\ nodeTree'[n] = Node(w, P)
        /\ \A m \in DOMAIN nodeTree :
              /\ SameBut(m, FALSE)
              /\ nodeTree'[m].closed = nodeTree[m].closed
              /\ nodeTree'[m].next = IF ~Deeper /\ m = curPrev THEN n ELSE nodeTree[m].next
              /\ nodeTree'[m].child = IF Deeper /\ m = n - 1 THEN n ELSE nodeTree[m].child
        /\ curParent' = IF Deeper THEN n - 1 ELSE curParent
        /\ curPrev' = n
    BY NewNodeDoes
  <1>2. open' = IF w.tag = "open" THEN <<n>> \o open ELSE open
    BY DEF NewNode
  <1>3. /\ len \in Nat /\ DOMAIN nodeTree = 1 .. len /\ nodeTree # << >> <=> len # 0
        /\ DOMAIN nodeTree' = 1 .. n /\ nodeTree' # << >>
        /\ DOMAIN open = 1 .. Len(open) /\ Len(open) \in Nat /\ open \in Seq(Nat)
        /\ open # << >> <=> Len(open) # 0
        /\ open # << >> => Head(open) = open[1]
        /\ \A k \in DOMAIN open : open[k] \in Nat
    BY <1>1, Positions DEF TypeOK
  <1>4. /\ nodeTree'[n].parent = P /\ nodeTree'[n].within = Inner
        /\ nodeTree'[n].next = 0 /\ nodeTree'[n].child = 0
        /\ nodeTree'[n].closed = (w.tag # "open")
    BY <1>1 DEF Node, Inner
  <1>5. \A m \in 1 .. len : nodeTree[m].parent \in Nat /\ nodeTree[m].next \in Nat
                            /\ nodeTree[m].child \in Nat
    <2>1. \A m \in 1 .. len : nodeTree[m] \in NodeRecord
      BY <1>3, Positions DEF TypeOK
    <2> QED BY <2>1 DEF NodeRecord
  <1>7. Last(nodeTree) = nodeTree[len] /\ Last(nodeTree') = nodeTree'[n]
    BY <1>1 DEF Last
  <1> HIDE DEF w, P
  <1>6. ASSUME NEW m \in 1 .. len
        PROVE  /\ nodeTree'[m].parent = nodeTree[m].parent
               /\ nodeTree'[m].within = nodeTree[m].within
               /\ nodeTree'[m].closed <=> nodeTree[m].closed
               /\ nodeTree'[m].next = IF ~Deeper /\ m = curPrev THEN n ELSE nodeTree[m].next
               /\ nodeTree'[m].child = IF Deeper /\ m = len THEN n ELSE nodeTree[m].child
    <2>1. m \in DOMAIN nodeTree /\ n - 1 = len
      BY <1>3
    <2> QED BY <1>1, <2>1 DEF SameBut
  \* The new node stands in the innermost open tag.
  <1>8. P = Inner /\ P \in Nat /\ P < n
    <2>1. CASE nodeTree = << >>
      <3>1. open = << >>
        <4>1. SUFFICES ASSUME open # << >> PROVE FALSE
          OBVIOUS
        <4>2. 1 \in DOMAIN open
          BY <1>3, <4>1
        <4> QED BY <1>3, <2>1, <4>2 DEF OpenInv
      <3> QED BY <1>3, <2>1, <3>1 DEF Inner, P
    <2>2. CASE nodeTree # << >> /\ Deeper
      <3>1. len \in DOMAIN nodeTree /\ ~nodeTree[len].closed
        BY <1>3, <1>7, <2>2 DEF Deeper
      <3>2. PICK k \in DOMAIN open : open[k] = len
        BY <3>1 DEF OpenInv
      <3>3. 1 \in DOMAIN open /\ open[1] \in 1 .. len
        BY <1>3, <3>2 DEF OpenInv
      <3>4. k = 1
        <4>1. SUFFICES ASSUME 1 < k PROVE FALSE
          BY <1>3, <3>2
        <4>2. open[k] < open[1]
          BY <3>2, <3>3, <4>1 DEF OpenInv
        <4> QED BY <1>3, <3>2, <3>3, <4>2
      <3> QED BY <1>3, <2>2, <3>2, <3>3, <3>4 DEF Inner, P
    <2>3. CASE nodeTree # << >> /\ ~Deeper
      <3>1. curParent = Inner /\ curPrev \in 1 .. len /\ nodeTree[curPrev].parent = curParent
        BY <1>3, <2>3 DEF PlaceInv, Deeper
      <3>2. curParent < curPrev
        BY <1>3, <3>1 DEF NodesInv
      <3>3. curParent \in Nat
        BY DEF TypeOK
      <3> QED BY <1>3, <2>3, <3>1, <3>2, <3>3 DEF P
    <2> QED BY <2>1, <2>2, <2>3
  <1>9. \A k \in DOMAIN open : open[k] <= P
    <2>1. SUFFICES ASSUME NEW k \in DOMAIN open PROVE open[k] <= P
      OBVIOUS
    <2>2. 1 \in DOMAIN open /\ P = open[1] /\ open[1] \in Nat /\ open[k] \in Nat
      BY <1>3, <1>8 DEF Inner
    <2>3. k = 1 \/ 1 < k
      BY <1>3
    <2> QED BY <2>2, <2>3 DEF OpenInv
  <1>10. CASE
         \/ nodeTree = << >>
         \/ Deeper /\ P = len
         \/ (/\ nodeTree # << >> /\ ~Deeper /\ P = curParent
             /\ curPrev \in 1 .. len /\ nodeTree[curPrev].parent = P /\ P < curPrev
             /\ \A m \in curPrev + 1 .. len : nodeTree[m].parent # P)
    <2>1. NodesInv'
      <3> SUFFICES ASSUME NEW m \in 1 .. n
                   PROVE  /\ nodeTree'[m].parent < m
                          /\ nodeTree'[m].parent = nodeTree'[m].within
                          /\ LeastOf(nodeTree'[m].next, Later(m)')
                          /\ LeastOf(nodeTree'[m].child, Inside(m)')
        BY <1>3 DEF NodesInv, LeastOf
      <3>1. CASE m = n
        <4>1. Later(m)' = {} /\ Inside(m)' = {}
          BY <1>1, <1>3, <3>1 DEF Later, Inside
        <4> QED BY <1>4, <1>8, <3>1, <4>1 DEF LeastOf
      <3>2. CASE m \in 1 .. len
        <4>1. /\ nodeTree[m].parent < m /\ nodeTree[m].parent = nodeTree[m].within
              /\ LeastOf(nodeTree[m].next, Later(m)) /\ LeastOf(nodeTree[m].child, Inside(m))
          BY <1>3, <3>2 DEF NodesInv
        <4>2. Later(m)' = Later(m) \cup (IF nodeTree[m].parent = P THEN {n} ELSE {})
          <5>1. Later(m)' = {k \in m + 1 .. n : nodeTree'[k].parent = nodeTree[m].parent}
            BY <1>1, <1>6, <3>2 DEF Later
          <5>2. ASSUME NEW k \in m + 1 .. n
                PROVE  nodeTree'[k].parent = nodeTree[m].parent <=>
                          (k \in Later(m) \/ (k = n /\ nodeTree[m].parent = P))
            <6>1. CASE k = n
              BY <1>3, <1>4, <3>2, <6>1 DEF Later
            <6>2. CASE k \in m + 1 .. len
              <7>1. k \in 1 .. len /\ k # n
                BY <1>3, <3>2, <6>2
              <7>2. nodeTree'[k].parent = nodeTree[k].parent
                BY <1>6, <7>1
              <7> QED BY <6>2, <7>1, <7>2 DEF Later
            <6>3. k = n \/ k \in m + 1 .. len
              BY <1>3, <3>2
            <6> QED BY <6>1, <6>2, <6>3, Zenon
          <5>3. Later(m) \subseteq m + 1 .. n /\ n \in m + 1 .. n
            BY <1>3, <3>2 DEF Later
          <5> HIDE DEF n
          <5> QED BY <5>1, <5>2, <5>3
        <4>3. Inside(m)' = Inside(m) \cup (IF m = P THEN {n} ELSE {})
          <5>1. Inside(m)' = {k \in m + 1 .. n : nodeTree'[k].parent = m}
            BY <1>1 DEF Inside
          <5>2. ASSUME NEW k \in m + 1 .. n
                PROVE  nodeTree'[k].parent = m <=> (k \in Inside(m) \/ (k = n /\ m = P))
            <6>1. CASE k = n
              BY <1>3, <1>4, <3>2, <6>1 DEF Inside
            <6>2. CASE k \in m + 1 .. len
              <7>1. k \in 1 .. len /\ k # n
                BY <1>3, <3>2, <6>2
              <7>2. nodeTree'[k].parent = nodeTree[k].parent
                BY <1>6, <7>1
              <7> QED BY <6>2, <7>1, <7>2 DEF Inside
            <6>3. k = n \/ k \in m + 1 .. len
              BY <1>3, <3>2
            <6> QED BY <6>1, <6>2, <6>3, Zenon
          <5>3. Inside(m) \subseteq m + 1 .. n /\ n \in m + 1 .. n
            BY <1>3, <3>2 DEF Inside
          <5> HIDE DEF n
          <5> QED BY <5>1, <5>2, <5>3
        <4>4. /\ nodeTree'[m].next = IF ~Deeper /\ m = curPrev THEN n ELSE nodeTree[m].next
              /\ nodeTree'[m].child = IF Deeper /\ m = len THEN n ELSE nodeTree[m].child
              /\ nodeTree'[m].parent = nodeTree[m].parent /\ nodeTree'[m].within = nodeTree[m].within
          BY <1>6, <3>2
        <4>5. nodeTree # << >>
          BY <1>3, <3>2
        <4>6. CASE Deeper /\ P = len
          <5>1. nodeTree[m].parent # P
            BY <1>3, <1>5, <3>2, <4>1, <4>6
          <5>2. LeastOf(nodeTree'[m].next, Later(m)')
            BY <4>1, <4>2, <4>4, <4>6, <5>1
          <5>3. LeastOf(nodeTree'[m].child, Inside(m)')
            <6>1. CASE m = len
              <7>1. Inside(m) = {}
                BY <1>3, <6>1 DEF Inside
              <7>2. Inside(m)' = {n} /\ nodeTree'[m].child = n
                BY <1>3, <4>3, <4>4, <4>6, <6>1, <7>1
              <7> QED BY <1>3, <7>2 DEF LeastOf
            <6>2. CASE m # len
              <7>1. m # P /\ nodeTree'[m].child = nodeTree[m].child
                BY <4>4, <4>6, <6>2
              <7>2. Inside(m)' = Inside(m)
                BY <4>3, <7>1
              <7> QED BY <4>1, <7>1, <7>2
            <6> QED BY <6>1, <6>2
          <5> QED BY <4>1, <4>4, <5>2, <5>3
        <4>7. CASE /\ ~Deeper /\ curPrev \in 1 .. len
                   /\ nodeTree[curPrev].parent = P /\ P < curPrev
                   /\ \A k \in curPrev + 1 .. len : nodeTree[k].parent # P
          <5>1. LeastOf(nodeTree'[m].next, Later(m)')
            <6>1. CASE m = curPrev
              <7>1. Later(m) = {}
                BY <1>3, <4>7, <6>1 DEF Later
              <7>2. Later(m)' = {n} /\ nodeTree'[m].next = n
                BY <4>2, <4>4, <4>7, <6>1, <7>1
              <7> QED BY <1>3, <7>2 DEF LeastOf
            <6>2. CASE m # curPrev /\ nodeTree[m].parent = P
              <7>1. curPrev \in Later(m)
                BY <1>3, <3>2, <4>7, <6>2 DEF Later
              <7>2. nodeTree[m].next \in Later(m) /\ \A k \in Later(m) : nodeTree[m].next <= k
                BY <4>1, <7>1 DEF LeastOf
              <7>3. nodeTree[m].next <= n /\ n \in Nat
                BY <1>3, <7>2 DEF Later
              <7>4. nodeTree'[m].next = nodeTree[m].next
                BY <4>4, <6>2
              <7>5. \A k \in Later(m)' : nodeTree'[m].next <= k
                BY <4>2, <6>2, <7>2, <7>3, <7>4
              <7>6. nodeTree'[m].next \in Later(m)'
                BY <4>2, <7>2, <7>4
              <7> QED BY <7>5, <7>6 DEF LeastOf
            <6>3. CASE nodeTree[m].parent # P
              <7>1. m # curPrev
                BY <4>7, <6>3
              <7> QED BY <4>1, <4>2, <4>4, <6>3, <7>1
            <6> QED BY <6>1, <6>2, <6>3
          <5>2. LeastOf(nodeTree'[m].child, Inside(m)')
            <6>1. nodeTree'[m].child = nodeTree[m].child
              BY <4>4, <4>7
            <6>2. CASE m = P
              <7>1. curPrev \in Inside(m)
                BY <1>3, <3>2, <4>7, <6>2 DEF Inside
              <7>2. nodeTree[m].child \in Inside(m) /\ \A k \in Inside(m) : nodeTree[m].child <= k
                BY <4>1, <7>1 DEF LeastOf
              <7>3. nodeTree[m].child <= n /\ n \in Nat
                BY <1>3, <7>2 DEF Inside
              <7>4. \A k \in Inside(m)' : nodeTree'[m].child <= k
                BY <4>3, <6>1, <6>2, <7>2, <7>3
              <7>5. nodeTree'[m].child \in Inside(m)'
                BY <4>3, <6>1, <7>2
              <7> QED BY <7>4, <7>5 DEF LeastOf
            <6>3. CASE m # P
              BY <4>1, <4>3, <6>1, <6>3
            <6> QED BY <6>2, <6>3
          <5> QED BY <4>1, <4>4, <5>1, <5>2
        <4> QED BY <1>10, <4>5, <4>6, <4>7
      <3> QED BY <1>3, <3>1, <3>2
    <2>2. OpenInv'
      <3>1. \A k \in DOMAIN open :
                /\ open[k] \in 1 .. len
                /\ ~nodeTree'[open[k]].closed
                /\ nodeTree'[open[k]].parent = IF k = Len(open) THEN 0 ELSE open[k + 1]
                /\ \A m \in open[k] + 1 .. n : nodeTree'[m].parent >= open[k]
        <4> SUFFICES ASSUME NEW k \in DOMAIN open
                     PROVE  /\ open[k] \in 1 .. len
                            /\ ~nodeTree'[open[k]].closed
                            /\ nodeTree'[open[k]].parent = IF k = Len(open) THEN 0 ELSE open[k + 1]
                            /\ \A m \in open[k] + 1 .. n : nodeTree'[m].parent >= open[k]
          OBVIOUS
        <4>1. /\ open[k] \in 1 .. len /\ ~nodeTree[open[k]].closed
              /\ nodeTree[open[k]].parent = IF k = Len(open) THEN 0 ELSE open[k + 1]
              /\ \A m \in open[k] + 1 .. len : nodeTree[m].parent >= open[k]
          BY <1>3 DEF OpenInv
        <4>2. nodeTree'[open[k]].closed <=> nodeTree[open[k]].closed
          BY <1>6, <4>1
        <4>3. \A m \in open[k] + 1 .. n : m \in open[k] + 1 .. len \/ m = n
          BY <1>3, <4>1
        <4>4. \A m \in open[k] + 1 .. len : m \in 1 .. len
          BY <1>3, <4>1
        <4>5. nodeTree'[n].parent >= open[k]
          BY <1>3, <1>4, <1>8, <1>9
        <4> QED BY <1>6, <4>1, <4>2, <4>3, <4>4, <4>5
      <3>2. ASSUME NEW m \in 1 .. len, ~nodeTree'[m].closed
            PROVE  \E k \in DOMAIN open : open[k] = m
        <4>1. m \in DOMAIN nodeTree /\ ~nodeTree[m].closed
          BY <1>3, <1>6, <3>2
        <4> QED BY <4>1 DEF OpenInv
      <3>3. CASE w.tag # "open"
        <4>1. open' = open /\ nodeTree'[n].closed
          BY <1>2, <1>4, <3>3
        <4>2. \A m \in 1 .. n : m \in 1 .. len \/ m = n
          BY <1>3
        <4>3. \A k \in DOMAIN open : open[k] \in 1 .. n
          BY <1>3, <3>1
        <4> QED BY <1>1, <1>3, <3>1, <3>2, <4>1, <4>2, <4>3 DEF OpenInv
      <3>4. CASE w.tag = "open"
        <4>1. /\ Len(open') = Len(open) + 1 /\ DOMAIN open' = 1 .. Len(open) + 1
              /\ open'[1] = n
              /\ \A k \in 1 .. Len(open) : open'[k + 1] = open[k]
          <5>1. <<n>> \in Seq(Nat) /\ Len(<<n>>) = 1 /\ <<n>>[1] = n
            BY <1>3
          <5>2. open' = <<n>> \o open
            BY <1>2, <3>4
          <5> HIDE DEF n
          <5> QED BY <1>3, <5>1, <5>2, Join
        <4>2. \A k \in 2 .. Len(open) + 1 : k - 1 \in DOMAIN open /\ open'[k] = open[k - 1]
          <5>1. SUFFICES ASSUME NEW k \in 2 .. Len(open) + 1
                         PROVE  k - 1 \in DOMAIN open /\ open'[k] = open[k - 1]
            OBVIOUS
          <5>2. k - 1 \in 1 .. Len(open) /\ (k - 1) + 1 = k
            BY <1>3
          <5>3. open'[(k - 1) + 1] = open[k - 1]
            BY <4>1, <5>2
          <5> QED BY <1>3, <5>2, <5>3
        <4>3. ASSUME NEW k \in DOMAIN open'
              PROVE  /\ open'[k] \in 1 .. n
                     /\ ~nodeTree'[open'[k]].closed
                     /\ nodeTree'[open'[k]].parent = IF k = Len(open') THEN 0 ELSE open'[k + 1]
                     /\ \A m \in open'[k] + 1 .. n : nodeTree'[m].parent >= open'[k]
          <5>1. CASE k = 1
            <6>1. open'[k] = n /\ ~nodeTree'[n].closed /\ nodeTree'[n].parent = Inner
              BY <1>4, <1>8, <3>4, <4>1, <5>1
            <6>2. Inner = IF k = Len(open') THEN 0 ELSE open'[k + 1]
              <7>1. CASE open = << >>
                BY <1>3, <4>1, <5>1, <7>1 DEF Inner
              <7>2. CASE open # << >>
                <8>1. 1 \in 1 .. Len(open) /\ Len(open') # 1
                  BY <1>3, <4>1, <7>2
                <8>2. open'[1 + 1] = open[1]
                  BY <4>1, <8>1
                <8> QED BY <1>3, <5>1, <7>2, <8>1, <8>2 DEF Inner
              <7> QED BY <7>1, <7>2
            <6> QED BY <1>3, <6>1, <6>2
          <5>2. CASE k \in 2 .. Len(open) + 1
            <6>1. k - 1 \in DOMAIN open /\ open'[k] = open[k - 1]
              BY <4>2, <5>2
            <6>2. k - 1 # Len(open) => open'[k + 1] = open[(k - 1) + 1]
              <7>1. SUFFICES ASSUME k - 1 # Len(open) PROVE open'[k + 1] = open[(k - 1) + 1]
                OBVIOUS
              <7>2. k \in 1 .. Len(open) /\ (k - 1) + 1 = k
                BY <1>3, <5>2, <7>1
              <7> QED BY <4>1, <7>2
            <6>3. k = Len(open') <=> k - 1 = Len(open)
              BY <1>3, <4>1, <5>2
            <6> QED BY <1>3, <3>1, <6>1, <6>2, <6>3
          <5> QED BY <1>3, <4>1, <5>1, <5>2
        <4>4. ASSUME NEW j \in DOMAIN open', NEW k \in DOMAIN open', j < k
              PROVE  open'[k] < open'[j]
          <5>1. k \in 2 .. Len(open) + 1 /\ open'[k] = open[k - 1] /\ k - 1 \in DOMAIN open
            BY <1>3, <4>1, <4>2, <4>4
          <5>2. CASE j = 1
            BY <1>3, <3>1, <4>1, <5>1, <5>2
          <5>3. CASE j \in 2 .. Len(open) + 1
            <6>1. open'[j] = open[j - 1] /\ j - 1 \in DOMAIN open /\ j - 1 < k - 1
              BY <1>3, <4>2, <4>4, <5>1, <5>3
            <6> QED BY <5>1, <6>1 DEF OpenInv
          <5> QED BY <1>3, <4>1, <5>2, <5>3
        <4>5. ASSUME NEW m \in 1 .. n, ~nodeTree'[m].closed
              PROVE  \E k \in DOMAIN open' : open'[k] = m
          <5>1. CASE m = n
            BY <1>3, <4>1, <5>1
          <5>2. CASE m \in 1 .. len
            <6>1. PICK k \in DOMAIN open : open[k] = m
              BY <3>2, <4>5, <5>2
            <6>2. k + 1 \in DOMAIN open' /\ open'[k + 1] = m
              BY <1>3, <4>1, <6>1
            <6> QED BY <6>2
          <5> QED BY <1>3, <5>1, <5>2
        <4> QED BY <1>1, <1>3, <4>3, <4>4, <4>5 DEF OpenInv
      <3> QED BY <3>3, <3>4
    <2>3. PlaceInv'
      <3>1. SUFFICES ASSUME nodeTree'[n].closed
                     PROVE  /\ curParent' = Inner'
                            /\ nodeTree'[n].parent = curParent'
        BY <1>1, <1>3, <1>7 DEF PlaceInv
      <3>2. w.tag # "open"
        BY <1>4, <3>1
      <3>3. Inner' = Inner
        BY <1>2, <3>2 DEF Inner
      <3>4. curParent' = P
        BY <1>1, <1>3, <1>10 DEF P, Deeper, PlaceInv
      <3> QED BY <1>4, <1>8, <3>3, <3>4
    <2> QED BY <2>1, <2>2, <2>3
  <1>11. \/ nodeTree = << >>
         \/ Deeper /\ P = len
         \/ (/\ nodeTree # << >> /\ ~Deeper /\ P = curParent
             /\ curPrev \in 1 .. len /\ nodeTree[curPrev].parent = P /\ P < curPrev
             /\ \A m \in curPrev + 1 .. len : nodeTree[m].parent # P)
    <2>1. CASE Deeper
      BY <1>3, <2>1 DEF Deeper, P
    <2>2. CASE nodeTree # << >> /\ ~Deeper
      <3>1. /\ P = curParent /\ curPrev \in 1 .. len /\ nodeTree[curPrev].parent = P
            /\ \A m \in curPrev + 1 .. len : nodeTree[m].parent # P
        BY <1>3, <2>2 DEF PlaceInv, Deeper, P
      <3>2. P < curPrev
        <4> QED BY <1>3, <3>1 DEF NodesInv
      <3> QED BY <2>2, <3>1, <3>2
    <2> QED BY <2>1, <2>2
  <1> QED BY <1>10, <1>11

LEMMA CloseTagTree ==
    ASSUME TypeOK, NodesInv, OpenInv, PlaceInv, CloseTag, ClosesInTurn
    PROVE  NodesInv' /\ OpenInv' /\ PlaceInv'
  <1> DEFINE len == Len(nodeTree)
  <1>1. PICK n \in DOMAIN nodeTree :
              /\ n \in OpenNamed(Head(words).word.is)
              /\ \A m \in OpenNamed(Head(words).word.is) : m <= n
              /\ nodeTree' \in Seq(NodeRecord) /\ Len(nodeTree') = Len(nodeTree)
              /\ \A m \in DOMAIN nodeTree :
                    /\ SameBut(m, FALSE) /\ SameLinks(m)
                    /\ nodeTree'[m].closed = (nodeTree[m].closed \/ m = n)
              /\ curParent' = nodeTree[n].parent /\ curPrev' = n
    BY CloseTagDoes
  <1>2. open # << >> /\ nodeTree[Head(open)].name = Head(words).word.is /\ open' = Tail(open)
    BY DEF CloseTag, ClosesInTurn
  <1>3. /\ len \in Nat /\ DOMAIN nodeTree = 1 .. len /\ nodeTree # << >> /\ nodeTree' # << >>
        /\ DOMAIN nodeTree' = 1 .. len
        /\ DOMAIN open = 1 .. Len(open) /\ Len(open) \in Nat /\ Len(open) # 0
        /\ Head(open) = open[1] /\ 1 \in DOMAIN open
    <2>1. len \in Nat /\ DOMAIN nodeTree = 1 .. len /\ DOMAIN nodeTree' = 1 .. len
      BY <1>1, Positions DEF TypeOK
    <2>2. len # 0 /\ nodeTree # << >> /\ nodeTree' # << >>
      BY <1>1, <2>1, Positions DEF TypeOK
    <2>3. /\ DOMAIN open = 1 .. Len(open) /\ Len(open) \in Nat /\ Len(open) # 0
          /\ Head(open) = open[1]
      BY <1>2, Positions DEF TypeOK
    <2> QED BY <2>1, <2>2, <2>3
  <1>4. /\ Len(open') = Len(open) - 1 /\ DOMAIN open' = 1 .. Len(open) - 1
        /\ \A k \in 1 .. Len(open) - 1 : open'[k] = open[k + 1] /\ k + 1 \in DOMAIN open
    BY <1>2, <1>3 DEF TypeOK
  <1>5. ASSUME NEW m \in 1 .. len
        PROVE  /\ nodeTree'[m].parent = nodeTree[m].parent
               /\ nodeTree'[m].within = nodeTree[m].within
               /\ nodeTree'[m].next = nodeTree[m].next
               /\ nodeTree'[m].child = nodeTree[m].child
               /\ nodeTree'[m].closed <=> (nodeTree[m].closed \/ m = n)
    <2>1. m \in DOMAIN nodeTree
      BY <1>3
    <2> QED BY <1>1, <2>1 DEF SameBut, SameLinks
  \* The tag that is closed is the innermost one.
  <1>6. n = open[1]
    <2>1. open[1] \in 1 .. len /\ ~nodeTree[open[1]].closed
      BY <1>3 DEF OpenInv
    <2>2. open[1] \in OpenNamed(Head(words).word.is)
      BY <1>2, <1>3, <2>1 DEF OpenNamed
    <2>3. open[1] <= n
      BY <1>1, <2>2
    <2>4. ~nodeTree[n].closed
      BY <1>1 DEF OpenNamed
    <2>5. PICK k \in DOMAIN open : open[k] = n
      BY <2>4 DEF OpenInv
    <2>6. k = 1
      <3>1. SUFFICES ASSUME 1 < k PROVE FALSE
        BY <1>3, <2>5
      <3>2. open[k] < open[1]
        BY <1>3, <2>5, <3>1 DEF OpenInv
      <3> QED BY <1>3, <2>1, <2>3, <2>5, <3>2
    <2> QED BY <2>5, <2>6
  <1>7. NodesInv'
    <2>1. ASSUME NEW m \in 1 .. len PROVE Later(m)' = Later(m) /\ Inside(m)' = Inside(m)
      <3>1. \A k \in m + 1 .. len : k \in 1 .. len
        BY <1>3
      <3> QED BY <1>1, <1>5, <3>1 DEF Later, Inside
    <2> QED BY <1>3, <1>5, <2>1 DEF NodesInv, LeastOf
  <1>8. OpenInv'
    <2>1. ASSUME NEW k \in 1 .. Len(open) - 1
          PROVE  /\ open[k + 1] \in 1 .. len
                 /\ ~nodeTree'[open[k + 1]].closed
                 /\ nodeTree'[open[k + 1]].parent
                        = IF k = Len(open) - 1 THEN 0 ELSE open'[k + 1]
                 /\ \A m \in open[k + 1] + 1 .. len : nodeTree'[m].parent >= open[k + 1]
      <3> DEFINE h == k + 1
      <3>1. /\ h \in DOMAIN open /\ 1 < h /\ (h = Len(open) <=> k = Len(open) - 1)
        BY <1>3, <1>4
      <3>2. /\ open[h] \in 1 .. len /\ ~nodeTree[open[h]].closed
            /\ nodeTree[open[h]].parent = IF h = Len(open) THEN 0 ELSE open[h + 1]
            /\ \A m \in open[h] + 1 .. len : nodeTree[m].parent >= open[h]
            /\ open[h] < open[1]
        <4> HIDE DEF h
        <4> QED BY <1>3, <3>1 DEF OpenInv
      <3>4. h # Len(open) => open'[h] = open[h + 1]
        BY <1>3, <1>4, <3>1
      <3> HIDE DEF h
      <3>3. open[h] # n
        <4>1. \A a, b \in Nat : a < b => a # b
          OBVIOUS
        <4>2. open[h] \in Nat /\ open[1] \in Nat
          BY <1>3, <3>1, Positions DEF TypeOK
        <4> QED BY <1>6, <3>2, <4>1, <4>2
      <3>5. \A m \in open[h] + 1 .. len : m \in 1 .. len
        BY <1>3, <3>2
      <3>6. /\ open[h] \in 1 .. len /\ ~nodeTree'[open[h]].closed
            /\ nodeTree'[open[h]].parent = IF h = Len(open) THEN 0 ELSE open'[h]
            /\ \A m \in open[h] + 1 .. len : nodeTree'[m].parent >= open[h]
        BY <1>5, <3>2, <3>3, <3>4, <3>5
      <3> QED BY <1>3, <3>1, <3>6 DEF h
    <2>2. ASSUME NEW j \in DOMAIN open', NEW k \in DOMAIN open', j < k
          PROVE  open'[k] < open'[j]
      <3>1. j + 1 \in DOMAIN open /\ k + 1 \in DOMAIN open /\ j + 1 < k + 1
        BY <1>4, <2>2
      <3>2. open[k + 1] < open[j + 1]
        BY <3>1 DEF OpenInv
      <3> QED BY <1>4, <3>2
    <2>3. ASSUME NEW m \in 1 .. len, ~nodeTree'[m].closed
          PROVE  \E k \in DOMAIN open' : open'[k] = m
      <3>1. ~nodeTree[m].closed /\ m # n
        BY <1>5, <2>3
      <3>2. PICK k \in DOMAIN open : open[k] = m
        BY <1>3, <3>1 DEF OpenInv
      <3>3. PICK g \in 1 .. Len(open) - 1 : g + 1 = k
        <4>1. k - 1 \in 1 .. Len(open) - 1 /\ (k - 1) + 1 = k
          BY <1>3, <1>6, <3>1, <3>2
        <4> QED BY <4>1
      <3>4. open'[g] = open[g + 1]
        BY <1>4
      <3>5. g \in DOMAIN open'
        BY <1>4
      <3>6. open'[g] = m
        BY <3>2, <3>3, <3>4
      <3> QED BY <3>5, <3>6, Zenon
    <2>4. ASSUME NEW k \in DOMAIN open'
          PROVE  /\ open'[k] \in 1 .. len
                 /\ ~nodeTree'[open'[k]].closed
                 /\ nodeTree'[open'[k]].parent = IF k = Len(open') THEN 0 ELSE open'[k + 1]
                 /\ \A m \in open'[k] + 1 .. len : nodeTree'[m].parent >= open'[k]
      <3>1. k \in 1 .. Len(open) - 1 /\ open'[k] = open[k + 1]
        BY <1>4
      <3> QED BY <1>4, <2>1, <3>1
    <2> QED BY <1>1, <1>3, <2>2, <2>3, <2>4 DEF OpenInv
  <1>9. PlaceInv'
    <2>1. /\ nodeTree[n].parent = IF 1 = Len(open) THEN 0 ELSE open[2]
          /\ \A m \in n + 1 .. len : nodeTree[m].parent >= n
      BY <1>1, <1>3, <1>6 DEF OpenInv
    <2>2. Inner' = IF Len(open) = 1 THEN 0 ELSE open[2]
      <3>1. open' \in Seq(Nat)
        BY <1>2, Positions DEF TypeOK
      <3>2. CASE Len(open) = 1
        <4>1. open' = << >>
          BY <1>4, <3>1, <3>2, Positions
        <4> QED BY <3>2, <4>1 DEF Inner
      <3>3. CASE Len(open) # 1
        <4>1. open' # << >> /\ Head(open') = open'[1] /\ 1 \in 1 .. Len(open) - 1
          BY <1>3, <1>4, <3>1, <3>3, Positions
        <4>2. open'[1] = open[1 + 1]
          BY <1>4, <4>1
        <4> QED BY <3>3, <4>1, <4>2 DEF Inner
      <3> QED BY <3>2, <3>3
    <2>3. curParent' = Inner'
      BY <1>1, <2>1, <2>2
    <2>4. nodeTree'[n].parent = curParent' /\ n \in DOMAIN nodeTree'
      BY <1>1, <1>3, <1>5
    <2>5. \A m \in n + 1 .. len : nodeTree'[m].parent # nodeTree[n].parent
      <3>1. nodeTree[n].parent < n
        BY <1>1 DEF NodesInv
      <3>2. nodeTree[n].parent \in Nat /\ n \in Nat
        <4>1. nodeTree[n] \in NodeRecord
          BY Positions DEF TypeOK
        <4> QED BY <1>3, <4>1 DEF NodeRecord
      <3>3. ASSUME NEW m \in n + 1 .. len PROVE nodeTree'[m].parent # nodeTree[n].parent
        <4>1. m \in 1 .. len /\ nodeTree[m].parent >= n
          BY <1>3, <2>1, <3>2
        <4>2. nodeTree'[m].parent = nodeTree[m].parent
          BY <1>5, <4>1
        <4>3. nodeTree[m].parent \in Nat
          <5>1. nodeTree[m] \in NodeRecord
            BY <1>3, <4>1, Positions DEF TypeOK
          <5> QED BY <5>1 DEF NodeRecord
        <4> QED BY <3>1, <3>2, <4>1, <4>2, <4>3
      <3> QED BY <3>3
    <2> QED BY <1>1, <1>3, <2>3, <2>4, <2>5 DEF PlaceInv
  <1> QED BY <1>7, <1>8, <1>9

LEMMA TreeStep == ASSUME TypeOK, CheckInv, TreeInv, [Next]_vars PROVE TreeInv'
  <1> SUFFICES ASSUME ~misnested' PROVE NodesInv' /\ OpenInv' /\ PlaceInv'
    BY DEF TreeInv
  <1>1. CASE CloseTag
    <2>1. ClosesInTurn /\ ~misnested
      BY <1>1 DEF CloseTag
    <2> QED BY <1>1, <2>1, CloseTagTree DEF TreeInv
  <1>2. CASE NewNode
    <2>1. ~misnested
      BY <1>2 DEF NewNode
    <2> QED BY <1>2, <2>1, NewNodeTree DEF TreeInv
  <1>3. CASE AddValue \/ CheckNode
    <2>1. ~misnested /\ UNCHANGED <<open, curParent, curPrev>>
      BY <1>3 DEF AddValue, CheckNode, text
    <2>2. /\ nodeTree' \in Seq(NodeRecord) /\ Len(nodeTree') = Len(nodeTree)
          /\ \A m \in DOMAIN nodeTree :
                /\ SameBut(m, TRUE) /\ SameLinks(m)
                /\ nodeTree'[m].closed = nodeTree[m].closed
      BY <1>3, AddValueDoes, CheckNodeDoes DEF SameBut
    <2> QED BY <2>1, <2>2, SameTree DEF TreeInv
  <1>4. ASSUME UNCHANGED <<nodeTree, open, curParent, curPrev, misnested>>
        PROVE  NodesInv' /\ OpenInv' /\ PlaceInv'
    BY <1>4 DEF TreeInv, NodesInv, OpenInv, PlaceInv, Later, Inside, LeastOf, Inner
  \* All tags are closed when an included file begins.
  <1>5. CASE Include
    <2>1. ~misnested /\ pc = "include" /\ UNCHANGED <<nodeTree, open, curPrev>> /\ curParent' = 0
      BY <1>5 DEF Include, AtValue, AtNode, text
    <2>2. open = << >>
      <3>1. SUFFICES ASSUME open # << >> PROVE FALSE
        OBVIOUS
      <3>2. 1 \in DOMAIN open
        BY <3>1, Positions DEF TypeOK
      <3>3. open[1] \in DOMAIN nodeTree /\ ~nodeTree[open[1]].closed
        BY <2>1, <3>2 DEF TreeInv, OpenInv
      <3> QED BY <2>1, <3>3 DEF CheckInv
    <2>3. nodeTree # << >> => Last(nodeTree).closed
      <3>1. nodeTree # << >> => Len(nodeTree) \in DOMAIN nodeTree
        BY Positions DEF TypeOK
      <3> QED BY <2>1, <3>1 DEF CheckInv, Last
    <2>4. curParent' = curParent
      BY <2>1, <2>2, <2>3 DEF TreeInv, PlaceInv, Inner
    <2> QED BY <1>4, <1>5, <2>1, <2>4 DEF Include, text
  <1>6. CASE ReadUnterminated \/ ReadContinued \/ ReadLine \/ FileEnd \/ CloseUnmatched
             \/ LineEnd \/ CheckFails \/ CheckEnd
    BY <1>4, <1>6 DEF ReadUnterminated, ReadContinued, ReadLine, FileEnd, CloseUnmatched, LineEnd,
       CheckFails, CheckEnd, text
  <1>7. CASE IncludeMissing \/ IncludeAgain \/ NextNode \/ Finish \/ UNCHANGED vars
    BY <1>4, <1>7 DEF IncludeMissing, IncludeAgain, NextNode, Finish, vars, text
  <1> QED BY <1>1, <1>2, <1>3, <1>5, <1>6, <1>7 DEF Next

\* LinksFollowTheText with its least elements spelled out.
LEMMA LinksAreLeast == ASSUME TypeOK, TreeInv PROVE LinksFollowTheText
  <1> SUFFICES ASSUME ~misnested, NEW n \in DOMAIN nodeTree
               PROVE  /\ nodeTree[n].parent = nodeTree[n].within
                      /\ nodeTree[n].next = IF Later(n) = {} THEN 0 ELSE Min(Later(n))
                      /\ nodeTree[n].child = IF Inside(n) = {} THEN 0 ELSE Min(Inside(n))
    BY DEF LinksFollowTheText, Later, Inside
  <1>1. /\ nodeTree[n].parent = nodeTree[n].within
        /\ LeastOf(nodeTree[n].next, Later(n))
        /\ LeastOf(nodeTree[n].child, Inside(n))
    BY DEF TreeInv, NodesInv
  <1>2. ASSUME NEW x, NEW S \in SUBSET (1 .. Len(nodeTree)), LeastOf(x, S)
        PROVE  x = IF S = {} THEN 0 ELSE Min(S)
    <2>1. CASE S # {}
      <3>1. x \in S /\ \A m \in S : x <= m
        BY <1>2, <2>1 DEF LeastOf
      <3>2. PICK least \in S : least = Min(S) /\ \A m \in S : least <= m
        BY <2>1, MinMax, Positions DEF TypeOK
      <3>3. x \in Nat /\ least \in Nat
        BY <3>1, <3>2
      <3>4. x = least
        BY <3>1, <3>2, <3>3
      <3> QED BY <2>1, <3>2, <3>4
    <2> QED BY <1>2, <2>1 DEF LeastOf
  <1>3. /\ Later(n) \in SUBSET (1 .. Len(nodeTree)) /\ Inside(n) \in SUBSET (1 .. Len(nodeTree))
    <2>1. n \in 1 .. Len(nodeTree) /\ Len(nodeTree) \in Nat
      BY Positions DEF TypeOK
    <2> QED BY <2>1 DEF Later, Inside
  <1> QED BY <1>1, <1>2, <1>3

Inv ==
    /\ TypeOK
    /\ ReadInv /\ CheckInv /\ IncludeInv /\ WordsInv /\ TreeInv
    /\ AcceptedIsComplete

LEMMA InitInv == ASSUME Init PROVE Inv
  <1>1. files \in Documents /\ MAIN \in DOMAIN files /\ MAIN \in FileNames
    BY DocumentsAssumption DEF Init, FileNames
  <1>2. TypeOK
    <2>1. /\ processedFiles \in Seq(FileNames) /\ words \in Seq(PoolWord)
          /\ nodeTree \in Seq(NodeRecord) /\ open \in Seq(Nat)
      <3>1. << >> \in Seq(FileNames) /\ <<MAIN>> \in Seq(FileNames)
        BY <1>1
      <3>2. processedFiles \in Seq(FileNames)
        BY <3>1 DEF Init
      <3> QED BY <3>2 DEF Init
    <2>2. /\ file \in DOMAIN files /\ curParent \in Nat /\ curPrev \in Nat /\ round \in Nat
          /\ at \in Nat \ {0} /\ from \in Nat \ {0} /\ i \in Nat \ {0} /\ vi \in Nat \ {0}
      BY <1>1 DEF Init
    <2>4. newNode \in BOOLEAN /\ misnested \in BOOLEAN
      BY DEF Init
    <2>3. ret \in {-1, 0, 1} /\ pc \in {"read", "words", "check", "include", "done"}
      BY DEF Init
    <2> QED BY <1>1, <2>1, <2>2, <2>3, <2>4 DEF TypeOK
  <1>3. Len(files[MAIN]) \in Nat /\ file = MAIN
    BY <1>1, <1>2, FileLines DEF Init
  <1>4. pc # "done" => \A f : Processed(f) <=> f = MAIN
    BY DEF Init, Processed, Contains
  <1>5. ReadInv /\ CheckInv /\ IncludeInv /\ WordsInv /\ AcceptedIsComplete
    BY <1>3, <1>4 DEF Init, ReadInv, CheckInv, IncludeInv, WordsInv, AcceptedIsComplete
  <1>6. TreeInv
    BY DEF Init, TreeInv, NodesInv, OpenInv, PlaceInv
  <1> QED BY <1>2, <1>5, <1>6 DEF Inv

LEMMA InvStep == Inv /\ [Next]_vars => Inv'
  BY TypeStep, ReadStep, CheckStep, IncludeStep, WordsStep, TreeStep, AcceptStep DEF Inv

\* The parts of the invariant hold together, for every set of documents.
THEOREM InvHolds == Spec => []Inv
  <1>1. Init => Inv
    BY InitInv
  <1>2. Inv /\ [Next]_vars => Inv'
    BY InvStep
  <1> QED BY <1>1, <1>2, PTL DEF Spec

\* setContent returns 0 only when every tag is closed, every required option is there
\* and every file that a node names has been looked into, unless the node names a file
\* before it that had been named already; a 1 may also stand for a main file that ends
\* in the middle of a line.
THEOREM AcceptedConfigIsComplete == Spec => []AcceptedIsComplete
  <1>1. Inv => AcceptedIsComplete
    BY DEF Inv
  <1> QED BY <1>1, InvHolds, PTL

\* The links parseLine stores are those of the text, over all the files of a
\* configuration, as long as its tags are closed in turn.
THEOREM LinksAreTheText == Spec => []LinksFollowTheText
  <1>1. Inv => LinksFollowTheText
    BY LinksAreLeast DEF Inv
  <1> QED BY <1>1, InvHolds, PTL

\* No word waits in memory that free() has given back but those that an included
\* file, read to its end, left in the middle of a line.
THEOREM WordsAreAllocated == Spec => []WordsStayAllocated
  <1>1. Inv => WordsStayAllocated
    <2>1. Inv => pc \in {"read", "words", "check", "include", "done"}
      BY DEF Inv, TypeOK
    <2> QED BY <2>1 DEF Inv, WordsInv, WasCutShort, WordsStayAllocated, LeftHanging
  <1> QED BY <1>1, InvHolds, PTL
=============
