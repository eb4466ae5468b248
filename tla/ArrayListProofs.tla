--------------------------- MODULE ArrayListProofs ---------------------------
(***************************************************************************)
(* The lists of array_list.h, store by store, for every number of nodes,   *)
(* every order of calls and any number of deaths between two stores.  The  *)
(* invariant names what lies behind the offsets: the list is a row of      *)
(* different nodes, the free stack another, and each store of a call takes *)
(* them from one known shape to the next.                                  *)
(***************************************************************************)
EXTENDS ArrayList, FiniteSetTheorems, SequenceTheorems, WellFoundedInduction, TLAPS

-----------------------------------------------------------------------------
(* The shape of the lists.  A row is k different nodes, then END. *)

Row(r, k) ==
    /\ k \in Nat /\ r \in [Nat -> Places \cup {WILD}]
    /\ \A i \in 1 .. k : r[i] \in Nodes
    /\ \A i, j \in 1 .. k : r[i] = r[j] => i = j
    /\ r[k + 1] = END

On(r, k) == {r[i] : i \in 1 .. k}

\* The list in the order of m_prev: at both ends is the header.
Ring(r, k) ==
    /\ Row(r, k)
    /\ r[0] = END
    /\ \A i \in 0 .. k : prev[r[i + 1]] = r[i]

\* The free stack from the top.
Stack(s, m) ==
    /\ Row(s, m)
    /\ s[1] = top
    /\ \A i \in 1 .. m : below[s[i]] = s[i + 1] /\ next[s[i]] = s[i]

LinkTypes ==
    /\ next \in [Places -> Places \cup {WILD}]
    /\ prev \in [Places -> Places \cup {WILD}]
    /\ below \in [Nodes -> Places \cup {WILD}]

Lists(r, k, s, m) ==
    /\ LinkTypes
    /\ Ring(r, k)
    /\ Stack(s, m)
    /\ On(r, k) \cap On(s, m) = {}

\* The places after which m_next leads to the next one of the row.
Nexts(r, P) == \A i \in P : next[r[i]] = r[i + 1]

-----------------------------------------------------------------------------
(* The stores that are still to be made, from the first one of them on. *)

Stores == {"next", "prev", "below", "top", "keep", "drop"} \X Int \X Int

First(a, rest) == <<a>> \o rest

AppendFour(n, rest) == First(<<"prev", END, n>>, rest)
AppendThree(n, rest) == First(<<"next", n, END>>, AppendFour(n, rest))
AppendTwo(p, n, rest) == First(<<"prev", n, p>>, AppendThree(n, rest))
AppendOne(p, n, rest) == First(<<"next", p, n>>, AppendTwo(p, n, rest))

EraseFour(n, rest) == First(<<"next", n, WILD>>, rest)
EraseThree(n, rest) == First(<<"prev", n, WILD>>, EraseFour(n, rest))
EraseTwo(p, q, n, rest) == First(<<"prev", q, p>>, EraseThree(n, rest))
EraseOne(p, q, n, rest) == First(<<"next", p, q>>, EraseTwo(p, q, n, rest))

FreeThree(n, rest) == First(<<"top", n, n>>, rest)
FreeTwo(n, rest) == First(<<"next", n, n>>, FreeThree(n, rest))
FreeOne(n, t, rest) == First(<<"below", n, t>>, FreeTwo(n, rest))

Keep(n) == First(<<"keep", n, n>>, << >>)
Drop(n) == First(<<"drop", n, n>>, << >>)

-----------------------------------------------------------------------------
(* What is so before each store; n is the node on the move. *)

Off(n, r, k, s, m) == n \in Nodes /\ n \notin On(r, k) /\ n \notin On(s, m)

Quiet(r, k) == todo = << >> /\ current = END /\ Nexts(r, 0 .. k)

Popping(r, k, s, m) ==
    /\ m # 0 /\ current = s[1] /\ running # current
    /\ Nexts(r, 0 .. k)
    /\ todo = First(<<"top", s[1], s[2]>>, AppendOne(r[k], s[1], Keep(s[1])))

\* The last node leads to the one that is being appended.
HalfAppended(n, r, k, ends) ==
    /\ Nexts(r, (0 .. k) \ {k})
    /\ next[r[k]] = n
    /\ next[n] \in ends

Appending(n, rest, r, k, s, m) ==
    /\ current = n /\ running # n
    /\ Off(n, r, k, s, m)
    /\ rest \in {<< >>, Keep(n)}
    /\ \/ /\ todo = AppendOne(r[k], n, rest)
          /\ Nexts(r, 0 .. k)
          /\ next[n] \in {n, WILD}
       \/ /\ todo = AppendTwo(r[k], n, rest)
          /\ HalfAppended(n, r, k, {n, WILD})
       \/ /\ todo = AppendThree(n, rest)
          /\ HalfAppended(n, r, k, {n, WILD})
          /\ prev[n] = r[k]
       \/ /\ todo = AppendFour(n, rest)
          /\ HalfAppended(n, r, k, {END})
          /\ prev[n] = r[k]

\* A node is erased for its task to run, or by Cancel, which frees it next.
ErasedFor(n, rest) ==
    \/ rest = << >> /\ pc = "task" /\ running = n
    \/ rest = FreeOne(n, top, Drop(n)) /\ running # n

\* As long as m_prev leads to the node, it is on the list.
Bypassing(n, rest, j, r, k) ==
    /\ j < k /\ n = r[j + 1]
    /\ \/ /\ todo = EraseOne(r[j], r[j + 2], n, rest)
          /\ Nexts(r, 0 .. k)
       \/ /\ todo = EraseTwo(r[j], r[j + 2], n, rest)
          /\ Nexts(r, (0 .. k) \ {j})
          /\ next[r[j]] = r[j + 2]

Erasing(n, rest, r, k, s, m) ==
    /\ current = n
    /\ ErasedFor(n, rest)
    /\ \/ \E j \in 0 .. k : Bypassing(n, rest, j, r, k)
       \/ /\ Off(n, r, k, s, m)
          /\ Nexts(r, 0 .. k)
          /\ \/ todo = EraseThree(n, rest)
             \/ todo = EraseFour(n, rest) /\ prev[n] = WILD

Freeing(n, rest, r, k, s, m) ==
    /\ current = n /\ running # n
    /\ Off(n, r, k, s, m)
    /\ Nexts(r, 0 .. k)
    /\ rest \in {<< >>, Drop(n)}
    /\ \/ todo = FreeOne(n, top, rest)
       \/ todo = FreeTwo(n, rest) /\ below[n] = top
       \/ todo = FreeThree(n, rest) /\ below[n] = top /\ next[n] = n

\* The caller's copy of the id is the last to change.
Ending(n, r, k, s, m) ==
    /\ current = n /\ running # n
    /\ n \in On(r, k) \cup On(s, m)
    /\ Nexts(r, 0 .. k)
    /\ todo \in {Keep(n), Drop(n)}

Phases(r, k, s, m) ==
    \/ Quiet(r, k)
    \/ Popping(r, k, s, m)
    \/ \E n \in Nodes, rest \in Seq(Stores) :
          \/ Appending(n, rest, r, k, s, m)
          \/ Erasing(n, rest, r, k, s, m)
          \/ Freeing(n, rest, r, k, s, m)
          \/ Ending(n, r, k, s, m)

-----------------------------------------------------------------------------
(* The invariant. *)

\* A node on no list and not on the move is an orphan and was taken by a death or
\* is in its task.
Accounted(r, k, s, m) ==
    \A n \in Nodes : Off(n, r, k, s, m) /\ n # current =>
        Orphaned(n) /\ n \in taken \cup {running}

\* The walk stands on a node of the list that is not on the move, or at its end.
Cursor(r, k) ==
    /\ pc \in {"idle", "walk", "task"}
    /\ pc # "idle" => cursor = END \/ (cursor \in On(r, k) /\ cursor # current)

Runs(r, k, s, m) ==
    IF pc = "task" THEN running \in Nodes /\ (running # current => Off(running, r, k, s, m))
                   ELSE running = END

SoundAs(r, k, s, m) ==
    /\ Lists(r, k, s, m)
    /\ Accounted(r, k, s, m)
    /\ Cursor(r, k)
    /\ Runs(r, k, s, m)
    /\ Phases(r, k, s, m)

\* The chain f from h goes through c different nodes, then stops or stays.
Chain(f, h, x, c) ==
    /\ c \in Nat /\ x \in [Nat -> Places \cup {WILD}]
    /\ x[1] = h
    /\ \A i \in 1 .. c : x[i] \in Nodes /\ f[x[i]] = x[i + 1]
    /\ \A i, j \in 1 .. c : x[i] = x[j] => i = j
    /\ x[c + 1] \in Nodes => f[x[c + 1]] = x[c + 1]

TornAs(r, k, s, m, x, c) ==
    /\ Lists(r, k, s, m)
    /\ \A i \in 1 .. k : next[r[i]] # r[i]
    /\ Chain(next, next[END], x, c)
    /\ Nodes \ (On(x, c) \cup On(s, m)) \subseteq taken

SoundInv == \E r, s \in [Nat -> Places \cup {WILD}], k, m \in Nat : SoundAs(r, k, s, m)

TornInv ==
    /\ todo = << >>
    /\ \E r, s, x \in [Nat -> Places \cup {WILD}], k, m, c \in Nat : TornAs(r, k, s, m, x, c)

\* Once a torn list is used again nothing is said of it.
Inv ==
    /\ due \subseteq Nodes
    /\ list \in {"sound", "torn", "used"}
    /\ list = "sound" => SoundInv
    /\ list = "torn" => TornInv

-----------------------------------------------------------------------------
(* Rows. *)

Added(r, k, n) == [i \in Nat |-> IF i <= k THEN r[i] ELSE IF i = k + 1 THEN n ELSE END]
Cut(r, j) == [i \in Nat |-> IF i < j THEN r[i] ELSE r[i + 1]]
Pushed(s, n) == [i \in Nat |-> IF i <= 1 THEN n ELSE s[i - 1]]

LEMMA PlacesAre == /\ END \notin Nodes /\ WILD \notin Places /\ END \in Places
                   /\ Nodes \subseteq Places /\ Places = Nodes \cup {END}
                   /\ \A n \in Nodes : n # END /\ n # WILD
                   /\ END # WILD /\ TAIL_OF_STACK = END
                   /\ Places \cup {WILD} \subseteq Int
  BY ArrayListAssumption DEF END, WILD, Nodes, Places, TAIL_OF_STACK

LEMMA RowAdded ==
    ASSUME NEW r, NEW k, Row(r, k), NEW n \in Nodes, n \notin On(r, k)
    PROVE  /\ Row(Added(r, k, n), k + 1)
           /\ On(Added(r, k, n), k + 1) = On(r, k) \cup {n}
  <1> DEFINE x == Added(r, k, n)
  <1>1. x \in [Nat -> Places \cup {WILD}]
    BY PlacesAre DEF Row, Added
  <1>2. /\ \A i \in 1 .. k : x[i] = r[i]
        /\ x[k + 1] = n /\ x[k + 2] = END
    BY DEF Row, Added
  <1>3. \A i \in 1 .. k + 1 : i \in 1 .. k \/ i = k + 1
    BY DEF Row
  <1>4. \A i \in 1 .. k : i \in 1 .. k + 1
    BY DEF Row
  <1>5. k + 1 \in 1 .. k + 1 /\ k + 1 \in Nat /\ k + 1 + 1 = k + 2
    BY DEF Row
  <1>6. \A i \in 1 .. k : r[i] # n
    BY DEF On
  <1> HIDE DEF x
  <1>7. \A i \in 1 .. k + 1 : x[i] \in Nodes
    BY <1>2, <1>3 DEF Row
  <1>8. ASSUME NEW i \in 1 .. k + 1, NEW j \in 1 .. k + 1, x[i] = x[j] PROVE i = j
    BY <1>2, <1>3, <1>6, <1>8 DEF Row
  <1>9. Row(x, k + 1)
    BY <1>1, <1>2, <1>5, <1>7, <1>8 DEF Row
  <1>10. On(x, k + 1) = On(r, k) \cup {n}
    BY <1>2, <1>3, <1>4, <1>5 DEF On
  <1> QED BY <1>9, <1>10 DEF x

LEMMA RowCut ==
    ASSUME NEW r, NEW g \in Nat, Row(r, g + 1), NEW j \in 1 .. g + 1
    PROVE  /\ Row(Cut(r, j), g)
           /\ On(Cut(r, j), g) = On(r, g + 1) \ {r[j]}
  <1> DEFINE x == Cut(r, j)
  <1>1. /\ \A i \in Nat : i < j => x[i] = r[i]
        /\ \A i \in Nat : i >= j => x[i] = r[i + 1]
    BY DEF Cut
  <1>2. x \in [Nat -> Places \cup {WILD}]
    BY DEF Row, Cut
  <1> HIDE DEF x
  <1>3. x[g + 1] = END
    BY <1>1 DEF Row
  <1>4. \A i \in 1 .. g : x[i] \in Nodes
    BY <1>1 DEF Row
  <1>5. ASSUME NEW i \in 1 .. g, NEW h \in 1 .. g, x[i] = x[h] PROVE i = h
    <2> DEFINE a == IF i < j THEN i ELSE i + 1
               b == IF h < j THEN h ELSE h + 1
    <2>1. a \in 1 .. g + 1 /\ b \in 1 .. g + 1 /\ x[i] = r[a] /\ x[h] = r[b]
      BY <1>1
    <2>2. a = b
      BY <1>5, <2>1 DEF Row
    <2> QED BY <2>2
  <1>6. Row(x, g)
    BY <1>2, <1>3, <1>4, <1>5 DEF Row
  <1>7. ASSUME NEW q \in On(x, g) PROVE q \in On(r, g + 1) \ {r[j]}
    <2>1. PICK i \in 1 .. g : q = x[i]
      BY DEF On
    <2>2. PICK a \in 1 .. g + 1 : q = r[a] /\ a # j
      BY <1>1, <2>1
    <2> QED BY <2>2 DEF Row, On
  <1>8. ASSUME NEW q \in On(r, g + 1) \ {r[j]} PROVE q \in On(x, g)
    <2>1. PICK a \in 1 .. g + 1 : q = r[a] /\ a # j
      BY DEF On
    <2>2. CASE a < j
      BY <1>1, <2>1, <2>2 DEF On
    <2>3. CASE a > j
      <3>1. PICK i \in 1 .. g : a = i + 1
        BY <2>3
      <3>2. x[i] = q
        BY <1>1, <2>1, <2>3, <3>1
      <3> QED BY <3>2 DEF On
    <2> QED BY <2>1, <2>2, <2>3
  <1>9. On(x, g) = On(r, g + 1) \ {r[j]}
    BY <1>7, <1>8
  <1> QED BY <1>6, <1>9 DEF x

LEMMA RowPushed ==
    ASSUME NEW s, NEW m, Row(s, m), NEW n \in Nodes, n \notin On(s, m)
    PROVE  /\ Row(Pushed(s, n), m + 1)
           /\ On(Pushed(s, n), m + 1) = On(s, m) \cup {n}
  <1> DEFINE x == Pushed(s, n)
  <1>0. m \in Nat /\ s \in [Nat -> Places \cup {WILD}]
    BY DEF Row
  <1>1. /\ x[1] = n
        /\ \A i \in 1 .. m + 1 : x[i + 1] = s[i]
    BY <1>0 DEF Pushed
  <1>2. x \in [Nat -> Places \cup {WILD}]
    BY <1>0, PlacesAre DEF Pushed
  <1> HIDE DEF x
  <1>3. \A i \in 1 .. m + 1 : i = 1 \/ \E g \in 1 .. m : i = g + 1
    BY <1>0
  <1>4. \A g \in 1 .. m : x[g + 1] = s[g] /\ s[g] # n /\ s[g] \in Nodes /\ g + 1 \in 1 .. m + 1
    BY <1>0, <1>1 DEF Row, On
  <1>5. \A i \in 1 .. m + 1 : x[i] \in Nodes
    BY <1>1, <1>3, <1>4
  <1>6. ASSUME NEW i \in 1 .. m + 1, NEW j \in 1 .. m + 1, x[i] = x[j] PROVE i = j
    <2>1. CASE i = 1 \/ j = 1
      BY <1>1, <1>3, <1>4, <1>6, <2>1
    <2>2. CASE i # 1 /\ j # 1
      <3>1. PICK g \in 1 .. m, h \in 1 .. m : i = g + 1 /\ j = h + 1
        BY <1>3, <2>2
      <3> QED BY <1>4, <1>6, <3>1 DEF Row
    <2> QED BY <2>1, <2>2
  <1>7. x[m + 1 + 1] = END /\ m + 1 \in Nat
    BY <1>0, <1>1 DEF Row
  <1>8. Row(x, m + 1)
    BY <1>2, <1>5, <1>6, <1>7 DEF Row
  <1>9. On(x, m + 1) = On(s, m) \cup {n}
    <2>1. 1 \in 1 .. m + 1
      BY <1>0
    <2> QED BY <1>1, <1>3, <1>4, <2>1 DEF On
  <1> QED BY <1>8, <1>9 DEF x

\* A row has no more than all the nodes.
LEMMA RowFits ==
    ASSUME NEW c \in Nat, NEW x, \A i \in 1 .. c : x[i] \in Nodes,
           \A i, j \in 1 .. c : x[i] = x[j] => i = j
    PROVE  c <= Count
  <1> DEFINE f == [i \in 1 .. c |-> x[i]]
  <1>1. f \in Injection(1 .. c, Nodes)
    BY DEF Injection, IsInjective
  <1>2. IsFiniteSet(Nodes) /\ Cardinality(Nodes) = Count
    BY FS_Interval, ArrayListAssumption DEF Nodes
  <1>3. Cardinality(1 .. c) <= Count
    BY <1>1, <1>2, FS_Injection
  <1>4. Cardinality(1 .. c) = c
    BY FS_Interval
  <1> QED BY <1>3, <1>4

-----------------------------------------------------------------------------
(* Chains: what the walks of the model along offsets find. *)

LEMMA HasLeast ==
    ASSUME NEW S \in SUBSET Nat, S # {}
    PROVE  \E m \in S : \A k \in S : m <= k
  <1> DEFINE R == OpToRel(<, Nat)
  <1>1. IsWellFoundedOn(R, Nat)
    BY NatLessThanWellFounded, Zenon
  <1>2. PICK m \in S : \A k \in S : <<k, m>> \notin R
    <2> HIDE DEF R
    <2> QED BY <1>1, WFMin
  <1>3. \A k \in S : ~(k < m)
    BY <1>2 DEF OpToRel
  <1> QED BY <1>3

\* One step further than at along f, or the same place once it is no node.
Further(at, f, h, N) ==
    [i \in 0 .. N |-> IF i = 0 THEN h
                      ELSE IF at[i - 1] \in Nodes THEN f[at[i - 1]] ELSE at[i - 1]]

Walked(f, h, N) == CHOOSE at : at = Further(at, f, h, N)

LEMMA WalkFollows ==
    ASSUME NEW f, NEW h, NEW x, NEW c, Chain(f, h, x, c), NEW N \in Nat
    PROVE  \A i \in 0 .. N : Walked(f, h, N)[i] = IF i < c THEN x[i + 1] ELSE x[c + 1]
  <1> DEFINE at == Walked(f, h, N)
             y == [i \in 0 .. N |-> IF i < c THEN x[i + 1] ELSE x[c + 1]]
  <1>0. c \in Nat
    BY DEF Chain
  <1>1. ASSUME NEW g \in 0 .. N, g + 1 \in 0 .. N
        PROVE  y[g + 1] = IF y[g] \in Nodes THEN f[y[g]] ELSE y[g]
    <2>1. CASE g < c
      <3>1. g + 1 \in 1 .. c /\ y[g] = x[g + 1]
        BY <1>0, <2>1
      <3>2. x[g + 1] \in Nodes /\ f[x[g + 1]] = x[g + 1 + 1]
        BY <3>1 DEF Chain
      <3>3. y[g + 1] = x[g + 1 + 1]
        BY <1>0, <1>1, <2>1
      <3> QED BY <3>1, <3>2, <3>3
    <2>2. CASE ~(g < c)
      <3>1. y[g] = x[c + 1] /\ y[g + 1] = x[c + 1]
        BY <1>0, <1>1, <2>2
      <3>2. x[c + 1] \in Nodes => f[x[c + 1]] = x[c + 1]
        BY DEF Chain
      <3> HIDE DEF y
      <3> QED BY <3>1, <3>2
    <2> QED BY <2>1, <2>2
  <1>2. y = Further(y, f, h, N)
    <2>1. y[0] = h
      BY <1>0 DEF Chain
    <2>2. ASSUME NEW i \in 0 .. N, i # 0
          PROVE  y[i] = IF y[i - 1] \in Nodes THEN f[y[i - 1]] ELSE y[i - 1]
      <3>1. PICK g \in 0 .. N : i = g + 1
        BY <2>2
      <3>2. i - 1 = g
        BY <3>1
      <3> HIDE DEF y
      <3> QED BY <1>1, <3>1, <3>2
    <2>3. \E d : y = [i \in 0 .. N |-> d[i]]
      <3>1. y = [i \in 0 .. N |-> y[i]]
        OBVIOUS
      <3> QED BY <3>1
    <2> HIDE DEF y
    <2> QED BY <2>1, <2>2, <2>3 DEF Further
  <1>3. at = Further(at, f, h, N)
    <2> HIDE DEF y
    <2> QED BY <1>2 DEF Walked
  <1>4. /\ at[0] = h
        /\ \A i \in 0 .. N : i # 0 => at[i] = IF at[i - 1] \in Nodes THEN f[at[i - 1]] ELSE at[i - 1]
    <2> HIDE DEF at
    <2> QED BY <1>3 DEF Further
  <1>5. y[0] = h
    BY <1>0 DEF Chain
  <1> HIDE DEF at
  <1>6. \A i \in 0 .. N : at[i] = y[i]
    <2> DEFINE S == {i \in 0 .. N : at[i] # y[i]}
    <2> HIDE DEF y
    <2>1. SUFFICES ASSUME S # {} PROVE FALSE
      OBVIOUS
    <2>2. S \in SUBSET Nat
      OBVIOUS
    <2>3. PICK i \in S : \A k \in S : i <= k
      BY <2>1, <2>2, HasLeast
    <2>4. i # 0
      BY <1>4, <1>5
    <2>5. PICK g \in 0 .. N : i = g + 1 /\ i - 1 = g
      BY <2>4
    <2>6. at[g] = y[g]
      BY <2>3, <2>5
    <2>7. at[i] = IF at[g] \in Nodes THEN f[at[g]] ELSE at[g]
      BY <1>4, <2>4, <2>5
    <2>8. y[i] = IF y[g] \in Nodes THEN f[y[g]] ELSE y[g]
      BY <1>1, <2>5
    <2> QED BY <2>6, <2>7, <2>8
  <1> QED BY <1>6 DEF at

\* A walk of all the nodes' number finds the chain's nodes and where it ends.
LEMMA WalkFinds ==
    ASSUME NEW f, NEW h, NEW x, NEW c, Chain(f, h, x, c), NEW N \in Nat, c <= N
    PROVE  {Walked(f, h, N)[i] : i \in 0 .. N} = On(x, c) \cup {x[c + 1]}
  <1> DEFINE at == Walked(f, h, N)
  <1>1. \A i \in 0 .. N : at[i] = IF i < c THEN x[i + 1] ELSE x[c + 1]
    BY WalkFollows
  <1>2. c \in Nat
    BY DEF Chain
  <1> HIDE DEF at
  <1>3. ASSUME NEW i \in 0 .. N PROVE at[i] \in On(x, c) \cup {x[c + 1]}
    <2>1. CASE i < c
      <3>1. i + 1 \in 1 .. c
        BY <1>2, <2>1
      <3> QED BY <1>1, <2>1, <3>1 DEF On
    <2>2. CASE ~(i < c)
      BY <1>1, <2>2
    <2> QED BY <2>1, <2>2
  <1>4. ASSUME NEW j \in 1 .. c PROVE x[j] \in {at[i] : i \in 0 .. N}
    <2>1. PICK g \in 0 .. N : j = g + 1 /\ g < c
      BY <1>2
    <2> QED BY <1>1, <2>1
  <1>5. x[c + 1] \in {at[i] : i \in 0 .. N}
    <2>1. c \in 0 .. N /\ ~(c < c)
      BY <1>2
    <2> QED BY <1>1, <2>1
  <1>6. {at[i] : i \in 0 .. N} = On(x, c) \cup {x[c + 1]}
    BY <1>3, <1>4, <1>5 DEF On
  <1> QED BY <1>6 DEF at

LEMMA NextNodesAre ==
    ASSUME NEW x, NEW c, Chain(next, next[END], x, c)
    PROVE  /\ On(x, c) \subseteq NextNodes
           /\ x[c + 1] \notin Nodes => NextNodes = On(x, c)
  <1>1. NextNodes = {Walked(next, next[END], Count)[i] : i \in 0 .. Count} \ {END, WILD}
    BY DEF NextNodes, Walked, Further
  <1>2. c <= Count
    BY RowFits DEF Chain
  <1>3. NextNodes = (On(x, c) \cup {x[c + 1]}) \ {END, WILD}
    BY <1>1, <1>2, WalkFinds, ArrayListAssumption
  <1>4. On(x, c) \cap {END, WILD} = {}
    BY PlacesAre DEF Chain, On
  <1>5. c + 1 \in Nat
    BY DEF Chain
  <1>6. x[c + 1] \in Nodes \cup {END, WILD}
    BY <1>5, PlacesAre DEF Chain
  <1> QED BY <1>3, <1>4, <1>6

LEMMA FreeNodesAre ==
    ASSUME NEW s, NEW m, Stack(s, m)
    PROVE  FreeNodes = On(s, m)
  <1>1. Chain(below, top, s, m)
    BY PlacesAre DEF Stack, Row, Chain
  <1>2. FreeNodes = {Walked(below, top, Count)[i] : i \in 0 .. Count} \ {END, WILD}
    BY DEF FreeNodes, Walked, Further
  <1>3. m <= Count
    BY RowFits DEF Stack, Row
  <1>4. FreeNodes = (On(s, m) \cup {s[m + 1]}) \ {END, WILD}
    BY <1>1, <1>2, <1>3, WalkFinds, ArrayListAssumption
  <1>5. On(s, m) \cap {END, WILD} = {} /\ s[m + 1] = END
    BY PlacesAre DEF Stack, Row, On
  <1> QED BY <1>4, <1>5

\* The chain of m_prev is the list backwards.
LEMMA PrevChainIs ==
    ASSUME NEW r, NEW k, Ring(r, k)
    PROVE  /\ k \in 0 .. Count
           /\ PrevChain = [i \in 1 .. k |-> r[k + 1 - i]]
  <1> DEFINE x == [i \in Nat |-> IF i <= k THEN r[k + 1 - i] ELSE END]
             at == Walked(prev, prev[END], Count + 1)
  <1>0. /\ k \in Nat /\ r[0] = END /\ r[k + 1] = END /\ r \in [Nat -> Places \cup {WILD}]
        /\ \A i \in 1 .. k : r[i] \in Nodes
        /\ \A i, j \in 1 .. k : r[i] = r[j] => i = j
    BY DEF Ring, Row
  <1>1. k <= Count
    BY <1>0, RowFits
  <1>2. x \in [Nat -> Places \cup {WILD}]
    <2>1. \A i \in Nat : i <= k => k + 1 - i \in Nat
      BY <1>0
    <2> QED BY <1>0, <2>1, PlacesAre
  <1>3. \A i \in 1 .. k : x[i] = r[k + 1 - i] /\ k + 1 - i \in 1 .. k
    BY <1>0
  <1>4. x[k + 1] = END
    BY <1>0
  <1>5. \A i \in 1 .. k : prev[x[i]] = x[i + 1]
    <2> TAKE i \in 1 .. k
    <2>1. PICK g \in 0 .. k : g = k - i
      BY <1>0
    <2>2. x[i] = r[g + 1]
      BY <1>0, <1>3, <2>1
    <2>3. x[i + 1] = r[g]
      BY <1>0, <2>1
    <2> QED BY <2>2, <2>3 DEF Ring
  <1>6. x[1] = prev[END]
    <2>1. x[1] = r[k]
      BY <1>0
    <2>2. prev[r[k + 1]] = r[k]
      BY <1>0 DEF Ring
    <2> QED BY <1>0, <2>1, <2>2
  <1>7. ASSUME NEW i \in 1 .. k, NEW j \in 1 .. k, x[i] = x[j] PROVE i = j
    <2>1. k + 1 - i = k + 1 - j
      BY <1>0, <1>3, <1>7
    <2> QED BY <1>0, <2>1
  <1>8. Chain(prev, prev[END], x, k)
    <2> HIDE DEF x
    <2> QED BY <1>0, <1>2, <1>3, <1>4, <1>5, <1>6, <1>7, PlacesAre DEF Chain
  <1>9. \A i \in 0 .. Count + 1 : at[i] = IF i < k THEN x[i + 1] ELSE x[k + 1]
    <2>1. Count + 1 \in Nat
      BY ArrayListAssumption
    <2> HIDE DEF x
    <2> QED BY <1>8, <2>1, WalkFollows
  <1>10. PrevChain = LET last == CHOOSE i \in 0 .. Count + 1 :
                                    /\ i = Count + 1 \/ at[i] \notin Nodes
                                    /\ \A j \in 0 .. i - 1 : at[j] \in Nodes
                     IN  [i \in 1 .. last |-> at[i - 1]]
    BY DEF PrevChain, Walked, Further
  <1> HIDE DEF at
  <1>11. \A i \in 0 .. k - 1 : at[i] \in Nodes /\ at[i] = r[k - i]
    <2> TAKE i \in 0 .. k - 1
    <2>1. i \in 0 .. Count + 1 /\ i < k /\ i + 1 \in 1 .. k
      BY <1>0, <1>1, ArrayListAssumption
    <2>2. at[i] = x[i + 1]
      BY <1>9, <2>1
    <2>3. x[i + 1] = r[k - i] /\ k - i \in 1 .. k
      BY <1>0, <2>1
    <2> QED BY <1>0, <2>2, <2>3
  <1>12. k \in 0 .. Count + 1 /\ at[k] \notin Nodes
    <2>1. k \in 0 .. Count + 1 /\ ~(k < k)
      BY <1>0, <1>1, ArrayListAssumption
    <2>2. at[k] = END
      BY <1>4, <1>9, <2>1
    <2> QED BY <2>1, <2>2, PlacesAre
  <1> DEFINE Stops(i) == /\ i = Count + 1 \/ at[i] \notin Nodes
                         /\ \A j \in 0 .. i - 1 : at[j] \in Nodes
             last == CHOOSE i \in 0 .. Count + 1 : Stops(i)
  <1>13. Stops(k)
    BY <1>11, <1>12
  <1>14. \A i \in 0 .. Count + 1 : Stops(i) => i = k
    <2> TAKE i \in 0 .. Count + 1
    <2>1. ASSUME Stops(i), i < k PROVE FALSE
      <3>1. i # Count + 1 /\ i \in 0 .. k - 1
        BY <1>0, <1>1, <2>1, ArrayListAssumption
      <3> QED BY <1>11, <2>1, <3>1
    <2>2. ASSUME Stops(i), i > k PROVE FALSE
      <3>1. k \in 0 .. i - 1
        BY <1>0, <2>2
      <3> QED BY <1>12, <2>2, <3>1
    <2> HIDE DEF Stops
    <2> QED BY <1>0, <2>1, <2>2
  <1>15. last = k
    <2> HIDE DEF Stops
    <2> QED BY <1>12, <1>13, <1>14
  <1>16. PrevChain = [i \in 1 .. k |-> at[i - 1]]
    BY <1>10, <1>15
  <1>17. \A i \in 1 .. k : at[i - 1] = r[k + 1 - i]
    <2> TAKE i \in 1 .. k
    <2>1. PICK g \in 0 .. k - 1 : i - 1 = g /\ k - g = k + 1 - i
      BY <1>0
    <2> QED BY <1>11, <2>1
  <1>18. PrevChain = [i \in 1 .. k |-> r[k + 1 - i]]
    <2> HIDE DEF last, Stops
    <2> QED BY <1>16, <1>17
  <1> QED BY <1>0, <1>1, <1>18

\* What DoBadTimeList looks for is a node of the list.
LEMMA PrevChainOn ==
    ASSUME NEW r, NEW k, Ring(r, k)
    PROVE  /\ {PrevChain[i] : i \in DOMAIN PrevChain} = On(r, k)
           /\ \A n : Found(n) <=> n \in On(r, k)
           /\ Len(PrevChain) <= Count
           /\ PrevChain # << >> => prev[PrevChain[Len(PrevChain)]] = END
  <1>1. k \in 0 .. Count /\ PrevChain = [i \in 1 .. k |-> r[k + 1 - i]]
    BY PrevChainIs
  <1> DEFINE q == PrevChain
  <1>2. DOMAIN q = 1 .. k /\ \A i \in 1 .. k : q[i] = r[k + 1 - i]
    BY <1>1
  <1>3. k \in Nat /\ k <= Count /\ \A i \in 1 .. k : k + 1 - i \in 1 .. k /\ i = k + 1 - (k + 1 - i)
    BY <1>1, ArrayListAssumption
  <1>4. Len(q) = k
    <2>1. r \in [Nat -> Places \cup {WILD}]
      BY DEF Ring, Row
    <2>2. \A i \in 1 .. k : r[k + 1 - i] \in Places \cup {WILD}
      BY <1>3, <2>1
    <2>3. q \in Seq(Places \cup {WILD})
      BY <1>1, <1>3, <2>2
    <2> QED BY <1>2, <1>3, <2>3
  <1> HIDE DEF q
  <1>5. {q[i] : i \in 1 .. k} = On(r, k)
    BY <1>2, <1>3 DEF On
  <1>6. \A n : Found(n) <=> n \in On(r, k)
    BY <1>2, <1>5 DEF Found, q
  <1>7. ASSUME q # << >> PROVE prev[q[k]] = END
    <2>1. k # 0
      <3>1. CASE k = 0
        BY <1>1, <1>7, <3>1 DEF q
      <3> QED BY <3>1
    <2>2. q[k] = r[1]
      <3>1. k \in 1 .. k /\ k + 1 - k = 1
        BY <1>3, <2>1
      <3> QED BY <1>2, <3>1
    <2>3. prev[r[0 + 1]] = r[0] /\ r[0] = END
      BY <1>3 DEF Ring
    <2> QED BY <2>2, <2>3
  <1> QED BY <1>2, <1>3, <1>4, <1>5, <1>6, <1>7 DEF q

-----------------------------------------------------------------------------
(* What a store does to the lists. *)

LEMMA ListFacts ==
    ASSUME NEW r, NEW k, NEW s, NEW m, Lists(r, k, s, m)
    PROVE  /\ k \in Nat /\ m \in Nat
           /\ r \in [Nat -> Places \cup {WILD}] /\ s \in [Nat -> Places \cup {WILD}]
           /\ r[0] = END /\ r[k + 1] = END /\ s[m + 1] = END /\ s[1] = top
           /\ On(r, k) \subseteq Nodes /\ On(s, m) \subseteq Nodes
           /\ \A i \in 1 .. k : r[i] \in On(r, k)
           /\ \A i \in 1 .. m : s[i] \in On(s, m)
           /\ \A i \in 0 .. k + 1 : r[i] \in Places /\ r[i] \notin On(s, m)
                                    /\ (r[i] = END \/ r[i] \in On(r, k))
           /\ \A i \in 1 .. m + 1 : s[i] \in Places
  <1>1. /\ k \in Nat /\ m \in Nat
        /\ r \in [Nat -> Places \cup {WILD}] /\ s \in [Nat -> Places \cup {WILD}]
        /\ r[0] = END /\ r[k + 1] = END /\ s[m + 1] = END /\ s[1] = top
        /\ On(r, k) \subseteq Nodes /\ On(s, m) \subseteq Nodes
        /\ \A i \in 1 .. k : r[i] \in On(r, k)
        /\ \A i \in 1 .. m : s[i] \in On(s, m)
        /\ On(r, k) \cap On(s, m) = {}
    BY DEF Lists, Ring, Stack, Row, On
  <1>2. \A i \in 0 .. k + 1 : i = 0 \/ i = k + 1 \/ i \in 1 .. k
    BY <1>1
  <1>3. \A i \in 1 .. m + 1 : i = m + 1 \/ i \in 1 .. m
    BY <1>1
  <1> QED BY <1>1, <1>2, <1>3, PlacesAre

\* m_next of a place that is not on the stack.
LEMMA NextStored ==
    ASSUME NEW r, NEW k, NEW s, NEW m, Lists(r, k, s, m),
           NEW p \in Places, p \notin On(s, m), NEW v \in Places \cup {WILD},
           next' = [next EXCEPT ![p] = v], UNCHANGED <<prev, below, top>>
    PROVE  Lists(r, k, s, m)'
  <1>1. LinkTypes'
    BY DEF Lists, LinkTypes
  <1>2. Ring(r, k)'
    BY DEF Lists, Ring, Row
  <1>3. \A i \in 1 .. m : next'[s[i]] = next[s[i]]
    <2>1. \A i \in 1 .. m : s[i] # p /\ s[i] \in Places
      BY ListFacts, PlacesAre
    <2> QED BY <2>1 DEF Lists, LinkTypes
  <1>4. Stack(s, m)'
    BY <1>3 DEF Lists, Stack
  <1> QED BY <1>1, <1>2, <1>4 DEF Lists

\* m_prev of a node on no list, be it an offset or a link of the stack.
LEMMA PrevStored ==
    ASSUME NEW r, NEW k, NEW s, NEW m, Lists(r, k, s, m),
           NEW n, Off(n, r, k, s, m), NEW v \in Places \cup {WILD}, NEW w \in Places \cup {WILD},
           prev' = [prev EXCEPT ![n] = v], below' = [below EXCEPT ![n] = w],
           UNCHANGED <<next, top>>
    PROVE  Lists(r, k, s, m)'
  <1>1. LinkTypes'
    BY DEF Lists, LinkTypes
  <1>2. \A i \in 0 .. k : prev'[r[i + 1]] = prev[r[i + 1]]
    <2>1. \A i \in 0 .. k : i + 1 \in 0 .. k + 1
      BY ListFacts
    <2>2. \A i \in 0 .. k : r[i + 1] # n /\ r[i + 1] \in Places
      BY <2>1, ListFacts, PlacesAre DEF Off
    <2> QED BY <2>2 DEF Lists, LinkTypes
  <1>3. Ring(r, k)'
    BY <1>2 DEF Lists, Ring, Row
  <1>4. \A i \in 1 .. m : below'[s[i]] = below[s[i]]
    <2>1. \A i \in 1 .. m : s[i] # n /\ s[i] \in Nodes
      BY ListFacts DEF Off
    <2> QED BY <2>1 DEF Lists, LinkTypes
  <1>5. Stack(s, m)'
    BY <1>4 DEF Lists, Stack
  <1> QED BY <1>1, <1>3, <1>5 DEF Lists

\* The last store of an append: the header's m_prev.
LEMMA TailStored ==
    ASSUME NEW r, NEW k, NEW s, NEW m, Lists(r, k, s, m),
           NEW n, Off(n, r, k, s, m), prev[n] = r[k],
           HalfAppended(n, r, k, {END}),
           prev' = [prev EXCEPT ![END] = n], UNCHANGED <<next, below, top>>
    PROVE  /\ Lists(Added(r, k, n), k + 1, s, m)'
           /\ Nexts(Added(r, k, n), 0 .. k + 1)'
  <1> DEFINE x == Added(r, k, n)
  <1>1. /\ Row(x, k + 1)
        /\ On(x, k + 1) = On(r, k) \cup {n}
    BY RowAdded DEF Lists, Ring, Off
  <1>2. k \in Nat /\ n \in Nodes /\ n # END /\ r[0] = END
    BY ListFacts, PlacesAre DEF Off
  <1>3. /\ \A i \in 0 .. k : x[i] = r[i]
        /\ x[k + 1] = n /\ x[k + 1 + 1] = END
        /\ \A i \in 0 .. k : i # k => x[i + 1] = r[i + 1]
    BY <1>2 DEF Added
  <1> HIDE DEF x
  <1>4. \A i \in 0 .. k + 1 : \/ i = k + 1
                              \/ i = k
                              \/ i \in 0 .. k /\ i # k /\ i + 1 \in 1 .. k
    BY <1>2
  <1>5. LinkTypes'
    BY <1>2, PlacesAre DEF Lists, LinkTypes
  <1>6. \A q \in Places : q # END => prev'[q] = prev[q]
    BY DEF Lists, LinkTypes
  <1>7. prev'[END] = n
    BY PlacesAre DEF Lists, LinkTypes
  <1>8. \A i \in 1 .. k : r[i] \in Nodes /\ r[i] # END /\ r[i] \in Places
    BY ListFacts, PlacesAre
  <1>9. \A i \in 0 .. k + 1 : prev'[x[i + 1]] = x[i]
    <2> TAKE i \in 0 .. k + 1
    <2>1. CASE i = k + 1
      BY <1>3, <1>7, <2>1
    <2>2. CASE i = k
      <3>1. x[k] = r[k]
        BY <1>2, <1>3
      <3> QED BY <1>2, <1>3, <1>6, <2>2, <3>1, PlacesAre
    <2>3. CASE i \in 0 .. k /\ i # k /\ i + 1 \in 1 .. k
      <3>1. prev[r[i + 1]] = r[i]
        BY <2>3 DEF Lists, Ring
      <3> QED BY <1>3, <1>6, <1>8, <2>3, <3>1
    <2> QED BY <1>4, <2>1, <2>2, <2>3
  <1>10. \A i \in 0 .. k + 1 : next[x[i]] = x[i + 1]
    <2> TAKE i \in 0 .. k + 1
    <2>1. CASE i = k + 1
      BY <1>3, <2>1 DEF HalfAppended
    <2>2. CASE i = k
      <3>1. x[k] = r[k]
        BY <1>2, <1>3
      <3> QED BY <1>3, <2>2, <3>1 DEF HalfAppended
    <2>3. CASE i \in 0 .. k /\ i # k /\ i + 1 \in 1 .. k
      BY <1>3, <2>3 DEF HalfAppended, Nexts
    <2> QED BY <1>4, <2>1, <2>2, <2>3
  <1>11. x[0] = END
    BY <1>2, <1>3
  <1>12. Ring(x, k + 1)'
    BY <1>1, <1>9, <1>11 DEF Ring
  <1>13. Stack(s, m)'
    BY DEF Lists, Stack
  <1>14. On(x, k + 1) \cap On(s, m) = {}
    BY <1>1 DEF Lists, Off
  <1>15. Lists(x, k + 1, s, m)'
    BY <1>5, <1>12, <1>13, <1>14 DEF Lists
  <1>16. Nexts(x, 0 .. k + 1)'
    BY <1>10 DEF Nexts
  <1> QED BY <1>15, <1>16 DEF x

\* The second store of an erasure: m_prev of the node behind.
LEMMA BypassStored ==
    ASSUME NEW r, NEW g \in Nat, NEW s, NEW m, Lists(r, g + 1, s, m),
           NEW j \in 0 .. g, NEW p, p = r[j], NEW q, q = r[j + 2],
           Nexts(r, (0 .. g + 1) \ {j}), next[p] = q,
           prev' = [prev EXCEPT ![q] = p],
           below' = (IF q # END THEN [below EXCEPT ![q] = WILD] ELSE below),
           UNCHANGED <<next, top>>
    PROVE  /\ Lists(Cut(r, j + 1), g, s, m)'
           /\ Nexts(Cut(r, j + 1), 0 .. g)'
           /\ On(Cut(r, j + 1), g) = On(r, g + 1) \ {r[j + 1]}
           /\ r[j + 1] \in Nodes /\ r[j + 1] \notin On(s, m)
  <1> DEFINE x == Cut(r, j + 1)
             n == r[j + 1]
  <1>1. /\ Row(x, g) /\ On(x, g) = On(r, g + 1) \ {n}
        /\ n \in Nodes /\ n \notin On(s, m) /\ n # END
    <2>1. j + 1 \in 1 .. g + 1 /\ j + 1 \in 0 .. g + 1 + 1
      OBVIOUS
    <2>2. Row(r, g + 1)
      BY DEF Lists, Ring
    <2> QED BY <2>1, <2>2, RowCut, ListFacts, PlacesAre
  <1>2. /\ r[0] = END /\ r[g + 1 + 1] = END
        /\ \A i \in 1 .. g + 1 : r[i] \in Nodes
        /\ \A a, b \in 1 .. g + 1 : r[a] = r[b] => a = b
    BY DEF Lists, Ring, Row
  <1>3. /\ \A i \in 0 .. g : i <= j => x[i] = r[i]
        /\ \A i \in 0 .. g + 1 : i > j => x[i] = r[i + 1]
        /\ \A i \in 0 .. g : i < j => x[i + 1] = r[i + 1]
        /\ \A i \in 0 .. g : i >= j => x[i + 1] = r[i + 2]
    BY DEF Cut
  <1>4. q \in Places /\ r[j] \in Places /\ q \notin On(s, m) /\ (q # END => q \in Nodes)
    <2>1. j + 2 \in 0 .. g + 1 + 1 /\ j \in 0 .. g + 1 + 1
      OBVIOUS
    <2> QED BY <2>1, ListFacts, PlacesAre
  <1>5. LinkTypes'
    BY <1>4 DEF Lists, LinkTypes
  <1>6. prev'[q] = r[j] /\ \A h \in Places : h # q => prev'[h] = prev[h]
    BY <1>4 DEF Lists, LinkTypes
  <1>7. \A h \in Nodes : h # q => below'[h] = below[h]
    BY <1>4 DEF Lists, LinkTypes
  \* The places of the cut row but q are no q.
  <1>8. \A i \in 0 .. g : i # j => x[i + 1] # q /\ x[i + 1] \in Places
    <2> TAKE i \in 0 .. g
    <2> HAVE i # j
    <2>1. CASE i < j
      <3>1. i + 1 \in 1 .. g + 1 /\ j + 2 \in 1 .. g + 2 /\ i + 1 # j + 2
        BY <2>1
      <3>2. r[i + 1] # r[j + 2]
        <4>1. CASE j + 2 = g + 2
          BY <1>2, <3>1, <4>1, PlacesAre
        <4>2. CASE j + 2 # g + 2
          BY <1>2, <3>1, <4>2
        <4> QED BY <4>1, <4>2
      <3> QED BY <1>2, <1>3, <2>1, <3>1, <3>2, PlacesAre
    <2>2. CASE i > j
      <3>1. i + 2 \in 1 .. g + 2 /\ j + 2 \in 1 .. g + 1 /\ i + 2 # j + 2
        BY <2>2
      <3>2. r[i + 2] # r[j + 2] /\ r[i + 2] \in Places
        <4>1. CASE i + 2 = g + 2
          BY <1>2, <3>1, <4>1, PlacesAre
        <4>2. CASE i + 2 # g + 2
          BY <1>2, <3>1, <4>2, PlacesAre
        <4> QED BY <4>1, <4>2
      <3> QED BY <1>3, <2>2, <3>2
    <2> QED BY <2>1, <2>2
  <1>9. x[j + 1] = q /\ x[j] = r[j] /\ x[0] = END
    BY <1>2, <1>3
  <1>10. \A i \in 0 .. g + 1 : prev[r[i + 1]] = r[i]
    BY DEF Lists, Ring
  <1>11. \A i \in 0 .. g + 1 : i # j => next[r[i]] = r[i + 1]
    BY DEF Nexts
  <1> HIDE DEF x, n
  <1>12. \A i \in 0 .. g : prev'[x[i + 1]] = x[i]
    <2> TAKE i \in 0 .. g
    <2>1. CASE i = j
      BY <1>6, <1>9, <2>1
    <2>2. CASE i < j
      <3>1. i \in 0 .. g + 1
        OBVIOUS
      <3> QED BY <1>3, <1>6, <1>8, <1>10, <2>2, <3>1
    <2>3. CASE i > j
      <3>1. i + 1 \in 0 .. g + 1 /\ i + 1 + 1 = i + 2 /\ i \in 0 .. g + 1
        OBVIOUS
      <3>2. prev[r[i + 2]] = r[i + 1]
        BY <1>10, <3>1
      <3> QED BY <1>3, <1>6, <1>8, <2>3, <3>1, <3>2
    <2> QED BY <2>1, <2>2, <2>3
  <1>13. \A i \in 0 .. g : next[x[i]] = x[i + 1]
    <2> TAKE i \in 0 .. g
    <2>1. CASE i = j
      BY <1>9, <2>1
    <2>2. CASE i < j
      <3>1. i \in 0 .. g + 1 /\ i # j
        BY <2>2
      <3> QED BY <1>3, <1>11, <2>2, <3>1
    <2>3. CASE i > j
      <3>1. i + 1 \in 0 .. g + 1 /\ i + 1 # j /\ i + 1 + 1 = i + 2 /\ i \in 0 .. g + 1
        BY <2>3
      <3>2. next[r[i + 1]] = r[i + 2]
        BY <1>11, <3>1
      <3> QED BY <1>3, <2>3, <3>1, <3>2
    <2> QED BY <2>1, <2>2, <2>3
  <1>14. Ring(x, g)'
    BY <1>1, <1>9, <1>12 DEF Ring
  <1>15. Stack(s, m)'
    <2>1. \A i \in 1 .. m : s[i] \in Nodes /\ s[i] # q
      BY <1>4, ListFacts
    <2> QED BY <1>7, <2>1 DEF Lists, Stack
  <1>16. Lists(x, g, s, m)'
    BY <1>1, <1>5, <1>14, <1>15 DEF Lists
  <1>17. Nexts(x, 0 .. g)'
    BY <1>13 DEF Nexts
  <1> QED BY <1>1, <1>16, <1>17 DEF x, n

\* The last store of a push: m_top.
LEMMA TopPushed ==
    ASSUME NEW r, NEW k, NEW s, NEW m, Lists(r, k, s, m),
           NEW n, Off(n, r, k, s, m), below[n] = top, next[n] = n,
           top' = n, UNCHANGED <<next, prev, below>>
    PROVE  /\ Lists(r, k, Pushed(s, n), m + 1)'
           /\ On(Pushed(s, n), m + 1) = On(s, m) \cup {n}
  <1> DEFINE x == Pushed(s, n)
  <1>1. /\ Row(x, m + 1)
        /\ On(x, m + 1) = On(s, m) \cup {n}
    BY RowPushed DEF Lists, Stack, Off
  <1>2. m \in Nat /\ s[1] = top
    BY ListFacts
  <1>3. /\ x[1] = n
        /\ \A i \in 1 .. m + 1 : x[i + 1] = s[i]
    BY <1>2 DEF Pushed
  <1> HIDE DEF x
  <1>4. \A i \in 1 .. m + 1 : below[x[i]] = x[i + 1] /\ next[x[i]] = x[i]
    <2> TAKE i \in 1 .. m + 1
    <2>1. CASE i = 1
      <3>1. 1 \in 1 .. m + 1
        BY <1>2
      <3> QED BY <1>2, <1>3, <2>1, <3>1
    <2>2. CASE i # 1
      <3>1. PICK g \in 1 .. m : i = g + 1 /\ g \in 1 .. m + 1
        BY <1>2, <2>2
      <3>2. below[s[g]] = s[g + 1] /\ next[s[g]] = s[g]
        BY <3>1 DEF Lists, Stack
      <3> QED BY <1>3, <3>1, <3>2
    <2> QED BY <2>1, <2>2
  <1>5. Stack(x, m + 1)'
    BY <1>1, <1>3, <1>4 DEF Stack
  <1>6. On(r, k) \cap On(x, m + 1) = {}
    BY <1>1 DEF Lists, Off
  <1>7. Ring(r, k)' /\ LinkTypes'
    BY DEF Lists, Ring, LinkTypes
  <1> QED BY <1>1, <1>5, <1>6, <1>7 DEF Lists, x

\* The first store of Schedule: m_top.
LEMMA TopPopped ==
    ASSUME NEW r, NEW k, NEW s, NEW g \in Nat, Lists(r, k, s, g + 1),
           top' = s[2], UNCHANGED <<next, prev, below>>
    PROVE  /\ Lists(r, k, Cut(s, 1), g)'
           /\ On(Cut(s, 1), g) = On(s, g + 1) \ {s[1]}
           /\ s[1] \in Nodes /\ s[1] \notin On(r, k) /\ next[s[1]] = s[1]
  <1> DEFINE x == Cut(s, 1)
  <1>0. 1 \in 1 .. g + 1
    OBVIOUS
  <1>1. Row(x, g) /\ On(x, g) = On(s, g + 1) \ {s[1]}
    BY <1>0, RowCut DEF Lists, Stack
  <1>2. s[1] \in Nodes /\ s[1] \notin On(r, k) /\ next[s[1]] = s[1]
    BY <1>0 DEF Lists, Stack, Row, On
  <1>3. \A i \in 1 .. g + 1 : x[i] = s[i + 1]
    BY DEF Cut
  <1> HIDE DEF x
  <1>4. x[1] = s[2]
    BY <1>0, <1>3
  <1>5. \A i \in 1 .. g : below[x[i]] = x[i + 1] /\ next[x[i]] = x[i]
    <2> TAKE i \in 1 .. g
    <2>1. i + 1 \in 1 .. g + 1 /\ i \in 1 .. g + 1
      OBVIOUS
    <2>2. below[s[i + 1]] = s[i + 1 + 1] /\ next[s[i + 1]] = s[i + 1]
      BY <2>1 DEF Lists, Stack
    <2> QED BY <1>3, <2>1, <2>2
  <1>6. Stack(x, g)'
    BY <1>1, <1>4, <1>5 DEF Stack
  <1>7. Ring(r, k)' /\ LinkTypes'
    BY DEF Lists, Ring, LinkTypes
  <1> QED BY <1>1, <1>2, <1>6, <1>7 DEF Lists, x

-----------------------------------------------------------------------------
(* The stores still to be made, as a sequence. *)

One(a) == <<a>>
Two(a, b) == <<a, b>>
Three(a, b, c) == <<a, b, c>>
Then(u, v) == u \o v

LEMMA ThenIs ==
    ASSUME NEW S, NEW t \in Seq(S), NEW u \in Seq(S)
    PROVE  /\ Then(t, u) \in Seq(S) /\ Len(Then(t, u)) = Len(t) + Len(u)
           /\ \A k \in 1 .. Len(t) + Len(u) :
                 Then(t, u)[k] = IF k <= Len(t) THEN t[k] ELSE u[k - Len(t)]
  BY DEF Then

LEMMA ThenAssociates ==
    ASSUME NEW S, NEW t \in Seq(S), NEW u \in Seq(S), NEW v \in Seq(S)
    PROVE  Then(Then(t, u), v) = Then(t, Then(u, v))
  BY ConcatAssociative DEF Then

LEMMA ThenNothing ==
    ASSUME NEW S, NEW T \in Seq(S)
    PROVE  Then(T, << >>) = T
  BY ConcatEmptySeq DEF Then

LEMMA FirstIs ==
    ASSUME NEW S, NEW a \in S, NEW R \in Seq(S)
    PROVE  /\ First(a, R) \in Seq(S) /\ First(a, R) # << >>
           /\ First(a, R)[1] = a /\ Tail(First(a, R)) = R
           /\ Len(First(a, R)) = 1 <=> R = << >>
  <1>1. <<a>> \in Seq(S) /\ Len(<<a>>) = 1 /\ <<a>>[1] = a
    OBVIOUS
  <1>2. /\ First(a, R) \in Seq(S) /\ Len(First(a, R)) = Len(R) + 1
        /\ First(a, R)[1] = a /\ \A i \in 1 .. Len(R) : First(a, R)[i + 1] = R[i]
    BY <1>1 DEF First
  <1> DEFINE Q == First(a, R)
  <1> HIDE DEF Q
  <1>3. Len(R) \in Nat /\ Q \in Seq(S) /\ Len(Q) = Len(R) + 1
        /\ \A i \in 1 .. Len(R) : Q[i + 1] = R[i]
    BY <1>2 DEF Q
  <1>4. Q # << >> /\ (Len(Q) = 1 <=> R = << >>)
    BY <1>3
  <1>5. Tail(Q) \in Seq(S) /\ Len(Tail(Q)) = Len(R) /\ \A i \in 1 .. Len(R) : Tail(Q)[i] = Q[i + 1]
    BY <1>3, <1>4
  <1>6. Tail(Q) = R
    BY <1>3, <1>5, SeqEqual
  <1> QED BY <1>2, <1>4, <1>6 DEF Q

LEMMA TwoThen ==
    ASSUME NEW S, NEW a \in S, NEW b \in S, NEW T \in Seq(S)
    PROVE  /\ Then(Two(a, b), T) = First(a, First(b, T))
           /\ Two(a, b) \in Seq(S) /\ First(a, First(b, T)) \in Seq(S)
  <1> DEFINE u == One(a)
             v == One(b)
             w == Two(a, b)
  <1>1. u \in Seq(S) /\ Len(u) = 1 /\ u[1] = a
    BY DEF One
  <1>2. v \in Seq(S) /\ Len(v) = 1 /\ v[1] = b
    BY DEF One
  <1>3. w \in Seq(S) /\ Len(w) = 2 /\ w[1] = a /\ w[2] = b
    BY DEF Two
  <1>0. First(a, First(b, T)) = Then(u, Then(v, T))
    BY DEF First, Then, One
  <1> HIDE DEF u, v, w
  <1>4. /\ Then(u, v) \in Seq(S) /\ Len(Then(u, v)) = 2
        /\ Then(u, v)[1] = a /\ Then(u, v)[2] = b
    <2> DEFINE x == Then(u, v)
    <2>1. x \in Seq(S) /\ Len(x) = Len(u) + Len(v)
          /\ \A k \in 1 .. Len(u) + Len(v) : x[k] = IF k <= Len(u) THEN u[k] ELSE v[k - Len(u)]
      BY <1>1, <1>2, ThenIs
    <2> HIDE DEF x
    <2> QED BY <1>1, <1>2, <2>1 DEF x
  <1>5. w = Then(u, v)
    <2>1. \A i \in 1 .. 2 : w[i] = Then(u, v)[i]
      BY <1>3, <1>4
    <2> QED BY <1>3, <1>4, <2>1, SeqEqual
  <1>6. Then(Then(u, v), T) = Then(u, Then(v, T))
    BY <1>1, <1>2, ThenAssociates
  <1>7. Then(u, Then(v, T)) \in Seq(S)
    BY <1>1, <1>2, ThenIs
  <1> QED BY <1>0, <1>3, <1>5, <1>6, <1>7 DEF w

LEMMA FourThen ==
    ASSUME NEW S, NEW a \in S, NEW b \in S, NEW c \in S, NEW d \in S, NEW T \in Seq(S)
    PROVE  /\ Then(Then(Two(a, b), Two(c, d)), T) = First(a, First(b, First(c, First(d, T))))
           /\ Then(Two(a, b), Two(c, d)) \in Seq(S)
  <1> DEFINE R == First(c, First(d, T))
  <1>1. Then(Two(c, d), T) = R /\ Two(c, d) \in Seq(S) /\ R \in Seq(S)
    BY TwoThen
  <1> HIDE DEF R
  <1>2. Then(Two(a, b), R) = First(a, First(b, R)) /\ Two(a, b) \in Seq(S)
    <2>1. Then(Two(a, b), R) = First(a, First(b, R))
      BY <1>1, TwoThen
    <2>2. Two(a, b) \in Seq(S)
      BY TwoThen
    <2> QED BY <2>1, <2>2
  <1>3. Then(Then(Two(a, b), Two(c, d)), T) = Then(Two(a, b), Then(Two(c, d), T))
    BY <1>1, <1>2, ThenAssociates
  <1>4. Then(Two(a, b), Two(c, d)) \in Seq(S)
    BY <1>1, <1>2, ThenIs
  <1> QED BY <1>1, <1>2, <1>3, <1>4 DEF R

LEMMA ThreeThen ==
    ASSUME NEW S, NEW a \in S, NEW b \in S, NEW c \in S, NEW T \in Seq(S)
    PROVE  /\ Then(Three(a, b, c), T) = First(a, First(b, First(c, T)))
           /\ Three(a, b, c) \in Seq(S)
  <1> DEFINE U == Two(a, b)
             V == One(c)
             W == Three(a, b, c)
             R == First(c, T)
  <1>1. V \in Seq(S) /\ Len(V) = 1 /\ V[1] = c
    BY DEF One
  <1>2. U \in Seq(S) /\ Len(U) = 2 /\ U[1] = a /\ U[2] = b
    BY DEF Two
  <1>3. W \in Seq(S) /\ Len(W) = 3 /\ W[1] = a /\ W[2] = b /\ W[3] = c
    BY DEF Three
  <1>4. R \in Seq(S)
    BY FirstIs
  <1>5. Then(V, T) = R
    BY DEF First, Then, One
  <1> HIDE DEF V, R
  <1>6. Then(U, R) = First(a, First(b, R))
    BY <1>4, TwoThen
  <1> HIDE DEF U, W
  <1>7. /\ Then(U, V) \in Seq(S) /\ Len(Then(U, V)) = 3
        /\ Then(U, V)[1] = a /\ Then(U, V)[2] = b /\ Then(U, V)[3] = c
    <2> DEFINE x == Then(U, V)
    <2>1. x \in Seq(S) /\ Len(x) = Len(U) + Len(V)
          /\ \A k \in 1 .. Len(U) + Len(V) : x[k] = IF k <= Len(U) THEN U[k] ELSE V[k - Len(U)]
      BY <1>1, <1>2, ThenIs
    <2> HIDE DEF x
    <2> QED BY <1>1, <1>2, <2>1 DEF x
  <1>8. W = Then(U, V)
    <2>1. \A i \in 1 .. 3 : W[i] = Then(U, V)[i]
      BY <1>3, <1>7
    <2> QED BY <1>3, <1>7, <2>1, SeqEqual
  <1>9. Then(Then(U, V), T) = Then(U, Then(V, T))
    BY <1>1, <1>2, ThenAssociates
  <1> QED BY <1>3, <1>5, <1>6, <1>8, <1>9 DEF W, R

Offsets == Places \cup {WILD}

LEMMA StoreTyped ==
    ASSUME NEW what \in {"next", "prev", "below", "top", "keep", "drop"},
           NEW n \in Offsets, NEW v \in Offsets
    PROVE  <<what, n, v>> \in Stores
  BY PlacesAre DEF Offsets, Stores

LEMMA AppendTyped ==
    ASSUME NEW p \in Offsets, NEW n \in Offsets, NEW rest \in Seq(Stores)
    PROVE  /\ AppendFour(n, rest) \in Seq(Stores) /\ AppendThree(n, rest) \in Seq(Stores)
           /\ AppendTwo(p, n, rest) \in Seq(Stores) /\ AppendOne(p, n, rest) \in Seq(Stores)
           /\ AppendFour(n, rest) # << >> /\ AppendThree(n, rest) # << >>
           /\ AppendTwo(p, n, rest) # << >> /\ AppendOne(p, n, rest) # << >>
  <1>0. END \in Offsets
    BY PlacesAre DEF Offsets
  <1>1. AppendFour(n, rest) \in Seq(Stores) /\ AppendFour(n, rest) # << >>
    BY <1>0, StoreTyped, FirstIs DEF AppendFour
  <1>2. AppendThree(n, rest) \in Seq(Stores) /\ AppendThree(n, rest) # << >>
    BY <1>0, <1>1, StoreTyped, FirstIs DEF AppendThree
  <1>3. AppendTwo(p, n, rest) \in Seq(Stores) /\ AppendTwo(p, n, rest) # << >>
    BY <1>2, StoreTyped, FirstIs DEF AppendTwo
  <1>4. AppendOne(p, n, rest) \in Seq(Stores) /\ AppendOne(p, n, rest) # << >>
    BY <1>3, StoreTyped, FirstIs DEF AppendOne
  <1> QED BY <1>1, <1>2, <1>3, <1>4

LEMMA EraseTyped ==
    ASSUME NEW p \in Offsets, NEW q \in Offsets, NEW n \in Offsets, NEW rest \in Seq(Stores)
    PROVE  /\ EraseFour(n, rest) \in Seq(Stores) /\ EraseThree(n, rest) \in Seq(Stores)
           /\ EraseTwo(p, q, n, rest) \in Seq(Stores) /\ EraseOne(p, q, n, rest) \in Seq(Stores)
           /\ EraseFour(n, rest) # << >> /\ EraseThree(n, rest) # << >>
           /\ EraseTwo(p, q, n, rest) # << >> /\ EraseOne(p, q, n, rest) # << >>
  <1>0. WILD \in Offsets
    BY PlacesAre DEF Offsets
  <1>1. EraseFour(n, rest) \in Seq(Stores) /\ EraseFour(n, rest) # << >>
    BY <1>0, StoreTyped, FirstIs DEF EraseFour
  <1>2. EraseThree(n, rest) \in Seq(Stores) /\ EraseThree(n, rest) # << >>
    BY <1>0, <1>1, StoreTyped, FirstIs DEF EraseThree
  <1>3. EraseTwo(p, q, n, rest) \in Seq(Stores) /\ EraseTwo(p, q, n, rest) # << >>
    BY <1>2, StoreTyped, FirstIs DEF EraseTwo
  <1>4. EraseOne(p, q, n, rest) \in Seq(Stores) /\ EraseOne(p, q, n, rest) # << >>
    BY <1>3, StoreTyped, FirstIs DEF EraseOne
  <1> QED BY <1>1, <1>2, <1>3, <1>4

LEMMA FreeTyped ==
    ASSUME NEW n \in Offsets, NEW t \in Offsets, NEW rest \in Seq(Stores)
    PROVE  /\ FreeThree(n, rest) \in Seq(Stores) /\ FreeTwo(n, rest) \in Seq(Stores)
           /\ FreeOne(n, t, rest) \in Seq(Stores)
           /\ FreeThree(n, rest) # << >> /\ FreeTwo(n, rest) # << >> /\ FreeOne(n, t, rest) # << >>
  <1>1. FreeThree(n, rest) \in Seq(Stores) /\ FreeThree(n, rest) # << >>
    BY StoreTyped, FirstIs DEF FreeThree
  <1>2. FreeTwo(n, rest) \in Seq(Stores) /\ FreeTwo(n, rest) # << >>
    BY <1>1, StoreTyped, FirstIs DEF FreeTwo
  <1>3. FreeOne(n, t, rest) \in Seq(Stores) /\ FreeOne(n, t, rest) # << >>
    BY <1>2, StoreTyped, FirstIs DEF FreeOne
  <1> QED BY <1>1, <1>2, <1>3

LEMMA LastTyped ==
    ASSUME NEW n \in Offsets
    PROVE  /\ << >> \in Seq(Stores)
           /\ Keep(n) \in Seq(Stores) /\ Drop(n) \in Seq(Stores)
           /\ Keep(n) # << >> /\ Drop(n) # << >>
  <1>1. << >> \in Seq(Stores)
    OBVIOUS
  <1> QED BY <1>1, StoreTyped, FirstIs DEF Keep, Drop

\* The sequences of the model, as what is still to be done from the first on.
LEMMA PushBackIs ==
    ASSUME NEW n \in Offsets, prev[END] \in Offsets, NEW T \in Seq(Stores)
    PROVE  /\ Then(PushBack(n), T) = AppendOne(prev[END], n, T)
           /\ PushBack(n) = AppendOne(prev[END], n, << >>)
           /\ PushBack(n) \in Seq(Stores)
  <1> DEFINE p == prev[END]
             a == <<"next", p, n>>
             b == <<"prev", n, p>>
             c == <<"next", n, END>>
             d == <<"prev", END, n>>
             E == << >>
  <1>0. E \in Seq(Stores)
    OBVIOUS
  <1>1. a \in Stores /\ b \in Stores /\ c \in Stores /\ d \in Stores
    BY StoreTyped, PlacesAre DEF Offsets
  <1>2. PushBack(n) = Then(Two(a, b), Two(c, d))
    BY DEF Then, PushBack, Link, Two
  <1>3. AppendOne(p, n, T) = First(a, First(b, First(c, First(d, T))))
    BY DEF AppendOne, AppendTwo, AppendThree, AppendFour
  <1>4. AppendOne(p, n, E) = First(a, First(b, First(c, First(d, E))))
    BY DEF AppendOne, AppendTwo, AppendThree, AppendFour
  <1> HIDE DEF E, a, b, c, d, p
  <1>5. Then(PushBack(n), T) = First(a, First(b, First(c, First(d, T)))) /\ PushBack(n) \in Seq(Stores)
    BY <1>1, <1>2, FourThen
  <1>6. Then(PushBack(n), E) = First(a, First(b, First(c, First(d, E))))
    BY <1>0, <1>1, <1>2, FourThen
  <1>7. Then(PushBack(n), E) = PushBack(n)
    BY <1>5, ThenNothing DEF E
  <1> QED BY <1>3, <1>4, <1>5, <1>6, <1>7 DEF p, E

LEMMA EraseIs ==
    ASSUME NEW n \in Offsets, prev[n] \in Offsets, next[n] \in Offsets, NEW T \in Seq(Stores)
    PROVE  /\ Then(Erase(n), T) = EraseOne(prev[n], next[n], n, T)
           /\ Erase(n) = EraseOne(prev[n], next[n], n, << >>)
           /\ Erase(n) \in Seq(Stores)
  <1> DEFINE p == prev[n]
             q == next[n]
             a == <<"next", p, q>>
             b == <<"prev", q, p>>
             c == <<"prev", n, WILD>>
             d == <<"next", n, WILD>>
             E == << >>
  <1>0. E \in Seq(Stores)
    OBVIOUS
  <1>1. a \in Stores /\ b \in Stores /\ c \in Stores /\ d \in Stores
    BY StoreTyped, PlacesAre DEF Offsets
  <1>2. Erase(n) = Then(Two(a, b), Two(c, d))
    BY DEF Then, Erase, Link, Two
  <1>3. EraseOne(p, q, n, T) = First(a, First(b, First(c, First(d, T))))
    BY DEF EraseOne, EraseTwo, EraseThree, EraseFour
  <1>4. EraseOne(p, q, n, E) = First(a, First(b, First(c, First(d, E))))
    BY DEF EraseOne, EraseTwo, EraseThree, EraseFour
  <1> HIDE DEF E, a, b, c, d, p, q
  <1>5. Then(Erase(n), T) = First(a, First(b, First(c, First(d, T)))) /\ Erase(n) \in Seq(Stores)
    BY <1>1, <1>2, FourThen
  <1>6. Then(Erase(n), E) = First(a, First(b, First(c, First(d, E))))
    BY <1>0, <1>1, <1>2, FourThen
  <1>7. Then(Erase(n), E) = Erase(n)
    BY <1>5, ThenNothing DEF E
  <1> QED BY <1>3, <1>4, <1>5, <1>6, <1>7 DEF p, q, E

LEMMA PushFreeIs ==
    ASSUME NEW n \in Offsets, top \in Offsets, NEW T \in Seq(Stores)
    PROVE  /\ Then(PushFree(n), T) = FreeOne(n, top, T)
           /\ PushFree(n) = FreeOne(n, top, << >>)
           /\ PushFree(n) \in Seq(Stores)
  <1> DEFINE a == <<"below", n, top>>
             b == <<"next", n, n>>
             c == <<"top", n, n>>
             E == << >>
  <1>0. E \in Seq(Stores)
    OBVIOUS
  <1>1. a \in Stores /\ b \in Stores /\ c \in Stores
    BY StoreTyped
  <1>2. PushFree(n) = Three(a, b, c)
    BY DEF PushFree, Three
  <1>3. FreeOne(n, top, T) = First(a, First(b, First(c, T)))
    BY DEF FreeOne, FreeTwo, FreeThree
  <1>4. FreeOne(n, top, E) = First(a, First(b, First(c, E)))
    BY DEF FreeOne, FreeTwo, FreeThree
  <1> HIDE DEF a, b, c, E
  <1>5. Then(PushFree(n), T) = First(a, First(b, First(c, T))) /\ PushFree(n) \in Seq(Stores)
    BY <1>1, <1>2, ThreeThen
  <1>6. Then(PushFree(n), E) = First(a, First(b, First(c, E)))
    BY <1>0, <1>1, <1>2, ThreeThen
  <1>7. Then(PushFree(n), E) = PushFree(n)
    BY <1>5, ThenNothing DEF E
  <1> QED BY <1>3, <1>4, <1>5, <1>6, <1>7 DEF E

-----------------------------------------------------------------------------
(* The steps of Store. *)

LEMMA StoreIs ==
    ASSUME Store, NEW what \in {"next", "prev", "below", "top", "keep", "drop"},
           NEW n \in Offsets, NEW v \in Offsets, NEW R \in Seq(Stores),
           todo = First(<<what, n, v>>, R)
    PROVE  /\ todo' = R
           /\ current' = IF R = << >> THEN END ELSE current
           /\ UNCHANGED <<pc, cursor, running, list, taken>>
           /\ next' = IF what = "next" THEN [next EXCEPT ![n] = v] ELSE next
           /\ what = "prev" => prev' = [prev EXCEPT ![n] = v]
           /\ what = "below" => prev' = [prev EXCEPT ![n] = WILD]
           /\ what \notin {"prev", "below"} => prev' = prev
           /\ what = "below" => below' = [below EXCEPT ![n] = v]
           /\ what = "prev" => below' = IF n # END THEN [below EXCEPT ![n] = WILD] ELSE below
           /\ what \notin {"prev", "below"} => below' = below
           /\ top' = IF what = "top" THEN v ELSE top
  <1> DEFINE a == <<what, n, v>>
  <1>1. a \in Stores /\ a[1] = what /\ a[2] = n /\ a[3] = v
    BY StoreTyped
  <1>0. todo = First(a, R)
    OBVIOUS
  <1> HIDE DEF a
  <1>2. todo[1] = a /\ Tail(todo) = R /\ (Len(todo) = 1 <=> R = << >>)
    <2>1. /\ First(a, R)[1] = a /\ Tail(First(a, R)) = R
          /\ Len(First(a, R)) = 1 <=> R = << >>
      BY <1>1, FirstIs
    <2> QED BY <1>0, <2>1, Zenon
  <1>3. todo' = R /\ current' = IF R = << >> THEN END ELSE current
    BY <1>2 DEF Store
  <1>4. /\ next' = IF what = "next" THEN [next EXCEPT ![n] = v] ELSE next
        /\ prev' = CASE what = "prev" -> [prev EXCEPT ![n] = v]
                     [] what = "below" -> [prev EXCEPT ![n] = WILD]
                     [] OTHER -> prev
        /\ below' = CASE what = "below" -> [below EXCEPT ![n] = v]
                      [] what = "prev" /\ n # END -> [below EXCEPT ![n] = WILD]
                      [] OTHER -> below
        /\ top' = IF what = "top" THEN v ELSE top
        /\ UNCHANGED <<pc, cursor, running, list, taken>>
    BY <1>1, <1>2 DEF Store
  <1> QED BY <1>3, <1>4

\* The nodes that are not on the move and the walk keep their places.
LEMMA OthersStay ==
    ASSUME NEW r, NEW k, NEW s, NEW m, NEW x, NEW c, NEW y, NEW d,
           Accounted(r, k, s, m), Cursor(r, k), Runs(r, k, s, m),
           current \in Nodes, On(r, k) \subseteq Nodes,
           \A q \in Nodes : q # current =>
               (q \in On(x, c) <=> q \in On(r, k)) /\ (q \in On(y, d) <=> q \in On(s, m)),
           \A q \in Nodes : Off(q, r, k, s, m) /\ q # current =>
               next'[q] = next[q] /\ prev'[q] = prev[q],
           UNCHANGED <<pc, cursor, running, taken>>,
           \/ current' = current
           \/ current' = END /\ running # current /\ current \in On(x, c) \cup On(y, d)
           \/ current' = END /\ running = current /\ Off(current, x, c, y, d)
              /\ prev'[current] = WILD /\ next'[current] = WILD
    PROVE  Accounted(x, c, y, d)' /\ Cursor(x, c)' /\ Runs(x, c, y, d)'
  <1>1. END \notin Nodes
    BY PlacesAre
  <1>2. Accounted(x, c, y, d)'
    <2> SUFFICES ASSUME NEW n \in Nodes, Off(n, x, c, y, d), n # current'
                 PROVE  Orphaned(n)' /\ n \in taken' \cup {running'}
      BY DEF Accounted, Off
    <2>1. CASE n = current
      BY <2>1, <1>1 DEF Off, Orphaned
    <2>2. CASE n # current
      <3>1. Off(n, r, k, s, m)
        BY <2>2 DEF Off
      <3>2. Orphaned(n) /\ n \in taken \cup {running}
        BY <3>1, <2>2 DEF Accounted
      <3> QED BY <2>2, <3>1, <3>2 DEF Orphaned
    <2> QED BY <2>1, <2>2
  <1>3. Cursor(x, c)'
    <2>1. pc # "idle" => cursor = END \/ (cursor \in On(x, c) /\ cursor # current)
      BY DEF Cursor
    <2>2. current' = current \/ current' = END
      OBVIOUS
    <2>3. cursor \in On(r, k) => cursor # END
      BY <1>1
    <2> QED BY <2>1, <2>2, <2>3 DEF Cursor
  <1>4. Runs(x, c, y, d)'
    <2>1. CASE pc = "task"
      <3>1. running \in Nodes /\ (running # current => Off(running, r, k, s, m))
        BY <2>1 DEF Runs
      <3>2. running # current => Off(running, x, c, y, d)
        BY <3>1 DEF Off
      <3> QED BY <2>1, <3>1, <3>2 DEF Runs, Off
    <2>2. CASE pc # "task"
      BY <2>2 DEF Runs
    <2> QED BY <2>1, <2>2
  <1> QED BY <1>2, <1>3, <1>4

LEMMA Shown ==
    ASSUME NEW r, NEW k, NEW s, NEW m, SoundAs(r, k, s, m)'
    PROVE  SoundInv'
  BY DEF SoundInv, SoundAs, Lists, Ring, Stack, Row

LEMMA RingDistinct ==
    ASSUME NEW r, NEW k, NEW s, NEW m, Lists(r, k, s, m), NEW i \in 0 .. k, NEW j \in 0 .. k
    PROVE  r[i] = r[j] => i = j
  <1>1. r[0] = END /\ k \in Nat
        /\ (\A a \in 1 .. k : r[a] \in Nodes)
        /\ \A a, b \in 1 .. k : r[a] = r[b] => a = b
    BY DEF Lists, Ring, Row
  <1>2. (i = 0 \/ i \in 1 .. k) /\ (j = 0 \/ j \in 1 .. k)
    BY <1>1
  <1> QED BY <1>1, <1>2, PlacesAre

LEMMA PopSound ==
    ASSUME NEW r, NEW k, NEW s, NEW m, SoundAs(r, k, s, m), Store, Popping(r, k, s, m)
    PROVE  SoundInv'
  <1> DEFINE n == s[1]
             rest == AppendOne(r[k], n, Keep(n))
  <1>1. Lists(r, k, s, m) /\ m \in Nat /\ m # 0 /\ current = n /\ running # n
        /\ Nexts(r, 0 .. k) /\ todo = First(<<"top", n, s[2]>>, rest)
    BY ListFacts DEF SoundAs, Popping
  <1>2. PICK g \in Nat : m = g + 1
    BY <1>1
  <1>3. n \in Offsets /\ s[2] \in Offsets /\ r[k] \in Offsets
    <2>1. 1 \in 1 .. m + 1 /\ 2 \in 1 .. m + 1 /\ k \in 0 .. k + 1
      BY <1>1, ListFacts
    <2> QED BY <1>1, <2>1, ListFacts DEF Offsets
  <1>4. Keep(n) \in Seq(Stores) /\ rest \in Seq(Stores) /\ rest # << >>
    BY <1>3, LastTyped, AppendTyped
  <1> HIDE DEF rest
  <1>5. /\ todo' = rest /\ current' = n
        /\ UNCHANGED <<pc, cursor, running, list, taken, next, prev, below>>
        /\ top' = s[2]
    BY <1>1, <1>3, <1>4, StoreIs
  <1> DEFINE y == Cut(s, 1)
  <1>6. /\ Lists(r, k, y, g)'
        /\ On(y, g) = On(s, m) \ {n}
        /\ n \in Nodes /\ n \notin On(r, k) /\ next[n] = n
    BY <1>1, <1>2, <1>5, TopPopped
  <1> HIDE DEF y
  <1>7. Accounted(r, k, y, g)' /\ Cursor(r, k)' /\ Runs(r, k, y, g)'
    <2>1. \A q \in Nodes : q # current =>
               (q \in On(r, k) <=> q \in On(r, k)) /\ (q \in On(y, g) <=> q \in On(s, m))
      BY <1>1, <1>6
    <2>2. Accounted(r, k, s, m) /\ Cursor(r, k) /\ Runs(r, k, s, m)
      BY DEF SoundAs
    <2>3. On(r, k) \subseteq Nodes /\ current \in Nodes
      BY <1>1, <1>6, ListFacts
    <2>4. UNCHANGED <<pc, cursor, running, taken, next, prev, current>>
      BY <1>1, <1>5
    <2> QED BY <2>1, <2>2, <2>3, <2>4, OthersStay
  <1>8. Appending(n, Keep(n), r, k, y, g)'
    <2>1. Off(n, r, k, y, g)
      BY <1>6 DEF Off
    <2>2. Nexts(r, 0 .. k)'
      BY <1>1, <1>5 DEF Nexts
    <2>3. Off(n, r, k, y, g)'
      BY <2>1 DEF Off
    <2>4. todo' = AppendOne(r[k], n, Keep(n))
      BY <1>5 DEF rest
    <2>5. next'[n] = n /\ running' # n /\ current' = n
      BY <1>1, <1>5, <1>6
    <2> QED BY <2>2, <2>3, <2>4, <2>5 DEF Appending
  <1>9. Phases(r, k, y, g)'
    BY <1>4, <1>6, <1>8 DEF Phases
  <1> QED BY <1>6, <1>7, <1>9, Shown DEF SoundAs

LEMMA AppendSound ==
    ASSUME NEW r, NEW k, NEW s, NEW m, SoundAs(r, k, s, m), Store,
           NEW n \in Nodes, NEW rest \in Seq(Stores), Appending(n, rest, r, k, s, m)
    PROVE  SoundInv'
  <1>1. /\ Lists(r, k, s, m) /\ current = n /\ running # n /\ Off(n, r, k, s, m)
        /\ rest \in {<< >>, Keep(n)} /\ k \in Nat
        /\ r[k] \in Places /\ r[k] \notin On(s, m) /\ r[k] # n
        /\ r[k] \in Offsets /\ n \in Offsets /\ END \in Offsets
    <2>1. Lists(r, k, s, m)
      BY DEF SoundAs
    <2>2. k \in Nat /\ k \in 0 .. k + 1
      BY <2>1, ListFacts
    <2>3. r[k] \in Places /\ r[k] \notin On(s, m) /\ (r[k] = END \/ r[k] \in On(r, k))
      BY <2>1, <2>2, ListFacts
    <2> QED BY <2>1, <2>2, <2>3, PlacesAre DEF Appending, Off, Offsets
  <1>2. /\ Accounted(r, k, s, m) /\ Cursor(r, k) /\ Runs(r, k, s, m)
        /\ On(r, k) \subseteq Nodes /\ n \notin On(r, k) /\ n \notin On(s, m) /\ END \notin Nodes
    BY <1>1, ListFacts, PlacesAre DEF SoundAs, Off
  <1>3. /\ AppendFour(n, rest) \in Seq(Stores) /\ AppendFour(n, rest) # << >>
        /\ AppendThree(n, rest) \in Seq(Stores) /\ AppendThree(n, rest) # << >>
        /\ AppendTwo(r[k], n, rest) \in Seq(Stores) /\ AppendTwo(r[k], n, rest) # << >>
    BY <1>1, AppendTyped
  <1>4. next \in [Places -> Places \cup {WILD}] /\ prev \in [Places -> Places \cup {WILD}]
        /\ n \in Places
    BY <1>1, PlacesAre DEF Lists, LinkTypes
  \* The nodes that are neither on a list nor on the move are not touched.
  <1>5. ASSUME UNCHANGED <<pc, cursor, running, taken, current>>,
               \A q \in Nodes : q \notin On(r, k) /\ q # n => next'[q] = next[q] /\ prev'[q] = prev[q]
        PROVE  Accounted(r, k, s, m)' /\ Cursor(r, k)' /\ Runs(r, k, s, m)'
    <2>1. \A q \in Nodes : Off(q, r, k, s, m) /\ q # current =>
              next'[q] = next[q] /\ prev'[q] = prev[q]
      BY <1>1, <1>5 DEF Off
    <2>2. \A q \in Nodes : q # current =>
               (q \in On(r, k) <=> q \in On(r, k)) /\ (q \in On(s, m) <=> q \in On(s, m))
      OBVIOUS
    <2> QED BY <1>1, <1>2, <1>5, <2>1, <2>2, OthersStay
  <1>6. CASE /\ todo = AppendOne(r[k], n, rest)
             /\ Nexts(r, 0 .. k)
             /\ next[n] \in {n, WILD}
    <2>1. /\ todo' = AppendTwo(r[k], n, rest) /\ current' = current
          /\ UNCHANGED <<pc, cursor, running, list, taken, prev, below, top>>
          /\ next' = [next EXCEPT ![r[k]] = n]
      <3>1. todo = First(<<"next", r[k], n>>, AppendTwo(r[k], n, rest))
        BY <1>6 DEF AppendOne
      <3> QED BY <1>1, <1>3, <3>1, StoreIs
    <2>2. Lists(r, k, s, m)'
      BY <1>1, <1>4, <2>1, NextStored
    <2>3. HalfAppended(n, r, k, {n, WILD})'
      <3>1. \A i \in (0 .. k) \ {k} : r[i] # r[k] /\ r[i] \in Places
        BY <1>1, RingDistinct, ListFacts
      <3>2. \A i \in (0 .. k) \ {k} : next'[r[i]] = r[i + 1]
        BY <1>1, <1>4, <1>6, <2>1, <3>1 DEF Nexts
      <3>3. next'[r[k]] = n /\ next'[n] = next[n]
        BY <1>1, <1>4, <2>1
      <3> QED BY <1>6, <3>2, <3>3 DEF HalfAppended, Nexts
    <2>4. Appending(n, rest, r, k, s, m)'
      BY <1>1, <2>1, <2>3 DEF Appending, Off
    <2>5. Accounted(r, k, s, m)' /\ Cursor(r, k)' /\ Runs(r, k, s, m)'
      <3>1. \A q \in Nodes : q \notin On(r, k) /\ q # n => q # r[k]
        BY <1>1, <1>2, ListFacts
      <3>2. \A q \in Nodes : q \notin On(r, k) /\ q # n => next'[q] = next[q] /\ prev'[q] = prev[q]
        BY <1>4, <2>1, <3>1, PlacesAre
      <3> QED BY <1>5, <2>1, <3>2
    <2> QED BY <2>2, <2>4, <2>5, Shown DEF SoundAs, Phases
  <1>7. CASE /\ todo = AppendTwo(r[k], n, rest)
             /\ HalfAppended(n, r, k, {n, WILD})
    <2>1. /\ todo' = AppendThree(n, rest) /\ current' = current
          /\ UNCHANGED <<pc, cursor, running, list, taken, next, top>>
          /\ prev' = [prev EXCEPT ![n] = r[k]]
          /\ below' = [below EXCEPT ![n] = WILD]
      <3>1. todo = First(<<"prev", n, r[k]>>, AppendThree(n, rest))
        BY <1>7 DEF AppendTwo
      <3> QED BY <1>1, <1>2, <1>3, <3>1, StoreIs
    <2>2. Lists(r, k, s, m)'
      BY <1>1, <2>1, PrevStored
    <2>3. HalfAppended(n, r, k, {n, WILD})' /\ prev'[n] = r[k]
      BY <1>4, <1>7, <2>1 DEF HalfAppended, Nexts
    <2>4. Appending(n, rest, r, k, s, m)'
      BY <1>1, <2>1, <2>3 DEF Appending, Off
    <2>5. Accounted(r, k, s, m)' /\ Cursor(r, k)' /\ Runs(r, k, s, m)'
      <3>2. \A q \in Nodes : q \notin On(r, k) /\ q # n => next'[q] = next[q] /\ prev'[q] = prev[q]
        BY <1>4, <2>1, PlacesAre
      <3> QED BY <1>5, <2>1, <3>2
    <2> QED BY <2>2, <2>4, <2>5, Shown DEF SoundAs, Phases
  <1>8. CASE /\ todo = AppendThree(n, rest)
             /\ HalfAppended(n, r, k, {n, WILD})
             /\ prev[n] = r[k]
    <2>1. /\ todo' = AppendFour(n, rest) /\ current' = current
          /\ UNCHANGED <<pc, cursor, running, list, taken, prev, below, top>>
          /\ next' = [next EXCEPT ![n] = END]
      <3>1. todo = First(<<"next", n, END>>, AppendFour(n, rest))
        BY <1>8 DEF AppendThree
      <3> QED BY <1>1, <1>3, <3>1, StoreIs
    <2>2. Lists(r, k, s, m)'
      BY <1>1, <1>2, <1>4, <2>1, NextStored, PlacesAre
    <2>3. HalfAppended(n, r, k, {END})' /\ prev'[n] = r[k]
      <3>1. \A i \in 0 .. k : r[i] # n /\ r[i] \in Places
        BY <1>1, <1>2, ListFacts
      <3>2. \A i \in 0 .. k : next'[r[i]] = next[r[i]]
        BY <1>4, <2>1, <3>1
      <3>3. k \in 0 .. k /\ next'[n] = END
        BY <1>1, <1>4, <2>1
      <3> QED BY <1>8, <2>1, <3>2, <3>3 DEF HalfAppended, Nexts
    <2>4. Appending(n, rest, r, k, s, m)'
      BY <1>1, <2>1, <2>3 DEF Appending, Off
    <2>5. Accounted(r, k, s, m)' /\ Cursor(r, k)' /\ Runs(r, k, s, m)'
      <3>2. \A q \in Nodes : q \notin On(r, k) /\ q # n => next'[q] = next[q] /\ prev'[q] = prev[q]
        BY <1>4, <2>1, PlacesAre
      <3> QED BY <1>5, <2>1, <3>2
    <2> QED BY <2>2, <2>4, <2>5, Shown DEF SoundAs, Phases
  <1>9. CASE /\ todo = AppendFour(n, rest)
             /\ HalfAppended(n, r, k, {END})
             /\ prev[n] = r[k]
    <2>1. /\ todo' = rest /\ current' = (IF rest = << >> THEN END ELSE current)
          /\ UNCHANGED <<pc, cursor, running, list, taken, next, below, top>>
          /\ prev' = [prev EXCEPT ![END] = n]
      <3>1. todo = First(<<"prev", END, n>>, rest)
        BY <1>9 DEF AppendFour
      <3> QED BY <1>1, <3>1, StoreIs
    <2> DEFINE x == Added(r, k, n)
    <2>2. /\ Lists(x, k + 1, s, m)'
          /\ Nexts(x, 0 .. k + 1)'
      BY <1>1, <1>9, <2>1, TailStored
    <2>3. On(x, k + 1) = On(r, k) \cup {n}
      BY <1>1, RowAdded DEF Lists, Ring, Off
    <2> HIDE DEF x
    <2>4. Accounted(x, k + 1, s, m)' /\ Cursor(x, k + 1)' /\ Runs(x, k + 1, s, m)'
      <3>1. \A q \in Nodes : q # current =>
               (q \in On(x, k + 1) <=> q \in On(r, k)) /\ (q \in On(s, m) <=> q \in On(s, m))
        BY <1>1, <2>3
      <3>2. \A q \in Nodes : Off(q, r, k, s, m) /\ q # current =>
               next'[q] = next[q] /\ prev'[q] = prev[q]
        BY <1>2, <1>4, <2>1, PlacesAre
      <3>3. \/ current' = current
            \/ current' = END /\ running # current /\ current \in On(x, k + 1) \cup On(s, m)
        BY <1>1, <2>1, <2>3
      <3>4. /\ Accounted(r, k, s, m) /\ Cursor(r, k) /\ Runs(r, k, s, m)
            /\ current \in Nodes /\ On(r, k) \subseteq Nodes
            /\ UNCHANGED <<pc, cursor, running, taken>>
        BY <1>1, <1>2, <2>1
      <3> QED BY <3>1, <3>2, <3>3, <3>4, OthersStay
    <2>5. Phases(x, k + 1, s, m)'
      <3>1. CASE rest = << >>
        <4>1. Quiet(x, k + 1)'
          BY <2>1, <2>2, <3>1 DEF Quiet
        <4> QED BY <4>1 DEF Phases
      <3>2. CASE rest = Keep(n)
        <4>1. rest # << >>
          BY <1>1, <3>2, LastTyped
        <4>2. Ending(n, x, k + 1, s, m)'
          BY <1>1, <2>1, <2>2, <2>3, <3>2, <4>1 DEF Ending
        <4> QED BY <4>2 DEF Phases
      <3> QED BY <1>1, <3>1, <3>2
    <2> QED BY <2>2, <2>4, <2>5, Shown DEF SoundAs
  <1> QED BY <1>6, <1>7, <1>8, <1>9 DEF Appending

LEMMA FreeSound ==
    ASSUME NEW r, NEW k, NEW s, NEW m, SoundAs(r, k, s, m), Store,
           NEW n \in Nodes, NEW rest \in Seq(Stores), Freeing(n, rest, r, k, s, m)
    PROVE  SoundInv'
  <1>1. /\ Lists(r, k, s, m) /\ current = n /\ running # n /\ Off(n, r, k, s, m)
        /\ rest \in {<< >>, Drop(n)} /\ Nexts(r, 0 .. k)
        /\ n \in Offsets /\ top \in Offsets /\ top \in Places
    <2>1. Lists(r, k, s, m)
      BY DEF SoundAs
    <2>2. top \in Places
      <3>1. 1 \in 1 .. m + 1
        BY <2>1, ListFacts
      <3> QED BY <2>1, <3>1, ListFacts
    <2> QED BY <2>1, <2>2, PlacesAre DEF Freeing, Off, Offsets
  <1>2. /\ Accounted(r, k, s, m) /\ Cursor(r, k) /\ Runs(r, k, s, m)
        /\ On(r, k) \subseteq Nodes /\ n \notin On(r, k) /\ n \notin On(s, m)
        /\ END \notin Nodes /\ k \in Nat
    BY <1>1, ListFacts, PlacesAre DEF SoundAs, Off
  <1>3. /\ FreeThree(n, rest) \in Seq(Stores) /\ FreeThree(n, rest) # << >>
        /\ FreeTwo(n, rest) \in Seq(Stores) /\ FreeTwo(n, rest) # << >>
    BY <1>1, FreeTyped
  <1>4. /\ next \in [Places -> Places \cup {WILD}] /\ prev \in [Places -> Places \cup {WILD}]
        /\ below \in [Nodes -> Places \cup {WILD}] /\ n \in Places
    BY <1>1, PlacesAre DEF Lists, LinkTypes
  <1>5. ASSUME UNCHANGED <<pc, cursor, running, taken, current>>,
               \A q \in Nodes : q # n => next'[q] = next[q] /\ prev'[q] = prev[q]
        PROVE  Accounted(r, k, s, m)' /\ Cursor(r, k)' /\ Runs(r, k, s, m)'
    <2>1. \A q \in Nodes : Off(q, r, k, s, m) /\ q # current =>
              next'[q] = next[q] /\ prev'[q] = prev[q]
      BY <1>1, <1>5
    <2>2. \A q \in Nodes : q # current =>
               (q \in On(r, k) <=> q \in On(r, k)) /\ (q \in On(s, m) <=> q \in On(s, m))
      OBVIOUS
    <2> QED BY <1>1, <1>2, <1>5, <2>1, <2>2, OthersStay
  <1>6. CASE todo = FreeOne(n, top, rest)
    <2>1. /\ todo' = FreeTwo(n, rest) /\ current' = current
          /\ UNCHANGED <<pc, cursor, running, list, taken, next, top>>
          /\ prev' = [prev EXCEPT ![n] = WILD]
          /\ below' = [below EXCEPT ![n] = top]
      <3>1. todo = First(<<"below", n, top>>, FreeTwo(n, rest))
        BY <1>6 DEF FreeOne
      <3> QED BY <1>1, <1>3, <3>1, StoreIs
    <2>2. Lists(r, k, s, m)'
      BY <1>1, <2>1, PrevStored
    <2>3. Freeing(n, rest, r, k, s, m)'
      <3>1. below'[n] = top'
        BY <1>4, <2>1
      <3>2. Nexts(r, 0 .. k)'
        BY <1>1, <2>1 DEF Nexts
      <3> QED BY <1>1, <2>1, <3>1, <3>2 DEF Freeing, Off
    <2>4. Accounted(r, k, s, m)' /\ Cursor(r, k)' /\ Runs(r, k, s, m)'
      <3>1. \A q \in Nodes : q # n => next'[q] = next[q] /\ prev'[q] = prev[q]
        BY <1>4, <2>1, PlacesAre
      <3> QED BY <1>5, <2>1, <3>1
    <2> QED BY <2>2, <2>3, <2>4, Shown DEF SoundAs, Phases
  <1>7. CASE todo = FreeTwo(n, rest) /\ below[n] = top
    <2>1. /\ todo' = FreeThree(n, rest) /\ current' = current
          /\ UNCHANGED <<pc, cursor, running, list, taken, prev, below, top>>
          /\ next' = [next EXCEPT ![n] = n]
      <3>1. todo = First(<<"next", n, n>>, FreeThree(n, rest))
        BY <1>7 DEF FreeTwo
      <3> QED BY <1>1, <1>3, <3>1, StoreIs
    <2>2. Lists(r, k, s, m)'
      BY <1>1, <1>2, <1>4, <2>1, NextStored
    <2>3. Freeing(n, rest, r, k, s, m)'
      <3>1. next'[n] = n
        BY <1>4, <2>1
      <3>2. \A i \in 0 .. k : r[i] # n /\ r[i] \in Places
        BY <1>1, <1>2, ListFacts
      <3>3. Nexts(r, 0 .. k)'
        BY <1>1, <1>4, <2>1, <3>2 DEF Nexts
      <3> QED BY <1>1, <1>7, <2>1, <3>1, <3>3 DEF Freeing, Off
    <2>4. Accounted(r, k, s, m)' /\ Cursor(r, k)' /\ Runs(r, k, s, m)'
      <3>1. \A q \in Nodes : q # n => next'[q] = next[q] /\ prev'[q] = prev[q]
        BY <1>4, <2>1, PlacesAre
      <3> QED BY <1>5, <2>1, <3>1
    <2> QED BY <2>2, <2>3, <2>4, Shown DEF SoundAs, Phases
  <1>8. CASE todo = FreeThree(n, rest) /\ below[n] = top /\ next[n] = n
    <2>1. /\ todo' = rest /\ current' = (IF rest = << >> THEN END ELSE current)
          /\ UNCHANGED <<pc, cursor, running, list, taken, next, prev, below>>
          /\ top' = n
      <3>1. todo = First(<<"top", n, n>>, rest)
        BY <1>8 DEF FreeThree
      <3> QED BY <1>1, <3>1, StoreIs
    <2> DEFINE y == Pushed(s, n)
    <2>2. /\ Lists(r, k, y, m + 1)'
          /\ On(y, m + 1) = On(s, m) \cup {n}
      BY <1>1, <1>8, <2>1, TopPushed
    <2> HIDE DEF y
    <2>3. Nexts(r, 0 .. k)'
      BY <1>1, <2>1 DEF Nexts
    <2>4. Accounted(r, k, y, m + 1)' /\ Cursor(r, k)' /\ Runs(r, k, y, m + 1)'
      <3>1. \A q \in Nodes : q # current =>
               (q \in On(r, k) <=> q \in On(r, k)) /\ (q \in On(y, m + 1) <=> q \in On(s, m))
        BY <1>1, <2>2
      <3>2. \A q \in Nodes : Off(q, r, k, s, m) /\ q # current =>
               next'[q] = next[q] /\ prev'[q] = prev[q]
        BY <2>1
      <3>3. \/ current' = current
            \/ current' = END /\ running # current /\ current \in On(r, k) \cup On(y, m + 1)
        BY <1>1, <2>1, <2>2
      <3> QED BY <1>1, <1>2, <2>1, <3>1, <3>2, <3>3, OthersStay
    <2>5. Phases(r, k, y, m + 1)'
      <3>1. CASE rest = << >>
        <4>1. Quiet(r, k)'
          BY <2>1, <2>3, <3>1 DEF Quiet
        <4> QED BY <4>1 DEF Phases
      <3>2. CASE rest = Drop(n)
        <4>1. rest # << >>
          BY <1>1, <3>2, LastTyped
        <4>2. Ending(n, r, k, y, m + 1)'
          BY <1>1, <2>1, <2>2, <2>3, <3>2, <4>1 DEF Ending
        <4> QED BY <4>2 DEF Phases
      <3> QED BY <1>1, <3>1, <3>2
    <2> QED BY <2>2, <2>4, <2>5, Shown DEF SoundAs
  <1> QED BY <1>6, <1>7, <1>8 DEF Freeing

LEMMA EndSound ==
    ASSUME NEW r, NEW k, NEW s, NEW m, SoundAs(r, k, s, m), Store,
           NEW n \in Nodes, Ending(n, r, k, s, m)
    PROVE  SoundInv'
  <1>1. /\ Lists(r, k, s, m) /\ current = n /\ running # n /\ Nexts(r, 0 .. k)
        /\ n \in On(r, k) \cup On(s, m) /\ n \in Offsets /\ << >> \in Seq(Stores)
        /\ Accounted(r, k, s, m) /\ Cursor(r, k) /\ Runs(r, k, s, m) /\ On(r, k) \subseteq Nodes
    BY ListFacts, PlacesAre DEF SoundAs, Ending, Offsets
  <1>2. /\ todo' = << >> /\ current' = END
        /\ UNCHANGED <<pc, cursor, running, list, taken, next, prev, below, top>>
    <2> DEFINE E == << >>
    <2>1. todo = First(<<"keep", n, n>>, E) \/ todo = First(<<"drop", n, n>>, E)
      BY DEF Ending, Keep, Drop
    <2>2. E \in Seq(Stores)
      OBVIOUS
    <2> HIDE DEF E
    <2>3. todo' = E /\ current' = (IF E = << >> THEN END ELSE current)
          /\ UNCHANGED <<pc, cursor, running, list, taken, next, prev, below, top>>
      <3>1. CASE todo = First(<<"keep", n, n>>, E)
        BY <1>1, <2>2, <3>1, StoreIs
      <3>2. CASE todo = First(<<"drop", n, n>>, E)
        BY <1>1, <2>2, <3>2, StoreIs
      <3> QED BY <2>1, <3>1, <3>2
    <2> QED BY <2>3 DEF E
  <1>3. Lists(r, k, s, m)'
    BY <1>1, <1>2 DEF Lists, LinkTypes, Ring, Stack
  <1>4. Accounted(r, k, s, m)' /\ Cursor(r, k)' /\ Runs(r, k, s, m)'
    <2>1. \A q \in Nodes : q # current =>
               (q \in On(r, k) <=> q \in On(r, k)) /\ (q \in On(s, m) <=> q \in On(s, m))
      OBVIOUS
    <2>2. \A q \in Nodes : Off(q, r, k, s, m) /\ q # current =>
               next'[q] = next[q] /\ prev'[q] = prev[q]
      BY <1>2
    <2> QED BY <1>1, <1>2, <2>1, <2>2, OthersStay
  <1>5. Quiet(r, k)'
    BY <1>1, <1>2 DEF Quiet, Nexts
  <1> QED BY <1>3, <1>4, <1>5, Shown DEF SoundAs, Phases

LEMMA EraseSound ==
    ASSUME NEW r, NEW k, NEW s, NEW m, SoundAs(r, k, s, m), Store,
           NEW n \in Nodes, NEW rest \in Seq(Stores), Erasing(n, rest, r, k, s, m)
    PROVE  SoundInv'
  <1>1. /\ Lists(r, k, s, m) /\ current = n /\ ErasedFor(n, rest)
        /\ n \in Offsets /\ WILD \in Offsets /\ k \in Nat
    BY ListFacts, PlacesAre DEF SoundAs, Erasing, Offsets
  <1>2. /\ Accounted(r, k, s, m) /\ Cursor(r, k) /\ Runs(r, k, s, m)
        /\ On(r, k) \subseteq Nodes /\ END \notin Nodes
    BY <1>1, ListFacts, PlacesAre DEF SoundAs
  <1>3. /\ EraseFour(n, rest) \in Seq(Stores) /\ EraseFour(n, rest) # << >>
        /\ EraseThree(n, rest) \in Seq(Stores) /\ EraseThree(n, rest) # << >>
    BY <1>1, EraseTyped
  <1>4. /\ next \in [Places -> Places \cup {WILD}] /\ prev \in [Places -> Places \cup {WILD}]
        /\ below \in [Nodes -> Places \cup {WILD}] /\ n \in Places
    BY <1>1, PlacesAre DEF Lists, LinkTypes
  <1>5. ASSUME UNCHANGED <<pc, cursor, running, taken, current>>,
               \A q \in Nodes : q \notin On(r, k) /\ q # n => next'[q] = next[q] /\ prev'[q] = prev[q]
        PROVE  Accounted(r, k, s, m)' /\ Cursor(r, k)' /\ Runs(r, k, s, m)'
    <2>1. \A q \in Nodes : Off(q, r, k, s, m) /\ q # current =>
              next'[q] = next[q] /\ prev'[q] = prev[q]
      BY <1>1, <1>5 DEF Off
    <2>2. \A q \in Nodes : q # current =>
               (q \in On(r, k) <=> q \in On(r, k)) /\ (q \in On(s, m) <=> q \in On(s, m))
      OBVIOUS
    <2> QED BY <1>1, <1>2, <1>5, <2>1, <2>2, OthersStay
  <1>6. ASSUME NEW j \in 0 .. k, Bypassing(n, rest, j, r, k)
        PROVE  SoundInv'
    <2>0. j < k /\ n = r[j + 1]
      BY <1>6 DEF Bypassing
    <2>1. /\ j \in 0 .. k + 1 /\ j + 2 \in 0 .. k + 1
          /\ r[j] \in Places /\ r[j] \notin On(s, m) /\ (r[j] = END \/ r[j] \in On(r, k))
          /\ r[j + 2] \in Places /\ (r[j + 2] = END \/ r[j + 2] \in On(r, k))
          /\ r[j] \in Offsets /\ r[j + 2] \in Offsets
      <3>1. j \in 0 .. k + 1 /\ j + 2 \in 0 .. k + 1
        BY <1>1, <2>0
      <3> QED BY <1>1, <3>1, ListFacts DEF Offsets
    <2>2. EraseTwo(r[j], r[j + 2], n, rest) \in Seq(Stores) /\ EraseTwo(r[j], r[j + 2], n, rest) # << >>
      BY <1>1, <2>1, EraseTyped
    <2>3. CASE /\ todo = EraseOne(r[j], r[j + 2], n, rest)
               /\ Nexts(r, 0 .. k)
      <3>1. /\ todo' = EraseTwo(r[j], r[j + 2], n, rest) /\ current' = current
            /\ UNCHANGED <<pc, cursor, running, list, taken, prev, below, top>>
            /\ next' = [next EXCEPT ![r[j]] = r[j + 2]]
        <4>1. todo = First(<<"next", r[j], r[j + 2]>>, EraseTwo(r[j], r[j + 2], n, rest))
          BY <2>3 DEF EraseOne
        <4> QED BY <1>1, <2>1, <2>2, <4>1, StoreIs
      <3>2. Lists(r, k, s, m)'
        BY <1>1, <2>1, <3>1, NextStored
      <3>3. Nexts(r, (0 .. k) \ {j})' /\ next'[r[j]] = r[j + 2]
        <4>1. \A i \in (0 .. k) \ {j} : r[i] # r[j] /\ r[i] \in Places
          BY <1>1, RingDistinct, ListFacts
        <4> QED BY <1>4, <2>1, <2>3, <3>1, <4>1 DEF Nexts
      <3>4. Erasing(n, rest, r, k, s, m)'
        <4>1. ErasedFor(n, rest)'
          BY <1>1, <3>1 DEF ErasedFor
        <4>2. current' = n
          BY <1>1, <3>1
        <4>3. /\ j < k /\ n = r[j + 1]
              /\ todo' = EraseTwo(r[j], r[j + 2], n, rest)
              /\ Nexts(r, (0 .. k) \ {j})' /\ next'[r[j]] = r[j + 2]
          BY <2>0, <3>1, <3>3
        <4>4. Bypassing(n, rest, j, r, k)'
          BY <4>3 DEF Bypassing
        <4> QED BY <4>1, <4>2, <4>4, Zenon DEF Erasing
      <3>5. Accounted(r, k, s, m)' /\ Cursor(r, k)' /\ Runs(r, k, s, m)'
        <4>1. \A q \in Nodes : q \notin On(r, k) /\ q # n => q # r[j]
          BY <1>2, <2>1
        <4>2. \A q \in Nodes : q \notin On(r, k) /\ q # n => next'[q] = next[q] /\ prev'[q] = prev[q]
          BY <1>4, <3>1, <4>1, PlacesAre
        <4> QED BY <1>5, <3>1, <4>2
      <3> QED BY <3>2, <3>4, <3>5, Shown DEF SoundAs, Phases
    <2>4. CASE /\ todo = EraseTwo(r[j], r[j + 2], n, rest)
               /\ Nexts(r, (0 .. k) \ {j})
               /\ next[r[j]] = r[j + 2]
      <3>1. /\ todo' = EraseThree(n, rest) /\ current' = current
            /\ UNCHANGED <<pc, cursor, running, list, taken, next, top>>
            /\ prev' = [prev EXCEPT ![r[j + 2]] = r[j]]
            /\ below' = (IF r[j + 2] # END THEN [below EXCEPT ![r[j + 2]] = WILD] ELSE below)
        <4>1. todo = First(<<"prev", r[j + 2], r[j]>>, EraseThree(n, rest))
          BY <2>4 DEF EraseTwo
        <4> QED BY <1>3, <2>1, <4>1, StoreIs
      <3>2. PICK g \in Nat : k = g + 1
        BY <1>1, <2>0
      <3>3. j \in 0 .. g
        BY <2>0, <3>2
      <3> DEFINE x == Cut(r, j + 1)
      <3>4. /\ Lists(x, g, s, m)' /\ Nexts(x, 0 .. g)'
            /\ On(x, g) = On(r, k) \ {n} /\ n \notin On(s, m)
        <4> DEFINE p == r[j]
                   q == r[j + 2]
        <4>1. /\ Lists(r, g + 1, s, m) /\ Nexts(r, (0 .. g + 1) \ {j})
              /\ next[p] = q /\ UNCHANGED <<next, top>>
              /\ prev' = [prev EXCEPT ![q] = p]
              /\ below' = (IF q # END THEN [below EXCEPT ![q] = WILD] ELSE below)
          BY <1>1, <2>4, <3>1, <3>2
        <4>2. p = r[j] /\ q = r[j + 2]
          OBVIOUS
        <4> HIDE DEF p, q
        <4>3. Lists(x, g, s, m)' /\ Nexts(x, 0 .. g)' /\ r[j + 1] \notin On(s, m)
          BY <3>3, <4>1, <4>2, BypassStored
        <4>4. On(x, g) = On(r, g + 1) \ {r[j + 1]}
          <5>1. Row(r, g + 1) /\ j + 1 \in 1 .. g + 1
            BY <3>3, <4>1 DEF Lists, Ring
          <5> QED BY <5>1, RowCut
        <4> QED BY <2>0, <3>2, <4>3, <4>4
      <3> HIDE DEF x
      <3>5. Erasing(n, rest, x, g, s, m)'
        <4>1. ErasedFor(n, rest)'
          BY <1>1, <3>1 DEF ErasedFor
        <4>2. current' = n
          BY <1>1, <3>1
        <4>3. Off(n, x, g, s, m)'
          BY <3>4 DEF Off
        <4> QED BY <3>1, <3>4, <4>1, <4>2, <4>3 DEF Erasing
      <3>6. Accounted(x, g, s, m)' /\ Cursor(x, g)' /\ Runs(x, g, s, m)'
        <4>1. \A q \in Nodes : q # current =>
               (q \in On(x, g) <=> q \in On(r, k)) /\ (q \in On(s, m) <=> q \in On(s, m))
          BY <1>1, <3>4
        <4>2. \A q \in Nodes : Off(q, r, k, s, m) => q # r[j + 2]
          BY <1>2, <2>1 DEF Off
        <4>3. \A q \in Nodes : Off(q, r, k, s, m) /\ q # current =>
               next'[q] = next[q] /\ prev'[q] = prev[q]
          BY <1>4, <3>1, <4>2, PlacesAre
        <4>4. /\ Accounted(r, k, s, m) /\ Cursor(r, k) /\ Runs(r, k, s, m)
              /\ current \in Nodes /\ On(r, k) \subseteq Nodes
              /\ UNCHANGED <<pc, cursor, running, taken, current>>
          BY <1>1, <1>2, <3>1
        <4> QED BY <4>1, <4>3, <4>4, OthersStay
      <3> QED BY <3>4, <3>5, <3>6, Shown DEF SoundAs, Phases
    <2> QED BY <1>6, <2>3, <2>4 DEF Bypassing
  <1>7. ASSUME Off(n, r, k, s, m), Nexts(r, 0 .. k), todo = EraseThree(n, rest)
        PROVE  SoundInv'
    <2>1. /\ todo' = EraseFour(n, rest) /\ current' = current
          /\ UNCHANGED <<pc, cursor, running, list, taken, next, top>>
          /\ prev' = [prev EXCEPT ![n] = WILD]
          /\ below' = [below EXCEPT ![n] = WILD]
      <3>1. todo = First(<<"prev", n, WILD>>, EraseFour(n, rest))
        BY <1>7 DEF EraseThree
      <3> QED BY <1>1, <1>2, <1>3, <3>1, StoreIs
    <2>2. Lists(r, k, s, m)'
      <3>1. WILD \in Places \cup {WILD}
        OBVIOUS
      <3> QED BY <1>1, <1>7, <2>1, <3>1, PrevStored
    <2>3. Erasing(n, rest, r, k, s, m)'
      <3>1. ErasedFor(n, rest)'
        BY <1>1, <2>1 DEF ErasedFor
      <3>2. Off(n, r, k, s, m)' /\ Nexts(r, 0 .. k)'
        BY <1>7, <2>1 DEF Off, Nexts
      <3>3. current' = n /\ prev'[n] = WILD
        BY <1>1, <1>4, <2>1
      <3> QED BY <2>1, <3>1, <3>2, <3>3 DEF Erasing
    <2>4. Accounted(r, k, s, m)' /\ Cursor(r, k)' /\ Runs(r, k, s, m)'
      <3>1. \A q \in Nodes : q \notin On(r, k) /\ q # n => next'[q] = next[q] /\ prev'[q] = prev[q]
        BY <1>4, <2>1, PlacesAre
      <3> QED BY <1>5, <2>1, <3>1
    <2> QED BY <2>2, <2>3, <2>4, Shown DEF SoundAs, Phases
  <1>8. ASSUME Off(n, r, k, s, m), Nexts(r, 0 .. k), todo = EraseFour(n, rest), prev[n] = WILD
        PROVE  SoundInv'
    <2>1. /\ todo' = rest /\ current' = (IF rest = << >> THEN END ELSE current)
          /\ UNCHANGED <<pc, cursor, running, list, taken, prev, below, top>>
          /\ next' = [next EXCEPT ![n] = WILD]
      <3>1. todo = First(<<"next", n, WILD>>, rest)
        BY <1>8 DEF EraseFour
      <3> QED BY <1>1, <3>1, StoreIs
    <2>2. n \notin On(r, k) /\ n \notin On(s, m)
      BY <1>8 DEF Off
    <2>3. Lists(r, k, s, m)'
      <3>1. WILD \in Places \cup {WILD}
        OBVIOUS
      <3> QED BY <1>1, <1>4, <2>1, <2>2, <3>1, NextStored
    <2>4. Nexts(r, 0 .. k)' /\ next'[n] = WILD /\ prev'[n] = WILD
      <3>1. \A i \in 0 .. k : r[i] # n /\ r[i] \in Places
        BY <1>1, <1>2, <2>2, ListFacts
      <3> QED BY <1>4, <1>8, <2>1, <3>1 DEF Nexts
    <2>5. \A q \in Nodes : q # n => next'[q] = next[q] /\ prev'[q] = prev[q]
      BY <1>4, <2>1, PlacesAre
    <2>6. \A q \in Nodes : q # current =>
               (q \in On(r, k) <=> q \in On(r, k)) /\ (q \in On(s, m) <=> q \in On(s, m))
      OBVIOUS
    <2>7. \A q \in Nodes : Off(q, r, k, s, m) /\ q # current =>
               next'[q] = next[q] /\ prev'[q] = prev[q]
      BY <1>1, <2>5
    <2>8. /\ Accounted(r, k, s, m) /\ Cursor(r, k) /\ Runs(r, k, s, m)
          /\ current \in Nodes /\ On(r, k) \subseteq Nodes
          /\ UNCHANGED <<pc, cursor, running, taken>>
      BY <1>1, <1>2, <2>1
    <2>9. CASE rest = << >> /\ pc = "task" /\ running = n
      <3>1. current' = END
        BY <2>1, <2>9
      <3>2. Quiet(r, k)'
        BY <2>1, <2>4, <2>9, <3>1 DEF Quiet
      <3>3. /\ current' = END /\ running = current /\ Off(current, r, k, s, m)
            /\ prev'[current] = WILD /\ next'[current] = WILD
        BY <1>1, <1>8, <2>4, <2>9, <3>1
      <3>4. Accounted(r, k, s, m)' /\ Cursor(r, k)' /\ Runs(r, k, s, m)'
        BY <2>6, <2>7, <2>8, <3>3, OthersStay
      <3> QED BY <2>3, <3>2, <3>4, Shown DEF SoundAs, Phases
    <2>10. CASE rest = FreeOne(n, top, Drop(n)) /\ running # n
      <3>1. Drop(n) \in Seq(Stores) /\ rest # << >>
        <4>1. Drop(n) \in Seq(Stores)
          BY <1>1, LastTyped
        <4>2. top \in Offsets
          <5>1. 1 \in 1 .. m + 1
            BY <1>1, ListFacts
          <5> QED BY <1>1, <5>1, ListFacts DEF Offsets
        <4> QED BY <1>1, <2>10, <4>1, <4>2, FreeTyped
      <3>2. current' = current
        BY <2>1, <3>1
      <3>3. Freeing(n, Drop(n), r, k, s, m)'
        <4>1. Off(n, r, k, s, m)'
          BY <1>8 DEF Off
        <4> QED BY <1>1, <2>1, <2>4, <2>10, <3>2, <4>1 DEF Freeing
      <3>4. Accounted(r, k, s, m)' /\ Cursor(r, k)' /\ Runs(r, k, s, m)'
        BY <2>6, <2>7, <2>8, <3>2, OthersStay
      <3> QED BY <2>3, <3>1, <3>3, <3>4, Shown DEF SoundAs, Phases
    <2> QED BY <1>1, <2>9, <2>10 DEF ErasedFor
  <1> QED BY <1>6, <1>7, <1>8, Zenon DEF Erasing

LEMMA StoreSound == ASSUME SoundInv, Store PROVE SoundInv'
  <1>1. PICK r, s \in [Nat -> Places \cup {WILD}], k, m \in Nat : SoundAs(r, k, s, m)
    BY DEF SoundInv
  <1>2. todo # << >>
    BY DEF Store
  <1>3. CASE Popping(r, k, s, m)
    BY <1>1, <1>3, PopSound
  <1>4. ASSUME NEW n \in Nodes, NEW rest \in Seq(Stores),
               \/ Appending(n, rest, r, k, s, m)
               \/ Erasing(n, rest, r, k, s, m)
               \/ Freeing(n, rest, r, k, s, m)
               \/ Ending(n, r, k, s, m)
        PROVE  SoundInv'
    BY <1>1, <1>4, AppendSound, EraseSound, FreeSound, EndSound
  <1>5. ~Quiet(r, k)
    BY <1>2 DEF Quiet
  <1> QED BY <1>1, <1>3, <1>4, <1>5 DEF SoundAs, Phases

-----------------------------------------------------------------------------
(* Between two calls. *)

LEMMA QuietWhenDone ==
    ASSUME NEW r, NEW k, NEW s, NEW m, SoundAs(r, k, s, m), todo = << >>
    PROVE  Quiet(r, k)
  <1>1. Lists(r, k, s, m) /\ Phases(r, k, s, m)
    BY DEF SoundAs
  <1>2. /\ k \in Nat /\ WILD \in Offsets /\ \A n \in Nodes : n \in Offsets
        /\ \A i \in 0 .. k + 1 : r[i] \in Offsets
        /\ \A i \in 1 .. m + 1 : s[i] \in Offsets
        /\ top \in Offsets /\ m \in Nat
    <2>1. k \in Nat /\ m \in Nat /\ 1 \in 1 .. m + 1
      BY <1>1, ListFacts
    <2>2. top = s[1] /\ s[1] \in Places
      BY <1>1, <2>1, ListFacts
    <2> QED BY <1>1, <2>1, <2>2, ListFacts, PlacesAre DEF Offsets
  <1>3. ~Popping(r, k, s, m)
    <2> SUFFICES ASSUME Popping(r, k, s, m) PROVE FALSE
      OBVIOUS
    <2>1. 1 \in 1 .. m + 1 /\ 2 \in 1 .. m + 1 /\ k \in 0 .. k + 1
      BY <1>2 DEF Popping
    <2>2. s[1] \in Offsets /\ s[2] \in Offsets /\ r[k] \in Offsets
      BY <1>2, <2>1
    <2>3. AppendOne(r[k], s[1], Keep(s[1])) \in Seq(Stores)
      BY <2>2, LastTyped, AppendTyped
    <2>4. <<"top", s[1], s[2]>> \in Stores
      BY <2>2, StoreTyped
    <2>5. First(<<"top", s[1], s[2]>>, AppendOne(r[k], s[1], Keep(s[1]))) # << >>
      BY <2>3, <2>4, FirstIs
    <2> QED BY <2>5 DEF Popping
  <1>4. ASSUME NEW n \in Nodes, NEW rest \in Seq(Stores), Appending(n, rest, r, k, s, m)
        PROVE  FALSE
    <2>1. n \in Offsets /\ r[k] \in Offsets
      <3>1. k \in 0 .. k + 1
        BY <1>2
      <3> QED BY <1>2, <3>1
    <2> QED BY <1>4, <2>1, AppendTyped DEF Appending
  <1>5. ASSUME NEW n \in Nodes, NEW rest \in Seq(Stores), Erasing(n, rest, r, k, s, m)
        PROVE  FALSE
    <2>1. n \in Offsets
      BY <1>2
    <2>2. ASSUME NEW j \in 0 .. k, Bypassing(n, rest, j, r, k) PROVE FALSE
      <3>1. j \in 0 .. k + 1 /\ j + 2 \in 0 .. k + 1
        BY <1>2, <2>2 DEF Bypassing
      <3>2. r[j] \in Offsets /\ r[j + 2] \in Offsets
        BY <1>2, <3>1
      <3> QED BY <2>1, <2>2, <3>2, EraseTyped DEF Bypassing
    <2>3. EraseThree(n, rest) # << >> /\ EraseFour(n, rest) # << >>
      BY <2>1, EraseTyped
    <2> QED BY <1>5, <2>2, <2>3 DEF Erasing
  <1>6. ASSUME NEW n \in Nodes, NEW rest \in Seq(Stores), Freeing(n, rest, r, k, s, m)
        PROVE  FALSE
    BY <1>2, <1>6, FreeTyped DEF Freeing
  <1>7. ASSUME NEW n \in Nodes, Ending(n, r, k, s, m)
        PROVE  FALSE
    BY <1>2, <1>7, LastTyped DEF Ending
  <1> QED BY <1>1, <1>3, <1>4, <1>5, <1>6, <1>7 DEF Phases

\* The node before and the node after one of the list.
LEMMA Neighbours ==
    ASSUME NEW r, NEW k, NEW s, NEW m, Lists(r, k, s, m), NEW n \in On(r, k)
    PROVE  \E j \in 0 .. k : /\ j < k /\ n = r[j + 1] /\ prev[n] = r[j]
                             /\ j + 1 \in 1 .. k /\ j + 2 \in 0 .. k + 1
                             /\ r[j] \in Places /\ r[j + 2] \in Places
                             /\ r[j + 2] # n /\ (r[j + 2] = END \/ r[j + 2] \in On(r, k))
  <1>1. k \in Nat
    BY ListFacts
  <1>2. PICK i \in 1 .. k : n = r[i]
    BY DEF On
  <1>3. PICK j \in 0 .. k : i = j + 1
    BY <1>1, <1>2
  <1>4. /\ j < k /\ j \in 0 .. k + 1 /\ j + 1 \in 1 .. k /\ j + 2 \in 0 .. k + 1
        /\ j + 1 \in 0 .. k + 1 /\ j + 1 \in 0 .. k
    BY <1>1, <1>2, <1>3
  <1>5. /\ r[j] \in Places /\ r[j + 2] \in Places
        /\ (r[j + 2] = END \/ r[j + 2] \in On(r, k)) /\ n \in Nodes
    BY <1>4, ListFacts
  <1>6. prev[r[j + 1]] = r[j]
    BY DEF Lists, Ring
  <1>7. r[j + 2] # n
    <2>1. CASE j + 2 = k + 1
      BY <1>5, <2>1, ListFacts, PlacesAre
    <2>2. CASE j + 2 # k + 1
      <3>1. j + 2 \in 0 .. k /\ j + 2 # j + 1
        BY <1>1, <1>4, <2>2
      <3>2. \A a, b \in 0 .. k : r[a] = r[b] => a = b
        BY RingDistinct
      <3>3. n = r[j + 1]
        BY <1>2, <1>3
      <3> QED BY <1>4, <3>1, <3>2, <3>3
    <2> QED BY <2>1, <2>2
  <1> QED BY <1>2, <1>3, <1>4, <1>5, <1>6, <1>7

LEMMA Between ==
    ASSUME NEW r, NEW k, NEW s, NEW m, SoundAs(r, k, s, m), todo = << >>
    PROVE  /\ Lists(r, k, s, m) /\ Nexts(r, 0 .. k) /\ current = END
           /\ \A n \in On(r, k) :
                 /\ Linked(n) /\ next[n] # n /\ next[n] # WILD
                 /\ next[n] = END \/ next[n] \in On(r, k)
           /\ \A n \in On(s, m) : next[n] = n
           /\ \A n \in Nodes : Off(n, r, k, s, m) => Orphaned(n) /\ n \in taken \cup {running}
           /\ next[END] = END \/ next[END] \in On(r, k)
           /\ prev[END] = r[k] /\ r[k] \in Places
           /\ pc = "task" => Off(running, r, k, s, m) /\ running \in Nodes /\ Orphaned(running)
           /\ pc # "task" => running = END
           /\ pc # "idle" => cursor = END \/ cursor \in On(r, k)
           /\ pc \in {"idle", "walk", "task"}
           /\ top \in Places
  <1>1. Lists(r, k, s, m) /\ Nexts(r, 0 .. k) /\ current = END
    BY QuietWhenDone DEF SoundAs, Quiet
  <1>2. Accounted(r, k, s, m) /\ Cursor(r, k) /\ Runs(r, k, s, m)
    BY DEF SoundAs
  <1>3. END \notin Nodes /\ k \in Nat /\ m \in Nat /\ r[0] = END /\ r[k + 1] = END /\ WILD \notin Places
    BY <1>1, ListFacts, PlacesAre
  <1>4. ASSUME NEW n \in On(r, k)
        PROVE  /\ Linked(n) /\ next[n] # n /\ next[n] # WILD
               /\ next[n] = END \/ next[n] \in On(r, k)
    <2>1. PICK j \in 0 .. k : /\ j < k /\ n = r[j + 1] /\ prev[n] = r[j]
                              /\ j + 1 \in 1 .. k /\ j + 2 \in 0 .. k + 1
                              /\ r[j] \in Places /\ r[j + 2] \in Places
                              /\ r[j + 2] # n /\ (r[j + 2] = END \/ r[j + 2] \in On(r, k))
      BY <1>1, Neighbours
    <2>2. next[n] = r[j + 2]
      <3>1. j + 1 \in 0 .. k /\ j + 1 + 1 = j + 2
        BY <1>3, <2>1
      <3> QED BY <1>1, <2>1, <3>1 DEF Nexts
    <2> QED BY <1>3, <2>1, <2>2 DEF Linked
  <1>5. \A n \in On(s, m) : next[n] = n
    BY <1>1 DEF Lists, Stack, On
  <1>6. \A n \in Nodes : Off(n, r, k, s, m) => Orphaned(n) /\ n \in taken \cup {running}
    BY <1>1, <1>2, <1>3 DEF Accounted
  <1>7. next[END] = END \/ next[END] \in On(r, k)
    <2>1. 0 \in 0 .. k /\ 1 \in 0 .. k + 1 /\ 0 + 1 = 1
      BY <1>3
    <2>2. next[r[0]] = r[1]
      BY <1>1, <2>1 DEF Nexts
    <2> QED BY <1>1, <1>3, <2>1, <2>2, ListFacts
  <1>8. prev[END] = r[k] /\ r[k] \in Places /\ top \in Places
    <2>1. k \in 0 .. k /\ k \in 0 .. k + 1 /\ 1 \in 1 .. m + 1
      BY <1>3
    <2>2. prev[r[k + 1]] = r[k]
      BY <1>1, <2>1 DEF Lists, Ring
    <2> QED BY <1>1, <1>3, <2>1, <2>2, ListFacts
  <1>9. /\ pc = "task" => Off(running, r, k, s, m) /\ running \in Nodes /\ Orphaned(running)
        /\ pc # "task" => running = END
        /\ pc # "idle" => cursor = END \/ cursor \in On(r, k)
        /\ pc \in {"idle", "walk", "task"}
    BY <1>1, <1>2, <1>3, <1>6 DEF Runs, Cursor
  <1> QED BY <1>1, <1>4, <1>5, <1>6, <1>7, <1>8, <1>9

\* A step of the walk or of the process that stores nothing.
LEMMA StandsStill ==
    ASSUME NEW r, NEW k, NEW s, NEW m, SoundAs(r, k, s, m), todo = << >>,
           UNCHANGED <<next, prev, below, top>>, todo' = << >>, current' = END, running' = END,
           \A n \in Nodes : n \in taken \cup {running} => n \in taken',
           pc' = "idle" \/ (pc' = "walk" /\ (cursor' = END \/ cursor' \in On(r, k)))
    PROVE  SoundInv'
  <1>1. /\ Lists(r, k, s, m) /\ Nexts(r, 0 .. k)
        /\ \A n \in Nodes : Off(n, r, k, s, m) => Orphaned(n) /\ n \in taken \cup {running}
    BY Between
  <1>2. Lists(r, k, s, m)'
    BY <1>1 DEF Lists, LinkTypes, Ring, Stack
  <1>3. Quiet(r, k)'
    BY <1>1 DEF Quiet, Nexts
  <1>4. Accounted(r, k, s, m)'
    <2> SUFFICES ASSUME NEW n \in Nodes, Off(n, r, k, s, m)
                 PROVE  Orphaned(n)' /\ n \in taken' \cup {running'}
      BY DEF Accounted, Off
    <2> QED BY <1>1 DEF Orphaned
  <1>5. Cursor(r, k)'
    <2>1. END \notin On(r, k)
      BY <1>1, ListFacts, PlacesAre
    <2> QED BY <2>1 DEF Cursor
  <1>6. Runs(r, k, s, m)'
    BY DEF Runs
  <1> QED BY <1>2, <1>3, <1>4, <1>5, <1>6, Shown DEF SoundAs, Phases

\* A call begins that moves n.
LEMMA CallBegins ==
    ASSUME NEW r, NEW k, NEW s, NEW m, SoundAs(r, k, s, m), todo = << >>, NEW n \in Nodes,
           UNCHANGED <<next, prev, below, top, taken>>, current' = n,
           running \in {running', n, END},
           pc' \in {"idle", "walk", "task"},
           pc' # "idle" => cursor' = END \/ (cursor' \in On(r, k) /\ cursor' # n),
           IF pc' = "task" THEN running' \in Nodes /\ (running' # n => Off(running', r, k, s, m))
                           ELSE running' = END,
           Phases(r, k, s, m)'
    PROVE  SoundInv'
  <1>1. /\ Lists(r, k, s, m)
        /\ \A q \in Nodes : Off(q, r, k, s, m) => Orphaned(q) /\ q \in taken \cup {running}
    BY Between
  <1>2. Lists(r, k, s, m)'
    BY <1>1 DEF Lists, LinkTypes, Ring, Stack
  <1>3. Accounted(r, k, s, m)'
    <2> SUFFICES ASSUME NEW q \in Nodes, Off(q, r, k, s, m), q # n
                 PROVE  Orphaned(q)' /\ q \in taken' \cup {running'}
      BY DEF Accounted, Off
    <2> QED BY <1>1, PlacesAre DEF Orphaned
  <1>4. Cursor(r, k)'
    BY DEF Cursor
  <1>5. Runs(r, k, s, m)'
    BY DEF Runs, Off
  <1> QED BY <1>2, <1>3, <1>4, <1>5, Shown DEF SoundAs
-----------------------------------------------------------------------------
(* The steps that begin a call. *)

\* What is to be done once is the sequence of one store.
LEMMA OnceIs ==
    ASSUME NEW a \in Stores, NEW T \in Seq(Stores)
    PROVE  /\ One(a) \in Seq(Stores)
           /\ Then(One(a), T) = First(a, T)
           /\ First(a, << >>) = One(a)
  <1>1. One(a) \in Seq(Stores)
    BY DEF One
  <1>2. Then(One(a), T) = First(a, T)
    BY DEF Then, One, First
  <1>3. First(a, << >>) = Then(One(a), << >>)
    BY DEF Then, One, First
  <1>4. Then(One(a), << >>) = One(a)
    BY <1>1, ThenNothing
  <1> QED BY <1>1, <1>2, <1>3, <1>4

LEMMA ScheduleSound ==
    ASSUME NEW r, NEW k, NEW s, NEW m, SoundAs(r, k, s, m), Schedule
    PROVE  SoundInv'
  <1> DEFINE n == s[1]
             b == s[2]
  <1>1. /\ todo = << >> /\ pc \in {"idle", "task"} /\ top \in Nodes
        /\ UNCHANGED <<next, prev, below, top, taken, pc, cursor, running>> /\ current' = top
    BY DEF Schedule, MayCall, Begin, links
  <1>2. /\ Lists(r, k, s, m) /\ Nexts(r, 0 .. k) /\ prev[END] = r[k] /\ r[k] \in Places
        /\ pc = "task" => Off(running, r, k, s, m) /\ running \in Nodes
        /\ pc # "task" => running = END
        /\ pc # "idle" => cursor = END \/ cursor \in On(r, k)
    BY <1>1, Between
  <1>3. /\ n = top /\ m # 0 /\ m \in Nat /\ below[n] = b /\ n \in On(s, m) /\ n \notin On(r, k)
        /\ n \in Offsets /\ b \in Offsets /\ r[k] \in Offsets /\ n \in Nodes
    <2>1. n = top /\ m \in Nat /\ m # 0
      <3>1. n = top /\ m \in Nat /\ s[m + 1] = END
        BY <1>2, ListFacts
      <3> QED BY <1>1, <3>1, PlacesAre
    <2>2. 1 \in 1 .. m /\ 1 \in 1 .. m + 1 /\ 2 \in 1 .. m + 1 /\ 1 + 1 = 2
      BY <2>1
    <2>3. below[n] = b
      BY <1>2, <2>2 DEF Lists, Stack
    <2>4. n \in On(s, m) /\ n \notin On(r, k)
      BY <1>2, <2>2 DEF Lists, On
    <2> QED BY <1>1, <1>2, <2>1, <2>2, <2>3, <2>4, ListFacts, PlacesAre DEF Offsets
  <1>4. todo' = First(<<"top", n, b>>, AppendOne(r[k], n, Keep(n)))
    <2> DEFINE a == <<"top", n, b>>
               c == <<"keep", n, n>>
               P == PushBack(n)
    <2>1. todo' = Then(Then(One(a), P), One(c))
      BY <1>1, <1>3 DEF Schedule, Begin, Then, One
    <2>2. a \in Stores /\ c \in Stores
      BY <1>3, StoreTyped
    <2>3. /\ Then(P, Keep(n)) = AppendOne(r[k], n, Keep(n))
          /\ P \in Seq(Stores)
      BY <1>2, <1>3, LastTyped, PushBackIs
    <2>4. Keep(n) = First(c, << >>)
      BY DEF Keep
    <2> HIDE DEF a, c, P, n, b
    <2>5. One(a) \in Seq(Stores) /\ One(c) \in Seq(Stores) /\ Keep(n) = One(c)
      <3>1. << >> \in Seq(Stores)
        OBVIOUS
      <3> QED BY <2>2, <2>4, <3>1, OnceIs
    <2>6. Then(Then(One(a), P), One(c)) = Then(One(a), Then(P, One(c)))
      BY <2>3, <2>5, ThenAssociates
    <2>7. Then(P, One(c)) \in Seq(Stores)
      BY <2>3, <2>5, ThenIs
    <2>8. Then(One(a), Then(P, One(c))) = First(a, Then(P, One(c)))
      BY <2>2, <2>7, OnceIs
    <2>9. todo' = First(a, AppendOne(r[k], n, Keep(n)))
      BY <2>1, <2>3, <2>5, <2>6, <2>8
    <2> QED BY <2>9 DEF a
  <1>5. running # n
    BY <1>2, <1>3, PlacesAre DEF Off, MayCall
  <1>6. Phases(r, k, s, m)'
    <2>1. Nexts(r, 0 .. k)'
      BY <1>1, <1>2 DEF Nexts
    <2>2. Popping(r, k, s, m)'
      BY <1>1, <1>3, <1>4, <1>5, <2>1 DEF Popping
    <2> QED BY <2>2 DEF Phases
  <1>7. /\ running \in {running', n, END} /\ pc' \in {"idle", "walk", "task"} /\ current' = n
        /\ pc' # "idle" => cursor' = END \/ (cursor' \in On(r, k) /\ cursor' # n)
        /\ IF pc' = "task" THEN running' \in Nodes /\ (running' # n => Off(running', r, k, s, m))
                           ELSE running' = END
    BY <1>1, <1>2, <1>3 DEF Off
  <1> HIDE DEF n, b
  <1> QED BY <1>1, <1>3, <1>6, <1>7, CallBegins

LEMMA CancelSound ==
    ASSUME NEW r, NEW k, NEW s, NEW m, SoundAs(r, k, s, m), NEW n \in Nodes, Cancel(n)
    PROVE  SoundInv'
  <1>1. /\ todo = << >> /\ pc \in {"idle", "task"} /\ ~IsOrphanNode(n) /\ ~IsInStack(n)
        /\ UNCHANGED <<next, prev, below, top, taken, pc, running>> /\ current' = n
        /\ cursor' = CursorAfter(n)
    BY DEF Cancel, MayCall, Begin, links
  <1>2. /\ Lists(r, k, s, m) /\ Nexts(r, 0 .. k)
        /\ n \in On(r, k) => Linked(n) /\ next[n] # n /\ (next[n] = END \/ next[n] \in On(r, k))
        /\ n \in On(s, m) => next[n] = n
        /\ Off(n, r, k, s, m) => Orphaned(n)
        /\ pc = "task" => Off(running, r, k, s, m) /\ running \in Nodes
        /\ pc # "task" => running = END
        /\ pc # "idle" => cursor = END \/ cursor \in On(r, k)
        /\ top \in Places
    BY <1>1, Between
  <1>3. n \in On(r, k)
    BY <1>1, <1>2 DEF Off, Orphaned, IsOrphanNode, IsInStack
  <1>4. PICK j \in 0 .. k : /\ j < k /\ n = r[j + 1] /\ prev[n] = r[j]
                            /\ j + 1 \in 1 .. k /\ j + 2 \in 0 .. k + 1
                            /\ r[j] \in Places /\ r[j + 2] \in Places
    BY <1>2, <1>3, Neighbours
  <1>5. next[n] = r[j + 2]
    <2>1. j + 1 \in 0 .. k /\ j + 1 + 1 = j + 2
      BY <1>4
    <2> QED BY <1>2, <1>4, <2>1 DEF Nexts
  <1>6. n \in Offsets /\ prev[n] \in Offsets /\ next[n] \in Offsets /\ top \in Offsets
    BY <1>2, <1>4, <1>5, PlacesAre DEF Offsets
  <1> DEFINE rest == FreeOne(n, top, Drop(n))
  <1>7. todo' = EraseOne(r[j], r[j + 2], n, rest) /\ rest \in Seq(Stores)
    <2> DEFINE c == <<"drop", n, n>>
               P == Erase(n)
               Q == PushFree(n)
    <2>1. todo' = Then(Then(P, Q), One(c))
      BY DEF Cancel, Begin, Then, One
    <2>2. c \in Stores
      BY <1>6, StoreTyped
    <2>3. Drop(n) \in Seq(Stores)
      BY <1>6, LastTyped
    <2>4. Then(Q, Drop(n)) = rest /\ Q \in Seq(Stores)
      BY <1>6, <2>3, PushFreeIs
    <2>5. rest \in Seq(Stores)
      BY <1>6, <2>3, FreeTyped
    <2>6. Then(P, rest) = EraseOne(prev[n], next[n], n, rest) /\ P \in Seq(Stores)
      BY <1>6, <2>5, EraseIs
    <2>7. Drop(n) = First(c, << >>)
      BY DEF Drop
    <2> HIDE DEF c, P, Q, rest
    <2>8. One(c) \in Seq(Stores) /\ Drop(n) = One(c)
      <3>1. << >> \in Seq(Stores)
        OBVIOUS
      <3> QED BY <2>2, <2>7, <3>1, OnceIs
    <2>9. Then(Then(P, Q), One(c)) = Then(P, Then(Q, One(c)))
      BY <2>4, <2>6, <2>8, ThenAssociates
    <2> QED BY <1>4, <1>5, <2>1, <2>4, <2>5, <2>6, <2>8, <2>9
  <1>8. running # n
    BY <1>2, <1>3, PlacesAre DEF Off
  <1>9. Phases(r, k, s, m)'
    <2>1. Nexts(r, 0 .. k)'
      BY <1>1, <1>2 DEF Nexts
    <2>2. PICK c : c = rest
      OBVIOUS
    <2>3. ErasedFor(n, c)'
      BY <1>1, <1>8, <2>2 DEF ErasedFor
    <2> HIDE DEF rest
    <2>4. todo' = EraseOne(r[j], r[j + 2], n, c) /\ c \in Seq(Stores)
      BY <1>7, <2>2
    <2>5. Bypassing(n, c, j, r, k)'
      BY <1>4, <2>1, <2>4 DEF Bypassing
    <2>6. Erasing(n, c, r, k, s, m)'
      BY <1>1, <2>3, <2>5 DEF Erasing
    <2> QED BY <2>4, <2>6 DEF Phases
  <1>10. /\ running \in {running', n, END} /\ pc' \in {"idle", "walk", "task"}
         /\ pc' # "idle" => cursor' = END \/ (cursor' \in On(r, k) /\ cursor' # n)
         /\ IF pc' = "task" THEN running' \in Nodes /\ (running' # n => Off(running', r, k, s, m))
                            ELSE running' = END
    BY <1>1, <1>2, <1>3, <1>8, PlacesAre DEF CursorAfter, Off
  <1> QED BY <1>1, <1>9, <1>10, CallBegins

LEMMA ExpireSound ==
    ASSUME NEW r, NEW k, NEW s, NEW m, SoundAs(r, k, s, m), due \subseteq Nodes, Expire
    PROVE  SoundInv'
  <1> DEFINE n == cursor
  <1>1. /\ todo = << >> /\ pc = "walk" /\ n \in Nodes /\ pc' = "task"
        /\ UNCHANGED <<next, prev, below, top, taken>> /\ current' = n
        /\ running' = n /\ cursor' = next[n] /\ todo' = Erase(n)
    BY DEF Expire, Walking, Begin, links
  <1>2. /\ Lists(r, k, s, m) /\ Nexts(r, 0 .. k) /\ running = END
        /\ n \in On(r, k)
        /\ next[n] # n /\ (next[n] = END \/ next[n] \in On(r, k))
    BY <1>1, Between, PlacesAre
  <1>3. PICK j \in 0 .. k : /\ j < k /\ n = r[j + 1] /\ prev[n] = r[j]
                            /\ j + 1 \in 1 .. k /\ j + 2 \in 0 .. k + 1
                            /\ r[j] \in Places /\ r[j + 2] \in Places
    BY <1>2, Neighbours
  <1>4. next[n] = r[j + 2]
    <2>1. j + 1 \in 0 .. k /\ j + 1 + 1 = j + 2
      BY <1>3
    <2> QED BY <1>2, <1>3, <2>1 DEF Nexts
  <1>5. n \in Offsets /\ prev[n] \in Offsets /\ next[n] \in Offsets
    BY <1>1, <1>3, <1>4, PlacesAre DEF Offsets
  <1> DEFINE E == << >>
  <1>6. E \in Seq(Stores)
    OBVIOUS
  <1>7. todo' = EraseOne(r[j], r[j + 2], n, E)
    BY <1>1, <1>3, <1>4, <1>5, <1>6, EraseIs
  <1>8. Phases(r, k, s, m)'
    <2>1. Nexts(r, 0 .. k)'
      BY <1>1, <1>2 DEF Nexts
    <2> HIDE DEF E
    <2>2. PICK c : c = n
      OBVIOUS
    <2>3. Bypassing(c, E, j, r, k)'
      BY <1>3, <1>7, <2>1, <2>2 DEF Bypassing
    <2>4. ErasedFor(c, E)'
      BY <1>1, <2>2 DEF ErasedFor, E
    <2>5. Erasing(c, E, r, k, s, m)'
      BY <1>1, <2>2, <2>3, <2>4 DEF Erasing
    <2> QED BY <1>1, <1>6, <2>2, <2>5 DEF Phases
  <1> QED
    <2>1. PICK c \in Nodes : c = n
      BY <1>1
    <2>2. /\ running \in {running', c, END} /\ pc' \in {"idle", "walk", "task"} /\ current' = c
          /\ pc' # "idle" => cursor' = END \/ (cursor' \in On(r, k) /\ cursor' # c)
          /\ IF pc' = "task" THEN running' \in Nodes /\ (running' # c => Off(running', r, k, s, m))
                             ELSE running' = END
      BY <1>1, <1>2, <2>1
    <2> QED BY <1>1, <1>8, <2>2, CallBegins

LEMMA TaskEndSound ==
    ASSUME NEW r, NEW k, NEW s, NEW m, SoundAs(r, k, s, m), NEW again \in BOOLEAN, TaskEnd(again)
    PROVE  SoundInv'
  <1>1. PICK n : n = running
    OBVIOUS
  <1>2. /\ todo = << >> /\ pc = "task" /\ pc' = "walk"
        /\ UNCHANGED <<next, prev, below, top, taken, cursor>> /\ current' = n
        /\ running' = END
        /\ todo' = IF again THEN PushBack(n) ELSE PushFree(n)
    BY <1>1 DEF TaskEnd, Begin, links
  <1>3. /\ Lists(r, k, s, m) /\ Nexts(r, 0 .. k) /\ n \in Nodes
        /\ Off(n, r, k, s, m) /\ Orphaned(n)
        /\ cursor = END \/ cursor \in On(r, k)
        /\ prev[END] = r[k] /\ r[k] \in Places /\ top \in Places
    BY <1>1, <1>2, Between
  <1>4. n \in Offsets /\ prev[END] \in Offsets /\ top \in Offsets /\ n # END
    BY <1>3, PlacesAre DEF Offsets
  <1> DEFINE E == << >>
  <1>5. E \in Seq(Stores)
    OBVIOUS
  <1>6. todo' = IF again THEN AppendOne(r[k], n, E) ELSE FreeOne(n, top, E)
    BY <1>2, <1>3, <1>4, <1>5, PushBackIs, PushFreeIs
  <1>7. Nexts(r, 0 .. k)' /\ Off(n, r, k, s, m)'
    BY <1>2, <1>3 DEF Nexts, Off
  <1>8. Phases(r, k, s, m)'
    <2> HIDE DEF E
    <2>1. CASE again
      <3>1. next'[n] \in {n, WILD}
        BY <1>2, <1>3 DEF Orphaned
      <3>2. Appending(n, E, r, k, s, m)'
        BY <1>2, <1>4, <1>6, <1>7, <2>1, <3>1 DEF Appending, E
      <3> QED BY <1>3, <1>5, <3>2 DEF Phases
    <2>2. CASE ~again
      <3>1. Freeing(n, E, r, k, s, m)'
        BY <1>2, <1>4, <1>6, <1>7, <2>2 DEF Freeing, E
      <3> QED BY <1>3, <1>5, <3>1 DEF Phases
    <2> QED BY <2>1, <2>2
  <1>9. /\ running \in {running', n, END} /\ pc' \in {"idle", "walk", "task"}
        /\ pc' # "idle" => cursor' = END \/ (cursor' \in On(r, k) /\ cursor' # n)
        /\ IF pc' = "task" THEN running' \in Nodes /\ (running' # n => Off(running', r, k, s, m))
                           ELSE running' = END
    BY <1>1, <1>2, <1>3 DEF Off
  <1> QED BY <1>2, <1>3, <1>8, <1>9, CallBegins
-----------------------------------------------------------------------------
(* A death. *)

\* What a death leaves: the chain x of m_next and the free stack hold all the
\* nodes that it, or an earlier one, did not take.
LEMMA TornShown ==
    ASSUME NEW r, NEW k, NEW s, NEW m, Lists(r, k, s, m), Accounted(r, k, s, m),
           NEW x, NEW c, Chain(next, next[END], x, c),
           \A n \in On(r, k) : n = current \/ n \in On(x, c),
           \A i \in 1 .. k : next[r[i]] # r[i],
           todo' = << >>, UNCHANGED <<next, prev, below, top>>,
           taken' = taken \cup ({running, current} \ {END})
    PROVE  TornInv'
  <1>1. Lists(r, k, s, m)'
    BY DEF Lists, LinkTypes, Ring, Stack
  <1>2. Chain(next, next[END], x, c)'
    BY DEF Chain
  <1>3. Nodes \ (On(x, c) \cup On(s, m)) \subseteq taken'
    <2> SUFFICES ASSUME NEW n \in Nodes, n \notin On(x, c), n \notin On(s, m)
                 PROVE  n \in taken'
      OBVIOUS
    <2>1. n # END
      BY PlacesAre
    <2>2. CASE n = current
      BY <2>1, <2>2
    <2>3. CASE n # current
      <3>1. Off(n, r, k, s, m)
        BY <2>3 DEF Off
      <3>2. n \in taken \cup {running}
        BY <2>3, <3>1 DEF Accounted
      <3> QED BY <2>1, <3>2
    <2> QED BY <2>2, <2>3
  <1>4. TornAs(r, k, s, m, x, c)'
    BY <1>1, <1>2, <1>3 DEF TornAs
  <1>5. /\ r \in [Nat -> Places \cup {WILD}] /\ s \in [Nat -> Places \cup {WILD}]
        /\ x \in [Nat -> Places \cup {WILD}] /\ k \in Nat /\ m \in Nat /\ c \in Nat
    BY ListFacts DEF Chain
  <1> QED BY <1>4, <1>5 DEF TornInv

\* Where m_next leads along the list, the list is the chain.
LEMMA WholeChain ==
    ASSUME NEW r, NEW k, NEW s, NEW m, Lists(r, k, s, m), Nexts(r, 0 .. k)
    PROVE  /\ Chain(next, next[END], r, k)
           /\ \A i \in 1 .. k : next[r[i]] # r[i]
  <1>1. /\ k \in Nat /\ r \in [Nat -> Places \cup {WILD}] /\ r[0] = END /\ r[k + 1] = END
        /\ \A i \in 1 .. k : r[i] \in Nodes
        /\ \A i, j \in 1 .. k : r[i] = r[j] => i = j
    BY DEF Lists, Ring, Row
  <1>2. END \notin Nodes
    BY PlacesAre
  <1>3. r[1] = next[END]
    <2>1. 0 \in 0 .. k /\ 0 + 1 = 1
      BY <1>1
    <2> QED BY <1>1, <2>1 DEF Nexts
  <1>4. \A i \in 1 .. k : next[r[i]] = r[i + 1]
    <2>1. \A i \in 1 .. k : i \in 0 .. k
      BY <1>1
    <2> QED BY <2>1 DEF Nexts
  <1>5. \A i \in 1 .. k : r[i + 1] # r[i]
    <2> TAKE i \in 1 .. k
    <2>1. i = k \/ (i + 1 \in 1 .. k /\ i + 1 # i)
      BY <1>1
    <2> QED BY <1>1, <1>2, <2>1
  <1> QED BY <1>1, <1>2, <1>3, <1>4, <1>5 DEF Chain

\* The last node leads to the one that was being appended: the walk finds it, too.
Reached(r, k, n) == [i \in Nat |-> IF i <= k THEN r[i] ELSE IF i = k + 1 THEN n ELSE next[n]]

LEMMA HalfChain ==
    ASSUME NEW r, NEW k, NEW s, NEW m, Lists(r, k, s, m), NEW n, Off(n, r, k, s, m),
           HalfAppended(n, r, k, {n, WILD, END})
    PROVE  /\ \E x, c : /\ Chain(next, next[END], x, c)
                        /\ \A q \in On(r, k) : q \in On(x, c)
           /\ \A i \in 1 .. k : next[r[i]] # r[i]
  <1> DEFINE x == Reached(r, k, n)
  <1>1. /\ k \in Nat /\ r \in [Nat -> Places \cup {WILD}] /\ r[0] = END
        /\ \A i \in 1 .. k : r[i] \in Nodes
        /\ \A i, j \in 1 .. k : r[i] = r[j] => i = j
    BY DEF Lists, Ring, Row
  <1>2. END \notin Nodes /\ WILD \notin Nodes /\ n \in Nodes /\ \A i \in 1 .. k : r[i] # n
    BY PlacesAre DEF Off, On
  <1>3. /\ \A i \in 1 .. k : x[i] = r[i]
        /\ x[k + 1] = n /\ x[k + 2] = next[n]
    BY <1>1 DEF Reached
  <1>4. x \in [Nat -> Places \cup {WILD}]
    <2>1. n \in Places \cup {WILD} /\ next[n] \in Places \cup {WILD}
      BY <1>2, PlacesAre DEF HalfAppended
    <2> QED BY <1>1, <2>1 DEF Reached
  <1> HIDE DEF x
  <1>5. /\ \A i \in 0 .. k : i # k => next[r[i]] = r[i + 1]
        /\ next[r[k]] = n /\ next[n] \in {n, WILD, END}
    BY DEF HalfAppended, Nexts
  <1>6. x[1] = next[END]
    <2>1. CASE k = 0
      BY <1>1, <1>3, <1>5, <2>1
    <2>2. CASE k # 0
      <3>1. 0 \in 0 .. k /\ 0 # k /\ 0 + 1 = 1 /\ 1 \in 1 .. k
        BY <1>1, <2>2
      <3> QED BY <1>1, <1>3, <1>5, <3>1
    <2> QED BY <2>1, <2>2
  <1>7. \A i \in 1 .. k : next[x[i]] = x[i + 1]
    <2> TAKE i \in 1 .. k
    <2>1. i \in 0 .. k /\ (i = k \/ i + 1 \in 1 .. k)
      BY <1>1
    <2> QED BY <1>3, <1>5, <2>1
  <1>8. \A i \in 1 .. k : next[r[i]] # r[i]
    <2> TAKE i \in 1 .. k
    <2>1. i \in 0 .. k /\ (i = k \/ (i + 1 \in 1 .. k /\ i + 1 # i))
      BY <1>1
    <2> QED BY <1>1, <1>2, <1>5, <2>1
  <1>9. \E c : Chain(next, next[END], x, c) /\ \A q \in On(r, k) : q \in On(x, c)
    <2>1. CASE next[n] = n
      <3>1. Chain(next, next[END], x, k)
        BY <1>1, <1>2, <1>3, <1>4, <1>6, <1>7, <2>1 DEF Chain
      <3>2. \A q \in On(r, k) : q \in On(x, k)
        BY <1>3 DEF On
      <3> QED BY <3>1, <3>2
    <2>2. CASE next[n] # n
      <3>1. \A i \in 1 .. k + 1 : i \in 1 .. k \/ i = k + 1
        BY <1>1
      <3>2. k + 1 \in Nat /\ k + 1 + 1 = k + 2 /\ \A i \in 1 .. k : i \in 1 .. k + 1
        BY <1>1
      <3>3. \A i \in 1 .. k + 1 : x[i] \in Nodes /\ next[x[i]] = x[i + 1]
        BY <1>1, <1>2, <1>3, <1>7, <3>1, <3>2
      <3>4. \A i, j \in 1 .. k + 1 : x[i] = x[j] => i = j
        BY <1>1, <1>2, <1>3, <3>1
      <3>5. x[k + 1 + 1] \notin Nodes
        BY <1>2, <1>3, <1>5, <2>2, <3>2
      <3>6. Chain(next, next[END], x, k + 1)
        BY <1>4, <1>6, <3>2, <3>3, <3>4, <3>5 DEF Chain
      <3>7. \A q \in On(r, k) : q \in On(x, k + 1)
        BY <1>3, <3>2 DEF On
      <3> QED BY <3>6, <3>7
    <2> QED BY <2>1, <2>2
  <1> QED BY <1>8, <1>9

\* The node that was being erased is out of the chain of m_next, no other is.
LEMMA BypassedChain ==
    ASSUME NEW r, NEW g \in Nat, NEW s, NEW m, Lists(r, g + 1, s, m), NEW j \in 0 .. g,
           Nexts(r, (0 .. g + 1) \ {j}), next[r[j]] = r[j + 2]
    PROVE  /\ Chain(next, next[END], Cut(r, j + 1), g)
           /\ \A q \in On(r, g + 1) : q = r[j + 1] \/ q \in On(Cut(r, j + 1), g)
           /\ \A i \in 1 .. g + 1 : next[r[i]] # r[i]
  <1> DEFINE x == Cut(r, j + 1)
  <1>1. /\ r \in [Nat -> Places \cup {WILD}] /\ r[0] = END /\ r[g + 2] = END /\ g + 1 \in Nat
        /\ \A i \in 1 .. g + 1 : r[i] \in Nodes
        /\ \A i, h \in 1 .. g + 1 : r[i] = r[h] => i = h
    BY DEF Lists, Ring, Row
  <1>2. Row(x, g) /\ On(x, g) = On(r, g + 1) \ {r[j + 1]}
    <2>1. Row(r, g + 1) /\ j + 1 \in 1 .. g + 1
      BY DEF Lists, Ring
    <2> QED BY <2>1, RowCut
  <1>3. /\ \A i \in Nat : i <= j => x[i] = r[i]
        /\ \A i \in Nat : i > j => x[i] = r[i + 1]
    BY DEF Cut
  <1> HIDE DEF x
  <1>4. \A i \in 0 .. g + 1 : i # j => next[r[i]] = r[i + 1]
    BY DEF Nexts
  <1>5. x[1] = next[END]
    <2>1. CASE j = 0
      <3>1. x[1] = r[1 + 1] /\ next[r[0]] = r[0 + 2] /\ 1 + 1 = 2 /\ 0 + 2 = 2
        BY <1>3, <2>1
      <3> QED BY <1>1, <3>1
    <2>2. CASE j # 0
      <3>1. 0 \in 0 .. g + 1 /\ 1 \in Nat /\ 1 <= j /\ 0 + 1 = 1
        BY <2>2
      <3> QED BY <1>1, <1>3, <1>4, <2>2, <3>1
    <2> QED BY <2>1, <2>2
  <1>6. \A i \in 1 .. g : next[x[i]] = x[i + 1]
    <2> TAKE i \in 1 .. g
    <2>1. CASE i < j
      <3>1. i \in 0 .. g + 1 /\ i # j /\ i \in Nat /\ i + 1 \in Nat /\ i <= j /\ i + 1 <= j
        BY <2>1
      <3> QED BY <1>3, <1>4, <3>1
    <2>2. CASE i = j
      <3>1. i \in Nat /\ i + 1 \in Nat /\ i <= j /\ i + 1 > j /\ i + 1 + 1 = j + 2
        BY <2>2
      <3> QED BY <1>3, <2>2, <3>1
    <2>3. CASE i > j
      <3>1. i \in Nat /\ i + 1 \in Nat /\ i > j /\ i + 1 > j /\ i + 1 \in 0 .. g + 1 /\ i + 1 # j
        BY <2>3
      <3> QED BY <1>3, <1>4, <3>1
    <2> QED BY <2>1, <2>2, <2>3
  <1>7. Chain(next, next[END], x, g)
    BY <1>2, <1>5, <1>6, PlacesAre DEF Chain, Row
  <1>8. ASSUME NEW i \in 1 .. g + 1 PROVE next[r[i]] # r[i]
    <2>1. CASE i = j
      <3>1. next[r[i]] = r[i + 2] /\ (i + 2 = g + 2 \/ (i + 2 \in 1 .. g + 1 /\ i + 2 # i))
        BY <2>1
      <3> QED BY <1>1, <3>1, PlacesAre
    <2>2. CASE i # j
      <3>1. i \in 0 .. g + 1 /\ (i + 1 = g + 2 \/ (i + 1 \in 1 .. g + 1 /\ i + 1 # i))
        OBVIOUS
      <3> QED BY <1>1, <1>4, <2>2, <3>1, PlacesAre
    <2> QED BY <2>1, <2>2
  <1> QED BY <1>2, <1>7, <1>8 DEF x

LEMMA DeathTears ==
    ASSUME SoundInv, todo # << >>, Die, list = "sound"
    PROVE  list' = "torn" /\ TornInv'
  <1>1. PICK r, s \in [Nat -> Places \cup {WILD}], k, m \in Nat : SoundAs(r, k, s, m)
    BY DEF SoundInv
  <1>2. /\ Lists(r, k, s, m) /\ Accounted(r, k, s, m) /\ todo' = << >>
        /\ UNCHANGED <<next, prev, below, top>>
        /\ taken' = taken \cup ({running, current} \ {END}) /\ list' = "torn"
    BY <1>1 DEF SoundAs, Die, links
  <1>3. CASE Nexts(r, 0 .. k)
    <2>1. \A n \in On(r, k) : n = current \/ n \in On(r, k)
      OBVIOUS
    <2>2. /\ Chain(next, next[END], r, k)
          /\ \A i \in 1 .. k : next[r[i]] # r[i]
      BY <1>2, <1>3, WholeChain
    <2> QED BY <1>2, <2>1, <2>2, TornShown
  <1>4. ASSUME NEW n, Off(n, r, k, s, m), HalfAppended(n, r, k, {n, WILD, END})
        PROVE  list' = "torn" /\ TornInv'
    <2>1. PICK x, c : /\ Chain(next, next[END], x, c)
                      /\ \A q \in On(r, k) : q \in On(x, c)
      BY <1>2, <1>4, HalfChain
    <2>2. \A i \in 1 .. k : next[r[i]] # r[i]
      BY <1>2, <1>4, HalfChain
    <2>3. \A q \in On(r, k) : q = current \/ q \in On(x, c)
      BY <2>1
    <2> QED BY <1>2, <2>1, <2>2, <2>3, TornShown
  <1>5. ASSUME NEW j \in 0 .. k, j < k, current = r[j + 1],
               Nexts(r, (0 .. k) \ {j}), next[r[j]] = r[j + 2]
        PROVE  list' = "torn" /\ TornInv'
    <2>1. PICK g \in Nat : k = g + 1
      BY <1>5
    <2>2. j \in 0 .. g
      BY <1>5, <2>1
    <2> DEFINE x == Cut(r, j + 1)
    <2>3. /\ Chain(next, next[END], x, g)
          /\ \A q \in On(r, k) : q = r[j + 1] \/ q \in On(x, g)
          /\ \A i \in 1 .. k : next[r[i]] # r[i]
      BY <1>2, <1>5, <2>1, <2>2, BypassedChain
    <2> HIDE DEF x
    <2>4. \A q \in On(r, k) : q = current \/ q \in On(x, g)
      BY <1>5, <2>3
    <2> QED BY <1>2, <2>3, <2>4, TornShown
  <1>6. ~Quiet(r, k)
    BY DEF Quiet
  <1>7. CASE Popping(r, k, s, m)
    BY <1>3, <1>7 DEF Popping
  <1>8. ASSUME NEW n \in Nodes, NEW rest \in Seq(Stores), Appending(n, rest, r, k, s, m)
        PROVE  list' = "torn" /\ TornInv'
    <2>1. Off(n, r, k, s, m) /\ (Nexts(r, 0 .. k) \/ HalfAppended(n, r, k, {n, WILD, END}))
      BY <1>8 DEF Appending, HalfAppended
    <2> QED BY <1>3, <1>4, <2>1
  <1>9. ASSUME NEW n \in Nodes, NEW rest \in Seq(Stores), Erasing(n, rest, r, k, s, m)
        PROVE  list' = "torn" /\ TornInv'
    <2>1. CASE Nexts(r, 0 .. k)
      BY <1>3, <2>1
    <2>2. CASE ~Nexts(r, 0 .. k)
      <3>1. PICK j \in 0 .. k : Bypassing(n, rest, j, r, k) /\ current = n
        BY <1>9, <2>2 DEF Erasing
      <3> QED BY <1>5, <2>2, <3>1 DEF Bypassing
    <2> QED BY <2>1, <2>2
  <1>10. ASSUME NEW n \in Nodes, NEW rest \in Seq(Stores),
                Freeing(n, rest, r, k, s, m) \/ Ending(n, r, k, s, m)
         PROVE  list' = "torn" /\ TornInv'
    BY <1>3, <1>10 DEF Freeing, Ending
  <1>11. Phases(r, k, s, m)
    BY <1>1 DEF SoundAs
  <1> QED BY <1>6, <1>7, <1>8, <1>9, <1>10, <1>11 DEF Phases
-----------------------------------------------------------------------------
(* All steps. *)

LEMMA DueStays == ASSUME due \subseteq Nodes, [Next]_vars PROVE due' \subseteq Nodes
  <1>1. CASE Step
    BY <1>1 DEF Step, Store, WalkFaults, Expire, PassOver, DoBadTimeList, WalkEnd,
                TaskReturns, TaskEnd, TaskEndFaults, Fault
  <1>2. CASE Schedule \/ ScheduleFaults
    BY <1>2 DEF Schedule, ScheduleFaults, Fault
  <1>3. CASE \E n \in Nodes : Cancel(n) \/ CancelFaults(n)
    BY <1>3 DEF Cancel, CancelFaults, Fault
  <1>4. CASE \E d \in SUBSET Nodes : WalkBegin(d)
    BY <1>4 DEF WalkBegin
  <1>5. CASE Die \/ StartAgain
    BY <1>5 DEF Die, StartAgain
  <1>6. CASE UNCHANGED vars
    BY <1>6 DEF vars
  <1> QED BY <1>1, <1>2, <1>3, <1>4, <1>5, <1>6 DEF Next

\* No call and no walk over sound lists meets a failing assert or a bad node.
LEMMA NothingFails ==
    ASSUME NEW r, NEW k, NEW s, NEW m, SoundAs(r, k, s, m), due \subseteq Nodes
    PROVE  /\ ~ScheduleFaults /\ ~WalkFaults /\ ~TaskEndFaults /\ ~StartAgain
           /\ \A n \in Nodes : ~CancelFaults(n)
           /\ todo = << >> => pc # "fault" /\ ~BadNode
  <1>1. pc \in {"idle", "walk", "task"}
    BY DEF SoundAs, Cursor
  <1>2. CASE todo # << >>
    BY <1>1, <1>2 DEF ScheduleFaults, WalkFaults, TaskEndFaults, StartAgain, CancelFaults,
                      MayCall, Walking
  <1>3. CASE todo = << >>
    <2>1. /\ \A n \in On(r, k) : Linked(n) /\ next[n] # n /\ next[n] # WILD
          /\ \A n \in On(s, m) : next[n] = n
          /\ \A n \in Nodes : Off(n, r, k, s, m) => Orphaned(n)
          /\ pc = "task" => Orphaned(running)
          /\ pc # "idle" => cursor = END \/ cursor \in On(r, k)
          /\ top \in Places
      BY <1>3, Between
    <2>2. ~ScheduleFaults
      BY <2>1, PlacesAre DEF ScheduleFaults
    <2>3. ~TaskEndFaults
      BY <2>1 DEF TaskEndFaults
    <2>4. ~StartAgain
      BY <1>1 DEF StartAgain
    <2>5. ASSUME NEW n \in Nodes, CancelFaults(n) PROVE FALSE
      <3>1. n \in On(r, k)
        BY <2>1, <2>5 DEF CancelFaults, IsOrphanNode, IsInStack, Off, Orphaned
      <3> QED BY <2>1, <2>5, <3>1 DEF CancelFaults
    <2>6. Walking => cursor = END \/ (cursor \in On(r, k) /\ Linked(cursor)
                                      /\ ~IsInStack(cursor) /\ ~IsOrphanNode(cursor))
      BY <2>1 DEF Walking, IsInStack, IsOrphanNode
    <2>7. ~WalkFaults
      <3>1. On(r, k) \subseteq Nodes
        BY ListFacts DEF SoundAs
      <3>2. (Walking => cursor # WILD) /\ END \notin due
        BY <2>6, <3>1, PlacesAre
      <3> QED BY <2>6, <3>2, PlacesAre DEF WalkFaults
    <2>8. ~BadNode
      BY <2>6, PlacesAre DEF BadNode
    <2> QED BY <1>1, <2>2, <2>3, <2>4, <2>5, <2>7, <2>8
  <1> QED BY <1>2, <1>3

LEMMA SoundStep ==
    ASSUME SoundInv, due \subseteq Nodes, list = "sound", Next
    PROVE  \/ list' = "sound" /\ SoundInv'
           \/ list' = "torn" /\ TornInv'
  <1>1. PICK r, s \in [Nat -> Places \cup {WILD}], k, m \in Nat : SoundAs(r, k, s, m)
    BY DEF SoundInv
  <1>2. CASE Store
    BY <1>2, StoreSound DEF Store
  <1>3. CASE Expire
    BY <1>1, <1>3, ExpireSound DEF Expire, Begin
  <1>4. ASSUME NEW again \in BOOLEAN, TaskEnd(again) PROVE list' = "sound" /\ SoundInv'
    BY <1>1, <1>4, TaskEndSound DEF TaskEnd, Begin
  <1>5. CASE PassOver
    <2>1. /\ todo = << >> /\ pc = "walk" /\ cursor \in Nodes
          /\ UNCHANGED <<next, prev, below, top, todo, pc, running, current, list, taken>>
          /\ cursor' = next[cursor]
      BY <1>5 DEF PassOver, Walking, links
    <2>2. current = END /\ running = END /\ (next[cursor] = END \/ next[cursor] \in On(r, k))
      BY <1>1, <2>1, Between, PlacesAre
    <2>3. \A n \in Nodes : n \in taken \cup {running} => n \in taken'
      BY <2>1, <2>2, PlacesAre
    <2> QED BY <1>1, <2>1, <2>2, <2>3, StandsStill
  <1>6. CASE WalkEnd
    <2>1. /\ todo = << >> /\ pc = "walk" /\ pc' = "idle"
          /\ UNCHANGED <<next, prev, below, top, todo, running, current, list, taken>>
      BY <1>6 DEF WalkEnd, Walking, links
    <2>2. current = END /\ running = END
      BY <1>1, <2>1, Between
    <2>3. \A n \in Nodes : n \in taken \cup {running} => n \in taken'
      BY <2>1, <2>2, PlacesAre
    <2> QED BY <1>1, <2>1, <2>2, <2>3, StandsStill
  <1>7. ASSUME NEW d \in SUBSET Nodes, WalkBegin(d) PROVE list' = "sound" /\ SoundInv'
    <2>1. /\ todo = << >> /\ pc = "idle" /\ pc' = "walk" /\ cursor' = next[END]
          /\ UNCHANGED <<next, prev, below, top, todo, running, current, list, taken>>
      BY <1>7 DEF WalkBegin, links
    <2>2. current = END /\ running = END /\ (next[END] = END \/ next[END] \in On(r, k))
      BY <1>1, <2>1, Between
    <2>3. \A n \in Nodes : n \in taken \cup {running} => n \in taken'
      BY <2>1, <2>2, PlacesAre
    <2> QED BY <1>1, <2>1, <2>2, <2>3, StandsStill
  <1>8. CASE Schedule
    BY <1>1, <1>8, ScheduleSound DEF Schedule, Begin
  <1>9. ASSUME NEW n \in Nodes, Cancel(n) PROVE list' = "sound" /\ SoundInv'
    BY <1>1, <1>9, CancelSound DEF Cancel, Begin
  <1>10. CASE Die
    <2>1. CASE todo # << >>
      BY <1>10, <2>1, DeathTears
    <2>2. CASE todo = << >>
      <3>1. /\ UNCHANGED <<next, prev, below, top, list>> /\ todo' = << >>
            /\ current' = END /\ running' = END /\ pc' = "idle"
            /\ taken' = taken \cup ({running, current} \ {END})
        BY <1>10, <2>2 DEF Die, links
      <3>2. \A n \in Nodes : n \in taken \cup {running} => n \in taken'
        BY <3>1, PlacesAre
      <3> QED BY <1>1, <2>2, <3>1, <3>2, StandsStill
    <2> QED BY <2>1, <2>2
  <1>11. /\ ~ScheduleFaults /\ ~WalkFaults /\ ~TaskEndFaults /\ ~StartAgain
         /\ \A n \in Nodes : ~CancelFaults(n)
         /\ ~DoBadTimeList
    <2>1. todo = << >> => ~BadNode
      BY <1>1, NothingFails
    <2>2. ~DoBadTimeList
      BY <2>1 DEF DoBadTimeList, BadNode, Walking
    <2> QED BY <1>1, <2>2, NothingFails
  <1> QED BY <1>2, <1>3, <1>4, <1>5, <1>6, <1>7, <1>8, <1>9, <1>10, <1>11 DEF Next, Step, TaskReturns

\* A node that looks free is not on the list of a torn queue.
LEMMA TornFindsNothing ==
    ASSUME NEW r, NEW k, NEW s, NEW m, NEW x, NEW c, TornAs(r, k, s, m, x, c), BadNode
    PROVE  ~Found(cursor)
  <1>1. Found(cursor) <=> cursor \in On(r, k)
    BY PrevChainOn DEF TornAs, Lists
  <1>2. cursor \notin On(r, k)
    BY DEF TornAs, BadNode, IsInStack, On
  <1> QED BY <1>1, <1>2

LEMMA TornStep ==
    ASSUME TornInv, list = "torn", Next
    PROVE  list' = "used" \/ (list' = "torn" /\ TornInv')
  <1>1. PICK r, s, x \in [Nat -> Places \cup {WILD}], k, m, c \in Nat : TornAs(r, k, s, m, x, c)
    BY DEF TornInv
  <1>2. todo = << >>
    BY DEF TornInv
  <1>3. ASSUME UNCHANGED <<next, prev, below, top, list>>, todo' = << >>, taken \subseteq taken'
        PROVE  list' = "torn" /\ TornInv'
    <2>1. TornAs(r, k, s, m, x, c)'
      BY <1>1, <1>3 DEF TornAs, Lists, LinkTypes, Ring, Stack, Chain
    <2> QED BY <1>3, <2>1 DEF TornInv
  <1>4. ASSUME NEW t, NEW n, Begin(t, n) PROVE list' = "used"
    BY <1>4 DEF Begin
  <1>5. CASE Step
    <2>1. ~Store
      BY <1>2 DEF Store
    <2>2. CASE Expire \/ \E again \in BOOLEAN : TaskEnd(again)
      BY <1>4, <2>2 DEF Expire, TaskEnd
    <2>3. CASE PassOver \/ WalkEnd \/ WalkFaults \/ TaskEndFaults
      BY <1>2, <1>3, <2>3 DEF PassOver, WalkEnd, WalkFaults, TaskEndFaults, Fault, links
    <2>4. CASE DoBadTimeList
      <3>1. ~Found(cursor)
        BY <1>1, <2>4, TornFindsNothing DEF DoBadTimeList
      <3> QED BY <1>3, <2>4, <3>1 DEF DoBadTimeList, links
    <2> QED BY <1>5, <2>1, <2>2, <2>3, <2>4 DEF Step, TaskReturns
  <1>6. CASE Schedule \/ \E n \in Nodes : Cancel(n)
    BY <1>4, <1>6 DEF Schedule, Cancel
  <1>7. CASE \/ ScheduleFaults \/ StartAgain
             \/ \E n \in Nodes : CancelFaults(n)
             \/ \E d \in SUBSET Nodes : WalkBegin(d)
    BY <1>2, <1>3, <1>7 DEF ScheduleFaults, CancelFaults, StartAgain, WalkBegin, Fault, links
  <1>8. CASE Die
    BY <1>2, <1>3, <1>8 DEF Die, links
  <1> QED BY <1>5, <1>6, <1>7, <1>8 DEF Next

LEMMA UsedStep ==
    ASSUME list = "used", Next
    PROVE  list' = "used"
  <1>1. CASE Step
    BY <1>1 DEF Step, Store, WalkFaults, Expire, PassOver, DoBadTimeList, WalkEnd,
                TaskReturns, TaskEnd, TaskEndFaults, Fault, Begin
  <1>2. CASE Schedule \/ ScheduleFaults \/ Die \/ StartAgain
    BY <1>2 DEF Schedule, ScheduleFaults, Die, StartAgain, Fault, Begin
  <1>3. CASE \E n \in Nodes : Cancel(n) \/ CancelFaults(n)
    BY <1>3 DEF Cancel, CancelFaults, Fault, Begin
  <1>4. CASE \E d \in SUBSET Nodes : WalkBegin(d)
    BY <1>4 DEF WalkBegin
  <1> QED BY <1>1, <1>2, <1>3, <1>4 DEF Next

LEMMA InitSound == Init => SoundInv
  <1> SUFFICES ASSUME Init PROVE SoundInv
    OBVIOUS
  <1> DEFINE r == [i \in Nat |-> END]
             s == [i \in Nat |-> IF i \in 1 .. Count THEN i ELSE END]
             m == Count
  <1>1. /\ next = [p \in Places |-> p]
        /\ prev = [p \in Places |-> IF p = END THEN END ELSE WILD]
        /\ below = [n \in Nodes |-> IF n = Count THEN TAIL_OF_STACK ELSE n + 1]
        /\ top = 1 /\ todo = << >> /\ pc = "idle" /\ running = END /\ current = END
    BY DEF Init
  <1>2. Count \in Nat /\ Count # 0 /\ m \in Nat
    BY ArrayListAssumption
  <1>3. LinkTypes
    BY <1>1, <1>2 DEF LinkTypes, Places, Nodes, END, WILD, TAIL_OF_STACK
  <1>4. /\ r \in [Nat -> Places \cup {WILD}] /\ s \in [Nat -> Places \cup {WILD}]
    BY <1>2 DEF Places, END, WILD
  <1>5. Ring(r, 0)
    BY <1>1, <1>2, <1>4 DEF Ring, Row, Places, END
  <1>6. Stack(s, m)
    <2>1. \A i \in 1 .. m : s[i] = i /\ s[i] \in Nodes
      BY DEF Nodes
    <2>2. s[m + 1] = END /\ s[1] = 1
      BY <1>2
    <2>3. \A i \in 1 .. m : next[i] = i
      BY <1>1 DEF Places
    <2>4. \A i \in 1 .. m : below[i] = s[i + 1]
      BY <1>1, <1>2 DEF Nodes, END, TAIL_OF_STACK
    <2> HIDE DEF s
    <2> QED BY <1>1, <1>2, <1>4, <2>1, <2>2, <2>3, <2>4 DEF Stack, Row
  <1>7. On(s, m) = Nodes /\ On(r, 0) = {}
    <2>1. \A i \in 1 .. m : s[i] = i
      OBVIOUS
    <2>2. \A i \in 1 .. 0 : FALSE
      OBVIOUS
    <2> HIDE DEF s, r
    <2> QED BY <2>1, <2>2 DEF On, Nodes
  <1> HIDE DEF s, m
  <1>8. Lists(r, 0, s, m)
    BY <1>3, <1>5, <1>6, <1>7 DEF Lists
  <1>9. Quiet(r, 0)
    <2>1. \A i \in 0 .. 0 : i = 0 /\ r[i] = END /\ r[i + 1] = END
      OBVIOUS
    <2>2. next[END] = END
      BY <1>1, PlacesAre
    <2> HIDE DEF r
    <2> QED BY <1>1, <2>1, <2>2 DEF Quiet, Nexts
  <1>10. SoundAs(r, 0, s, m)
    BY <1>1, <1>7, <1>8, <1>9 DEF SoundAs, Accounted, Off, Cursor, Runs, Phases
  <1> HIDE DEF r
  <1> QED BY <1>2, <1>4, <1>10 DEF SoundInv, m

LEMMA StutterSound == ASSUME SoundInv, UNCHANGED vars PROVE SoundInv'
  <1>1. PICK r, s \in [Nat -> Places \cup {WILD}], k, m \in Nat : SoundAs(r, k, s, m)
    BY DEF SoundInv
  <1>2. /\ Lists(r, k, s, m) /\ Accounted(r, k, s, m) /\ Cursor(r, k) /\ Runs(r, k, s, m)
        /\ Phases(r, k, s, m)
    BY <1>1 DEF SoundAs
  <1>3. UNCHANGED <<next, prev, below, top, todo, pc, cursor, running, current, taken>>
    BY DEF vars, links
  <1>4. Lists(r, k, s, m)'
    BY <1>2, <1>3 DEF Lists, LinkTypes, Ring, Stack
  <1>5. Accounted(r, k, s, m)' /\ Cursor(r, k)' /\ Runs(r, k, s, m)'
    BY <1>2, <1>3 DEF Accounted, Off, Orphaned, Cursor, Runs
  <1>6. Phases(r, k, s, m)'
    <2>1. CASE Quiet(r, k) \/ Popping(r, k, s, m)
      BY <1>3, <2>1 DEF Phases, Quiet, Popping, Nexts
    <2>2. ASSUME NEW n \in Nodes, NEW rest \in Seq(Stores), Appending(n, rest, r, k, s, m)
          PROVE  Appending(n, rest, r, k, s, m)'
      BY <1>3, <2>2 DEF Appending, HalfAppended, Nexts, Off
    <2>3. ASSUME NEW n \in Nodes, NEW rest \in Seq(Stores), Erasing(n, rest, r, k, s, m)
          PROVE  Erasing(n, rest, r, k, s, m)'
      BY <1>3, <2>3 DEF Erasing, ErasedFor, Bypassing, Nexts, Off
    <2>4. ASSUME NEW n \in Nodes, NEW rest \in Seq(Stores), Freeing(n, rest, r, k, s, m)
          PROVE  Freeing(n, rest, r, k, s, m)'
      BY <1>3, <2>4 DEF Freeing, Nexts, Off
    <2>5. ASSUME NEW n \in Nodes, Ending(n, r, k, s, m)
          PROVE  Ending(n, r, k, s, m)'
      BY <1>3, <2>5 DEF Ending, Nexts
    <2> QED BY <1>2, <2>1, <2>2, <2>3, <2>4, <2>5 DEF Phases
  <1> QED BY <1>4, <1>5, <1>6, Shown DEF SoundAs

LEMMA StutterTorn == ASSUME TornInv, UNCHANGED vars PROVE TornInv'
  <1>1. PICK r, s, x \in [Nat -> Places \cup {WILD}], k, m, c \in Nat : TornAs(r, k, s, m, x, c)
    BY DEF TornInv
  <1>2. todo' = << >> /\ UNCHANGED <<next, prev, below, top, taken>>
    BY DEF TornInv, vars, links
  <1>3. TornAs(r, k, s, m, x, c)'
    BY <1>1, <1>2 DEF TornAs, Lists, LinkTypes, Ring, Stack, Chain
  <1> QED BY <1>2, <1>3 DEF TornInv

\* The invariant is inductive.
THEOREM InvHolds == Spec => []Inv
  <1>1. Init => Inv
    BY InitSound DEF Init, Inv
  <1>2. Inv /\ [Next]_vars => Inv'
    <2> SUFFICES ASSUME Inv, [Next]_vars PROVE Inv'
      OBVIOUS
    <2>1. due' \subseteq Nodes
      BY DueStays DEF Inv
    <2>2. CASE Next
      <3>1. CASE list = "sound"
        BY <2>1, <2>2, <3>1, SoundStep DEF Inv
      <3>2. CASE list = "torn"
        BY <2>1, <2>2, <3>2, TornStep DEF Inv
      <3>3. CASE list = "used"
        BY <2>1, <2>2, <3>3, UsedStep DEF Inv
      <3> QED BY <3>1, <3>2, <3>3 DEF Inv
    <2>3. CASE UNCHANGED vars
      BY <2>1, <2>3, StutterSound, StutterTorn DEF Inv, vars
    <2> QED BY <2>2, <2>3
  <1> QED BY <1>1, <1>2, PTL DEF Spec
-----------------------------------------------------------------------------
(* What the offsets lead to. *)

\* Between two calls, as long as no death tore the list, both chains of the list
\* go through the same nodes in opposite order, every node is on the list, on the
\* stack, in its task or taken by a death, and nothing has failed: any number of
\* calls of Schedule, Cancel and the walk's own, by tasks or between ticks.
THEOREM SoundListsAgree == Spec => []ChainsAgree
  <1>1. Inv => ChainsAgree
    <2> SUFFICES ASSUME Inv, todo = << >>, list = "sound"
                 PROVE  /\ pc # "fault" /\ ~BadNode
                        /\ \A p \in NextNodes \union {END} : next[p] \in Places /\ prev[next[p]] = p
                        /\ {PrevChain[i] : i \in DOMAIN PrevChain} = NextNodes
                        /\ NextNodes \intersect FreeNodes = {}
                        /\ Nodes \ (NextNodes \union FreeNodes) \subseteq taken \union {running}
      BY DEF ChainsAgree
    <2>1. PICK r, s \in [Nat -> Places \cup {WILD}], k, m \in Nat : SoundAs(r, k, s, m)
      BY DEF Inv, SoundInv
    <2>2. /\ Lists(r, k, s, m) /\ Nexts(r, 0 .. k)
          /\ \A n \in Nodes : Off(n, r, k, s, m) => n \in taken \cup {running}
      BY <2>1, Between
    <2>3. r[k + 1] \notin Nodes /\ r[0] = END
      BY <2>2, ListFacts, PlacesAre
    <2>4. NextNodes = On(r, k)
      BY <2>2, <2>3, WholeChain, NextNodesAre
    <2>5. FreeNodes = On(s, m)
      BY <2>2, FreeNodesAre DEF Lists
    <2>6. {PrevChain[i] : i \in DOMAIN PrevChain} = On(r, k)
      BY <2>2, PrevChainOn DEF Lists
    <2>7. ASSUME NEW p \in NextNodes \union {END}
          PROVE  next[p] \in Places /\ prev[next[p]] = p
      <3>1. PICK i \in 0 .. k : p = r[i]
        <4>1. CASE p = END
          <5>1. 0 \in 0 .. k
            OBVIOUS
          <5> QED BY <2>3, <4>1, <5>1
        <4>2. CASE p \in On(r, k)
          <5>1. \A i \in 1 .. k : i \in 0 .. k
            OBVIOUS
          <5> QED BY <4>2, <5>1 DEF On
        <4> QED BY <2>4, <2>7, <4>1, <4>2
      <3>2. next[p] = r[i + 1] /\ prev[r[i + 1]] = r[i]
        BY <2>2, <3>1 DEF Nexts, Lists, Ring
      <3>3. r[i + 1] \in Places
        <4>1. i + 1 \in 0 .. k + 1
          BY <3>1
        <4> QED BY <2>2, <4>1, ListFacts
      <3> QED BY <3>1, <3>2, <3>3
    <2>8. NextNodes \intersect FreeNodes = {}
      BY <2>2, <2>4, <2>5 DEF Lists
    <2>9. Nodes \ (NextNodes \union FreeNodes) \subseteq taken \union {running}
      BY <2>2, <2>4, <2>5 DEF Off
    <2>10. pc # "fault" /\ ~BadNode
      <3>1. pc \in {"idle", "walk", "task"}
        BY <2>1 DEF SoundAs, Cursor
      <3>2. ~BadNode
        BY <2>1, NothingFails DEF Inv
      <3> QED BY <3>1, <3>2
    <2>11. {PrevChain[i] : i \in DOMAIN PrevChain} = NextNodes
      BY <2>4, <2>6
    <2> QED BY <2>7, <2>8, <2>9, <2>10, <2>11
  <1> QED BY <1>1, InvHolds, PTL

\* What array_list.h and the comment at timer_queue.cc:367 take for granted: until
\* a torn list is used again, the chain of m_prev is whole between any two stores.
THEOREM PrevChainIsWhole == Spec => []PrevChainStaysWhole
  <1>1. Inv => PrevChainStaysWhole
    <2> SUFFICES ASSUME Inv, list # "used"
                 PROVE  /\ Len(PrevChain) <= Count
                        /\ (PrevChain # << >> => prev[PrevChain[Len(PrevChain)]] = END)
      BY DEF PrevChainStaysWhole
    <2>1. \E r, k : Ring(r, k)
      BY DEF Inv, SoundInv, SoundAs, TornInv, TornAs, Lists
    <2> QED BY <2>1, PrevChainOn
  <1> QED BY <1>1, InvHolds, PTL

\* A death between any two stores of any call costs no node but those that were
\* being moved or run: all others are still on the stack or found by the walk.
THEOREM OnlyMovedNodesAreLost == Spec => []DeathCostsMovedNodes
  <1>1. Inv => DeathCostsMovedNodes
    <2> SUFFICES ASSUME Inv, list # "used", todo = << >>
                 PROVE  Nodes \ (NextNodes \union FreeNodes) \subseteq taken \union {running}
      BY DEF DeathCostsMovedNodes
    <2>1. CASE list = "sound"
      <3>1. PICK r, s \in [Nat -> Places \cup {WILD}], k, m \in Nat : SoundAs(r, k, s, m)
        BY <2>1 DEF Inv, SoundInv
      <3>2. /\ Lists(r, k, s, m) /\ Nexts(r, 0 .. k)
            /\ \A n \in Nodes : Off(n, r, k, s, m) => n \in taken \cup {running}
        BY <3>1, Between
      <3>3. On(r, k) \subseteq NextNodes
        BY <3>2, WholeChain, NextNodesAre
      <3>4. FreeNodes = On(s, m)
        BY <3>2, FreeNodesAre DEF Lists
      <3> QED BY <3>2, <3>3, <3>4 DEF Off
    <2>2. CASE list = "torn"
      <3>1. PICK r, s, x \in [Nat -> Places \cup {WILD}], k, m, c \in Nat : TornAs(r, k, s, m, x, c)
        BY <2>2 DEF Inv, TornInv
      <3>2. /\ Stack(s, m) /\ Chain(next, next[END], x, c)
            /\ Nodes \ (On(x, c) \cup On(s, m)) \subseteq taken
        BY <3>1 DEF TornAs, Lists
      <3>3. On(x, c) \subseteq NextNodes /\ FreeNodes = On(s, m)
        BY <3>2, NextNodesAre, FreeNodesAre
      <3> QED BY <3>2, <3>3
    <2> QED BY <2>1, <2>2 DEF Inv
  <1> QED BY <1>1, InvHolds, PTL

\* DoBadTimeList never finds the node it is called for in a torn list: that node
\* is not on the chain of m_prev, so the repair is never made.
THEOREM NothingIsRepaired == Spec => []RepairFindsNothing
  <1>1. Inv => RepairFindsNothing
    <2> SUFFICES ASSUME Inv, BadNode, list = "torn"
                 PROVE  ~Found(cursor)
      BY DEF RepairFindsNothing
    <2> QED BY TornFindsNothing DEF Inv, TornInv
  <1> QED BY <1>1, InvHolds, PTL
=============================================================================
