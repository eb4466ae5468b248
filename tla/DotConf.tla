------------------------------- MODULE DotConf -------------------------------
(***************************************************************************)
(* DOTCONFDocument::setContent (common/config/dotconfpp.{h,cc}), through   *)
(* which ConfigReader reads a configuration: it parses the main file line  *)
(* by line into a list of nodes with links between them, checks it, then   *)
(* goes through the list, which grows while it does, and parses every file *)
(* that a DOTCONFPPIncludeFile node names.                                 *)
(*                                                                         *)
(* A file is a sequence of lines as cleanupLine leaves them: the words, in *)
(* order, and how the line ends.  A word is "<name", "</name", a plain     *)
(* word or a macro "${name}", and may end in ">".  Words live in the       *)
(* document's AsyncMemPool until its next free(): each carries the number  *)
(* of calls of free() before it, and the file it stands in.                *)
(***************************************************************************)
EXTENDS Integers, Sequences, SequencesExt, FiniteSets

CONSTANTS Documents,        \* what the files may contain: name -> lines
          Env,              \* the variables getenv knows
          RequiredOptions   \* requiredOptions

MAIN == "main"
INCLUDE == "DOTCONFPPIncludeFile"

\* Ends of a line: a newline, a backslash before it, an open quote.
Ends == {"end", "continued", "unterminated"}

Word == [tag : {"open", "close", "macro", "plain"}, is : STRING, gt : BOOLEAN]
TextLine == [words : Seq(Word), ends : Ends]

ASSUME DocumentsAssumption ==
    \A d \in Documents : MAIN \in DOMAIN d /\ \A f \in DOMAIN d : d[f] \in Seq(TextLine)

VARIABLES
    files,                      \* the files on disk
    nodeTree, curParent, curPrev,   \* the nodes, 0 is NULL
    words, newNode,             \* words not yet parsed; the next begins a node
    processedFiles,
    round,                      \* calls of mempool->free()
    file, at, from,     \* parseFile: its file, its place in it, its first node
    i, vi,              \* setContent: the node and the value it is at
    ret, pc,
    open, misnested     \* history: tags open in the text, and one closed out of turn

text == <<open, misnested>>
place == <<file, at, from, i, vi>>
vars == <<files, nodeTree, curParent, curPrev, words, newNode, processedFiles, round,
          place, ret, pc, text>>

-----------------------------------------------------------------------------
(* parseFile reads a line. *)

Line == files[file][at]
Reading(ends) == pc = "read" /\ at <= Len(files[file]) /\ Line.ends = ends
Pending == words \o [k \in DOMAIN Line.words |->
                        [word |-> Line.words[k], round |-> round, of |-> file]]

\* An open quote: parseFile and setContent give up.
ReadUnterminated ==
    /\ Reading("unterminated")
    /\ words' = Pending
    /\ ret' = -1 /\ pc' = "done"
    /\ UNCHANGED <<files, nodeTree, curParent, curPrev, newNode, processedFiles, round,
                   place, text>>

\* Mutant: the pool is freed after every line of the file.
RoundPerLine == round + 1

RoundAfterPart == round

\* The words wait for the next line.
ReadContinued ==
    /\ Reading("continued")
    /\ words' = Pending
    /\ ret' = 1
    /\ at' = at + 1
    /\ round' = RoundAfterPart
    /\ UNCHANGED <<files, nodeTree, curParent, curPrev, newNode, processedFiles, file, from,
                   i, vi, pc, text>>

ReadLine ==
    /\ Reading("end")
    /\ words' = Pending
    /\ newNode' = TRUE
    /\ ret' = 0
    /\ pc' = IF Pending = << >> THEN "read" ELSE "words"
    /\ at' = at + 1
    /\ UNCHANGED <<files, nodeTree, curParent, curPrev, processedFiles, round, file, from,
                   i, vi, text>>

\* The main file is not checked if its last line is to be continued: setContent
\* returns 1, which is not the -1 that ConfigReader::SetSource looks for.
FileEnd ==
    /\ pc = "read"
    /\ at > Len(files[file])
    /\ pc' = IF file = MAIN /\ ret # 0 THEN "done" ELSE "check"
    /\ at' = from
    /\ UNCHANGED <<files, nodeTree, curParent, curPrev, words, newNode, processedFiles, round,
                   file, from, i, vi, ret, text>>

-----------------------------------------------------------------------------
(* parseLine takes one word after the other. *)

\* Mutant: the first tag of that name is closed.
FirstMatch(s) == Min(s)

\* The last tag of that name that is not closed.
LastMatch(s) == Max(s)

\* A word begins a node if it is the first of its line, begins with "<" or
\* follows a ">"; otherwise it is a value.
Begins == newNode \/ Head(words).word.tag \in {"open", "close"}

TakeWord ==
    /\ pc = "words" /\ words # << >>
    /\ words' = Tail(words)
    /\ newNode' = Head(words).word.gt
    /\ UNCHANGED <<files, processedFiles, place, round>>

OpenNamed(name) == {n \in DOMAIN nodeTree : nodeTree[n].name = name /\ ~nodeTree[n].closed}

\* In the text, the tag that is open innermost has that name.
ClosesInTurn == open # << >> /\ nodeTree[Head(open)].name = Head(words).word.is

CloseTag ==
    /\ TakeWord
    /\ Head(words).word.tag = "close"
    /\ OpenNamed(Head(words).word.is) # {}
    /\ LET n == LastMatch(OpenNamed(Head(words).word.is))
       IN  /\ nodeTree' = [nodeTree EXCEPT ![n].closed = TRUE]
           /\ curParent' = nodeTree[n].parent
           /\ curPrev' = n
    /\ open' = IF ClosesInTurn THEN Tail(open) ELSE open
    /\ misnested' = (misnested \/ ~ClosesInTurn)
    /\ UNCHANGED <<ret, pc>>

CloseUnmatched ==
    /\ TakeWord
    /\ Head(words).word.tag = "close"
    /\ OpenNamed(Head(words).word.is) = {}
    /\ ret' = -1 /\ pc' = "done"
    /\ UNCHANGED <<nodeTree, curParent, curPrev, text>>

Node(w, parent) ==
    [name |-> w.is, closed |-> w.tag # "open", parent |-> parent, next |-> 0, child |-> 0,
     values |-> << >>, within |-> IF open = << >> THEN 0 ELSE Head(open)]

\* Child of the node before it if that is still open, else behind curPrev.
NewNode ==
    /\ TakeWord
    /\ Begins /\ Head(words).word.tag # "close"
    /\ LET w == Head(words).word
           n == Len(nodeTree) + 1
       IN  /\ \/ /\ nodeTree = << >>
                 /\ nodeTree' = <<Node(w, 0)>>
                 /\ UNCHANGED curParent
              \/ /\ nodeTree # << >> /\ Last(nodeTree).closed
                 /\ nodeTree' = Append([nodeTree EXCEPT ![curPrev].next = n], Node(w, curParent))
                 /\ UNCHANGED curParent
              \/ /\ nodeTree # << >> /\ ~Last(nodeTree).closed
                 /\ nodeTree' = Append([nodeTree EXCEPT ![n - 1].child = n], Node(w, n - 1))
                 /\ curParent' = n - 1
           /\ curPrev' = n
           /\ open' = IF w.tag = "open" THEN <<n>> \o open ELSE open
    /\ UNCHANGED <<ret, pc, misnested>>

AddValue ==
    /\ TakeWord
    /\ ~Begins
    /\ nodeTree' = [nodeTree EXCEPT ![Len(nodeTree)].values =
            Append(@, [macro |-> Head(words).word.tag = "macro", is |-> Head(words).word.is])]
    /\ UNCHANGED <<curParent, curPrev, ret, pc, text>>

LineEnd ==
    /\ pc = "words" /\ words = << >>
    /\ round' = round + 1
    /\ pc' = "read"
    /\ UNCHANGED <<files, nodeTree, curParent, curPrev, words, newNode, processedFiles, place,
                   ret, text>>

-----------------------------------------------------------------------------
(* checkConfig goes through the nodes of the file just parsed. *)

\* getSubstitution: from the environment, else from the first node of that name
\* that has a value; none is an error.
Sources(name) == {n \in DOMAIN nodeTree : nodeTree[n].name = name /\ nodeTree[n].values # << >>}
Found(name) == name \in Env \/ Sources(name) # {}
Substitution(name) ==
    IF name \in Env THEN [macro |-> FALSE, is |-> name]
    ELSE nodeTree[Min(Sources(name))].values[1]

Macros(n) == {k \in DOMAIN nodeTree[n].values : nodeTree[n].values[k].macro}

Passes(n) == nodeTree[n].closed /\ \A k \in Macros(n) : Found(nodeTree[n].values[k].is)

\* Each macro frees the pool.
CheckNode ==
    /\ pc = "check" /\ at <= Len(nodeTree)
    /\ Passes(at)
    /\ nodeTree' = [nodeTree EXCEPT ![at].values = [k \in DOMAIN @ |->
            IF @[k].macro THEN Substitution(@[k].is) ELSE @[k]]]
    /\ round' = round + Cardinality(Macros(at))
    /\ at' = at + 1
    /\ UNCHANGED <<files, curParent, curPrev, words, newNode, processedFiles, file, from, i, vi,
                   ret, pc, text>>

CheckFails ==
    /\ pc = "check" /\ at <= Len(nodeTree)
    /\ ~Passes(at)
    /\ ret' = -1 /\ pc' = "done"
    /\ UNCHANGED <<files, nodeTree, curParent, curPrev, words, newNode, processedFiles, round,
                   place, text>>

CheckEnd ==
    /\ pc = "check" /\ at > Len(nodeTree)
    /\ pc' = "include"
    /\ UNCHANGED <<files, nodeTree, curParent, curPrev, words, newNode, processedFiles, round,
                   place, ret, text>>

-----------------------------------------------------------------------------
(* setContent goes through the nodes. *)

AtNode == pc = "include" /\ i <= Len(nodeTree)
AtValue == AtNode /\ nodeTree[i].name = INCLUDE /\ vi <= Len(nodeTree[i].values)
Target == nodeTree[i].values[vi].is

Processed(f) == Contains(processedFiles, f)

\* access, realpath or fopen fails.
IncludeMissing ==
    /\ AtValue
    /\ Target \notin DOMAIN files
    /\ ret' = -1 /\ pc' = "done"
    /\ UNCHANGED <<files, nodeTree, curParent, curPrev, words, newNode, processedFiles, round,
                   place, text>>

\* Mutant: if for while, the values after the first are never looked at.
ValueNeverReached == Len(nodeTree[i].values) + 1

NextValue == vi + 1

Include ==
    /\ AtValue
    /\ Target \in DOMAIN files
    /\ ~Processed(Target)
    /\ processedFiles' = Append(processedFiles, Target)
    /\ file' = Target /\ at' = 1 /\ from' = Len(nodeTree) + 1
    /\ curParent' = 0
    /\ ret' = 0 /\ pc' = "read"
    /\ vi' = NextValue
    /\ UNCHANGED <<files, nodeTree, curPrev, words, newNode, round, i, text>>

\* Mutant: a file that was read already is looked at again and again.
NextPlaceStays == i

NextPlace == i + 1

\* The file was read already: break, the other values of the node are passed over.
IncludeAgain ==
    /\ AtValue
    /\ Target \in DOMAIN files
    /\ Processed(Target)
    /\ i' = NextPlace /\ vi' = 1
    /\ UNCHANGED <<files, nodeTree, curParent, curPrev, words, newNode, processedFiles, round,
                   file, at, from, ret, pc, text>>

NextNode ==
    /\ AtNode
    /\ ~AtValue
    /\ i' = i + 1 /\ vi' = 1
    /\ UNCHANGED <<files, nodeTree, curParent, curPrev, words, newNode, processedFiles, round,
                   file, at, from, ret, pc, text>>

Missing == {o \in RequiredOptions : \A n \in DOMAIN nodeTree : nodeTree[n].name # o}

\* checkRequiredOptions.
Finish ==
    /\ pc = "include"
    /\ i > Len(nodeTree)
    /\ ret' = IF RequiredOptions = {} THEN ret ELSE IF Missing = {} THEN 0 ELSE -1
    /\ pc' = "done"
    /\ UNCHANGED <<files, nodeTree, curParent, curPrev, words, newNode, processedFiles, round,
                   place, text>>

Init ==
    /\ files \in Documents
    /\ nodeTree = << >> /\ curParent = 0 /\ curPrev = 0
    /\ open = << >> /\ misnested = FALSE
    /\ words = << >> /\ newNode = TRUE /\ round = 0
    /\ file = MAIN /\ at = 1 /\ from = 1 /\ i = 1 /\ vi = 1
    /\ \/ processedFiles = <<MAIN>> /\ ret = 0 /\ pc = "read"
       \* realpath or fopen fails.
       \/ processedFiles \in {<< >>, <<MAIN>>} /\ ret = -1 /\ pc = "done"

Next ==
    \/ ReadUnterminated \/ ReadContinued \/ ReadLine \/ FileEnd
    \/ CloseTag \/ CloseUnmatched \/ NewNode \/ AddValue \/ LineEnd
    \/ CheckNode \/ CheckFails \/ CheckEnd
    \/ IncludeMissing \/ Include \/ IncludeAgain \/ NextNode
    \/ Finish

\* A single thread that runs to the end.
Spec == Init /\ [][Next]_vars /\ WF_vars(Next)

-----------------------------------------------------------------------------
(* Properties. *)

\* The file ends in the middle of a line.
CutShort(f) == files[f] # << >> /\ Last(files[f]).ends = "continued"

\* The files a node includes.
Named(n) == IF nodeTree[n].name = INCLUDE THEN nodeTree[n].values ELSE << >>

\* It is the main file, or was named before.
Repeated(n, k) ==
    \/ Named(n)[k].is = MAIN
    \/ \E m \in 1 .. n : \E l \in DOMAIN Named(m) :
          (m < n \/ l < k) /\ Named(m)[l].is = Named(n)[k].is

Complete ==
    /\ \A n \in DOMAIN nodeTree :
          /\ nodeTree[n].closed
          /\ \A k \in DOMAIN Named(n) :
                Processed(Named(n)[k].is) \/ \E j \in 1 .. k - 1 : Repeated(n, j)
    /\ Missing = {}

\* A document that setContent does not refuse has no open tag, has the options it
\* must have, and has looked into every file that any of its nodes names, except
\* those that a node names behind a file named before (dotconfpp.cc:386).  A main
\* file whose last line is to be continued need be none of that (dotconfpp.cc:356),
\* but 0 is never returned for it.
AcceptedIsComplete ==
    pc = "done" /\ ret # -1 => Complete \/ (ret = 1 /\ CutShort(MAIN))

\* Where tags are closed in turn, a node's parent is the tag it stands in, and
\* its next node is the next one in that tag, in included files too: curParent
\* and curPrev survive the jump from file to file (dotconfpp.cc:238).
LinksFollowTheText ==
    ~misnested =>
        \A n \in DOMAIN nodeTree :
            LET later == {m \in n + 1 .. Len(nodeTree) : nodeTree[m].parent = nodeTree[n].parent}
                inside == {m \in n + 1 .. Len(nodeTree) : nodeTree[m].parent = n}
            IN  /\ nodeTree[n].parent = nodeTree[n].within
                /\ nodeTree[n].next = IF later = {} THEN 0 ELSE Min(later)
                /\ nodeTree[n].child = IF inside = {} THEN 0 ELSE Min(inside)

\* An included file that was read to its end in the middle of a line.
LeftHanging(f) == f # MAIN /\ CutShort(f) /\ (pc \in {"read", "words"} => file # f)

\* The words that wait are still in the pool: parseFile does not free it between
\* the parts of a line.  The one exception are the last words of an included file
\* that was cut short: they wait while checkConfig frees the pool, and become part
\* of the next file's first line (dotconfpp.cc:318).
WordsStayAllocated ==
    \A k \in DOMAIN words : words[k].round = round \/ LeftHanging(words[k].of)

\* setContent comes to its end, also if files include each other.
SetContentEnds == <>(pc = "done")
=============================================================================
