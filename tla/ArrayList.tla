----------------------------- MODULE ArrayList -----------------------------
(***************************************************************************)
(* The lists a timer queue keeps its nodes in (common/jybase/              *)
(* array_list.h), one store of m_next, m_prev or m_top at a time: one      *)
(* bucket, an array_list, and the free stack, a stack_array_list, over the *)
(* same nodes.  Module TimerQueue has a call as one step; here a call is   *)
(* the sequence of its stores, and the process may die between any two of  *)
(* them.  The lists are in shared memory, and resume() (173-175) does      *)
(* nothing: the next process takes them as they are.                       *)
(*                                                                         *)
(* The offsets of the code are node numbers.  m_next = 0 is at once the    *)
(* flag of a node on the stack and an offset to the node itself; m_prev of *)
(* a node on the stack is the number of the one below it, no offset at     *)
(* all.  The stores are taken in the order of the source.                  *)
(***************************************************************************)
EXTENDS Integers, Sequences, FiniteSets

CONSTANTS Count, MaxDeaths

ASSUME ArrayListAssumption == Count \in Nat \ {0} /\ MaxDeaths \in Nat

Nodes == 1 .. Count
END == 0                \* m_base, the header of the list
TAIL_OF_STACK == 0      \* C_TAIL_OF_STACK
WILD == Count + 1       \* ORPHAN_NODE_DIFF, or no offset at all
Places == 0 .. Count

VARIABLES
    next, prev,     \* m_next and m_prev as offsets
    below,          \* m_prev of a node on the stack
    top,            \* m_top
    todo,           \* the stores the call in progress has still to make
    pc, cursor, running, current,   \* CheckTickArray: its place, m_tickIterator,
                    \* the node whose task runs; the node that is moved
    due,            \* the nodes whose time has come in this tick
    held,           \* the nodes whose timer id is kept by some object
    quit,           \* FLAG_QUIT_AFTER_KICK_ALL_USER and FLAG_QUIT_COREDUMP
    list,           \* history: "sound", "torn" by a death, "used" after that
    deaths, taken   \* history: deaths, and the nodes that were on the move then

links == <<next, prev, below, top>>
vars == <<links, todo, pc, cursor, running, current, due, held, quit, list, deaths, taken>>

-----------------------------------------------------------------------------
(* The stores of each operation, in order. *)

Link(p, n) == << <<"next", p, n>>, <<"prev", n, p>> >>

\* Mutant: the header's m_prev is stored first.
PushBackTailFirst(n) ==
    << <<"prev", END, n>>, <<"next", prev[END], n>>, <<"prev", n, prev[END]>>, <<"next", n, END>> >>

PushBack(n) == Link(prev[END], n) \o Link(n, END)

\* Mutant: the node is made an orphan before its neighbours are linked.
EraseOrphanFirst(n) ==
    << <<"prev", n, WILD>>, <<"next", n, WILD>> >> \o Link(prev[n], next[n])

\* SetOrphanNode stores m_prev, then m_next.
Erase(n) == Link(prev[n], next[n]) \o << <<"prev", n, WILD>>, <<"next", n, WILD>> >>

\* Mutant: the top is moved to the node before the node is linked.
PushFreeTopFirst(n) == << <<"top", n, n>>, <<"below", n, top>>, <<"next", n, n>> >>

PushFree(n) == << <<"below", n, top>>, <<"next", n, n>>, <<"top", n, n>> >>

IsInStack(n) == next[n] = n
IsOrphanNode(n) == next[n] = WILD

\* A node that can be erased: AssertNonOrphanNode holds and both offsets lead
\* to places.
Linked(n) == prev[n] \in Places /\ next[n] \in Places

\* One store; m_prev and the stack's link are the same word.
Store ==
    /\ todo # << >>
    /\ LET what == todo[1][1]
           n == todo[1][2]
           v == todo[1][3]
       IN  /\ next' = IF what = "next" THEN [next EXCEPT ![n] = v] ELSE next
           /\ prev' = CASE what = "prev" -> [prev EXCEPT ![n] = v]
                        [] what = "below" -> [prev EXCEPT ![n] = WILD]
                        [] OTHER -> prev
           /\ below' = CASE what = "below" -> [below EXCEPT ![n] = v]
                         [] what = "prev" /\ n # END -> [below EXCEPT ![n] = WILD]
                         [] OTHER -> below
           /\ top' = IF what = "top" THEN v ELSE top
           /\ held' = CASE what = "keep" -> held \union {n}
                        [] what = "drop" -> held \ {n}
                        [] OTHER -> held
    /\ todo' = Tail(todo)
    /\ current' = IF Len(todo) = 1 THEN END ELSE current
    /\ UNCHANGED <<pc, cursor, running, due, quit, list, deaths, taken>>

\* A call begins: its stores are made one by one from here on.
Begin(stores, n) ==
    /\ todo' = stores
    /\ current' = n
    /\ list' = IF list = "torn" THEN "used" ELSE list
    /\ UNCHANGED <<links, quit, deaths, taken>>

\* An assert fails or a pointer leads nowhere.
Fault ==
    /\ pc' = "fault"
    /\ running' = END
    /\ UNCHANGED <<links, todo, cursor, current, due, held, quit, list, deaths, taken>>

-----------------------------------------------------------------------------
(* Schedule and Cancel, called by the main loop or by the task that runs. *)

MayCall == todo = << >> /\ pc \in {"idle", "task"}

\* The caller keeps the id when Schedule returns.  A new timer is not due.
Schedule ==
    /\ MayCall
    /\ top \in Nodes
    /\ Begin(<< <<"top", top, below[top]>> >> \o PushBack(top) \o << <<"keep", top, top>> >>, top)
    /\ held' = held \ {top}
    /\ due' = due \ {top}
    /\ UNCHANGED <<pc, cursor, running>>

ScheduleFaults == MayCall /\ top = WILD /\ Fault

\* Mutant: the cursor of the walk stays on the erased node.
CursorStays(n) == cursor

CursorAfter(n) == IF cursor = n THEN next[n] ELSE cursor

\* An id that names a free node, or one whose task runs, moves nothing.
Cancel(n) ==
    /\ MayCall
    /\ n \in held
    /\ ~IsOrphanNode(n) /\ ~IsInStack(n)
    /\ Linked(n)
    /\ Begin(Erase(n) \o PushFree(n) \o << <<"drop", n, n>> >>, n)
    /\ cursor' = CursorAfter(n)
    /\ UNCHANGED <<pc, running, due, held>>

CancelFaults(n) ==
    /\ MayCall
    /\ n \in held
    /\ ~IsOrphanNode(n) /\ ~IsInStack(n)
    /\ ~Linked(n)
    /\ Fault

-----------------------------------------------------------------------------
(* CheckTickArray. *)

WalkBegin(d) ==
    /\ todo = << >>
    /\ pc = "idle"
    /\ pc' = "walk"
    /\ cursor' = next[END]
    /\ due' = d
    /\ UNCHANGED <<links, todo, running, current, held, quit, list, deaths, taken>>

Walking == todo = << >> /\ pc = "walk"

\* The cursor leads nowhere; or a due node looks free, or half orphaned.
WalkFaults ==
    /\ Walking
    /\ \/ cursor = WILD
       \/ cursor \in Nodes /\ IsOrphanNode(cursor)
       \/ cursor \in due /\ (IsInStack(cursor) \/ ~Linked(cursor))
    /\ Fault

Expire ==
    /\ Walking
    /\ cursor \in due
    /\ ~IsInStack(cursor) /\ Linked(cursor)
    /\ Begin(Erase(cursor), cursor)
    /\ pc' = "task"
    /\ running' = cursor
    /\ cursor' = next[cursor]
    /\ UNCHANGED <<due, held>>

Orphaned(n) == prev[n] = WILD /\ next[n] = WILD

\* The task is over: the node is queued again or freed.  Its next time is later.
TaskEnd(again) ==
    /\ todo = << >>
    /\ pc = "task"
    /\ again \/ Orphaned(running)
    /\ Begin(IF again THEN PushBack(running) ELSE PushFree(running), running)
    /\ pc' = "walk"
    /\ running' = END
    /\ due' = due \ {running}
    /\ UNCHANGED <<cursor, held>>

\* Only an orphan may be freed.
TaskEndFaults == todo = << >> /\ pc = "task" /\ ~Orphaned(running) /\ Fault

PassOver ==
    /\ Walking
    /\ cursor \in Nodes \ due
    /\ ~IsOrphanNode(cursor) /\ ~IsInStack(cursor)
    /\ cursor' = next[cursor]
    /\ UNCHANGED <<links, todo, pc, running, current, due, held, quit, list, deaths, taken>>

\* The chain of m_prev from the header, last node first, at most Count + 1 long.
PrevChain ==
    LET at[i \in 0 .. Count + 1] ==
            IF i = 0 THEN prev[END]
            ELSE IF at[i-1] \in Nodes THEN prev[at[i-1]] ELSE at[i-1]
        last == CHOOSE i \in 0 .. Count + 1 :
                    /\ i = Count + 1 \/ at[i] \notin Nodes
                    /\ \A j \in 0 .. i - 1 : at[j] \in Nodes
    IN  [i \in 1 .. last |-> at[i - 1]]

\* The node before n in the order of m_prev, where DoBadTimeList has found n.
Found(n) == \E i \in DOMAIN PrevChain : PrevChain[i] = n
After(n) ==
    LET i == CHOOSE i \in DOMAIN PrevChain : PrevChain[i] = n
    IN  IF i = 1 THEN END ELSE PrevChain[i - 1]

\* Mutant: the walk goes on although nothing was repaired.
LeaveUnrepaired(n) == "walk"

LeaveWalk(n) == IF Found(n) THEN "walk" ELSE "idle"

\* The next of the node under the cursor is the node itself: DoBadTimeList looks
\* for it on the chain of m_prev and links it again, or has the server quit.
BadNode == Walking /\ cursor \in Nodes \ due /\ IsInStack(cursor)

DoBadTimeList ==
    /\ BadNode
    /\ todo' = IF Found(cursor) THEN Link(cursor, After(cursor)) ELSE << >>
    /\ current' = IF Found(cursor) THEN cursor ELSE END
    /\ quit' = (quit \/ ~Found(cursor))
    /\ pc' = LeaveWalk(cursor)
    /\ UNCHANGED <<links, cursor, running, due, held, list, deaths, taken>>

WalkEnd ==
    /\ Walking
    /\ cursor = END
    /\ pc' = "idle"
    /\ due' = {}
    /\ UNCHANGED <<links, todo, cursor, running, current, held, quit, list, deaths, taken>>

-----------------------------------------------------------------------------
(* The process. *)

\* Ids that were to be kept or dropped by the call in progress are not.
Die ==
    /\ deaths < MaxDeaths
    /\ deaths' = deaths + 1
    /\ taken' = taken \union ({running, current} \ {END})
    /\ list' = IF todo # << >> /\ list = "sound" THEN "torn" ELSE list
    /\ todo' = << >>
    /\ pc' = "idle"
    /\ running' = END
    /\ current' = END
    /\ due' = {}
    /\ quit' = FALSE
    /\ UNCHANGED <<links, cursor, held>>

\* A process that aborted is started again by hand.
StartAgain ==
    /\ pc = "fault"
    /\ pc' = "idle"
    /\ due' = {}
    /\ quit' = FALSE
    /\ UNCHANGED <<links, todo, cursor, running, current, held, list, deaths, taken>>

\* CreateTimerQueue without resume: init (178-181) and reset (350-361).
Init ==
    /\ next = [p \in Places |-> p]
    /\ prev = [p \in Places |-> IF p = END THEN END ELSE WILD]
    /\ below = [n \in Nodes |-> IF n = Count THEN TAIL_OF_STACK ELSE n + 1]
    /\ top = 1
    /\ todo = << >>
    /\ pc = "idle" /\ cursor = END /\ running = END /\ current = END
    /\ due = {} /\ held = {} /\ quit = FALSE
    /\ list = "sound" /\ deaths = 0 /\ taken = {}

\* What the server does by itself once a tick has begun.
TaskReturns == (\E again \in BOOLEAN : TaskEnd(again)) \/ TaskEndFaults

Step ==
    \/ Store
    \/ WalkFaults \/ Expire \/ PassOver \/ DoBadTimeList \/ WalkEnd
    \/ TaskReturns

Next ==
    \/ Step
    \/ Schedule \/ ScheduleFaults
    \/ \E n \in Nodes : Cancel(n) \/ CancelFaults(n)
    \/ \E d \in SUBSET Nodes : WalkBegin(d)
    \/ Die \/ StartAgain

\* A tick that has begun goes on; a task makes finitely many calls and returns.
Spec ==
    /\ Init /\ [][Next]_vars
    /\ WF_vars(Step)
    /\ SF_vars(TaskReturns)

-----------------------------------------------------------------------------
(* Properties. *)

\* The chain of m_next from the header, and the free nodes from the top.
NextNodes ==
    LET at[i \in 0 .. Count] ==
            IF i = 0 THEN next[END] ELSE IF at[i-1] \in Nodes THEN next[at[i-1]] ELSE at[i-1]
    IN  {at[i] : i \in 0 .. Count} \ {END, WILD}
FreeNodes ==
    LET at[i \in 0 .. Count] ==
            IF i = 0 THEN top ELSE IF at[i-1] \in Nodes THEN below[at[i-1]] ELSE at[i-1]
    IN  {at[i] : i \in 0 .. Count} \ {END, WILD}

\* Between two calls, as long as no death tore the list, both chains of the list
\* go through the same nodes in opposite order, and a node is on the list, on the
\* stack, being run, or was taken by a death; the walk, whatever its tasks call,
\* meets no failing assert, stray pointer or bad node.
ChainsAgree ==
    (todo = << >> /\ list = "sound") =>
        /\ pc # "fault" /\ ~BadNode
        /\ \A p \in NextNodes \union {END} : next[p] \in Places /\ prev[next[p]] = p
        /\ {PrevChain[i] : i \in DOMAIN PrevChain} = NextNodes
        /\ NextNodes \intersect FreeNodes = {}
        /\ Nodes \ (NextNodes \union FreeNodes) \subseteq taken \union {running}

\* array_list.h and the comment at timer_queue.cc:367 trust the chain of m_prev:
\* until a torn list is used again, every single store leaves that chain whole,
\* as it was or with one node appended or taken out.
PrevChainStaysWhole ==
    (list # "used") =>
        /\ Len(PrevChain) <= Count
        /\ (PrevChain # << >> => prev[PrevChain[Len(PrevChain)]] = END)

\* A death costs at most the nodes that were being moved: whatever store it
\* falls between, all others are still on the stack or found by the walk.
DeathCostsMovedNodes ==
    (list # "used" /\ todo = << >>) =>
        Nodes \ (NextNodes \union FreeNodes) \subseteq taken \union {running}

\* A walk of a list torn by a death comes to an end, by a fault if need be.  (Not
\* once the torn list has been used: then m_next may lead in a circle of several
\* nodes, which CheckTickArray, looking for circles of one, follows for ever; and
\* not SkipTickArray, which does not look for any, timer_queue.cc:520-523.)
WalkEnds ==
    (pc = "walk" /\ list # "used") ~> (pc \in {"idle", "fault"} \/ list = "used")

\* DoBadTimeList looks for a node whose m_next is itself on the chain of m_prev,
\* which the comment at timer_queue.cc:367 takes for sound.  In a list torn by a
\* death such a node was being appended and is never on that chain: the repair
\* finds nothing and the server is told to quit.
RepairFindsNothing == (BadNode /\ list = "torn") => ~Found(cursor)
=============================================================================
