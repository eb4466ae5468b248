----------------------------- MODULE TimerQueue -----------------------------
(***************************************************************************)
(* CTimerQueue (common/jybase/timer_queue.{h,cc}): a timer wheel.  The     *)
(* nodes are a fixed array; a node is on the free stack, in the bucket of  *)
(* the tick it expires at, or in neither while its task runs.  Buckets are *)
(* the doubly linked lists of array_list.h, here sequences.                *)
(*                                                                         *)
(* Tick walks the bucket of every tick up to the wall clock.  A task runs  *)
(* in the middle of the walk and may schedule and cancel timers, its own   *)
(* and the walk's next one included: between TimeOut and the end of the    *)
(* task the model lets it call what it likes, and the cursor of the walk,  *)
(* m_tickIterator, is part of the state.                                   *)
(*                                                                         *)
(* Everything but s_currentTick, the clock reading and the call in         *)
(* progress lives in shared memory and is taken up by the next process.    *)
(* A call of Schedule or Cancel is one step; the process may die between   *)
(* any two steps of a tick.                                                *)
(***************************************************************************)
EXTENDS Integers, Sequences, SequencesExt, FiniteSets

CONSTANTS Count,            \* m_count: nodes
          BUCKET_COUNT,     \* C_BUCKET_COUNT
          SEQ_LIMIT,        \* the 60000 of StepUpTimerSeq
          WORD,             \* 2^32, the range of uint32
          Handles,          \* the variables in which objects keep timer ids
          Types,            \* timer types
          Delays,           \* the delays Schedule is called with
          Repeats,          \* ... and its pairs <<period, repeat_count>>
          Clocks,           \* wall clock readings, in ticks since the start
          MaxSchedules, MaxCancels, MaxCrashes    \* bounds on the calls

ASSUME TimerAssumption ==
    /\ Count \in Nat \ {0} /\ BUCKET_COUNT \in Nat \ {0}
    /\ SEQ_LIMIT \in Nat /\ SEQ_LIMIT > 2 /\ WORD \in Nat \ {0}
    /\ Types \subseteq Nat /\ Delays \subseteq Nat /\ Repeats \subseteq Nat \X Nat
    /\ Clocks \subseteq Int
    /\ MaxSchedules \in Nat /\ MaxCancels \in Nat /\ MaxCrashes \in Nat

Nodes == 1 .. Count
END == 0                    \* the header of a bucket: end()
Buckets == 0 .. BUCKET_COUNT - 1

\* A timer id names a node, the type it had and how often it was used.
TimerId == [type : Types, pos : Nodes, seq : 1 .. SEQ_LIMIT - 1]
INVALID_TIMER_ID == [type |-> 0, pos |-> 0, seq |-> 0]

VARIABLES
    node,           \* tagTimerNode of each node
    bucket,         \* m_bucket
    freeList,       \* m_freeList, its top first
    tickIterator,   \* m_tickIterator
    currentTick,    \* m_currentTick: the next tick to be walked
    timerCount,     \* m_timerCount
    s_currentTick,  \* what GetCurrentTick returns
    clock,          \* s_currentTimeVal, in ticks since m_systemStart
    pc, mode, target,   \* Tick or SkipTick: its place, which one, currTick
    running,        \* the node whose task runs
    handle,         \* the timer id each object holds
    born,           \* history: how many timers were scheduled before that one
    schedules, cancels, crashes     \* counters for the bounds

shm == <<node, bucket, freeList, tickIterator, currentTick, timerCount>>
bounds == <<schedules, cancels, crashes>>
vars == <<shm, s_currentTick, clock, pc, mode, target, running, handle, born, bounds>>

-----------------------------------------------------------------------------
(* Helpers. *)

Uint32(i) == i % WORD

HashTick(tick) == tick % BUCKET_COUNT

\* Mutant: the sequence number stays as it is.
KeepTimerSeq(seq) == seq

StepUpTimerSeq(seq) == IF seq + 1 >= SEQ_LIMIT THEN 1 ELSE seq + 1

\* Iterators over a bucket.
Begin(list) == IF list = << >> THEN END ELSE Head(list)
Position(list, n) == CHOOSE i \in DOMAIN list : list[i] = n

\* Mutant: the walk ends after a node that is passed over.
NextOfNone(list, n) == END

NextOf(list, n) ==
    IF Position(list, n) = Len(list) THEN END ELSE list[Position(list, n) + 1]
Erase(list, n) == RemoveAt(list, Position(list, n))

BucketOf(n) == HashTick(node[n].expire)
Queued(n) == Contains(bucket[BucketOf(n)], n)
Free(n) == Contains(freeList, n)

\* IsOrphanNode: in no list.
Orphan(n) == ~Queued(n) /\ ~Free(n)

TimerIdOf(n) == [type |-> node[n].type, pos |-> n, seq |-> node[n].seq]

\* m_timerCount never goes below zero.
DecTimerCount(type) ==
    timerCount' = [timerCount EXCEPT ![type] = IF @ <= 0 THEN @ ELSE @ - 1]

\* Calls are made by the main loop between ticks and by the task that runs.
MayCall == pc \in {"idle", "task"}

-----------------------------------------------------------------------------
(* Schedule and Cancel. *)

ScheduleFail(h, period, repeat) ==
    /\ MayCall
    /\ schedules < MaxSchedules
    /\ freeList = << >> \/ (period = 0 /\ repeat > 1)
    /\ handle' = [handle EXCEPT ![h] = INVALID_TIMER_ID]
    /\ schedules' = schedules + 1
    /\ UNCHANGED <<shm, s_currentTick, clock, pc, mode, target, running, cancels, crashes, born>>

Schedule(h, type, delay, period, repeat) ==
    /\ MayCall
    /\ schedules < MaxSchedules
    /\ freeList # << >>
    /\ ~(period = 0 /\ repeat > 1)
    /\ LET n == Head(freeList)
           expire == Uint32(s_currentTick + (IF delay = 0 THEN 1 ELSE delay))
           seq == StepUpTimerSeq(node[n].seq)
       IN  /\ node' = [node EXCEPT ![n] =
                         [expire |-> expire, period |-> period, repeatCount |-> repeat,
                          type |-> type, seq |-> seq]]
           /\ bucket' = [bucket EXCEPT ![HashTick(expire)] = Append(@, n)]
           /\ handle' = [handle EXCEPT ![h] = [type |-> type, pos |-> n, seq |-> seq]]
           /\ born' = [born EXCEPT ![h] = schedules]
    /\ freeList' = Tail(freeList)
    /\ timerCount' = [timerCount EXCEPT ![type] = @ + 1]
    /\ schedules' = schedules + 1
    /\ UNCHANGED <<tickIterator, currentTick, s_currentTick, clock, pc, mode, target,
                   running, cancels, crashes>>

Cancelling(h) ==
    /\ MayCall
    /\ cancels < MaxCancels
    /\ handle[h] # INVALID_TIMER_ID
    /\ cancels' = cancels + 1

\* The id is that of the node as it is now.
Matches(id) == node[id.pos].seq = id.seq /\ node[id.pos].type = id.type

\* The id is old, or the timer is done and its node not yet used again.
CancelStale(h) ==
    /\ Cancelling(h)
    /\ ~Matches(handle[h]) \/ Free(handle[h].pos)
    /\ UNCHANGED <<shm, s_currentTick, clock, pc, mode, target, running, handle, born,
                   schedules, crashes>>

\* Its task is running: it is deleted when the task is done.
CancelOrphan(h) ==
    /\ Cancelling(h)
    /\ Matches(handle[h])
    /\ Orphan(handle[h].pos)
    /\ node' = [node EXCEPT ![handle[h].pos].repeatCount = 0]
    /\ handle' = [handle EXCEPT ![h] = INVALID_TIMER_ID]
    /\ UNCHANGED <<bucket, freeList, tickIterator, currentTick, timerCount,
                   s_currentTick, clock, pc, mode, target, running, schedules, crashes, born>>

\* Mutant: the cursor of the walk is left on the erased node.
CancelQueuedUnderCursor(h) ==
    /\ Cancelling(h)
    /\ Matches(handle[h])
    /\ Queued(handle[h].pos)
    /\ LET n == handle[h].pos
       IN  /\ bucket' = [bucket EXCEPT ![BucketOf(n)] = Erase(@, n)]
           /\ freeList' = <<n>> \o freeList
           /\ DecTimerCount(node[n].type)
    /\ handle' = [handle EXCEPT ![h] = INVALID_TIMER_ID]
    /\ UNCHANGED <<node, tickIterator, currentTick, s_currentTick, clock, pc, mode,
                   target, running, schedules, crashes, born>>

\* It waits in its bucket; if the walk is about to visit it, the cursor moves on.
CancelQueued(h) ==
    /\ Cancelling(h)
    /\ Matches(handle[h])
    /\ Queued(handle[h].pos)
    /\ LET n == handle[h].pos
           list == bucket[BucketOf(n)]
       IN  /\ tickIterator' = IF tickIterator = n THEN NextOf(list, n) ELSE tickIterator
           /\ bucket' = [bucket EXCEPT ![BucketOf(n)] = Erase(@, n)]
           /\ freeList' = <<n>> \o freeList
           /\ DecTimerCount(node[n].type)
    /\ handle' = [handle EXCEPT ![h] = INVALID_TIMER_ID]
    /\ UNCHANGED <<node, currentTick, s_currentTick, clock, pc, mode, target, running,
                   schedules, crashes, born>>

-----------------------------------------------------------------------------
(* Tick and SkipTick. *)

TickBegin(c) ==
    /\ pc = "idle"
    /\ clock' = c
    /\ IF Uint32(c) > currentTick
       THEN pc' = "tick" /\ mode' = "tick" /\ target' = Uint32(c)
       ELSE UNCHANGED <<pc, mode, target>>
    /\ UNCHANGED <<shm, s_currentTick, running, handle, born, bounds>>

\* The clock was set forward (timer_queue.h:98): s_currentTick jumps to it
\* before anything is looked at.
SkipTickBegin(c) ==
    /\ pc = "idle"
    /\ c >= currentTick
    /\ clock' = c
    /\ s_currentTick' = Uint32(c)
    /\ IF Uint32(c) > currentTick
       THEN pc' = "tick" /\ mode' = "skip" /\ target' = Uint32(c)
       ELSE UNCHANGED <<pc, mode, target>>
    /\ UNCHANGED <<shm, running, handle, born, bounds>>

\* CheckTickArray and SkipTickArray begin.
WalkBegin ==
    /\ pc = "tick"
    /\ s_currentTick' = IF mode = "tick" THEN currentTick ELSE s_currentTick
    /\ tickIterator' = Begin(bucket[HashTick(currentTick)])
    /\ pc' = "walk"
    /\ UNCHANGED <<node, bucket, freeList, currentTick, timerCount, clock, mode, target,
                   running, handle, born, bounds>>

\* Mutant: a timer runs as soon as its bucket is walked, whatever its turn.
DueWhenWalked(n) == currentTick + BUCKET_COUNT >= node[n].expire

Due(n) == currentTick >= node[n].expire

\* The node leaves its bucket and its task begins.
TimeOut ==
    /\ pc = "walk"
    /\ tickIterator # END
    /\ Due(tickIterator)
    /\ LET n == tickIterator
           list == bucket[HashTick(currentTick)]
       IN  /\ node' = [node EXCEPT ![n].repeatCount = Uint32(@ - 1)]
           /\ bucket' = [bucket EXCEPT ![HashTick(currentTick)] = Erase(@, n)]
           /\ tickIterator' = NextOf(list, n)
           /\ running' = n
    /\ pc' = "task"
    /\ UNCHANGED <<freeList, currentTick, timerCount, s_currentTick, clock, mode, target,
                   handle, born, bounds>>

\* A timer of a later turn of the wheel.
PassOver ==
    /\ pc = "walk"
    /\ tickIterator # END
    /\ ~Due(tickIterator)
    /\ tickIterator' = NextOf(bucket[HashTick(currentTick)], tickIterator)
    /\ UNCHANGED <<node, bucket, freeList, currentTick, timerCount, s_currentTick, clock,
                   pc, mode, target, running, handle, born, bounds>>

\* Tick counts a period from the turn that is due, SkipTick from the clock.
NextExpire(n) ==
    Uint32((IF mode = "tick" THEN node[n].expire ELSE s_currentTick) + node[n].period)

\* The task is done and the timer has turns left.
Rearm ==
    /\ pc = "task"
    /\ node[running].repeatCount # 0
    /\ node' = [node EXCEPT ![running].expire = NextExpire(running)]
    /\ bucket' = [bucket EXCEPT ![HashTick(NextExpire(running))] = Append(@, running)]
    /\ running' = END
    /\ pc' = "walk"
    /\ UNCHANGED <<freeList, tickIterator, currentTick, timerCount, s_currentTick, clock,
                   mode, target, handle, born, bounds>>

\* Mutant: a node that is done is not given back.
RetireAndKeep ==
    /\ pc = "task"
    /\ node[running].repeatCount = 0
    /\ DecTimerCount(node[running].type)
    /\ running' = END
    /\ pc' = "walk"
    /\ UNCHANGED <<node, bucket, freeList, tickIterator, currentTick, s_currentTick, clock,
                   mode, target, handle, born, bounds>>

\* The task is done and so is the timer.
Retire ==
    /\ pc = "task"
    /\ node[running].repeatCount = 0
    /\ DecTimerCount(node[running].type)
    /\ freeList' = <<running>> \o freeList
    /\ running' = END
    /\ pc' = "walk"
    /\ UNCHANGED <<node, bucket, tickIterator, currentTick, s_currentTick, clock,
                   mode, target, handle, born, bounds>>

WalkEnd ==
    /\ pc = "walk"
    /\ tickIterator = END
    /\ currentTick' = currentTick + 1
    /\ pc' = IF currentTick + 1 < target THEN "tick" ELSE "idle"
    /\ UNCHANGED <<node, bucket, freeList, tickIterator, timerCount, s_currentTick, clock,
                   mode, target, running, handle, born, bounds>>

TickStep == WalkBegin \/ TimeOut \/ PassOver \/ Rearm \/ Retire \/ WalkEnd

-----------------------------------------------------------------------------
Restart ==
    /\ crashes < MaxCrashes
    /\ s_currentTick' = currentTick
    /\ timerCount' = [type \in Types |-> 0]
    /\ clock' \in Clocks
    /\ pc' = "idle" /\ mode' = "tick" /\ target' = 0
    /\ tickIterator' = END /\ running' = END
    /\ crashes' = crashes + 1
    /\ UNCHANGED <<node, bucket, handle, born, schedules, cancels>>

\* Mutant: the tick in progress is taken for done.
CrashAndSkip ==
    /\ Restart
    /\ currentTick' = IF pc = "idle" THEN currentTick ELSE currentTick + 1
    /\ UNCHANGED freeList

\* The process dies and the next one calls CreateTimerQueue with resume: the
\* free stack and the buckets are as they were, the tasks are made anew, the
\* counts are zero.
CrashAndResume ==
    /\ Restart
    /\ UNCHANGED <<freeList, currentTick>>

Init ==
    /\ node = [n \in Nodes |-> [expire |-> 0, period |-> 0, repeatCount |-> 0,
                                type |-> 0, seq |-> 1]]
    /\ bucket = [b \in Buckets |-> << >>]
    /\ freeList = [i \in 1 .. Count |-> i]
    /\ tickIterator = END
    /\ currentTick = 0 /\ s_currentTick = 0 /\ clock = 0
    /\ timerCount = [type \in Types |-> 0]
    /\ pc = "idle" /\ mode = "tick" /\ target = 0 /\ running = END
    /\ handle = [h \in Handles |-> INVALID_TIMER_ID]
    /\ born = [h \in Handles |-> 0]
    /\ schedules = 0 /\ cancels = 0 /\ crashes = 0

Next ==
    \/ \E h \in Handles, type \in Types, delay \in Delays, r \in Repeats :
          Schedule(h, type, delay, r[1], r[2])
    \/ \E h \in Handles, r \in Repeats : ScheduleFail(h, r[1], r[2])
    \/ \E h \in Handles : CancelStale(h) \/ CancelOrphan(h) \/ CancelQueued(h)
    \/ \E c \in Clocks : TickBegin(c) \/ SkipTickBegin(c)
    \/ TickStep
    \/ CrashAndResume

Spec == Init /\ [][Next]_vars

\* The main loop keeps calling Tick, the clock comes to pass every reading of
\* Clocks, and a task returns.
FairSpec ==
    /\ Spec
    /\ WF_vars(TickStep)
    /\ WF_vars(\E c \in Clocks : TickBegin(c) /\ pc' = "tick")

-----------------------------------------------------------------------------
(* Properties. *)

\* Every node is in one list at most, once, and in the list its own fields say;
\* the nodes in none are the one whose task runs and one for each death in a
\* task.  Nothing is lost or doubled by tasks that cancel what is being walked.
EachNodeOnce ==
    /\ \A b \in Buckets : IsInjective(bucket[b])
    /\ IsInjective(freeList)
    /\ \A n \in Nodes :
          /\ ~(Queued(n) /\ Free(n))
          /\ \A b \in Buckets : Contains(bucket[b], n) => b = BucketOf(n)
    /\ Cardinality({n \in Nodes : Orphan(n)}) <= crashes + (IF pc = "task" THEN 1 ELSE 0)
    /\ pc = "task" => Orphan(running)

\* While a bucket is walked the cursor is at its end or on a node of that
\* bucket, whatever the tasks do to the list.
CursorInBucket ==
    pc \in {"walk", "task"} /\ tickIterator # END =>
        Contains(bucket[HashTick(currentTick)], tickIterator)

\* Two objects hold the same id only if the older one has kept it while a whole
\* round of sequence numbers was given out: until then Cancel with an id that is
\* out of date hits no timer of another object (timer_queue.h:148).
HandlesDiffer ==
    \A h, i \in Handles :
        h # i /\ handle[h] = handle[i] /\ handle[h] # INVALID_TIMER_ID =>
            born[h] - born[i] \notin 2 - SEQ_LIMIT .. SEQ_LIMIT - 2

\* The timers that wait, by id, and the one that runs.
TurnOf(n) ==
    [due |-> node[n].expire, period |-> node[n].period, left |-> node[n].repeatCount]

Pending == [id \in {TimerIdOf(n) : n \in {m \in Nodes : Queued(m)}} |-> TurnOf(id.pos)]

Promise == INSTANCE TimerService WITH
    NoTimer <- INVALID_TIMER_ID,
    now <- currentTick,
    pending <- Pending,
    running <- IF pc = "task" THEN TimerIdOf(running) ELSE INVALID_TIMER_ID,
    turn <- IF pc = "task" THEN TurnOf(running) ELSE INVALID_TIMER_ID

\* The wheel implements the promise: a timer runs when currentTick is its tick,
\* as often as it was asked to, not after its cancellation, and currentTick
\* never moves past a timer that is due.
ImplementsTimerService == Promise!Spec

\* A timer queued for a tick the clock passes is run or cancelled, also if the
\* process dies.
QueuedTimerEnds ==
    \A n \in Nodes, t \in 0 .. Max(Clocks) - 1 :
        Queued(n) /\ node[n].expire = t ~> ~(Queued(n) /\ node[n].expire = t)
=============================================================================
