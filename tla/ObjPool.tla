------------------------------ MODULE ObjPool -------------------------------
(***************************************************************************)
(* TObjPool (common/jybase/obj_pool.h) and the ids of its objects          *)
(* (obj_desc.h): a fixed array of nodes in shared memory, a free list that *)
(* runs through the array of ints bit_map_, and ids that hold the place of *)
(* a node and the sequence number of the object they name.                 *)
(*                                                                         *)
(* The process may die between any two steps; the next one rebuilds the    *)
(* free list from bit_map_ and takes everything else as it is.  Allocate   *)
(* and Deallocate are cut into steps where a death shows.                  *)
(*                                                                         *)
(* ForeachObj calls a function for the busy nodes of a range; the function *)
(* may allocate and deallocate what it likes.  The destructor of an object *)
(* may deallocate other objects; it does not allocate.  What a loop finds  *)
(* past the end of the array is not modelled: it stops there.              *)
(***************************************************************************)
EXTENDS Integers, Sequences, FiniteSets

CONSTANTS count,                \* count_: nodes
          SEQ_MAX,              \* 0x800000, the last sequence number
          MAX_ALLOCATE_COUNT,
          Owners,               \* the places where the program keeps ids
          Ranges,               \* the ranges ForeachObj is called with
          MaxAllocates, MaxCrashes, MaxForeachs    \* bounds on the calls

ASSUME PoolAssumption ==
    /\ count \in Nat \ {0} /\ SEQ_MAX \in Nat \ {0}
    /\ MAX_ALLOCATE_COUNT \in Nat /\ MAX_ALLOCATE_COUNT > count
    /\ Ranges \subseteq (0 .. count) \X (0 .. count)
    /\ MaxAllocates \in Nat /\ MaxCrashes \in Nat /\ MaxForeachs \in Nat

BUSY_NODE_INDEX == 0
TAIL_OF_LIST == -1
Nodes == 0 .. count - 1
Heads == {TAIL_OF_LIST} \cup 1 .. count                \* of free_node_
Maps == [Nodes -> {TAIL_OF_LIST} \cup 0 .. count]      \* of bit_map_

\* tagObjID without the type, which is that of the pool.
NilID == [id |-> -1, seq |-> 0]
ObjID == [id : Nodes, seq : 1 .. SEQ_MAX]

VARIABLES
    bit_map_,           \* 0 for a busy node, else the next free node plus one
    free_node_,         \* the first free node plus one
    max_used_node_,
    allocate_count_, deallocate_count_,
    typed,              \* is m_type of the node other than 0?
    m_seq,
    pc, cur,            \* Allocate or Deallocate: its place and its node
    dying,              \* the objects whose destructors run, the innermost first
    loop, first, last,  \* ForeachObj: its place and its range
    there, seen,        \* history: the objects in its range and those called for
    held,               \* the id each owner keeps
    of,                 \* history: which use of its node that id was made for
    uses, alive,        \* history: how often a node was used, is it in use?
    allocates, crashes, foreachs    \* counters for the bounds

list == <<bit_map_, free_node_>>
counts == <<allocate_count_, deallocate_count_>>
objects == <<typed, m_seq>>
ids == <<held, of, uses, alive>>
foreach == <<loop, first, last, there, seen>>
bounds == <<allocates, crashes, foreachs>>
vars == <<list, max_used_node_, counts, objects, pc, cur, dying, foreach, ids, bounds>>

-----------------------------------------------------------------------------
(* Helpers. *)

Busy(n) == bit_map_[n] = BUSY_NODE_INDEX

\* The list that starts at head runs through the free nodes in their order: what
\* SetFreeNode leaves when it is called for each of them from the last to the
\* first.  Linked is exact: one map and one head satisfy it.
NextFree(n, m, free) == n < m /\ m \in free /\ \A k \in free : k <= n \/ k >= m

Linked(map, head, free) ==
    /\ \A n \in Nodes :
          IF n \notin free THEN map[n] = BUSY_NODE_INDEX
          ELSE \/ map[n] = TAIL_OF_LIST /\ \A k \in free : k <= n
               \/ NextFree(n, map[n] - 1, free)
    /\ \/ head = TAIL_OF_LIST /\ free = {}
       \/ NextFree(-1, head - 1, free)

\* Mutant: the number does not move on.
IncSeqNot(seq) == IF seq = 0 THEN 1 ELSE seq

IncSeq(seq) == IF seq >= SEQ_MAX THEN 1 ELSE seq + 1

\* GetObject: the node an id leads to, or -1 for NULL.
GetObject(id) ==
    IF id # NilID /\ typed[id.id] /\ m_seq[id.id] = id.seq THEN id.id ELSE -1

\* The program calls the pool from its main loop, from the function that
\* ForeachObj calls and from destructors.
MayCall == pc = "idle" /\ loop # "test"

-----------------------------------------------------------------------------
(* Allocate. *)

\* Mutant: max_used_node_ is the first node that was never used.
TakeFreeNodeBelowMax ==
    /\ MayCall /\ dying = << >>
    /\ allocates < MaxAllocates
    /\ free_node_ # TAIL_OF_LIST
    /\ ~Busy(free_node_ - 1)
    /\ max_used_node_' = IF free_node_ - 1 > max_used_node_ THEN free_node_ - 1 ELSE max_used_node_
    /\ free_node_' = bit_map_[free_node_ - 1]
    /\ cur' = free_node_ - 1
    /\ pc' = "mark"
    /\ allocates' = allocates + 1
    /\ UNCHANGED <<bit_map_, counts, objects, dying, foreach, ids, crashes, foreachs>>

\* GetFreeNode as far as the head of the list is taken.
TakeFreeNode ==
    /\ MayCall /\ dying = << >>
    /\ allocates < MaxAllocates
    /\ free_node_ # TAIL_OF_LIST
    /\ ~Busy(free_node_ - 1)
    /\ max_used_node_' = IF free_node_ > max_used_node_ THEN free_node_ ELSE max_used_node_
    /\ free_node_' = bit_map_[free_node_ - 1]
    /\ cur' = free_node_ - 1
    /\ pc' = "mark"
    /\ allocates' = allocates + 1
    /\ UNCHANGED <<bit_map_, counts, objects, dying, foreach, ids, crashes, foreachs>>

MarkBusy ==
    /\ pc = "mark"
    /\ bit_map_' = [bit_map_ EXCEPT ![cur] = BUSY_NODE_INDEX]
    /\ pc' = "count"
    /\ UNCHANGED <<free_node_, max_used_node_, counts, objects, cur, dying, foreach, ids, bounds>>

\* Before the count overflows it is counted from zero again: first the one ...
CountAllocate ==
    /\ pc = "count"
    /\ IF allocate_count_ + 1 >= MAX_ALLOCATE_COUNT
       THEN /\ allocate_count_' = allocate_count_ + 1 - deallocate_count_
            /\ pc' = "rebase"
       ELSE /\ allocate_count_' = allocate_count_ + 1
            /\ pc' = "number"
    /\ UNCHANGED <<list, max_used_node_, deallocate_count_, objects, cur, dying, foreach, ids,
                   bounds>>

\* Mutant: ... and the other is forgotten.
RebaseNot ==
    /\ pc = "rebase"
    /\ pc' = "number"
    /\ UNCHANGED <<list, max_used_node_, counts, objects, cur, dying, foreach, ids, bounds>>

\* ... then the other.
Rebase ==
    /\ pc = "rebase"
    /\ deallocate_count_' = 0
    /\ pc' = "number"
    /\ UNCHANGED <<list, max_used_node_, allocate_count_, objects, cur, dying, foreach, ids,
                   bounds>>

\* The object gets its number ...
NumberObject ==
    /\ pc = "number"
    /\ m_seq' = [m_seq EXCEPT ![cur] = IncSeq(@)]
    /\ uses' = [uses EXCEPT ![cur] = @ + 1]
    /\ pc' = "name"
    /\ UNCHANGED <<list, max_used_node_, counts, typed, cur, dying, foreach, held, of, alive,
                   bounds>>

\* ... its type and its construction, and the caller gets its id.
NameObject(o) ==
    /\ pc = "name"
    /\ typed' = [typed EXCEPT ![cur] = TRUE]
    /\ held' = [held EXCEPT ![o] = [id |-> cur, seq |-> m_seq[cur]]]
    /\ of' = [of EXCEPT ![o] = uses[cur]]
    /\ alive' = [alive EXCEPT ![cur] = TRUE]
    /\ pc' = "idle"
    /\ UNCHANGED <<list, max_used_node_, counts, m_seq, cur, dying, foreach, uses, bounds>>

AllocateStep ==
    MarkBusy \/ CountAllocate \/ Rebase \/ NumberObject \/ \E o \in Owners : NameObject(o)

\* The program hands an id on.
CopyID(o, p) ==
    /\ MayCall
    /\ held[o] # held[p]
    /\ held' = [held EXCEPT ![p] = held[o]]
    /\ of' = [of EXCEPT ![p] = of[o]]
    /\ UNCHANGED <<list, max_used_node_, counts, objects, pc, cur, dying, foreach, uses, alive,
                   bounds>>

-----------------------------------------------------------------------------
(* Deallocate. *)

\* Mutant: the deallocation is not counted.
DeallocateUncounted(o) ==
    /\ MayCall
    /\ GetObject(held[o]) # -1
    /\ Busy(held[o].id)
    /\ cur' = held[o].id
    /\ pc' = "free"
    /\ UNCHANGED <<list, max_used_node_, counts, objects, dying, foreach, ids, bounds>>

\* An owner deletes the object that its id leads to.
Deallocate(o) ==
    /\ MayCall
    /\ GetObject(held[o]) # -1
    /\ Busy(held[o].id)
    /\ deallocate_count_' = deallocate_count_ + 1
    /\ cur' = held[o].id
    /\ pc' = "free"
    /\ UNCHANGED <<list, max_used_node_, allocate_count_, objects, dying, foreach, ids, bounds>>

\* Mutant: the end of the list is written like a busy node.
SetFreeNodeZeroEnd ==
    /\ pc = "free"
    /\ bit_map_' = [bit_map_ EXCEPT ![cur] = IF free_node_ = TAIL_OF_LIST THEN 0 ELSE free_node_]
    /\ free_node_' = cur + 1
    /\ dying' = <<cur>> \o dying
    /\ alive' = [alive EXCEPT ![cur] = FALSE]
    /\ pc' = "idle"
    /\ UNCHANGED <<max_used_node_, counts, objects, cur, foreach, held, of, uses, bounds>>

\* SetFreeNode; after it the destructor begins.
SetFreeNode ==
    /\ pc = "free"
    /\ bit_map_' = [bit_map_ EXCEPT ![cur] = free_node_]
    /\ free_node_' = cur + 1
    /\ dying' = <<cur>> \o dying
    /\ alive' = [alive EXCEPT ![cur] = FALSE]
    /\ pc' = "idle"
    /\ UNCHANGED <<max_used_node_, counts, objects, cur, foreach, held, of, uses, bounds>>

\* The innermost destructor is done; its last step is ~tagObjectBase.
Destroy ==
    /\ pc = "idle" /\ dying # << >>
    /\ typed' = [typed EXCEPT ![Head(dying)] = FALSE]
    /\ dying' = Tail(dying)
    /\ UNCHANGED <<list, max_used_node_, counts, m_seq, pc, cur, foreach, ids, bounds>>

-----------------------------------------------------------------------------
(* ForeachObj. *)

ForeachBegin(from, to) ==
    /\ MayCall /\ loop = "none" /\ dying = << >>
    /\ foreachs < MaxForeachs
    /\ from <= to
    /\ first' = from
    /\ last' = IF to > max_used_node_ THEN max_used_node_ ELSE to
    /\ loop' = "test"
    /\ there' = {<<n, uses[n]>> : n \in {m \in from .. to - 1 : alive[m]}}
    /\ seen' = {}
    /\ foreachs' = foreachs + 1
    /\ UNCHANGED <<list, max_used_node_, counts, objects, pc, cur, dying, ids, allocates, crashes>>

ForeachSkip ==
    /\ loop = "test" /\ first # last
    /\ first < count
    /\ ~Busy(first)
    /\ first' = first + 1
    /\ UNCHANGED <<list, max_used_node_, counts, objects, pc, cur, dying, loop, last, there, seen,
                   ids, bounds>>

ForeachCall ==
    /\ loop = "test" /\ first # last
    /\ first < count
    /\ Busy(first)
    /\ seen' = seen \cup {<<first, uses[first]>>}
    /\ loop' = "call"
    /\ UNCHANGED <<list, max_used_node_, counts, objects, pc, cur, dying, first, last, there, ids,
                   bounds>>

\* The function returns; its result or max_for_num may end the loop.
ForeachReturn ==
    /\ loop = "call" /\ pc = "idle" /\ dying = << >>
    /\ \/ loop' = "test" /\ first' = first + 1
       \/ loop' = "none" /\ UNCHANGED first
    /\ UNCHANGED <<list, max_used_node_, counts, objects, pc, cur, dying, last, there, seen, ids,
                   bounds>>

ForeachEnd ==
    /\ loop = "test" /\ first = last
    /\ loop' = "none"
    /\ UNCHANGED <<list, max_used_node_, counts, objects, pc, cur, dying, first, last, there, seen,
                   ids, bounds>>

-----------------------------------------------------------------------------
Restart ==
    /\ crashes < MaxCrashes
    /\ crashes' = crashes + 1
    /\ pc' = "idle" /\ cur' = 0 /\ dying' = << >>
    /\ loop' = "none" /\ first' = 0 /\ last' = 0 /\ there' = {} /\ seen' = {}
    /\ UNCHANGED <<max_used_node_, counts, objects, ids, allocates, foreachs>>

\* Mutant: the constructor clears the objects that it should resume.
CrashAndClear ==
    /\ crashes < MaxCrashes
    /\ crashes' = crashes + 1
    /\ pc' = "idle" /\ cur' = 0 /\ dying' = << >>
    /\ loop' = "none" /\ first' = 0 /\ last' = 0 /\ there' = {} /\ seen' = {}
    /\ typed' = [n \in Nodes |-> FALSE]
    /\ UNCHANGED <<list, max_used_node_, counts, m_seq, ids, allocates, foreachs>>

\* Mutant: the free list is taken as it is.
CrashAndKeepList == Restart /\ UNCHANGED list

\* The process dies; the next one is started to resume and calls ResumeNode.
CrashAndResume ==
    /\ Restart
    /\ \E map \in Maps, head \in Heads :
          /\ Linked(map, head, {n \in Nodes : ~Busy(n)})
          /\ bit_map_' = map /\ free_node_' = head

Init ==
    /\ bit_map_ = [n \in Nodes |-> IF n = count - 1 THEN TAIL_OF_LIST ELSE n + 2]
    /\ free_node_ = 1
    /\ max_used_node_ = 0 /\ allocate_count_ = 0 /\ deallocate_count_ = 0
    /\ typed = [n \in Nodes |-> FALSE]
    /\ m_seq = [n \in Nodes |-> 0]
    /\ pc = "idle" /\ cur = 0 /\ dying = << >>
    /\ loop = "none" /\ first = 0 /\ last = 0 /\ there = {} /\ seen = {}
    /\ held = [o \in Owners |-> NilID] /\ of = [o \in Owners |-> 0]
    /\ uses = [n \in Nodes |-> 0] /\ alive = [n \in Nodes |-> FALSE]
    /\ allocates = 0 /\ crashes = 0 /\ foreachs = 0

Next ==
    \/ TakeFreeNode
    \/ AllocateStep
    \/ \E o, p \in Owners : CopyID(o, p)
    \/ \E o \in Owners : Deallocate(o)
    \/ SetFreeNode
    \/ Destroy
    \/ \E r \in Ranges : ForeachBegin(r[1], r[2])
    \/ ForeachSkip \/ ForeachCall \/ ForeachReturn \/ ForeachEnd
    \/ CrashAndResume

Spec == Init /\ [][Next]_vars

-----------------------------------------------------------------------------
(* Properties. *)

\* What the k-th node of the free list is, plus one.
FreeNode[k \in 0 .. count] ==
    IF k = 0 THEN free_node_
    ELSE IF FreeNode[k - 1] <= 0 THEN FreeNode[k - 1]
    ELSE bit_map_[FreeNode[k - 1] - 1]

\* The free list comes to its end and holds every node that is not busy, but for
\* the one that is just being taken: GetFreeNode never meets a busy node at its
\* head, and the repair of FixFreeList has nothing to do.
FreeListSound ==
    /\ FreeNode[count] = TAIL_OF_LIST
    /\ {FreeNode[k] - 1 : k \in {j \in 0 .. count : FreeNode[j] # TAIL_OF_LIST}} =
           {n \in Nodes : ~Busy(n)} \ (IF pc = "mark" THEN {cur} ELSE {})

\* The sizes the pool reports are the numbers of its busy nodes
\* (obj_pool.h:53-56), whatever rebasing did to the two counts.
SizeIsBusyNodes ==
    pc = "idle" =>
        allocate_count_ - deallocate_count_ = Cardinality({n \in Nodes : Busy(n)})

\* Every death makes the size too small by one at most, never too large.  That is
\* while the counts are below MAX_ALLOCATE_COUNT, as they stay in the run with
\* deaths: one between the two stores that rebase them (obj_pool.h:306-307) leaves
\* the size negative.
SizeDriftBounded ==
    LET busy == Cardinality({n \in Nodes : Busy(n)})
    IN  /\ allocate_count_ - deallocate_count_ <= busy
        /\ busy <= allocate_count_ - deallocate_count_ + crashes + (IF pc = "idle" THEN 0 ELSE 1)

\* Every death makes one node at most unusable: busy, and no object of anyone.
LeakBounded ==
    Cardinality({n \in Nodes : Busy(n) /\ ~alive[n]})
        <= crashes + (IF pc \in {"count", "rebase", "number", "name"} THEN 1 ELSE 0)

\* The id of an object in use leads to it: no allocation, deallocation or death
\* in between takes an object from its owner.
LivingResolves ==
    \A o \in Owners :
        held[o] # NilID /\ alive[held[o].id] /\ of[o] = uses[held[o].id] =>
            GetObject(held[o]) = held[o].id

\* An id leads to the object it was made for and to no other one, until its node
\* has been used for a whole round of sequence numbers.
NeverAnotherObject ==
    \A o \in Owners :
        GetObject(held[o]) # -1 =>
            \/ uses[held[o].id] = of[o]
            \/ uses[held[o].id] - of[o] >= SEQ_MAX

\* The range of ForeachObj covers what it is asked for: when its loop ends by
\* itself the function was called for every object that was there all the time.
ForeachSeesAll ==
    loop = "test" /\ first = last =>
        \A n \in Nodes : alive[n] /\ <<n, uses[n]>> \in there => <<n, uses[n]>> \in seen

\* ForeachObj looks at nodes below last only (obj_pool.h:206).
ForeachInRange == loop # "none" => first <= last
=============================================================================
