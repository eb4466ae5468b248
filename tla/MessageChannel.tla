--------------------------- MODULE MessageChannel ---------------------------
(***************************************************************************)
(* MessageChannel (common/container/message_channel.{h,cc}): two message   *)
(* queues, one to send on and one to receive from, each in a shared-memory *)
(* segment found by its key.  ConnSvr opens the channel with the keys      *)
(* (C2G, G2C) (ConnMgr::InitChannel), its peer with the two swapped.       *)
(*                                                                         *)
(* GetShmEx lets one process create a segment, atomically, and tells it so;*)
(* that process stores the header, three stores in Attach, only after it   *)
(* has found both segments.  Meanwhile the other process may attach and    *)
(* send.  A segment outlives its creator: a creator that dies, or whose    *)
(* Create fails, before its stores leaves a zero header that nobody stores *)
(* later.                                                                  *)
(*                                                                         *)
(* What happens inside a queue is MessageQueue's subject.  Here a message  *)
(* takes one cell, indices count messages and do not wrap, and a receive   *)
(* is one step; of SendMsg the reads of the header that decide its fate    *)
(* and the store of the tail stay apart.                                   *)
(***************************************************************************)
EXTENDS Integers, Sequences

CONSTANTS Capacity,     \* messages that fit in a segment
          MaxSends,     \* bound: calls of SendMsg by each process
          MaxDeaths,    \* bound: deaths of either process
          MaxFailures   \* bound: shmget and shmat calls that fail

ASSUME ChannelAssumption ==
    /\ Capacity \in Nat \ {0}
    /\ MaxSends \in Nat /\ MaxDeaths \in Nat /\ MaxFailures \in Nat

Procs == {"conn", "game"}
Keys == {"C2G", "G2C"}

SendKey(p) == IF p = "conn" THEN "C2G" ELSE "G2C"
RecvKey(p) == IF p = "conn" THEN "G2C" ELSE "C2G"
Receiver(k) == IF k = "C2G" THEN "game" ELSE "conn"

VARIABLES
    there,              \* the segment of that key exists
    head, tail, size,   \* its QueueHead, zero in a new segment
    pc,         \* "down"; "half", "attach": in Create; "up"; "advance", "publish": in SendMsg
    todo,       \* the header stores Attach has left to do
    sTail,      \* SendMsg's copy of the tail
    accepted,   \* history: messages stored in the segment
    returned,   \* history: messages taken out of it
    orphaned,   \* history: its creator was lost before it stored the header
    sends, deaths, failures     \* counters for the bounds

header == <<head, tail, size>>
history == <<accepted, returned>>
bounds == <<sends, deaths, failures>>
vars == <<there, header, pc, todo, sTail, history, orphaned, bounds>>

-----------------------------------------------------------------------------
(* Create. *)

\* Mutant: the size is stored first.
HeaderStoresSizeFirst(k) == << <<k, "size">>, <<k, "head">>, <<k, "tail">> >>

\* What Attach stores in a new segment, in this order.
HeaderStores(k) == << <<k, "head">>, <<k, "tail">>, <<k, "size">> >>

\* Mutant: one flag for both segments, the second call decides.
GetShmExOneFlag(p, k) ==
    /\ there' = [there EXCEPT ![k] = TRUE]
    /\ todo' = [todo EXCEPT ![p] = IF there[k] THEN << >> ELSE @ \o HeaderStores(k)]

\* GetShmEx: the one that creates the segment will have its header to store.
GetShmEx(p, k) ==
    /\ there' = [there EXCEPT ![k] = TRUE]
    /\ todo' = IF there[k] THEN todo ELSE [todo EXCEPT ![p] = @ \o HeaderStores(k)]

CreateSend(p) ==
    /\ pc[p] = "down"
    /\ GetShmEx(p, SendKey(p))
    /\ pc' = [pc EXCEPT ![p] = "half"]
    /\ UNCHANGED <<header, sTail, history, orphaned, bounds>>

CreateRecv(p) ==
    /\ pc[p] = "half"
    /\ GetShmEx(p, RecvKey(p))
    /\ pc' = [pc EXCEPT ![p] = "attach"]
    /\ UNCHANGED <<header, sTail, history, orphaned, bounds>>

\* size - sizeof(QueueHead).
StoredSize == Capacity

\* Attach of both queues, one store of a header after the other.
AttachStore(p) ==
    /\ pc[p] = "attach"
    /\ todo[p] # << >>
    /\ LET k == Head(todo[p])[1]
           field == Head(todo[p])[2]
       IN  /\ head' = IF field = "head" THEN [head EXCEPT ![k] = 0] ELSE head
           /\ tail' = IF field = "tail" THEN [tail EXCEPT ![k] = 0] ELSE tail
           /\ size' = IF field = "size" THEN [size EXCEPT ![k] = StoredSize] ELSE size
    /\ todo' = [todo EXCEPT ![p] = Tail(@)]
    /\ UNCHANGED <<there, pc, sTail, history, orphaned, bounds>>

AttachDone(p) ==
    /\ pc[p] = "attach"
    /\ todo[p] = << >>
    /\ pc' = [pc EXCEPT ![p] = "up"]
    /\ UNCHANGED <<there, header, todo, sTail, history, orphaned, bounds>>

\* The keys whose header p was going to store.
Pending(p) == {todo[p][i][1] : i \in DOMAIN todo[p]}

\* p is gone, or gives up: what it had to store is never stored.
Lose(p) ==
    /\ todo' = [todo EXCEPT ![p] = << >>]
    /\ orphaned' = orphaned \cup Pending(p)
    /\ pc' = [pc EXCEPT ![p] = "down"]

\* shmget or shmat fails: Create returns false.  shmat may fail on the segment
\* shmget has just created.  ConnServer goes on without looking at the result
\* and dies on the NULL queue_head_ at its first call; the next process begins
\* again.
CreateFails(p) ==
    /\ failures < MaxFailures
    /\ pc[p] \in {"down", "half"}
    /\ LET k == IF pc[p] = "down" THEN SendKey(p) ELSE RecvKey(p)
       IN  \/ Lose(p) /\ UNCHANGED there
           \/ /\ there' = [there EXCEPT ![k] = TRUE]
              /\ todo' = [todo EXCEPT ![p] = << >>]
              /\ orphaned' = orphaned \cup Pending(p) \cup (IF there[k] THEN {} ELSE {k})
              /\ pc' = [pc EXCEPT ![p] = "down"]
    /\ failures' = failures + 1
    /\ UNCHANGED <<header, sTail, history, sends, deaths>>

-----------------------------------------------------------------------------
(* SendMsg and RecvMsg.  Both return true whatever the queue returned. *)

\* Mutant: one cell stays unused.
FitsButOne(k) == size[k] = 0 \/ tail[k] - head[k] + 1 < size[k]

\* !((unsigned)left_size < length + 4).  Under a zero header left_size is
\* negative and the message passes.
Fits(k) == size[k] = 0 \/ tail[k] - head[k] < size[k]

\* The queue refuses the message and SendMsg returns true all the same.
SendMsgLost(p) ==
    /\ pc[p] = "up"
    /\ sends[p] < MaxSends
    /\ ~Fits(SendKey(p))
    /\ sends' = [sends EXCEPT ![p] = @ + 1]
    /\ UNCHANGED <<there, header, pc, todo, sTail, history, orphaned, deaths, failures>>

SendMsgBegin(p) ==
    /\ pc[p] = "up"
    /\ sends[p] < MaxSends
    /\ Fits(SendKey(p))
    /\ sTail' = [sTail EXCEPT ![p] = tail[SendKey(p)]]
    /\ pc' = [pc EXCEPT ![p] = "advance"]
    /\ sends' = [sends EXCEPT ![p] = @ + 1]
    /\ UNCHANGED <<there, header, todo, history, orphaned, deaths, failures>>

\* tail_idx is taken modulo the size ...
SendMsgAdvance(p) ==
    /\ pc[p] = "advance"
    /\ size[SendKey(p)] # 0
    /\ pc' = [pc EXCEPT ![p] = "publish"]
    /\ UNCHANGED <<there, header, todo, sTail, history, orphaned, bounds>>

\* ... and the process dies of it while the header is not stored.
SendMsgFault(p) ==
    /\ pc[p] = "advance"
    /\ size[SendKey(p)] = 0
    /\ pc' = [pc EXCEPT ![p] = "down"]
    /\ UNCHANGED <<there, header, todo, sTail, history, orphaned, bounds>>

SendMsgPublish(p) ==
    /\ pc[p] = "publish"
    /\ tail' = [tail EXCEPT ![SendKey(p)] = sTail[p] + 1]
    /\ accepted' = [accepted EXCEPT ![SendKey(p)] = @ + 1]
    /\ pc' = [pc EXCEPT ![p] = "up"]
    /\ UNCHANGED <<there, head, size, todo, sTail, returned, orphaned, bounds>>

\* Mutant: a single message is not seen.
EmptyBelowTwo(k) == tail[k] - head[k] < 2

Empty(k) == head[k] = tail[k]

\* On an empty queue, and on a zero header, RecvMsg does nothing.
RecvMsg(p) ==
    /\ pc[p] = "up"
    /\ ~Empty(RecvKey(p))
    /\ head' = [head EXCEPT ![RecvKey(p)] = @ + 1]
    /\ returned' = [returned EXCEPT ![RecvKey(p)] = @ + 1]
    /\ UNCHANGED <<there, tail, size, pc, todo, sTail, accepted, orphaned, bounds>>

-----------------------------------------------------------------------------
Die(p) ==
    /\ pc[p] # "down"
    /\ deaths < MaxDeaths
    /\ Lose(p)
    /\ deaths' = deaths + 1
    /\ UNCHANGED <<there, header, sTail, history, sends, failures>>

Init ==
    /\ there = [k \in Keys |-> FALSE]
    /\ head = [k \in Keys |-> 0] /\ tail = [k \in Keys |-> 0] /\ size = [k \in Keys |-> 0]
    /\ pc = [p \in Procs |-> "down"]
    /\ todo = [p \in Procs |-> << >>]
    /\ sTail = [p \in Procs |-> 0]
    /\ accepted = [k \in Keys |-> 0] /\ returned = [k \in Keys |-> 0]
    /\ orphaned = {}
    /\ sends = [p \in Procs |-> 0] /\ deaths = 0 /\ failures = 0

\* What a process does without being asked to.
Work(p) ==
    \/ CreateSend(p)
    \/ CreateRecv(p)
    \/ AttachStore(p)
    \/ AttachDone(p)
    \/ SendMsgAdvance(p)
    \/ SendMsgFault(p)
    \/ SendMsgPublish(p)
    \/ RecvMsg(p)

Next ==
    \E p \in Procs :
        \/ Work(p)
        \/ SendMsgLost(p)
        \/ SendMsgBegin(p)
        \/ CreateFails(p)
        \/ Die(p)

Spec == Init /\ [][Next]_vars

\* A process that is down is started again, one that runs goes on and polls its
\* queue; nothing makes it send.
FairSpec == Spec /\ \A p \in Procs : WF_vars(Work(p))

-----------------------------------------------------------------------------
(* Properties. *)

\* Storing the header of a segment that the peer already uses wipes no message
\* and brings none back: the indices always say what was accepted and what was
\* returned (message_queue.cc:36).  It rests on the size being stored last.
NothingWiped ==
    \A k \in Keys : head[k] = returned[k] /\ tail[k] = accepted[k]

\* A segment is without a size only as long as its creator is still going to
\* store it, or for ever, if the creator was lost: no later Create repairs it
\* (message_channel.cc:44).
BareOnlyIfPendingOrOrphaned ==
    \A k \in Keys :
        there[k] => \/ size[k] = Capacity /\ k \notin orphaned
                    \/ size[k] = 0 /\ k \in orphaned /\ \A p \in Procs : k \notin Pending(p)
                    \/ size[k] = 0 /\ k \notin orphaned /\ \E p \in Procs : k \in Pending(p)

\* SendMsg, which reports success in any case, drops a message without harm to
\* the process only if the segment really is full of unread ones.
LostOnlyWhenFull ==
    [][\A p \in Procs : sends'[p] > sends[p] /\ pc'[p] = "up" =>
          accepted[SendKey(p)] - returned[SendKey(p)] >= Capacity]_vars

\* A message in a segment reaches the receiver, through deaths and restarts of
\* both, unless the receiver's own sending segment is bare for ever and kills it
\* whenever it answers.
AcceptedIsReturned ==
    \A k \in Keys, n \in 1 .. MaxSends :
        accepted[k] >= n ~> returned[k] >= n \/ SendKey(Receiver(k)) \in orphaned
=============================================================================
