---------------------------- MODULE MessageQueue ----------------------------
(***************************************************************************)
(* MessageQueue (common/container/message_queue.{h,cc}): a byte ring in a  *)
(* shared-memory segment with one sending and one receiving process and no *)
(* lock.  The sender alone moves tail_idx, the receiver alone head_idx,    *)
(* and each works from a copy of the other's index that may be stale when  *)
(* it is used.  A message is a frame: its length in LENGTH_BYTES bytes,    *)
(* then its payload; both may wrap around the end of the ring.             *)
(*                                                                         *)
(* The steps are the accesses to shared memory, in program order: x86      *)
(* stores become visible in that order.  The LENGTH_BYTES iterations of a  *)
(* prefix loop are one step and so is each memcpy: they touch only cells   *)
(* the other process leaves alone (NoOverlap, proved in                    *)
(* MessageQueueProofs).  RecvMsg on an empty queue changes nothing and is  *)
(* a stuttering step.                                                      *)
(*                                                                         *)
(* A process may be killed between any two steps.  It comes back with      *)
(* Attach(..., init_head = false): the ring stays, the locals are gone.    *)
(***************************************************************************)
EXTENDS Integers, Sequences

CONSTANTS Size,         \* queue_head_->size
          Lengths,      \* the payload lengths the callers pass
          MaxSends,     \* bound: calls of SendMsg
          MaxCrashes    \* bound: deaths of either process

LENGTH_BYTES == 4       \* sizeof(unsigned int)
QUEUE_VACUUM_SLOT == 8

\* Attach refuses a segment smaller than its header and the vacuum slot.
ASSUME SizeAssumption == Size \in Nat /\ Size >= QUEUE_VACUUM_SLOT
ASSUME LengthsAssumption == Lengths \subseteq Nat
ASSUME BoundsAssumption == MaxSends \in Nat /\ MaxCrashes \in Nat

Idx == 0 .. Size - 1

\* The messages of this run: the id-th call of SendMsg passes len bytes.
Message == [id : Nat, len : Nat]

\* A byte is what it means: the at-th byte of the length of some message, or
\* of the payload of message of.
Byte == [kind : {"zero", "length", "payload"}, of : Nat, at : Nat]
ZeroByte == [kind |-> "zero", of |-> 0, at |-> 0]
LengthByte(n, k) == [kind |-> "length", of |-> n, at |-> k]
PayloadByte(m, k) == [kind |-> "payload", of |-> m.id, at |-> k]
Payload(m) == [k \in 1 .. m.len |-> PayloadByte(m, k)]

VARIABLES
    head_idx, tail_idx,     \* QueueHead, in shared memory
    queue_buff,             \* the ring, in shared memory
    sPc, sTail, sMsg,                   \* SendMsg: its place and its locals
    rPc, rHead, rTail, rLength, rBuf,   \* RecvMsg: its place and its locals
    accepted,               \* history: messages SendMsg returned true for
    returned,               \* history: the byte strings RecvMsg returned
    sends, crashes          \* counters for the bounds

shared == <<head_idx, tail_idx, queue_buff>>
sVars == <<sPc, sTail, sMsg, accepted, sends>>
rVars == <<rPc, rHead, rTail, rLength, rBuf, returned>>
vars == <<shared, sVars, rVars, crashes>>

-----------------------------------------------------------------------------
(* Index arithmetic. *)

\* Mutant: the room before head_idx is forgotten.
GetLeftSizeToEnd(h, t) ==
    IF t >= h THEN Size - t - QUEUE_VACUUM_SLOT ELSE h - t - QUEUE_VACUUM_SLOT

GetLeftSize(h, t) ==
    IF t >= h THEN Size - t + h - QUEUE_VACUUM_SLOT
              ELSE h - t - QUEUE_VACUUM_SLOT

\* Mutant: the wrapped case is forgotten.
GetSizeUnwrapped(h, t) == t - h

GetSize(h, t) == IF t >= h THEN t - h ELSE Size - h + t

\* Mutant: the prefix is not counted.
FitsPayloadOnly(left, n) == left < 0 \/ n <= left

\* !((unsigned)left_size < length + 4): a negative left_size becomes a number
\* above every length and lets everything pass.
Fits(left, n) == left < 0 \/ n + LENGTH_BYTES <= left

\* The cell n bytes after cell i.
Advance(i, n) == (i + n) % Size

\* The cells of the n bytes that start at i.
Cells(i, n) == {Advance(i, k) : k \in 0 .. n - 1}

-----------------------------------------------------------------------------
(* SendMsg. *)

\* The ring after the length n is stored at t, byte by byte.
StoreLength(b, t, n) ==
    [i \in Idx |->
        IF GetSize(t, i) < LENGTH_BYTES THEN LengthByte(n, GetSize(t, i)) ELSE b[i]]

\* Mutant: every memcpy starts at the first byte of the message.
StorePayloadFromStart(b, at, n, m, from) ==
    [i \in Idx |->
        IF i \in at .. at + n - 1 THEN PayloadByte(m, i - at + 1) ELSE b[i]]

\* memcpy of n payload bytes of m, those after the first from, to the cells
\* at .. at + n - 1.
StorePayload(b, at, n, m, from) ==
    [i \in Idx |->
        IF i \in at .. at + n - 1 THEN PayloadByte(m, from + i - at + 1) ELSE b[i]]

SendMsgRefuse ==
    /\ sPc = "idle"
    /\ sends < MaxSends
    /\ \E n \in Lengths :
          /\ ~Fits(GetLeftSize(head_idx, tail_idx), n)
          /\ sMsg' = [id |-> sends + 1, len |-> n]
    /\ sends' = sends + 1
    /\ UNCHANGED <<shared, sPc, sTail, accepted, rVars, crashes>>

SendMsgBegin ==
    /\ sPc = "idle"
    /\ sends < MaxSends
    /\ \E n \in Lengths :
          /\ Fits(GetLeftSize(head_idx, tail_idx), n)
          /\ sMsg' = [id |-> sends + 1, len |-> n]
    /\ sTail' = tail_idx
    /\ sPc' = "length"
    /\ sends' = sends + 1
    /\ UNCHANGED <<shared, accepted, rVars, crashes>>

SendMsgLength ==
    /\ sPc = "length"
    /\ queue_buff' = StoreLength(queue_buff, sTail, sMsg.len)
    /\ sTail' = Advance(sTail, LENGTH_BYTES)
    /\ sPc' = "payload"
    /\ UNCHANGED <<head_idx, tail_idx, sMsg, accepted, sends, rVars, crashes>>

\* The payload fits before the end of the ring: one memcpy.
SendMsgPayload ==
    /\ sPc = "payload"
    /\ sMsg.len + sTail <= Size
    /\ queue_buff' = StorePayload(queue_buff, sTail, sMsg.len, sMsg, 0)
    /\ sPc' = "publish"
    /\ UNCHANGED <<head_idx, tail_idx, sTail, sMsg, accepted, sends, rVars, crashes>>

\* It does not: the first memcpy fills the ring to its end ...
SendMsgPayloadToEnd ==
    /\ sPc = "payload"
    /\ sMsg.len + sTail > Size
    /\ queue_buff' = StorePayload(queue_buff, sTail, Size - sTail, sMsg, 0)
    /\ sPc' = "wrapped"
    /\ UNCHANGED <<head_idx, tail_idx, sTail, sMsg, accepted, sends, rVars, crashes>>

\* ... and the second puts the rest at its start.
SendMsgPayloadRest ==
    /\ sPc = "wrapped"
    /\ queue_buff' = StorePayload(queue_buff, 0, sMsg.len - (Size - sTail),
                                  sMsg, Size - sTail)
    /\ sPc' = "publish"
    /\ UNCHANGED <<head_idx, tail_idx, sTail, sMsg, accepted, sends, rVars, crashes>>

\* SetTailIdx: from here on the receiver sees the message.
SendMsgPublish ==
    /\ sPc = "publish"
    /\ tail_idx' = Advance(sTail, sMsg.len)
    /\ accepted' = Append(accepted, sMsg)
    /\ sPc' = "idle"
    /\ UNCHANGED <<head_idx, queue_buff, sTail, sMsg, sends, rVars, crashes>>

SenderStep ==
    \/ SendMsgLength
    \/ SendMsgPayload
    \/ SendMsgPayloadToEnd
    \/ SendMsgPayloadRest
    \/ SendMsgPublish

-----------------------------------------------------------------------------
(* RecvMsg. *)

\* The values length may have after the prefix loop started at cell h: the
\* number stored there, or anything if the bytes are no prefix.
LengthsAt(b, h) ==
    LET stored == {n \in Lengths : \A k \in 0 .. LENGTH_BYTES - 1 :
                                      b[Advance(h, k)] = LengthByte(n, k)}
    IN  IF stored # {} THEN stored ELSE 0 .. Size

RecvMsgBegin ==
    /\ rPc = "idle"
    /\ head_idx # tail_idx
    /\ GetSize(head_idx, tail_idx) >= LENGTH_BYTES
    /\ rHead' = head_idx
    /\ rTail' = tail_idx
    /\ rPc' = "length"
    /\ UNCHANGED <<shared, sVars, rLength, rBuf, returned, crashes>>

\* A length above what is there makes RecvMsg return false and the queue stay
\* as it is.
RecvMsgLength ==
    /\ rPc = "length"
    /\ \E n \in LengthsAt(queue_buff, rHead) :
          /\ rLength' = n
          /\ rPc' = IF n > GetSize(rHead, rTail) - LENGTH_BYTES THEN "idle" ELSE "payload"
    /\ rHead' = Advance(rHead, LENGTH_BYTES)
    /\ UNCHANGED <<shared, sVars, rTail, rBuf, returned, crashes>>

RecvMsgPayload ==
    /\ rPc = "payload"
    /\ rHead + rLength <= Size
    /\ rBuf' = [k \in 1 .. rLength |-> queue_buff[rHead + k - 1]]
    /\ rPc' = "consume"
    /\ UNCHANGED <<shared, sVars, rHead, rTail, rLength, returned, crashes>>

RecvMsgPayloadToEnd ==
    /\ rPc = "payload"
    /\ rHead + rLength > Size
    /\ rBuf' = [k \in 1 .. Size - rHead |-> queue_buff[rHead + k - 1]]
    /\ rPc' = "wrapped"
    /\ UNCHANGED <<shared, sVars, rHead, rTail, rLength, returned, crashes>>

RecvMsgPayloadRest ==
    /\ rPc = "wrapped"
    /\ rBuf' = rBuf \o [k \in 1 .. rLength - (Size - rHead) |-> queue_buff[k - 1]]
    /\ rPc' = "consume"
    /\ UNCHANGED <<shared, sVars, rHead, rTail, rLength, returned, crashes>>

\* Mutant: the head moves over the payload and leaves the prefix.
RecvMsgConsumePayload ==
    /\ rPc = "consume"
    /\ head_idx' = Advance(head_idx, rLength)
    /\ returned' = Append(returned, rBuf)
    /\ rPc' = "idle"
    /\ UNCHANGED <<tail_idx, queue_buff, sVars, rHead, rTail, rLength, rBuf, crashes>>

\* SetHeadIdx: from here on the sender may reuse the cells.
RecvMsgConsume ==
    /\ rPc = "consume"
    /\ head_idx' = Advance(rHead, rLength)
    /\ returned' = Append(returned, rBuf)
    /\ rPc' = "idle"
    /\ UNCHANGED <<tail_idx, queue_buff, sVars, rHead, rTail, rLength, rBuf, crashes>>

ReceiverStep ==
    \/ RecvMsgBegin
    \/ RecvMsgLength
    \/ RecvMsgPayload
    \/ RecvMsgPayloadToEnd
    \/ RecvMsgPayloadRest
    \/ RecvMsgConsume

-----------------------------------------------------------------------------
(* Death and restart. *)

SenderCrash ==
    /\ sPc # "idle"
    /\ crashes < MaxCrashes
    /\ sPc' = "idle"
    /\ crashes' = crashes + 1
    /\ UNCHANGED <<shared, sTail, sMsg, accepted, sends, rVars>>

ReceiverCrash ==
    /\ rPc # "idle"
    /\ crashes < MaxCrashes
    /\ rPc' = "idle"
    /\ crashes' = crashes + 1
    /\ UNCHANGED <<shared, sVars, rHead, rTail, rLength, rBuf, returned>>

Init ==
    /\ head_idx = 0 /\ tail_idx = 0
    /\ queue_buff = [i \in Idx |-> ZeroByte]
    /\ sPc = "idle" /\ sTail = 0 /\ sMsg = [id |-> 0, len |-> 0]
    /\ rPc = "idle" /\ rHead = 0 /\ rTail = 0 /\ rLength = 0 /\ rBuf = << >>
    /\ accepted = << >> /\ returned = << >>
    /\ sends = 0 /\ crashes = 0

Next ==
    \/ SendMsgRefuse
    \/ SendMsgBegin
    \/ SenderStep
    \/ ReceiverStep
    \/ SenderCrash
    \/ ReceiverCrash

Spec == Init /\ [][Next]_vars

\* The receiver polls its queue in every turn of its main loop.  Nothing is
\* asked of the sender: it need not send, nor finish a call it has begun.
FairSpec == Spec /\ WF_vars(ReceiverStep)

-----------------------------------------------------------------------------
(* Properties. *)

\* The bytes between the two indices, and the cells that hold them.
Used == GetSize(head_idx, tail_idx)
UnreadCells == Cells(head_idx, Used)

\* The cells the running SendMsg has written or is going to write.
FrameCells ==
    IF sPc = "idle" THEN {} ELSE Cells(tail_idx, LENGTH_BYTES + sMsg.len)

TypeOK ==
    /\ head_idx \in Idx /\ tail_idx \in Idx
    /\ queue_buff \in [Idx -> Byte]
    /\ sPc \in {"idle", "length", "payload", "wrapped", "publish"}
    /\ sTail \in Idx
    /\ sMsg \in Message
    /\ rPc \in {"idle", "length", "payload", "wrapped", "consume"}
    /\ rHead \in Idx /\ rTail \in Idx
    /\ rLength \in Nat
    /\ rBuf \in Seq(Byte)
    /\ accepted \in Seq(Message)
    /\ returned \in Seq(Seq(Byte))
    /\ sends \in 0 .. MaxSends /\ crashes \in 0 .. MaxCrashes

\* left_size is never negative, so that its conversion to unsigned in SendMsg
\* (message_queue.cc:104) never turns a full queue into an endless one.
LeftSizeNonNegative == GetLeftSize(head_idx, tail_idx) >= 0

\* A SendMsg in progress, working from an old head_idx, writes no cell the
\* receiver has yet to read, whatever the receiver did meanwhile.
NoOverlap == FrameCells \cap UnreadCells = {}

\* RecvMsg returns what SendMsg accepted: the same bytes, in the same order,
\* no message twice and none made up, through wraps and deaths of either side.
ReturnsWhatWasAccepted ==
    /\ Len(returned) <= Len(accepted)
    /\ \A k \in 1 .. Len(returned) : returned[k] = Payload(accepted[k])

\* The bytes the unread messages take, prefixes included.
UnreadBytes ==
    LET total[k \in Len(returned) .. Len(accepted)] ==
            IF k = Len(returned) THEN 0
            ELSE total[k - 1] + LENGTH_BYTES + accepted[k].len
    IN  total[Len(accepted)]

\* SendMsg refuses a message only if it really does not fit beside the unread
\* ones and the vacuum slot: neither a crash nor a wrap leaks room.
RefusedOnlyWhenFull ==
    [][sends' > sends /\ sPc' = "idle" =>
          UnreadBytes + LENGTH_BYTES + sMsg'.len + QUEUE_VACUUM_SLOT > Size]_vars

\* Every accepted message is returned in the end: the frame at the head of the
\* queue never makes RecvMsg return false for ever.
AcceptedIsReturned ==
    \A k \in 1 .. MaxSends : Len(accepted) >= k ~> Len(returned) >= k
=============================================================================
