------------------------- MODULE MessageQueueProofs -------------------------
(***************************************************************************)
(* The index discipline of MessageQueue, for every ring size, every set of *)
(* lengths and every bound on calls and deaths: types, a left size that is *)
(* never negative, and a sender that never writes a cell the receiver has  *)
(* yet to read.                                                            *)
(***************************************************************************)
EXTENDS MessageQueue, SequenceTheorems, WellFoundedInduction, TLAPS

\* The room the frame of the running SendMsg was granted is still there: the
\* receiver can only have made more.
SenderInv ==
    /\ sPc # "idle" =>
          LENGTH_BYTES + sMsg.len + Used + QUEUE_VACUUM_SLOT <= Size
    /\ sPc = "length" => sTail = tail_idx
    /\ sPc \in {"payload", "wrapped", "publish"} =>
          sTail = Advance(tail_idx, LENGTH_BYTES)
    /\ sPc = "wrapped" => sMsg.len + sTail > Size

\* The frame the running RecvMsg reads lies within what is used.
ReceiverInv ==
    /\ rPc # "idle" => /\ LENGTH_BYTES <= GetSize(head_idx, rTail)
                       /\ GetSize(head_idx, rTail) <= Used
    /\ rPc = "length" => rHead = head_idx
    /\ rPc \in {"payload", "wrapped", "consume"} =>
          /\ rHead = Advance(head_idx, LENGTH_BYTES)
          /\ LENGTH_BYTES + rLength <= GetSize(head_idx, rTail)
    /\ rPc = "wrapped" => rHead + rLength > Size

IndexInv == Used + QUEUE_VACUUM_SLOT <= Size

IInv == TypeOK /\ IndexInv /\ SenderInv /\ ReceiverInv

-----------------------------------------------------------------------------
(* Arithmetic of the ring. *)

LEMMA AdvanceWraps ==
    ASSUME NEW i \in Idx, NEW n \in 0 .. Size
    PROVE  /\ Advance(i, n) \in Idx
           /\ Advance(i, n) = IF i + n < Size THEN i + n ELSE i + n - Size
  BY SizeAssumption DEF Advance, Idx, QUEUE_VACUUM_SLOT

LEMMA AdvanceTwice ==
    ASSUME NEW i \in Idx, NEW m \in Nat, NEW n \in Nat, m + n <= Size
    PROVE  Advance(Advance(i, m), n) = Advance(i, m + n)
  <1> DEFINE j == Advance(i, m)
  <1>1. m \in 0 .. Size /\ n \in 0 .. Size /\ m + n \in 0 .. Size
    BY SizeAssumption
  <1>2. j \in Idx /\ j = IF i + m < Size THEN i + m ELSE i + m - Size
    BY <1>1, AdvanceWraps
  <1>3. Advance(j, n) = IF j + n < Size THEN j + n ELSE j + n - Size
    BY <1>1, <1>2, AdvanceWraps
  <1>4. Advance(i, m + n) = IF i + (m + n) < Size THEN i + (m + n) ELSE i + (m + n) - Size
    BY <1>1, AdvanceWraps
  <1> HIDE DEF j
  <1> QED BY <1>2, <1>3, <1>4, SizeAssumption DEF Idx, j

LEMMA SizeInRange ==
    ASSUME NEW h \in Idx, NEW t \in Idx
    PROVE  GetSize(h, t) \in 0 .. Size - 1
  BY SizeAssumption DEF GetSize, Idx

LEMMA SizePlusLeft ==
    ASSUME NEW h \in Idx, NEW t \in Idx
    PROVE  GetLeftSize(h, t) = Size - GetSize(h, t) - QUEUE_VACUUM_SLOT
  BY SizeAssumption DEF GetSize, GetLeftSize, Idx, QUEUE_VACUUM_SLOT

LEMMA SizeAfterPublish ==
    ASSUME NEW h \in Idx, NEW t \in Idx, NEW n \in Nat, GetSize(h, t) + n < Size
    PROVE  GetSize(h, Advance(t, n)) = GetSize(h, t) + n
  <1>1. n \in 0 .. Size
    BY SizeInRange, SizeAssumption
  <1>2. Advance(t, n) = IF t + n < Size THEN t + n ELSE t + n - Size
    BY <1>1, AdvanceWraps
  <1> QED BY <1>2, SizeAssumption DEF Idx, GetSize

LEMMA SizeAfterConsume ==
    ASSUME NEW h \in Idx, NEW t \in Idx, NEW n \in Nat, n <= GetSize(h, t)
    PROVE  GetSize(Advance(h, n), t) = GetSize(h, t) - n
  <1>1. n \in 0 .. Size
    BY SizeInRange, SizeAssumption
  <1>2. Advance(h, n) = IF h + n < Size THEN h + n ELSE h + n - Size
    BY <1>1, AdvanceWraps
  <1> QED BY <1>2, SizeAssumption DEF Idx, GetSize
-----------------------------------------------------------------------------
(* The invariant is inductive. *)

LEMMA StoreLengthTyped ==
    ASSUME NEW b \in [Idx -> Byte], NEW t \in Idx, NEW n \in Nat
    PROVE  StoreLength(b, t, n) \in [Idx -> Byte]
  <1> SUFFICES ASSUME NEW i \in Idx
               PROVE  LengthByte(n, GetSize(t, i)) \in Byte
    BY DEF StoreLength
  <1>1. GetSize(t, i) \in Nat
    BY SizeInRange
  <1> QED BY <1>1 DEF LengthByte, Byte

LEMMA StorePayloadTyped ==
    ASSUME NEW b \in [Idx -> Byte], NEW at \in Nat, NEW n, n \in Int,
           NEW m \in Message, NEW from \in Nat
    PROVE  StorePayload(b, at, n, m, from) \in [Idx -> Byte]
  <1> SUFFICES ASSUME NEW i \in at .. at + n - 1
               PROVE  PayloadByte(m, from + i - at + 1) \in Byte
    BY DEF StorePayload
  <1>1. from + i - at + 1 \in Nat
    OBVIOUS
  <1> QED BY <1>1 DEF PayloadByte, Byte, Message

LEMMA InitIInv == Init => IInv
  <1> SUFFICES ASSUME Init PROVE IInv
    OBVIOUS
  <1>1. 0 \in Idx
    BY SizeAssumption DEF Idx, QUEUE_VACUUM_SLOT
  <1>2. TypeOK
    <2>1. ZeroByte \in Byte
      BY DEF ZeroByte, Byte
    <2> QED BY <1>1, <2>1, BoundsAssumption DEF Init, TypeOK, Message
  <1>3. Used = 0
    BY DEF Init, Used, GetSize
  <1> QED BY <1>2, <1>3, SizeAssumption DEF IInv, Init, IndexInv, SenderInv, ReceiverInv, QUEUE_VACUUM_SLOT

LEMMA TypeFacts ==
    ASSUME TypeOK
    PROVE  /\ queue_buff \in [Idx -> Byte] /\ sMsg \in Message
           /\ sMsg.len \in Nat /\ sMsg.len \in Int
           /\ head_idx \in Idx /\ tail_idx \in Idx /\ rTail \in Idx
           /\ sTail \in Idx /\ sTail \in Nat /\ Size - sTail \in Nat
           /\ rHead \in Idx /\ Size - rHead \in Nat /\ rLength \in Nat
           /\ Used \in 0 .. Size - 1 /\ Used \in Nat
           /\ GetSize(head_idx, rTail) \in 0 .. Size - 1
  <1>1. /\ queue_buff \in [Idx -> Byte] /\ sMsg \in Message /\ rLength \in Nat
        /\ head_idx \in Idx /\ tail_idx \in Idx /\ rTail \in Idx
        /\ sTail \in Idx /\ rHead \in Idx
    BY DEF TypeOK
  <1>2. sTail \in Nat /\ Size - sTail \in Nat /\ Size - rHead \in Nat
    BY <1>1, SizeAssumption DEF Idx
  <1>3. /\ Used \in 0 .. Size - 1 /\ Used \in Nat
        /\ GetSize(head_idx, rTail) \in 0 .. Size - 1
    BY <1>1, SizeInRange DEF Used
  <1>4. sMsg.len \in Nat /\ sMsg.len \in Int
    BY <1>1 DEF Message
  <1> QED BY <1>1, <1>2, <1>3, <1>4

LEMMA TypeOKStep == ASSUME IInv, [Next]_vars PROVE TypeOK'
  <1> USE DEF IInv
  <1>0. \A n \in Nat, i \in Idx : n <= Size => Advance(i, n) \in Idx
    BY AdvanceWraps, SizeAssumption
  <1>1. CASE SendMsgRefuse
    <2>1. sMsg' \in Message
      BY <1>1, LengthsAssumption DEF SendMsgRefuse, TypeOK, Message
    <2>2. sends' \in 0 .. MaxSends
      BY <1>1, BoundsAssumption DEF SendMsgRefuse, TypeOK
    <2> QED BY <1>1, <2>1, <2>2 DEF SendMsgRefuse, TypeOK, shared, rVars
  <1>2. CASE SendMsgBegin
    <2>1. sMsg' \in Message
      BY <1>2, LengthsAssumption DEF SendMsgBegin, TypeOK, Message
    <2>2. sends' \in 0 .. MaxSends
      BY <1>2, BoundsAssumption DEF SendMsgBegin, TypeOK
    <2> QED BY <1>2, <2>1, <2>2 DEF SendMsgBegin, TypeOK, shared, rVars
  <1>3. CASE SendMsgLength
    <2>1. queue_buff' \in [Idx -> Byte]
      BY <1>3, TypeFacts, StoreLengthTyped DEF SendMsgLength
    <2>2. sTail' \in Idx
      BY <1>0, <1>3, TypeFacts, SizeAssumption
      DEF SendMsgLength, LENGTH_BYTES, QUEUE_VACUUM_SLOT
    <2> QED BY <1>3, <2>1, <2>2 DEF SendMsgLength, TypeOK, rVars
  <1>4. CASE SendMsgPayload
    <2> DEFINE n == sMsg.len
    <2>1. n \in Int /\ queue_buff' = StorePayload(queue_buff, sTail, n, sMsg, 0)
      BY TypeFacts, <1>4 DEF SendMsgPayload
    <2> HIDE DEF n
    <2>2. queue_buff' \in [Idx -> Byte]
      BY <2>1, TypeFacts, StorePayloadTyped
    <2> QED BY <1>4, <2>2 DEF SendMsgPayload, TypeOK, rVars
  <1>5. CASE SendMsgPayloadToEnd
    <2> DEFINE n == Size - sTail
    <2>0. n \in Int /\ queue_buff' = StorePayload(queue_buff, sTail, n, sMsg, 0)
      BY TypeFacts, <1>5 DEF SendMsgPayloadToEnd
    <2> HIDE DEF n
    <2>1. queue_buff' \in [Idx -> Byte]
      BY <2>0, TypeFacts, StorePayloadTyped
    <2> QED BY <1>5, <2>1 DEF SendMsgPayloadToEnd, TypeOK, rVars
  <1>6. CASE SendMsgPayloadRest
    <2>1. sMsg.len - (Size - sTail) \in Int
      BY TypeFacts
    <2>2. queue_buff' \in [Idx -> Byte]
      BY TypeFacts, <1>6, <2>1, StorePayloadTyped DEF SendMsgPayloadRest
    <2> QED BY <1>6, <2>2 DEF SendMsgPayloadRest, TypeOK, rVars
  <1>7. CASE SendMsgPublish
    <2>1. sMsg.len \in Nat /\ sMsg.len <= Size
      BY TypeFacts, <1>7, SizeAssumption
      DEF SendMsgPublish, SenderInv, LENGTH_BYTES, QUEUE_VACUUM_SLOT
    <2>2. tail_idx' \in Idx
      BY <1>0, <1>7, <2>1 DEF SendMsgPublish, TypeOK
    <2> QED BY <1>7, <2>2 DEF SendMsgPublish, TypeOK, rVars
  <1>8. CASE RecvMsgBegin
    BY <1>8 DEF RecvMsgBegin, TypeOK, shared, sVars
  <1>9. CASE RecvMsgLength
    <2>1. rLength' \in Nat
      BY <1>9, LengthsAssumption, SizeAssumption DEF RecvMsgLength, LengthsAt
    <2>2. rHead' \in Idx
      BY <1>0, <1>9, SizeAssumption
      DEF RecvMsgLength, TypeOK, LENGTH_BYTES, QUEUE_VACUUM_SLOT
    <2>3. rPc' \in {"idle", "payload"}
      BY <1>9 DEF RecvMsgLength
    <2> QED BY <1>9, <2>1, <2>2, <2>3 DEF RecvMsgLength, TypeOK, shared, sVars
  <1>10. CASE RecvMsgPayload
    <2>1. \A k \in 1 .. rLength : queue_buff[rHead + k - 1] \in Byte
      BY <1>10, SizeAssumption DEF RecvMsgPayload, TypeOK, Idx
    <2>2. rBuf' \in Seq(Byte)
      <3>1. rLength \in Nat /\ rBuf' = [k \in 1 .. rLength |-> queue_buff[rHead + k - 1]]
        BY <1>10 DEF RecvMsgPayload, TypeOK
      <3> QED BY <2>1, <3>1
    <2> QED BY <1>10, <2>2 DEF RecvMsgPayload, TypeOK, shared, sVars
  <1>11. CASE RecvMsgPayloadToEnd
    <2>1. \A k \in 1 .. Size - rHead : queue_buff[rHead + k - 1] \in Byte
      BY <1>11, SizeAssumption DEF RecvMsgPayloadToEnd, TypeOK, Idx
    <2>2. Size - rHead \in Nat
      BY SizeAssumption DEF TypeOK, Idx
    <2>3. rBuf' \in Seq(Byte)
      <3>1. rBuf' = [k \in 1 .. Size - rHead |-> queue_buff[rHead + k - 1]]
        BY <1>11 DEF RecvMsgPayloadToEnd
      <3> QED BY <2>1, <2>2, <3>1
    <2> QED BY <1>11, <2>3 DEF RecvMsgPayloadToEnd, TypeOK, shared, sVars
  <1>12. CASE RecvMsgPayloadRest
    <2> DEFINE n == rLength - (Size - rHead)
               rest == [k \in 1 .. n |-> queue_buff[k - 1]]
    <2>1. n \in Nat /\ n <= Size
      <3>1. rPc = "wrapped"
        BY <1>12 DEF RecvMsgPayloadRest
      <3>2. rHead + rLength > Size /\ LENGTH_BYTES + rLength <= GetSize(head_idx, rTail)
        BY <3>1 DEF ReceiverInv
      <3>3. rLength <= Size
        BY <3>2, TypeFacts, SizeAssumption DEF LENGTH_BYTES
      <3>4. rHead \in Nat /\ rHead < Size /\ rLength \in Nat
        BY TypeFacts, SizeAssumption DEF Idx
      <3> QED BY <3>2, <3>3, <3>4, SizeAssumption
    <2>2. \A k \in 1 .. n : queue_buff[k - 1] \in Byte
      BY <2>1, SizeAssumption DEF TypeOK, Idx
    <2>3. rest \in Seq(Byte)
      BY <2>1, <2>2
    <2>4. rBuf' \in Seq(Byte)
      <3>1. rBuf \in Seq(Byte) /\ rBuf' = rBuf \o rest
        BY <1>12 DEF RecvMsgPayloadRest, TypeOK
      <3> HIDE DEF rest
      <3> QED BY <2>3, <3>1
    <2> QED BY <1>12, <2>4 DEF RecvMsgPayloadRest, TypeOK, shared, sVars
  <1>13. CASE RecvMsgConsume
    <2>1. rLength \in 0 .. Size
      BY TypeFacts, <1>13, SizeAssumption DEF RecvMsgConsume, ReceiverInv, LENGTH_BYTES
    <2>2. head_idx' \in Idx
      BY <1>0, <1>13, <2>1 DEF RecvMsgConsume, TypeOK
    <2> QED BY <1>13, <2>2 DEF RecvMsgConsume, TypeOK, sVars
  <1>14. CASE SenderCrash
    BY <1>14, BoundsAssumption DEF SenderCrash, TypeOK, shared, rVars
  <1>15. CASE ReceiverCrash
    BY <1>15, BoundsAssumption DEF ReceiverCrash, TypeOK, shared, sVars
  <1>16. CASE UNCHANGED vars
    BY <1>16 DEF vars, shared, sVars, rVars, TypeOK
  <1> QED
    BY <1>1, <1>2, <1>3, <1>4, <1>5, <1>6, <1>7, <1>8, <1>9, <1>10, <1>11, <1>12,
       <1>13, <1>14, <1>15, <1>16
    DEF Next, SenderStep, ReceiverStep

\* Publishing a frame adds exactly its bytes to what is used ...
LEMMA PublishGrows ==
    ASSUME IInv, SendMsgPublish
    PROVE  /\ Used' = Used + LENGTH_BYTES + sMsg.len
           /\ Used <= Used' /\ Used' \in Nat
           /\ Used' + QUEUE_VACUUM_SLOT <= Size
  <1>1. /\ LENGTH_BYTES + sMsg.len + Used + QUEUE_VACUUM_SLOT <= Size
        /\ sTail = Advance(tail_idx, LENGTH_BYTES)
    BY DEF SendMsgPublish, IInv, SenderInv
  <1>2. /\ sMsg.len \in Nat /\ Used \in Nat /\ head_idx \in Idx /\ tail_idx \in Idx
    BY TypeFacts DEF IInv
  <1>3. LENGTH_BYTES + sMsg.len <= Size /\ LENGTH_BYTES + sMsg.len \in Nat
    BY <1>1, <1>2, SizeAssumption DEF LENGTH_BYTES, QUEUE_VACUUM_SLOT
  <1>4. tail_idx' = Advance(tail_idx, LENGTH_BYTES + sMsg.len)
    BY <1>1, <1>2, <1>3, AdvanceTwice DEF SendMsgPublish, LENGTH_BYTES
  <1>5. GetSize(head_idx, tail_idx) + (LENGTH_BYTES + sMsg.len) < Size
    BY <1>1, <1>2, SizeAssumption DEF LENGTH_BYTES, QUEUE_VACUUM_SLOT, Used
  <1>6. GetSize(head_idx, Advance(tail_idx, LENGTH_BYTES + sMsg.len))
          = GetSize(head_idx, tail_idx) + (LENGTH_BYTES + sMsg.len)
    BY <1>2, <1>3, <1>5, SizeAfterPublish
  <1>7. Used' = Used + (LENGTH_BYTES + sMsg.len)
    BY <1>4, <1>6 DEF SendMsgPublish, Used
  <1> QED BY <1>1, <1>2, <1>7, SizeAssumption DEF LENGTH_BYTES, QUEUE_VACUUM_SLOT

\* ... and consuming one takes exactly its bytes away.
LEMMA ConsumeShrinks ==
    ASSUME IInv, RecvMsgConsume
    PROVE  /\ Used' = Used - (LENGTH_BYTES + rLength)
           /\ Used' <= Used /\ Used' \in Nat
  <1>1. /\ rLength \in Nat /\ LENGTH_BYTES + rLength <= Used
        /\ rHead = Advance(head_idx, LENGTH_BYTES)
        /\ head_idx \in Idx /\ tail_idx \in Idx /\ Used \in 0 .. Size - 1
    BY TypeFacts DEF IInv, RecvMsgConsume, ReceiverInv, LENGTH_BYTES
  <1>2. LENGTH_BYTES + rLength <= Size /\ LENGTH_BYTES + rLength \in Nat
    BY <1>1, SizeAssumption DEF LENGTH_BYTES
  <1>3. head_idx' = Advance(head_idx, LENGTH_BYTES + rLength)
    BY <1>1, <1>2, AdvanceTwice DEF RecvMsgConsume, LENGTH_BYTES
  <1>4. Used' = Used - (LENGTH_BYTES + rLength)
    BY <1>1, <1>2, <1>3, SizeAfterConsume DEF RecvMsgConsume, Used
  <1> QED BY <1>1, <1>2, <1>4, SizeAssumption DEF LENGTH_BYTES

LEMMA IndexStep == ASSUME IInv, [Next]_vars PROVE IndexInv'
  <1>1. CASE SendMsgPublish
    BY <1>1, PublishGrows DEF IndexInv
  <1>2. CASE RecvMsgConsume
    BY <1>2, ConsumeShrinks, TypeFacts, SizeAssumption DEF IInv, IndexInv, QUEUE_VACUUM_SLOT
  <1>3. CASE UNCHANGED <<head_idx, tail_idx>>
    BY <1>3 DEF IInv, IndexInv, Used
  <1> QED
    BY <1>1, <1>2, <1>3
    DEF Next, SenderStep, ReceiverStep, vars, shared, SendMsgRefuse, SendMsgBegin,
        SendMsgLength, SendMsgPayload, SendMsgPayloadToEnd, SendMsgPayloadRest,
        RecvMsgBegin, RecvMsgLength, RecvMsgPayload, RecvMsgPayloadToEnd,
        RecvMsgPayloadRest, SenderCrash, ReceiverCrash

\* What a step of the sender does to the invariant about itself, and that no
\* step of the receiver takes its room away.
LEMMA SenderInvStep == ASSUME IInv, [Next]_vars PROVE SenderInv'
  <1> USE DEF IInv
  <1>1. CASE SendMsgBegin
    <2>1. PICK n \in Lengths : /\ Fits(GetLeftSize(head_idx, tail_idx), n)
                               /\ sMsg' = [id |-> sends + 1, len |-> n]
      BY <1>1 DEF SendMsgBegin
    <2>2. n \in Nat /\ sMsg'.len = n
      BY <2>1, LengthsAssumption
    <2>3. GetLeftSize(head_idx, tail_idx) = Size - Used - QUEUE_VACUUM_SLOT
      BY TypeFacts, SizePlusLeft DEF Used
    <2>4. LENGTH_BYTES + n + Used + QUEUE_VACUUM_SLOT <= Size
      BY <2>1, <2>2, <2>3, TypeFacts, SizeAssumption
      DEF Fits, IndexInv, LENGTH_BYTES, QUEUE_VACUUM_SLOT
    <2> QED BY <1>1, <2>2, <2>4 DEF SendMsgBegin, SenderInv, Used, shared
  <1>2. CASE SendMsgLength
    BY <1>2 DEF SendMsgLength, SenderInv, Used
  <1>3. CASE SendMsgPayload \/ SendMsgPayloadToEnd \/ SendMsgPayloadRest
    BY <1>3 DEF SendMsgPayload, SendMsgPayloadToEnd, SendMsgPayloadRest, SenderInv, Used
  <1>4. CASE SendMsgPublish \/ SendMsgRefuse \/ SenderCrash
    BY <1>4 DEF SendMsgPublish, SendMsgRefuse, SenderCrash, SenderInv
  <1>5. CASE RecvMsgConsume
    <2>1. Used' <= Used /\ Used' \in Nat
      BY <1>5, ConsumeShrinks
    <2>2. /\ UNCHANGED <<sPc, sTail, sMsg, tail_idx>>
      BY <1>5 DEF RecvMsgConsume, sVars
    <2> QED BY <2>1, <2>2, TypeFacts, SizeAssumption
            DEF SenderInv, LENGTH_BYTES, QUEUE_VACUUM_SLOT
  <1>6. CASE UNCHANGED <<head_idx, tail_idx, sPc, sTail, sMsg>>
    BY <1>6 DEF SenderInv, Used
  <1> QED
    BY <1>1, <1>2, <1>3, <1>4, <1>5, <1>6
    DEF Next, SenderStep, ReceiverStep, vars, shared, sVars, RecvMsgBegin, RecvMsgLength,
        RecvMsgPayload, RecvMsgPayloadToEnd, RecvMsgPayloadRest, ReceiverCrash

\* The same for the receiver: what the sender adds, it adds behind rTail.
LEMMA ReceiverInvStep == ASSUME IInv, [Next]_vars PROVE ReceiverInv'
  <1> USE DEF IInv
  <1>1. CASE RecvMsgBegin
    BY <1>1, TypeFacts DEF RecvMsgBegin, ReceiverInv, Used, shared
  <1>2. CASE RecvMsgLength
    BY <1>2, TypeFacts, LengthsAssumption, SizeAssumption
    DEF RecvMsgLength, ReceiverInv, LengthsAt, Used, shared, LENGTH_BYTES
  <1>3. CASE RecvMsgPayload \/ RecvMsgPayloadToEnd \/ RecvMsgPayloadRest
    BY <1>3
    DEF RecvMsgPayload, RecvMsgPayloadToEnd, RecvMsgPayloadRest, ReceiverInv, Used, shared
  <1>4. CASE RecvMsgConsume \/ ReceiverCrash
    BY <1>4 DEF RecvMsgConsume, ReceiverCrash, ReceiverInv
  <1>5. CASE SendMsgPublish
    <2>1. Used <= Used' /\ Used' \in Nat
      BY <1>5, PublishGrows
    <2>2. UNCHANGED <<head_idx, rPc, rHead, rTail, rLength>>
      BY <1>5 DEF SendMsgPublish, rVars
    <2> QED BY <2>1, <2>2, TypeFacts DEF ReceiverInv
  <1>6. CASE UNCHANGED <<head_idx, tail_idx, rPc, rHead, rTail, rLength>>
    BY <1>6 DEF ReceiverInv, Used
  <1> QED
    BY <1>1, <1>2, <1>3, <1>4, <1>5, <1>6
    DEF Next, SenderStep, ReceiverStep, vars, shared, rVars, SendMsgRefuse, SendMsgBegin,
        SendMsgLength, SendMsgPayload, SendMsgPayloadToEnd, SendMsgPayloadRest, SenderCrash

\* Every step of either process, and every death, leaves the indices and locals in order.
THEOREM IndexDiscipline == Spec => []IInv
  <1>1. IInv /\ [Next]_vars => IInv'
    BY TypeOKStep, IndexStep, SenderInvStep, ReceiverInvStep DEF IInv
  <1> QED BY InitIInv, <1>1, PTL DEF Spec

-----------------------------------------------------------------------------
(* What follows for the properties of MessageQueue. *)

\* Every variable keeps its type: no index ever leaves the ring.
THEOREM TypeCorrect == Spec => []TypeOK
  BY IndexDiscipline, PTL DEF IInv

\* left_size is never negative.
THEOREM LeftSizeIsNonNegative == Spec => []LeftSizeNonNegative
  <1>1. IInv => LeftSizeNonNegative
    <2> SUFFICES ASSUME IInv PROVE LeftSizeNonNegative
      OBVIOUS
    <2>1. GetLeftSize(head_idx, tail_idx) = Size - Used - QUEUE_VACUUM_SLOT
      BY TypeFacts, SizePlusLeft DEF IInv, Used
    <2> QED BY <2>1, TypeFacts, SizeAssumption
            DEF IInv, IndexInv, LeftSizeNonNegative, QUEUE_VACUUM_SLOT
  <1> QED BY <1>1, IndexDiscipline, PTL

\* m cells from head on and n cells from tail on are different cells, if the
\* used bytes are m and both together fit into the ring.
LEMMA SpansAreDisjoint ==
    ASSUME NEW h \in Idx, NEW t \in Idx, NEW n \in Nat, GetSize(h, t) + n <= Size
    PROVE  Cells(h, GetSize(h, t)) \cap Cells(t, n) = {}
  <1> DEFINE m == GetSize(h, t)
  <1>0. m \in 0 .. Size - 1
    BY SizeInRange
  <1> SUFFICES ASSUME NEW j \in 0 .. m - 1, NEW k \in 0 .. n - 1,
                      Advance(h, j) = Advance(t, k)
               PROVE  FALSE
    BY DEF Cells
  <1>1. j \in 0 .. Size /\ k \in 0 .. Size
    BY <1>0, SizeAssumption
  <1>2. (IF h + j < Size THEN h + j ELSE h + j - Size)
           = (IF t + k < Size THEN t + k ELSE t + k - Size)
    BY <1>1, AdvanceWraps
  <1>3. m = IF t >= h THEN t - h ELSE Size - h + t
    BY DEF GetSize
  <1>4. /\ m + n <= Size /\ m \in Int /\ n \in Nat /\ Size \in Nat
        /\ j \in Int /\ 0 <= j /\ j < m /\ k \in Int /\ 0 <= k /\ k < n
        /\ h \in Int /\ 0 <= h /\ h < Size /\ t \in Int /\ 0 <= t /\ t < Size
    BY <1>0, SizeAssumption DEF Idx
  <1> HIDE DEF m
  <1>5. CASE t >= h
    BY <1>2, <1>3, <1>4, <1>5
  <1>6. CASE t < h
    BY <1>2, <1>3, <1>4, <1>6
  <1> QED BY <1>5, <1>6 DEF Idx

\* The running SendMsg writes no cell the receiver has yet to read.
THEOREM SenderAvoidsUnread == Spec => []NoOverlap
  <1>1. IInv => NoOverlap
    <2> SUFFICES ASSUME IInv, sPc # "idle" PROVE NoOverlap
      BY DEF NoOverlap, FrameCells
    <2>1. LENGTH_BYTES + sMsg.len + Used + QUEUE_VACUUM_SLOT <= Size
      BY DEF IInv, SenderInv
    <2>2. /\ LENGTH_BYTES + sMsg.len \in Nat
          /\ GetSize(head_idx, tail_idx) + (LENGTH_BYTES + sMsg.len) <= Size
      BY <2>1, TypeFacts, SizeAssumption DEF IInv, Used, LENGTH_BYTES, QUEUE_VACUUM_SLOT
    <2>3. UnreadCells \cap Cells(tail_idx, LENGTH_BYTES + sMsg.len) = {}
      BY <2>2, TypeFacts, SpansAreDisjoint DEF IInv, UnreadCells, Used
    <2> QED BY <2>3 DEF NoOverlap, FrameCells
  <1> QED BY <1>1, IndexDiscipline, PTL

-----------------------------------------------------------------------------
(***************************************************************************)
(* What goes through MessageQueue comes out of it, for every ring size,    *)
(* every set of lengths and every bound on calls and deaths.  The          *)
(* strengthening says what the bytes of the ring are: the unread ones are  *)
(* the frames of the accepted messages that were not yet returned, one     *)
(* after the other; the first ones behind the tail are the part of its     *)
(* frame that a running SendMsg has stored.                                *)
(***************************************************************************)

\* The j-th byte of the frame of m.
FrameByte(m, j) ==
    IF j < LENGTH_BYTES THEN LengthByte(m.len, j) ELSE PayloadByte(m, j - LENGTH_BYTES + 1)

\* The frames of the unread messages: that of the k-th accepted message lies
\* between off[k - 1] and off[k], counted from the head.
Layout(off) ==
    /\ off \in [Len(returned) .. Len(accepted) -> Nat]
    /\ off[Len(returned)] = 0 /\ off[Len(accepted)] = Used
    /\ \A i, k \in Len(returned) .. Len(accepted) : i <= k => off[i] <= off[k]
    /\ \A k \in Len(returned) + 1 .. Len(accepted) :
          /\ accepted[k].len \in Lengths
          /\ off[k] = off[k - 1] + LENGTH_BYTES + accepted[k].len
          /\ off[k] <= Used
          /\ \A j \in 0 .. LENGTH_BYTES + accepted[k].len - 1 :
                queue_buff[Advance(head_idx, off[k - 1] + j)] = FrameByte(accepted[k], j)

\* The bytes of its frame that the running SendMsg has stored.
StoredBytes ==
    CASE sPc = "payload" -> LENGTH_BYTES
      [] sPc = "wrapped" -> LENGTH_BYTES + (Size - sTail)
      [] sPc = "publish" -> LENGTH_BYTES + sMsg.len
      [] OTHER -> 0

SenderFrame ==
    /\ sPc # "idle" => sMsg.len \in Lengths
    /\ \A j \in 0 .. StoredBytes - 1 : queue_buff[Advance(tail_idx, j)] = FrameByte(sMsg, j)

\* The message the running RecvMsg reads, and what it has of it.
Oldest == accepted[Len(returned) + 1]

ReceiverFrame ==
    /\ rPc # "idle" => Len(returned) < Len(accepted)
    /\ rPc \in {"payload", "wrapped", "consume"} => rLength = Oldest.len
    /\ rPc = "wrapped" => rBuf = [k \in 1 .. Size - rHead |-> PayloadByte(Oldest, k)]
    /\ rPc = "consume" => rBuf = Payload(Oldest)

ContentInv ==
    /\ ReturnsWhatWasAccepted
    /\ \E off : Layout(off)
    /\ SenderFrame
    /\ ReceiverFrame

-----------------------------------------------------------------------------
(* Cells counted from the head and from the tail. *)

LEMMA TailFromHead ==
    ASSUME NEW h \in Idx, NEW t \in Idx
    PROVE  Advance(h, GetSize(h, t)) = t
  <1>1. GetSize(h, t) \in 0 .. Size
    BY SizeInRange, SizeAssumption
  <1>2. Advance(h, GetSize(h, t))
          = IF h + GetSize(h, t) < Size THEN h + GetSize(h, t) ELSE h + GetSize(h, t) - Size
    BY <1>1, AdvanceWraps
  <1> QED BY <1>2, SizeAssumption DEF GetSize, Idx

\* The unread cells are the last ones behind the tail.
LEMMA UnreadFromTail ==
    ASSUME NEW h \in Idx, NEW t \in Idx, NEW u \in 0 .. GetSize(h, t) - 1
    PROVE  /\ Size - GetSize(h, t) + u \in 0 .. Size - 1
           /\ Advance(h, u) = Advance(t, Size - GetSize(h, t) + u)
  <1> DEFINE g == GetSize(h, t)
             v == Size - g + u
  <1>1. g \in 0 .. Size - 1 /\ g = IF t >= h THEN t - h ELSE Size - h + t
    BY SizeInRange DEF GetSize
  <1>2. u \in 0 .. Size /\ v \in 0 .. Size - 1 /\ v \in 0 .. Size
    BY <1>1, SizeAssumption
  <1>3. Advance(h, u) = IF h + u < Size THEN h + u ELSE h + u - Size
    BY <1>2, AdvanceWraps
  <1> HIDE DEF v
  <1>4. Advance(t, v) = IF t + v < Size THEN t + v ELSE t + v - Size
    BY <1>2, AdvanceWraps
  <1>5. v = Size - g + u
    BY DEF v
  <1> HIDE DEF g
  <1>6. u \in Int /\ 0 <= u /\ u < g /\ h \in Int /\ 0 <= h /\ h < Size /\ t \in Int /\ 0 <= t /\ t < Size
    BY <1>1, SizeAssumption DEF Idx, g
  <1>7. Advance(h, u) = Advance(t, v)
    BY <1>1, <1>3, <1>4, <1>5, <1>6, SizeAssumption
  <1> QED BY <1>2, <1>5, <1>7 DEF g

LEMMA SizeOfAdvance ==
    ASSUME NEW t \in Idx, NEW j \in 0 .. Size - 1
    PROVE  GetSize(t, Advance(t, j)) = j
  <1>1. j \in 0 .. Size
    BY SizeAssumption
  <1>2. Advance(t, j) = IF t + j < Size THEN t + j ELSE t + j - Size
    BY <1>1, AdvanceWraps
  <1> QED BY <1>2, SizeAssumption DEF GetSize, Idx

\* A store changes the next bytes of the frame and no other cell.
Stores ==
    \A j \in 0 .. Size - 1 :
        queue_buff'[Advance(tail_idx, j)] =
            IF StoredBytes <= j /\ j < StoredBytes' THEN FrameByte(sMsg, j)
            ELSE queue_buff[Advance(tail_idx, j)]

\* What is known while a SendMsg runs.
LEMMA SenderFacts ==
    ASSUME IInv, sPc # "idle"
    PROVE  /\ sMsg.len \in Nat /\ Used \in Nat /\ Size \in Nat /\ tail_idx \in Idx
           /\ LENGTH_BYTES + sMsg.len + Used + QUEUE_VACUUM_SLOT <= Size
           /\ LENGTH_BYTES + sMsg.len < Size
           /\ sPc \in {"payload", "wrapped", "publish"} =>
                 sTail = IF tail_idx + LENGTH_BYTES < Size THEN tail_idx + LENGTH_BYTES
                         ELSE tail_idx + LENGTH_BYTES - Size
  <1>1. /\ sMsg.len \in Nat /\ Used \in Nat /\ tail_idx \in Idx
        /\ LENGTH_BYTES + sMsg.len + Used + QUEUE_VACUUM_SLOT <= Size
        /\ sPc \in {"payload", "wrapped", "publish"} => sTail = Advance(tail_idx, LENGTH_BYTES)
    BY TypeFacts DEF IInv, SenderInv
  <1>2. LENGTH_BYTES \in 0 .. Size
    BY <1>1, SizeAssumption DEF LENGTH_BYTES, QUEUE_VACUUM_SLOT
  <1>3. Advance(tail_idx, LENGTH_BYTES) = IF tail_idx + LENGTH_BYTES < Size
            THEN tail_idx + LENGTH_BYTES ELSE tail_idx + LENGTH_BYTES - Size
    BY <1>1, <1>2, AdvanceWraps
  <1> QED BY <1>1, <1>3, SizeAssumption DEF LENGTH_BYTES, QUEUE_VACUUM_SLOT

LEMMA LengthStores == ASSUME IInv, SendMsgLength PROVE Stores
  <1>1. StoredBytes = 0 /\ StoredBytes' = LENGTH_BYTES
    BY DEF SendMsgLength, StoredBytes
  <1>2. sTail = tail_idx /\ tail_idx \in Idx
    BY TypeFacts DEF IInv, SenderInv, SendMsgLength
  <1>3. ASSUME NEW j \in 0 .. Size - 1
        PROVE  queue_buff'[Advance(tail_idx, j)] =
                  IF j < LENGTH_BYTES THEN LengthByte(sMsg.len, j) ELSE queue_buff[Advance(tail_idx, j)]
    <2>1. Advance(tail_idx, j) \in Idx /\ GetSize(tail_idx, Advance(tail_idx, j)) = j
      BY <1>2, AdvanceWraps, SizeOfAdvance, SizeAssumption
    <2> QED BY <1>2, <2>1 DEF SendMsgLength, StoreLength
  <1> QED BY <1>1, <1>3 DEF Stores, FrameByte

\* A memcpy to the cells from at on is a store behind the tail.
LEMMA MemcpyStores ==
    ASSUME NEW b, NEW m, NEW t \in Idx, NEW at \in Nat, NEW n \in Nat, NEW from \in Nat, NEW lo \in Nat,
           at + n <= Size, lo + n <= Size, lo = LENGTH_BYTES + from,
           at = (IF t + lo < Size THEN t + lo ELSE t + lo - Size),
           NEW j \in 0 .. Size - 1
    PROVE  StorePayload(b, at, n, m, from)[Advance(t, j)] =
              IF lo <= j /\ j < lo + n THEN FrameByte(m, j) ELSE b[Advance(t, j)]
  <1> DEFINE i == Advance(t, j)
  <1>1. j \in 0 .. Size
    BY SizeAssumption
  <1>2. i \in Idx /\ i = IF t + j < Size THEN t + j ELSE t + j - Size
    BY <1>1, AdvanceWraps
  <1> HIDE DEF i
  <1>3. StorePayload(b, at, n, m, from)[i] =
          IF i \in at .. at + n - 1 THEN PayloadByte(m, from + i - at + 1) ELSE b[i]
    BY <1>2 DEF StorePayload
  <1>4. i \in at .. at + n - 1 <=> lo <= j /\ j < lo + n
    BY <1>2, SizeAssumption DEF Idx
  <1>5. lo <= j /\ j < lo + n => /\ from + i - at + 1 = j - LENGTH_BYTES + 1
                                 /\ ~(j < LENGTH_BYTES)
    BY <1>2, SizeAssumption DEF Idx, LENGTH_BYTES
  <1> QED BY <1>3, <1>4, <1>5 DEF FrameByte, i

LEMMA PayloadStores ==
    ASSUME IInv, SendMsgPayload \/ SendMsgPayloadToEnd \/ SendMsgPayloadRest
    PROVE  Stores
  <1> DEFINE n == sMsg.len
             end == Size - sTail
  <1>1. /\ n \in Nat /\ Size \in Nat /\ tail_idx \in Idx /\ LENGTH_BYTES + n < Size
        /\ sTail = IF tail_idx + LENGTH_BYTES < Size THEN tail_idx + LENGTH_BYTES
                   ELSE tail_idx + LENGTH_BYTES - Size
        /\ sTail \in Nat /\ end \in Nat /\ LENGTH_BYTES \in Nat
        /\ sPc = "wrapped" => n + sTail > Size
    BY SenderFacts, TypeFacts
    DEF SendMsgPayload, SendMsgPayloadToEnd, SendMsgPayloadRest, IInv, SenderInv, LENGTH_BYTES
  <1>2. CASE SendMsgPayload
    <2>1. StoredBytes = LENGTH_BYTES /\ StoredBytes' = LENGTH_BYTES + n
      BY <1>2 DEF SendMsgPayload, StoredBytes
    <2>2. queue_buff' = StorePayload(queue_buff, sTail, n, sMsg, 0) /\ n + sTail <= Size
      BY <1>2 DEF SendMsgPayload
    <2> HIDE DEF n
    <2>3. sTail + n <= Size /\ LENGTH_BYTES + n <= Size /\ LENGTH_BYTES = LENGTH_BYTES + 0
      BY <1>1, <2>2
    <2> QED BY <1>1, <2>1, <2>2, <2>3, MemcpyStores DEF Stores
  <1>3. CASE SendMsgPayloadToEnd
    <2>1. StoredBytes = LENGTH_BYTES /\ StoredBytes' = LENGTH_BYTES + end
      BY <1>3 DEF SendMsgPayloadToEnd, StoredBytes
    <2>2. queue_buff' = StorePayload(queue_buff, sTail, end, sMsg, 0) /\ n + sTail > Size
      BY <1>3 DEF SendMsgPayloadToEnd
    <2>3. sTail + end <= Size /\ LENGTH_BYTES + end <= Size /\ LENGTH_BYTES = LENGTH_BYTES + 0
      BY <1>1, <2>2
    <2> HIDE DEF n, end
    <2> QED BY <1>1, <2>1, <2>2, <2>3, MemcpyStores DEF Stores
  <1>4. CASE SendMsgPayloadRest
    <2> DEFINE rest == n - end
               lo == LENGTH_BYTES + end
    <2>1. StoredBytes = lo /\ StoredBytes' = LENGTH_BYTES + n
      BY <1>4 DEF SendMsgPayloadRest, StoredBytes
    <2>2. queue_buff' = StorePayload(queue_buff, 0, rest, sMsg, end) /\ n + sTail > Size
      BY <1>1, <1>4 DEF SendMsgPayloadRest
    <2>3. rest \in Nat /\ lo \in Nat /\ lo + rest = LENGTH_BYTES + n
      BY <1>1, <2>2
    <2>4. 0 + rest <= Size /\ lo + rest <= Size
      BY <1>1, <2>3
    <2>5. 0 = IF tail_idx + lo < Size THEN tail_idx + lo ELSE tail_idx + lo - Size
      <3>1. n + sTail > Size /\ tail_idx \in Nat /\ tail_idx < Size
        BY <1>1, <2>2 DEF Idx
      <3>2. sTail = tail_idx + LENGTH_BYTES
        BY <1>1, <3>1
      <3> QED BY <1>1, <3>1, <3>2
    <2>6. lo = LENGTH_BYTES + end
      OBVIOUS
    <2> HIDE DEF rest, lo, end, n
    <2>7. ASSUME NEW j \in 0 .. Size - 1
          PROVE  queue_buff'[Advance(tail_idx, j)] =
              IF lo <= j /\ j < lo + rest THEN FrameByte(sMsg, j) ELSE queue_buff[Advance(tail_idx, j)]
      <3>1. tail_idx \in Idx /\ end \in Nat /\ 0 \in Nat
        BY <1>1
      <3>2. StorePayload(queue_buff, 0, rest, sMsg, end)[Advance(tail_idx, j)] =
              IF lo <= j /\ j < lo + rest THEN FrameByte(sMsg, j) ELSE queue_buff[Advance(tail_idx, j)]
        BY <2>3, <2>4, <2>5, <2>6, <3>1, MemcpyStores
      <3> QED BY <2>2, <3>2
    <2> QED BY <2>1, <2>3, <2>7 DEF Stores
  <1> QED BY <1>2, <1>3, <1>4

-----------------------------------------------------------------------------
(* The invariant is inductive: the sender. *)

\* The bytes of a frame in progress are fewer than what is free.
LEMMA StoredInRoom ==
    ASSUME IInv
    PROVE  /\ StoredBytes \in Nat
           /\ sPc # "idle" => StoredBytes <= LENGTH_BYTES + sMsg.len
  <1>1. sTail \in Nat /\ Size - sTail \in Nat /\ sMsg.len \in Nat
    BY TypeFacts DEF IInv
  <1>2. sPc = "wrapped" => sMsg.len + sTail > Size
    BY DEF IInv, SenderInv
  <1>3. sPc \in {"idle", "length", "payload", "wrapped", "publish"}
    BY DEF IInv, TypeOK
  <1> QED BY <1>1, <1>2, <1>3, SizeAssumption DEF StoredBytes, LENGTH_BYTES

LEMMA SameStored == ASSUME UNCHANGED <<sPc, sTail, sMsg>> PROVE StoredBytes' = StoredBytes
  BY DEF StoredBytes

\* The bytes of a frame at x are among the u used ones.
LEMMA InFrame ==
    ASSUME NEW x \in Nat, NEW n \in Nat, NEW u \in Nat, x + LENGTH_BYTES + n <= u,
           NEW j \in 0 .. LENGTH_BYTES + n - 1
    PROVE  x + j \in 0 .. u - 1
  BY DEF LENGTH_BYTES

\* The head and the messages stay and so do the unread bytes: the layout stays.
LEMMA LayoutKept ==
    ASSUME IInv, NEW off, Layout(off), UNCHANGED <<head_idx, tail_idx, accepted, returned>>,
           \A u \in 0 .. Used - 1 : queue_buff'[Advance(head_idx, u)] = queue_buff[Advance(head_idx, u)]
    PROVE  Layout(off)'
  <1>1. Used' = Used
    BY DEF Used
  <1>2. ASSUME NEW k \in Len(returned) + 1 .. Len(accepted),
               NEW j \in 0 .. LENGTH_BYTES + accepted[k].len - 1
        PROVE  queue_buff'[Advance(head_idx, off[k - 1] + j)] = FrameByte(accepted[k], j)
    <2>1. /\ off[k - 1] \in Nat /\ accepted[k].len \in Nat /\ Used \in Nat
          /\ off[k - 1] + LENGTH_BYTES + accepted[k].len <= Used
      <3>1. Len(returned) \in Nat /\ Len(accepted) \in Nat
        BY DEF IInv, TypeOK
      <3>2. k - 1 \in Len(returned) .. Len(accepted)
        BY <3>1
      <3>3. /\ off \in [Len(returned) .. Len(accepted) -> Nat]
            /\ accepted[k].len \in Lengths
        BY DEF Layout
      <3>4. off[k] = off[k - 1] + LENGTH_BYTES + accepted[k].len /\ off[k] <= Used
        BY DEF Layout
      <3>5. Used \in Nat /\ off[k - 1] \in Nat /\ accepted[k].len \in Nat
        BY <3>2, <3>3, TypeFacts, LengthsAssumption DEF IInv
      <3> QED BY <3>4, <3>5
    <2>2. off[k - 1] + j \in 0 .. Used - 1
      <3>1. PICK x \in Nat, n \in Nat, u \in Nat :
                   x = off[k - 1] /\ n = accepted[k].len /\ u = Used /\ x + LENGTH_BYTES + n <= u
        BY <2>1
      <3>2. j \in 0 .. LENGTH_BYTES + n - 1
        BY <3>1
      <3>3. x + j \in 0 .. u - 1
        BY <3>1, <3>2, InFrame
      <3> QED BY <3>1, <3>3
    <2> QED BY <2>2 DEF Layout
  <1> QED BY <1>1, <1>2 DEF Layout

LEMMA StoreContent ==
    ASSUME IInv, ContentInv,
           SendMsgLength \/ SendMsgPayload \/ SendMsgPayloadToEnd \/ SendMsgPayloadRest,
           StoredBytes' <= LENGTH_BYTES + sMsg.len, StoredBytes' \in Nat
    PROVE  ContentInv'
  <1>1. Stores
    BY LengthStores, PayloadStores
  <1>2. /\ UNCHANGED <<head_idx, tail_idx, sMsg, accepted, rPc, rHead, rLength, rBuf, returned>>
        /\ sPc # "idle" /\ sPc' # "idle"
    BY DEF SendMsgLength, SendMsgPayload, SendMsgPayloadToEnd, SendMsgPayloadRest, rVars
  <1>3. /\ sMsg.len \in Nat /\ Used \in Nat /\ tail_idx \in Idx /\ head_idx \in Idx
        /\ LENGTH_BYTES + sMsg.len + Used + QUEUE_VACUUM_SLOT <= Size
        /\ StoredBytes \in Nat /\ LENGTH_BYTES + sMsg.len < Size /\ Size \in Nat
        /\ LENGTH_BYTES + sMsg.len \in Nat
    BY <1>2, SenderFacts, TypeFacts, StoredInRoom DEF IInv, LENGTH_BYTES
  <1>4. ASSUME NEW u \in 0 .. Used - 1
        PROVE  queue_buff'[Advance(head_idx, u)] = queue_buff[Advance(head_idx, u)]
    <2> DEFINE v == Size - Used + u
    <2>1. v \in 0 .. Size - 1 /\ Advance(head_idx, u) = Advance(tail_idx, v)
      BY <1>3, UnreadFromTail DEF Used
    <2>2. ~(v < StoredBytes')
      BY <1>3, SizeAssumption DEF LENGTH_BYTES, QUEUE_VACUUM_SLOT
    <2> HIDE DEF v
    <2> QED BY <1>1, <2>1, <2>2 DEF Stores
  <1>5. (\E off : Layout(off))'
    BY <1>2, <1>4, LayoutKept DEF ContentInv
  <1>6. SenderFrame'
    <2>3. PICK stored \in Nat : stored = StoredBytes' /\ stored <= Size
      BY <1>3
    <2>1. ASSUME NEW j \in 0 .. stored - 1
          PROVE  queue_buff'[Advance(tail_idx, j)] = FrameByte(sMsg, j)
      <3>1. j \in 0 .. Size - 1 /\ j < StoredBytes'
        <4>1. stored <= Size /\ Size \in Nat
          BY <2>3, SizeAssumption
        <4>2. j \in Int /\ 0 <= j /\ j < stored
          OBVIOUS
        <4>3. j \in 0 .. Size - 1
          BY <4>1, <4>2
        <4> QED BY <2>3, <4>2, <4>3
      <3>2. CASE StoredBytes <= j
        BY <1>1, <3>1, <3>2 DEF Stores
      <3>3. CASE j < StoredBytes
        <4>1. j \in 0 .. StoredBytes - 1
          BY <1>3, <3>3
        <4>2. queue_buff[Advance(tail_idx, j)] = FrameByte(sMsg, j)
          BY <4>1 DEF ContentInv, SenderFrame
        <4>3. queue_buff'[Advance(tail_idx, j)] = queue_buff[Advance(tail_idx, j)]
          BY <1>1, <1>3, <3>1, <3>3 DEF Stores
        <4> QED BY <4>2, <4>3
      <3> QED BY <1>3, <3>2, <3>3
    <2>2. sMsg.len \in Lengths
      BY <1>2 DEF ContentInv, SenderFrame
    <2> QED BY <1>2, <2>1, <2>2, <2>3 DEF SenderFrame
  <1>7. ReceiverFrame'
    BY <1>2 DEF ContentInv, ReceiverFrame, Oldest
  <1> QED BY <1>2, <1>5, <1>6, <1>7 DEF ContentInv, ReturnsWhatWasAccepted

\* Publishing makes the frame behind the tail the last unread one.
LEMMA PublishContent == ASSUME IInv, ContentInv, SendMsgPublish PROVE ContentInv'
  <1> DEFINE r == Len(returned)
             a == Len(accepted)
             n == LENGTH_BYTES + sMsg.len
  <1>1. /\ accepted \in Seq(Message) /\ returned \in Seq(Seq(Byte)) /\ sMsg \in Message
        /\ r \in Nat /\ a \in Nat /\ r <= a
    BY TypeFacts DEF IInv, TypeOK, ContentInv, ReturnsWhatWasAccepted
  <1>2. /\ accepted' = Append(accepted, sMsg)
        /\ UNCHANGED <<head_idx, queue_buff, sMsg, rPc, rHead, rLength, rBuf, returned>>
        /\ sPc = "publish" /\ sPc' = "idle"
    BY DEF SendMsgPublish, rVars
  <1>3. /\ Len(accepted') = a + 1 /\ accepted'[a + 1] = sMsg
        /\ \A k \in 1 .. a : accepted'[k] = accepted[k]
    BY <1>1, <1>2
  <1>4. /\ Used' = Used + LENGTH_BYTES + sMsg.len /\ Used' <= Size /\ Used \in Nat
        /\ sMsg.len \in Nat /\ n \in Nat /\ head_idx \in Idx /\ tail_idx \in Idx
    <2>1. Used' = Used + LENGTH_BYTES + sMsg.len /\ Used' + QUEUE_VACUUM_SLOT <= Size /\ Used' \in Nat
      BY PublishGrows
    <2> QED BY <2>1, TypeFacts, SizeAssumption DEF IInv, LENGTH_BYTES, QUEUE_VACUUM_SLOT
  <1>5. PICK off : Layout(off)
    BY DEF ContentInv
  <1>5a. PICK new : new = [k \in r .. a + 1 |-> IF k = a + 1 THEN Used + n ELSE off[k]]
    OBVIOUS
  <1>6. /\ off \in [r .. a -> Nat] /\ off[r] = 0 /\ off[a] = Used
        /\ sMsg.len \in Lengths
    BY <1>2, <1>5 DEF Layout, ContentInv, SenderFrame
  <1>7. new \in [r .. a + 1 -> Nat]
    BY <1>1, <1>4, <1>6, <1>5a
  <1>8. ASSUME NEW j \in 0 .. n - 1
        PROVE  queue_buff'[Advance(head_idx, Used + j)] = FrameByte(sMsg, j)
    <2>1. Advance(head_idx, Used) = tail_idx
      BY <1>4, TailFromHead DEF Used
    <2>2. Advance(Advance(head_idx, Used), j) = Advance(head_idx, Used + j)
      <3>1. j \in Nat /\ Used + j <= Size
        BY <1>4, SizeAssumption DEF LENGTH_BYTES
      <3> QED BY <1>4, <3>1, AdvanceTwice
    <2>3. StoredBytes = n
      BY <1>2 DEF StoredBytes
    <2> QED BY <1>2, <2>1, <2>2, <2>3 DEF ContentInv, SenderFrame
  <1>9. ASSUME NEW k \in r + 1 .. a + 1
        PROVE  /\ accepted'[k].len \in Lengths
               /\ new[k] = new[k - 1] + LENGTH_BYTES + accepted'[k].len
               /\ new[k] <= Used'
               /\ \A j \in 0 .. LENGTH_BYTES + accepted'[k].len - 1 :
                     queue_buff'[Advance(head_idx, new[k - 1] + j)] = FrameByte(accepted'[k], j)
    <2>1. CASE k = a + 1
      <3>1. k \in r .. a + 1 /\ k - 1 \in r .. a + 1 /\ k - 1 = a /\ a # a + 1
        BY <1>1, <2>1
      <3>2. new[k] = Used + n /\ new[k - 1] = Used
        BY <1>6, <1>5a, <2>1, <3>1
      <3>3. accepted'[k] = sMsg
        BY <1>3, <2>1
      <3>4. new[k] = new[k - 1] + LENGTH_BYTES + sMsg.len /\ new[k] <= Used'
        <4>1. Used + n = Used + LENGTH_BYTES + sMsg.len /\ Used + n <= Used'
          BY <1>4 DEF LENGTH_BYTES
        <4> QED BY <3>2, <4>1
      <3>5. ASSUME NEW j \in 0 .. LENGTH_BYTES + sMsg.len - 1
            PROVE  queue_buff'[Advance(head_idx, new[k - 1] + j)] = FrameByte(sMsg, j)
        <4>1. j \in 0 .. n - 1
          BY <1>4 DEF LENGTH_BYTES
        <4>2. new[k - 1] + j = Used + j
          BY <3>2
        <4> QED BY <1>8, <4>1, <4>2, Zenon
      <3> HIDE DEF n
      <3> QED BY <1>6, <3>3, <3>4, <3>5
    <2>2. CASE k # a + 1
      <3>1. k \in r + 1 .. a /\ k \in 1 .. a /\ k \in r .. a + 1 /\ k - 1 \in r .. a + 1 /\ k - 1 # a + 1
        BY <1>1, <2>2
      <3>2. new[k] = off[k] /\ new[k - 1] = off[k - 1] /\ accepted'[k] = accepted[k]
        BY <1>3, <1>5a, <2>2, <3>1
      <3>3. off[k] \in Nat /\ off[k] <= Used
        BY <1>1, <1>5, <1>6, <3>1 DEF Layout
      <3>4. off[k] <= Used'
        BY <1>4, <3>3 DEF LENGTH_BYTES
      <3> QED BY <1>2, <1>5, <3>1, <3>2, <3>4 DEF Layout
    <2> QED BY <2>1, <2>2
  <1>10. new[r] = 0 /\ new[a + 1] = Used'
    <2>1. r \in r .. a + 1 /\ r # a + 1 /\ a + 1 \in r .. a + 1
      BY <1>1
    <2>2. new[r] = off[r] /\ new[a + 1] = Used + n
      BY <1>5a, <2>1
    <2>3. Used + n = Used'
      BY <1>4 DEF LENGTH_BYTES
    <2> QED BY <1>6, <2>2, <2>3
  <1>10a. ASSUME NEW i \in r .. a + 1, NEW k \in r .. a + 1, i <= k PROVE new[i] <= new[k]
    <2>1. CASE k = a + 1
      <3>1. new[k] = Used + n
        BY <1>5a, <2>1
      <3>2. CASE i = a + 1
        BY <1>7, <2>1, <3>2
      <3>3. CASE i # a + 1
        <4>1. i \in r .. a /\ new[i] = off[i] /\ a \in r .. a /\ i <= a
          BY <1>1, <1>5a, <3>3
        <4>2. off[i] <= Used
          BY <1>5, <1>6, <4>1 DEF Layout
        <4> QED BY <1>4, <1>6, <3>1, <4>1, <4>2
      <3> QED BY <3>2, <3>3
    <2>2. CASE k # a + 1
      <3>1. i \in r .. a /\ k \in r .. a /\ i # a + 1
        BY <1>1, <1>10a, <2>2
      <3>2. new[i] = off[i] /\ new[k] = off[k]
        BY <1>5a, <2>2, <3>1
      <3> QED BY <1>5, <1>10a, <3>1, <3>2 DEF Layout
    <2> QED BY <2>1, <2>2
  <1>11. Layout(new)'
    BY <1>2, <1>3, <1>7, <1>9, <1>10, <1>10a DEF Layout
  <1>12. SenderFrame'
    BY <1>2 DEF SenderFrame, StoredBytes
  <1>13. ReceiverFrame'
    <2>1. rPc # "idle" => r + 1 \in 1 .. a /\ Oldest' = Oldest
      BY <1>1, <1>2, <1>3 DEF ContentInv, ReceiverFrame, Oldest
    <2> QED BY <1>1, <1>2, <1>3, <2>1 DEF ContentInv, ReceiverFrame
  <1>14. ReturnsWhatWasAccepted'
    <2>1. \A k \in 1 .. r : k \in 1 .. a
      BY <1>1
    <2> QED BY <1>1, <1>2, <1>3, <2>1 DEF ContentInv, ReturnsWhatWasAccepted
  <1> QED BY <1>11, <1>12, <1>13, <1>14 DEF ContentInv

-----------------------------------------------------------------------------
(* The invariant is inductive: the receiver. *)

\* What is known of the oldest message while a RecvMsg runs: its frame begins at
\* the head and lies within the unread bytes.
LEMMA OldestFrame ==
    ASSUME IInv, ContentInv, Len(returned) < Len(accepted)
    PROVE  /\ Oldest \in Message /\ Oldest.len \in Nat /\ Oldest.len \in Lengths
           /\ LENGTH_BYTES + Oldest.len <= Used /\ Used \in Nat /\ Used < Size
           /\ \A j \in 0 .. LENGTH_BYTES + Oldest.len - 1 :
                 queue_buff[Advance(head_idx, j)] = FrameByte(Oldest, j)
  <1> DEFINE r == Len(returned)
  <1>1. PICK off : Layout(off)
    BY DEF ContentInv
  <1>2. /\ r \in Nat /\ Len(accepted) \in Nat /\ r + 1 \in r + 1 .. Len(accepted)
        /\ r + 1 \in 1 .. Len(accepted) /\ (r + 1) - 1 = r
    BY DEF IInv, TypeOK
  <1>3. /\ off[r] = 0 /\ Oldest.len \in Lengths
        /\ off[r + 1] = off[r] + LENGTH_BYTES + Oldest.len /\ off[r + 1] <= Used
        /\ \A j \in 0 .. LENGTH_BYTES + Oldest.len - 1 :
              queue_buff[Advance(head_idx, off[r] + j)] = FrameByte(Oldest, j)
    BY <1>1, <1>2 DEF Layout, Oldest
  <1>4. Oldest \in Message /\ Oldest.len \in Nat
    <2>1. accepted \in Seq(Message)
      BY DEF IInv, TypeOK
    <2>2. Oldest \in Message
      BY <1>2, <2>1 DEF Oldest
    <2> QED BY <1>3, <2>2, LengthsAssumption
  <1>5. Used \in Nat /\ Used < Size
    BY TypeFacts, SizeAssumption DEF IInv
  <1>6. LENGTH_BYTES + Oldest.len <= Used
    BY <1>3, <1>4, <1>5 DEF LENGTH_BYTES
  <1>7. ASSUME NEW j \in 0 .. LENGTH_BYTES + Oldest.len - 1
        PROVE  queue_buff[Advance(head_idx, j)] = FrameByte(Oldest, j)
    <2>1. off[r] + j = j
      BY <1>3, <1>4
    <2> QED BY <1>3, <2>1
  <1> QED BY <1>3, <1>4, <1>5, <1>6, <1>7

\* The prefix loop reads the length of the oldest message and no other.
LEMMA LengthRead ==
    ASSUME IInv, ContentInv, Len(returned) < Len(accepted)
    PROVE  LengthsAt(queue_buff, head_idx) = {Oldest.len}
  <1> DEFINE stored == {n \in Lengths : \A k \in 0 .. LENGTH_BYTES - 1 :
                                  queue_buff[Advance(head_idx, k)] = LengthByte(n, k)}
  <1>1. \A k \in 0 .. LENGTH_BYTES - 1 : queue_buff[Advance(head_idx, k)] = LengthByte(Oldest.len, k)
    <2> SUFFICES ASSUME NEW k \in 0 .. LENGTH_BYTES - 1
                 PROVE  queue_buff[Advance(head_idx, k)] = LengthByte(Oldest.len, k)
      OBVIOUS
    <2>1. k \in 0 .. LENGTH_BYTES + Oldest.len - 1 /\ k < LENGTH_BYTES
      BY OldestFrame DEF LENGTH_BYTES
    <2> QED BY <2>1, OldestFrame DEF FrameByte
  <1>2. Oldest.len \in stored
    BY <1>1, OldestFrame
  <1>3. ASSUME NEW n \in stored PROVE n = Oldest.len
    <2>1. 0 \in 0 .. LENGTH_BYTES - 1
      BY DEF LENGTH_BYTES
    <2>2. LengthByte(n, 0) = LengthByte(Oldest.len, 0)
      BY <1>1, <2>1
    <2>3. LengthByte(n, 0).of = n /\ LengthByte(Oldest.len, 0).of = Oldest.len
      BY DEF LengthByte
    <2> QED BY <2>2, <2>3
  <1>4. stored = {Oldest.len} /\ stored # {}
    BY <1>2, <1>3
  <1> QED BY <1>4 DEF LengthsAt

\* A cell of the payload, where the receiver looks for it.
LEMMA PayloadRead ==
    ASSUME IInv, ContentInv, Len(returned) < Len(accepted),
           NEW i \in Nat, NEW k \in 1 .. Oldest.len,
           rHead = Advance(head_idx, LENGTH_BYTES),
           (i = rHead + k - 1 /\ i < Size) \/ i = rHead + k - 1 - Size
    PROVE  queue_buff[i] = PayloadByte(Oldest, k)
  <1> DEFINE j == LENGTH_BYTES + (k - 1)
  <1>1. /\ Oldest.len \in Nat /\ LENGTH_BYTES + Oldest.len <= Size
        /\ head_idx \in Idx /\ rHead \in Idx
    BY OldestFrame, TypeFacts, SizeAssumption DEF IInv, LENGTH_BYTES
  <1>2. /\ LENGTH_BYTES \in Nat /\ k - 1 \in Nat /\ j <= Size
        /\ j \in 0 .. LENGTH_BYTES + Oldest.len - 1
        /\ k - 1 \in 0 .. Size
    BY <1>1, SizeAssumption DEF LENGTH_BYTES
  <1>3. Advance(rHead, k - 1) = Advance(head_idx, j)
    BY <1>1, <1>2, AdvanceTwice
  <1>4. Advance(rHead, k - 1) = IF rHead + (k - 1) < Size THEN rHead + (k - 1) ELSE rHead + (k - 1) - Size
    BY <1>1, <1>2, AdvanceWraps
  <1>5. i = Advance(rHead, k - 1)
    BY <1>1, <1>4, SizeAssumption DEF Idx
  <1>6. queue_buff[Advance(head_idx, j)] = FrameByte(Oldest, j)
    BY <1>2, OldestFrame
  <1>7. FrameByte(Oldest, j) = PayloadByte(Oldest, k)
    <2>1. ~(j < LENGTH_BYTES) /\ j - LENGTH_BYTES + 1 = k
      BY DEF LENGTH_BYTES
    <2> HIDE DEF j
    <2> QED BY <2>1 DEF FrameByte
  <1> QED BY <1>3, <1>5, <1>6, <1>7

\* The steps of RecvMsg before it moves the head change only its own place.
LEMMA ReadContent ==
    ASSUME IInv, ContentInv, UNCHANGED <<shared, sVars, returned>>, ReceiverFrame'
    PROVE  ContentInv'
  <1>1. UNCHANGED <<head_idx, tail_idx, queue_buff, accepted, returned, sPc, sTail, sMsg>>
    BY DEF shared, sVars
  <1>2. (\E off : Layout(off))'
    BY <1>1, LayoutKept DEF ContentInv
  <1>3. SenderFrame'
    BY <1>1, SameStored DEF ContentInv, SenderFrame
  <1> QED BY <1>1, <1>2, <1>3 DEF ContentInv, ReturnsWhatWasAccepted

LEMMA BeginContent == ASSUME IInv, ContentInv, RecvMsgBegin PROVE ContentInv'
  <1>1. UNCHANGED <<shared, sVars, returned>> /\ rPc' = "length"
    BY DEF RecvMsgBegin
  <1>2. Len(returned) < Len(accepted)
    <2>1. PICK off : Layout(off)
      BY DEF ContentInv
    <2>2. Used # 0
      BY TypeFacts DEF RecvMsgBegin, Used, LENGTH_BYTES, IInv
    <2>3. Len(returned) # Len(accepted)
      BY <2>1, <2>2 DEF Layout
    <2> QED BY <2>3 DEF ContentInv, ReturnsWhatWasAccepted, IInv, TypeOK
  <1>3. ReceiverFrame'
    BY <1>1, <1>2 DEF ReceiverFrame, sVars
  <1> QED BY <1>1, <1>3, ReadContent

LEMMA LengthContent == ASSUME IInv, ContentInv, RecvMsgLength PROVE ContentInv'
  <1>1. /\ UNCHANGED <<shared, sVars, returned>> /\ rPc' \in {"idle", "payload"}
        /\ Len(returned) < Len(accepted) /\ rHead = head_idx
        /\ rLength' \in LengthsAt(queue_buff, rHead)
    BY DEF RecvMsgLength, ContentInv, ReceiverFrame, IInv, ReceiverInv
  <1>2. rLength' = Oldest.len
    BY <1>1, LengthRead
  <1>3. ReceiverFrame'
    BY <1>1, <1>2 DEF ReceiverFrame, Oldest, sVars
  <1> QED BY <1>1, <1>3, ReadContent

LEMMA CopyContent ==
    ASSUME IInv, ContentInv, RecvMsgPayload \/ RecvMsgPayloadToEnd \/ RecvMsgPayloadRest
    PROVE  ContentInv'
  <1>1. /\ UNCHANGED <<shared, sVars, returned, rHead, rLength>>
        /\ Len(returned) < Len(accepted) /\ rLength = Oldest.len
        /\ rHead = Advance(head_idx, LENGTH_BYTES)
    BY DEF RecvMsgPayload, RecvMsgPayloadToEnd, RecvMsgPayloadRest, ContentInv, ReceiverFrame,
       IInv, ReceiverInv
  <1>2. /\ Oldest.len \in Nat /\ rHead \in Nat /\ rHead < Size /\ Size \in Nat
        /\ LENGTH_BYTES + Oldest.len < Size /\ Oldest.len < Size
    <2>1. Oldest.len \in Nat /\ LENGTH_BYTES + Oldest.len <= Used /\ Used \in Nat /\ Used < Size
      BY <1>1, OldestFrame
    <2>2. rHead \in Nat /\ rHead < Size /\ Size \in Nat
      BY TypeFacts, SizeAssumption DEF IInv, Idx
    <2> QED BY <2>1, <2>2 DEF LENGTH_BYTES
  <1>3. Oldest' = Oldest
    BY <1>1 DEF Oldest, sVars
  <1>4. CASE RecvMsgPayload
    <2>1. ASSUME NEW k \in 1 .. rLength PROVE queue_buff[rHead + k - 1] = PayloadByte(Oldest, k)
      <3>1. rHead + k - 1 \in Nat /\ rHead + k - 1 < Size /\ k \in 1 .. Oldest.len
        BY <1>1, <1>2, <1>4 DEF RecvMsgPayload
      <3> QED BY <1>1, <3>1, PayloadRead
    <2>2. rBuf' = Payload(Oldest)
      BY <1>1, <1>4, <2>1 DEF RecvMsgPayload, Payload
    <2>3. ReceiverFrame'
      BY <1>1, <1>3, <1>4, <2>2 DEF RecvMsgPayload, ReceiverFrame, sVars
    <2> QED BY <1>1, <2>3, ReadContent
  <1>5. CASE RecvMsgPayloadToEnd
    <2>1. ASSUME NEW k \in 1 .. Size - rHead PROVE queue_buff[rHead + k - 1] = PayloadByte(Oldest, k)
      <3>1. rHead + k - 1 \in Nat /\ rHead + k - 1 < Size /\ k \in 1 .. Oldest.len
        BY <1>1, <1>2, <1>5 DEF RecvMsgPayloadToEnd
      <3> QED BY <1>1, <3>1, PayloadRead
    <2>2. rBuf' = [k \in 1 .. Size - rHead |-> PayloadByte(Oldest, k)]
      BY <1>5, <2>1 DEF RecvMsgPayloadToEnd
    <2>3. ReceiverFrame'
      BY <1>1, <1>3, <1>5, <2>2 DEF RecvMsgPayloadToEnd, ReceiverFrame, sVars
    <2> QED BY <1>1, <2>3, ReadContent
  <1>6. CASE RecvMsgPayloadRest
    <2> DEFINE e == Size - rHead
               n == Oldest.len
               first == [k \in 1 .. e |-> PayloadByte(Oldest, k)]
               rest == [k \in 1 .. n - e |-> queue_buff[k - 1]]
    <2>1. rHead + n > Size /\ e \in Nat /\ n - e \in Nat
      BY <1>1, <1>2, <1>6 DEF RecvMsgPayloadRest, IInv, ReceiverInv
    <2>2. rBuf' = first \o rest
      BY <1>1, <1>6 DEF RecvMsgPayloadRest, ContentInv, ReceiverFrame
    <2>3. ASSUME NEW k \in 1 .. n - e PROVE rest[k] = PayloadByte(Oldest, e + k)
      <3>1. k - 1 \in Nat /\ e + k \in 1 .. Oldest.len /\ k - 1 = rHead + (e + k) - 1 - Size
        BY <1>2, <2>1
      <3>2. queue_buff[k - 1] = PayloadByte(Oldest, e + k)
        BY <1>1, <3>1, PayloadRead
      <3> QED BY <3>2
    <2>4. /\ first \in Seq(Byte) /\ Len(first) = e
          /\ rest \in Seq(Byte) /\ Len(rest) = n - e
          /\ Payload(Oldest) \in Seq(Byte) /\ Len(Payload(Oldest)) = n
      <3>1. \A k \in Nat : PayloadByte(Oldest, k) \in Byte
        BY <1>1, OldestFrame DEF PayloadByte, Byte, Message
      <3>2. \A k \in 1 .. n - e : rest[k] \in Byte
        BY <2>1, <2>3, <3>1
      <3>3. rest = [k \in 1 .. n - e |-> rest[k]]
        OBVIOUS
      <3>4. first \in Seq(Byte) /\ Len(first) = e
        BY <2>1, <3>1
      <3>5. Payload(Oldest) \in Seq(Byte) /\ Len(Payload(Oldest)) = n
        BY <1>2, <3>1 DEF Payload
      <3> HIDE DEF rest
      <3>6. rest \in Seq(Byte) /\ Len(rest) = n - e
        BY <2>1, <3>2, <3>3
      <3> QED BY <3>4, <3>5, <3>6
    <2>5. \A k \in 1 .. e : first[k] = PayloadByte(Oldest, k)
      OBVIOUS
    <2>6. \A k \in 1 .. n : Payload(Oldest)[k] = PayloadByte(Oldest, k)
      BY DEF Payload
    <2> HIDE DEF first, rest, e
    <2>7. rBuf' = Payload(Oldest)
      <3>1. /\ first \o rest \in Seq(Byte) /\ Len(first \o rest) = n
            /\ \A k \in 1 .. n : (first \o rest)[k] = IF k <= e THEN first[k] ELSE rest[k - e]
        <4>1. /\ first \o rest \in Seq(Byte) /\ Len(first \o rest) = Len(first) + Len(rest)
              /\ \A k \in 1 .. Len(first) + Len(rest) : (first \o rest)[k] =
                    IF k <= Len(first) THEN first[k] ELSE rest[k - Len(first)]
          BY <2>4, ConcatProperties
        <4>2. Len(first) + Len(rest) = n /\ Len(first) = e
          BY <1>2, <2>1, <2>4
        <4> QED BY <4>1, <4>2
      <3>2. ASSUME NEW k \in 1 .. n PROVE (first \o rest)[k] = Payload(Oldest)[k]
        <4>1. CASE k <= e
          BY <2>1, <2>5, <2>6, <3>1, <4>1
        <4>2. CASE ~(k <= e)
          <5>1. k - e \in 1 .. n - e /\ e + (k - e) = k
            BY <1>2, <2>1, <4>2
          <5>2. rest[k - e] = PayloadByte(Oldest, k)
            BY <2>3, <5>1
          <5> QED BY <2>6, <3>1, <4>2, <5>2
        <4> QED BY <4>1, <4>2
      <3> QED BY <2>2, <2>4, <3>1, <3>2, SeqEqual
    <2>8. ReceiverFrame'
      BY <1>1, <1>3, <1>6, <2>7 DEF RecvMsgPayloadRest, ReceiverFrame, sVars
    <2> QED BY <1>1, <2>8, ReadContent
  <1> QED BY <1>4, <1>5, <1>6

\* A frame from x to y, counted from a head that has moved by d.
LEMMA FrameMoves ==
    ASSUME NEW x \in Nat, NEW y \in Nat, NEW n \in Nat, NEW d \in Nat,
           y = x + LENGTH_BYTES + n, d <= x
    PROVE  /\ y - d = (x - d) + LENGTH_BYTES + n
           /\ \A j \in 0 .. LENGTH_BYTES + n - 1 :
                 (x - d) + j \in Nat /\ d + ((x - d) + j) = x + j /\ x + j < y
  BY DEF LENGTH_BYTES

\* The read frame leaves the unread bytes, and with it its message.
LEMMA ConsumeContent == ASSUME IInv, ContentInv, RecvMsgConsume PROVE ContentInv'
  <1> DEFINE r == Len(returned)
             a == Len(accepted)
             d == LENGTH_BYTES + Oldest.len
  <1>1. /\ accepted \in Seq(Message) /\ returned \in Seq(Seq(Byte)) /\ rBuf \in Seq(Byte)
        /\ r \in Nat /\ a \in Nat /\ r < a /\ r + 1 \in 1 .. a
        /\ rLength = Oldest.len /\ rBuf = Payload(Oldest)
        /\ rHead = Advance(head_idx, LENGTH_BYTES)
    BY DEF IInv, TypeOK, ReceiverInv, ContentInv, ReceiverFrame, RecvMsgConsume
  <1>2. /\ UNCHANGED <<tail_idx, queue_buff, sPc, sTail, sMsg, accepted>>
        /\ returned' = Append(returned, rBuf) /\ rPc' = "idle"
    BY DEF RecvMsgConsume, sVars
  <1>3. /\ Len(returned') = r + 1 /\ returned'[r + 1] = Payload(Oldest)
        /\ \A k \in 1 .. r : returned'[k] = returned[k]
    BY <1>1, <1>2
  <1>4. /\ Oldest.len \in Nat /\ d \in Nat /\ d <= Used /\ Used \in Nat /\ Used < Size
        /\ Size \in Nat /\ head_idx \in Idx
    <2>1. Oldest.len \in Nat /\ LENGTH_BYTES + Oldest.len <= Used /\ Used \in Nat /\ Used < Size
      BY <1>1, OldestFrame
    <2>2. Size \in Nat /\ head_idx \in Idx
      BY TypeFacts, SizeAssumption DEF IInv
    <2> QED BY <2>1, <2>2 DEF LENGTH_BYTES
  <1>5. Used' = Used - d /\ Used' \in Nat
    BY <1>1, ConsumeShrinks
  <1>6. head_idx' = Advance(head_idx, d)
    <2>1. LENGTH_BYTES \in Nat /\ LENGTH_BYTES + Oldest.len <= Size
      BY <1>4 DEF LENGTH_BYTES
    <2> QED BY <1>1, <1>4, <2>1, AdvanceTwice DEF RecvMsgConsume
  <1>7. PICK off : Layout(off)
    BY DEF ContentInv
  <1>8. PICK new : new = [k \in r + 1 .. a |-> off[k] - d]
    OBVIOUS
  <1>9. /\ off \in [r .. a -> Nat] /\ off[a] = Used /\ off[r + 1] = d
        /\ \A k \in r + 1 .. a : off[k] \in Nat /\ d <= off[k] /\ off[k] <= Used
    <2>1. off \in [r .. a -> Nat] /\ off[r] = 0 /\ off[a] = Used
      BY <1>7 DEF Layout
    <2>2. r + 1 \in r + 1 .. a /\ (r + 1) - 1 = r /\ r + 1 \in r .. a
      BY <1>1
    <2>3. off[r + 1] = off[r] + LENGTH_BYTES + Oldest.len
      BY <1>7, <2>2 DEF Layout, Oldest
    <2>4. off[r + 1] = d
      BY <1>4, <2>1, <2>3 DEF LENGTH_BYTES
    <2>5. ASSUME NEW k \in r + 1 .. a
          PROVE  off[k] \in Nat /\ off[r + 1] <= off[k] /\ off[k] <= Used
      <3>1. k \in r .. a /\ r + 1 <= k
        BY <1>1
      <3> QED BY <1>7, <2>1, <2>2, <3>1 DEF Layout
    <2> QED BY <2>1, <2>4, <2>5
  <1>10. new \in [r + 1 .. a -> Nat] /\ new[r + 1] = 0 /\ new[a] = Used'
    <2>1. r + 1 \in r + 1 .. a /\ a \in r + 1 .. a
      BY <1>1
    <2>2. \A k \in r + 1 .. a : off[k] - d \in Nat
      BY <1>4, <1>9
    <2> QED BY <1>4, <1>5, <1>8, <1>9, <2>1, <2>2
  <1>11. ASSUME NEW i \in r + 1 .. a, NEW k \in r + 1 .. a, i <= k PROVE new[i] <= new[k]
    <2>1. i \in r .. a /\ k \in r .. a
      BY <1>1
    <2>2. off[i] <= off[k]
      BY <1>7, <2>1, <1>11 DEF Layout
    <2> QED BY <1>4, <1>8, <1>9, <2>2
  <1>12. ASSUME NEW k \in (r + 1) + 1 .. a
         PROVE  /\ accepted[k].len \in Lengths
                /\ new[k] = new[k - 1] + LENGTH_BYTES + accepted[k].len
                /\ new[k] <= Used'
                /\ \A j \in 0 .. LENGTH_BYTES + accepted[k].len - 1 :
                      queue_buff[Advance(head_idx', new[k - 1] + j)] = FrameByte(accepted[k], j)
    <2>1. k \in r + 1 .. a /\ k - 1 \in r + 1 .. a
      BY <1>1
    <2>2. /\ accepted[k].len \in Lengths
          /\ off[k] = off[k - 1] + LENGTH_BYTES + accepted[k].len
      BY <1>7, <2>1 DEF Layout
    <2>2a. \A j \in 0 .. LENGTH_BYTES + accepted[k].len - 1 :
                queue_buff[Advance(head_idx, off[k - 1] + j)] = FrameByte(accepted[k], j)
      BY <1>7, <2>1 DEF Layout
    <2>3. /\ new[k] = off[k] - d /\ new[k - 1] = off[k - 1] - d
          /\ off[k] \in Nat /\ off[k - 1] \in Nat /\ d <= off[k - 1] /\ off[k] <= Used
      BY <1>8, <1>9, <2>1
    <2>4. PICK x \in Nat, y \in Nat, n \in Nat, e \in Nat :
                 x = off[k - 1] /\ y = off[k] /\ n = accepted[k].len /\ e = d
      BY <1>4, <2>2, <2>3, LengthsAssumption
    <2> HIDE DEF d
    <2>5. /\ y = x + LENGTH_BYTES + n /\ e <= x /\ y <= Used
          /\ new[k] = y - e /\ new[k - 1] = x - e
      BY <2>2, <2>3, <2>4
    <2>6. new[k] = new[k - 1] + LENGTH_BYTES + n /\ new[k] <= Used'
      <3>1. y - e = (x - e) + LENGTH_BYTES + n
        BY <2>5, FrameMoves
      <3>2. y - e <= Used - e
        BY <1>4, <2>5
      <3> QED BY <1>5, <2>4, <2>5, <3>1, <3>2
    <2>7. ASSUME NEW j \in 0 .. LENGTH_BYTES + n - 1
          PROVE  queue_buff[Advance(head_idx', new[k - 1] + j)] = FrameByte(accepted[k], j)
      <3>1. (x - e) + j \in Nat /\ e + ((x - e) + j) = x + j /\ x + j < y
        BY <2>5, FrameMoves
      <3>2. e + ((x - e) + j) <= Size
        <4>1. j \in Int
          OBVIOUS
        <4> QED BY <1>4, <2>5, <3>1, <4>1
      <3>3. Advance(Advance(head_idx, e), (x - e) + j) = Advance(head_idx, e + ((x - e) + j))
        BY <1>4, <3>1, <3>2, AdvanceTwice
      <3>4. queue_buff[Advance(head_idx, x + j)] = FrameByte(accepted[k], j)
        BY <2>2a, <2>4
      <3> QED BY <1>6, <2>4, <2>5, <3>1, <3>3, <3>4
    <2> QED BY <2>2, <2>4, <2>6, <2>7
  <1>13. Layout(new)'
    BY <1>2, <1>3, <1>10, <1>11, <1>12 DEF Layout
  <1>14. SenderFrame'
    BY <1>2, SameStored DEF ContentInv, SenderFrame
  <1>15. ReceiverFrame'
    BY <1>2 DEF ReceiverFrame
  <1>16. ReturnsWhatWasAccepted'
    <2>1. \A k \in 1 .. r + 1 : k \in 1 .. r \/ k = r + 1
      BY <1>1
    <2> QED BY <1>1, <1>2, <1>3, <2>1 DEF ContentInv, ReturnsWhatWasAccepted, Oldest
  <1> QED BY <1>13, <1>14, <1>15, <1>16 DEF ContentInv

-----------------------------------------------------------------------------
(* The theorem. *)

\* A SendMsg that begins, is refused or dies has no bytes of a frame.
LEMMA SenderAlone ==
    ASSUME IInv, ContentInv, SendMsgRefuse \/ SendMsgBegin \/ SenderCrash
    PROVE  ContentInv'
  <1>1. UNCHANGED <<head_idx, tail_idx, queue_buff, accepted, rPc, rHead, rLength, rBuf, returned>>
    BY DEF SendMsgRefuse, SendMsgBegin, SenderCrash, shared, rVars
  <1>2. StoredBytes' = 0 /\ (sPc' # "idle" => sMsg'.len \in Lengths)
    BY DEF SendMsgRefuse, SendMsgBegin, SenderCrash, StoredBytes
  <1>3. (\E off : Layout(off))'
    BY <1>1, LayoutKept DEF ContentInv
  <1>4. SenderFrame'
    <2>1. 0 .. StoredBytes' - 1 = {}
      BY <1>2
    <2> QED BY <1>2, <2>1 DEF SenderFrame
  <1>5. ReceiverFrame'
    BY <1>1 DEF ContentInv, ReceiverFrame, Oldest
  <1> QED BY <1>1, <1>3, <1>4, <1>5 DEF ContentInv, ReturnsWhatWasAccepted

LEMMA InitContent == Init => ContentInv
  <1> SUFFICES ASSUME Init PROVE ContentInv
    OBVIOUS
  <1>1. Len(returned) = 0 /\ Len(accepted) = 0 /\ Used = 0
    BY DEF Init, Used, GetSize
  <1>2. Layout([k \in 0 .. 0 |-> 0])
    BY <1>1 DEF Layout
  <1>3. SenderFrame
    <2>1. 0 .. StoredBytes - 1 = {}
      BY DEF Init, StoredBytes
    <2> QED BY <2>1 DEF Init, SenderFrame
  <1> QED BY <1>1, <1>2, <1>3 DEF Init, ContentInv, ReceiverFrame, ReturnsWhatWasAccepted

LEMMA ContentStep == ASSUME IInv, IInv', ContentInv, [Next]_vars PROVE ContentInv'
  <1>1. CASE SendMsgLength \/ SendMsgPayload \/ SendMsgPayloadToEnd \/ SendMsgPayloadRest
    <2>2. /\ sMsg.len \in Nat /\ sTail \in Nat /\ Size - sTail \in Nat /\ Size \in Nat
          /\ LENGTH_BYTES + sMsg.len \in Nat
      BY TypeFacts, SizeAssumption DEF IInv, LENGTH_BYTES
    <2>3. /\ SendMsgLength => StoredBytes' = LENGTH_BYTES
          /\ SendMsgPayload \/ SendMsgPayloadRest => StoredBytes' = LENGTH_BYTES + sMsg.len
          /\ SendMsgPayloadToEnd => /\ StoredBytes' = LENGTH_BYTES + (Size - sTail)
                                    /\ sMsg.len + sTail > Size
      BY DEF SendMsgLength, SendMsgPayload, SendMsgPayloadToEnd, SendMsgPayloadRest, StoredBytes
    <2>4. StoredBytes' \in Nat /\ StoredBytes' <= LENGTH_BYTES + sMsg.len
      BY <1>1, <2>2, <2>3 DEF LENGTH_BYTES
    <2> QED BY <1>1, <2>4, StoreContent
  <1>2. CASE SendMsgRefuse \/ SendMsgBegin \/ SenderCrash
    BY <1>2, SenderAlone
  <1>3. CASE RecvMsgBegin
    BY <1>3, BeginContent
  <1>4. CASE RecvMsgLength
    BY <1>4, LengthContent
  <1>5. CASE RecvMsgPayload \/ RecvMsgPayloadToEnd \/ RecvMsgPayloadRest
    BY <1>5, CopyContent
  <1>6. CASE ReceiverCrash \/ UNCHANGED vars
    <2>1. UNCHANGED <<shared, sVars, returned, rHead, rLength, rBuf>> /\ rPc' \in {"idle", rPc}
      BY <1>6 DEF ReceiverCrash, vars, rVars
    <2>2. ReceiverFrame'
      BY <2>1 DEF ContentInv, ReceiverFrame, Oldest, sVars
    <2> QED BY <2>1, <2>2, ReadContent
  <1> QED
    BY <1>1, <1>2, <1>3, <1>4, <1>5, <1>6, PublishContent, ConsumeContent
    DEF Next, SenderStep, ReceiverStep

\* The bytes in use are at any time the frames of the messages not yet returned.
THEOREM ContentDiscipline == Spec => [](IInv /\ ContentInv)
  <1>1. IInv /\ [Next]_vars => IInv'
    BY TypeOKStep, IndexStep, SenderInvStep, ReceiverInvStep DEF IInv
  <1>2. IInv /\ ContentInv /\ [Next]_vars => IInv' /\ ContentInv'
    BY <1>1, ContentStep
  <1> QED BY InitIInv, InitContent, <1>2, PTL DEF Spec

-----------------------------------------------------------------------------
(* What follows for the properties of MessageQueue. *)

\* RecvMsg returns the messages SendMsg accepted, byte for byte and in their
\* order, through every wrap of the ring, every stale index and every death.
THEOREM ReturnsAccepted == Spec => []ReturnsWhatWasAccepted
  <1>1. ContentInv => ReturnsWhatWasAccepted
    BY DEF ContentInv
  <1> QED BY <1>1, ContentDiscipline, PTL

LEMMA HasLeast ==
    ASSUME NEW S \in SUBSET Nat, S # {}
    PROVE  \E m \in S : \A k \in S : m <= k
  <1> DEFINE R == OpToRel(<, Nat)
  <1>1. IsWellFoundedOn(R, Nat)
    BY NatLessThanWellFounded, Zenon
  <1>2. PICK m \in S : \A k \in S : <<k, m>> \notin R
    <2> HIDE DEF R
    <2> QED BY <1>1, WFMin
  <1>3. \A k \in S : ~(k < m)
    BY <1>2 DEF OpToRel
  <1> QED BY <1>3

\* The bytes of the unread messages are the bytes between the two indices.
LEMMA UnreadBytesAreUsed == ASSUME IInv, ContentInv PROVE UnreadBytes = Used
  <1> DEFINE r == Len(returned)
             a == Len(accepted)
             Sum(f) == [k \in r .. a |-> IF k = r THEN 0
                                         ELSE f[k - 1] + LENGTH_BYTES + accepted[k].len]
             total == CHOOSE f : f = Sum(f)
  <1>1. r \in Nat /\ a \in Nat /\ r <= a
    BY DEF IInv, TypeOK, ContentInv, ReturnsWhatWasAccepted
  <1>2. PICK off : Layout(off)
    BY DEF ContentInv
  <1>3. off = Sum(off)
    <2>1. off \in [r .. a -> Nat] /\ off[r] = 0
      BY <1>2 DEF Layout
    <2>2. ASSUME NEW k \in r .. a, k # r PROVE off[k] = off[k - 1] + LENGTH_BYTES + accepted[k].len
      <3>1. k \in r + 1 .. a
        BY <1>1, <2>2
      <3> QED BY <1>2, <3>1 DEF Layout
    <2> QED BY <2>1, <2>2
  <1>4. total = Sum(total)
    <2> HIDE DEF Sum
    <2> QED BY <1>3
  <1>5. UnreadBytes = total[a]
    BY DEF UnreadBytes
  <1> HIDE DEF total
  <1>6. total[a] = off[a]
    <2> DEFINE S == {k \in r .. a : total[k] # off[k]}
    <2>1. SUFFICES ASSUME S # {} PROVE FALSE
      BY <1>1
    <2>2. S \in SUBSET Nat
      BY <1>1
    <2>3. PICK m \in S : \A k \in S : m <= k
      BY <2>1, <2>2, HasLeast
    <2>4. m \in r .. a /\ total[m] # off[m]
      BY <2>3
    <2>5. m # r
      BY <1>3, <1>4, <2>4
    <2>6. m - 1 \in r .. a /\ m - 1 \notin S
      BY <1>1, <2>3, <2>4, <2>5
    <2>7. total[m - 1] = off[m - 1]
      BY <2>6
    <2>8. /\ total[m] = total[m - 1] + LENGTH_BYTES + accepted[m].len
          /\ off[m] = off[m - 1] + LENGTH_BYTES + accepted[m].len
      BY <1>3, <1>4, <2>4, <2>5
    <2> QED BY <2>4, <2>7, <2>8
  <1> QED BY <1>2, <1>5, <1>6 DEF Layout

\* SendMsg refuses a message only if the unread ones and the vacuum slot leave
\* no room for it: no wrap, no stale head_idx and no death takes room away.
THEOREM RefusesOnlyWhenFull == Spec => RefusedOnlyWhenFull
  <1>1. IInv /\ ContentInv /\ [Next]_vars =>
            [sends' > sends /\ sPc' = "idle" =>
                UnreadBytes + LENGTH_BYTES + sMsg'.len + QUEUE_VACUUM_SLOT > Size]_vars
    <2> SUFFICES ASSUME IInv, ContentInv, [Next]_vars, sends' > sends, sPc' = "idle"
                 PROVE  UnreadBytes + LENGTH_BYTES + sMsg'.len + QUEUE_VACUUM_SLOT > Size
      OBVIOUS
    <2>1. SendMsgRefuse
      <3>1. sends' # sends
        BY DEF IInv, TypeOK
      <3> QED
        BY <3>1
        DEF Next, SenderStep, ReceiverStep, vars, sVars, SendMsgBegin, SendMsgLength,
            SendMsgPayload, SendMsgPayloadToEnd, SendMsgPayloadRest, SendMsgPublish,
            RecvMsgBegin, RecvMsgLength, RecvMsgPayload, RecvMsgPayloadToEnd,
            RecvMsgPayloadRest, RecvMsgConsume, SenderCrash, ReceiverCrash
    <2>2. PICK n \in Lengths : /\ ~Fits(GetLeftSize(head_idx, tail_idx), n)
                               /\ sMsg'.len = n
      BY <2>1 DEF SendMsgRefuse
    <2>3. n \in Nat /\ Used \in Nat /\ UnreadBytes = Used
          /\ GetLeftSize(head_idx, tail_idx) = Size - Used - QUEUE_VACUUM_SLOT
      BY LengthsAssumption, TypeFacts, SizePlusLeft, UnreadBytesAreUsed DEF IInv, Used
    <2> QED BY <2>2, <2>3, SizeAssumption DEF Fits, LENGTH_BYTES, QUEUE_VACUUM_SLOT
  <1> QED BY <1>1, ContentDiscipline, PTL DEF Spec, RefusedOnlyWhenFull

-----------------------------------------------------------------------------
(* The ring is a FIFO.  The abstract queue holds what was accepted and not yet *)
(* returned; the run compares it with what is stored in the ring.              *)

\* The payloads of s after the first r.
PayloadsAfter(s, r) == [k \in 1 .. Len(s) - r |-> Payload(s[r + k])]

Unread == PayloadsAfter(accepted, Len(returned))

Ring == INSTANCE Fifo WITH
    Message <- {Payload(m) : m \in Message},
    queue <- Unread,
    returned <- returned

LEMMA PayloadTyped == ASSUME NEW m \in Message PROVE Payload(m) \in Seq(Byte)
  <1>1. m.len \in Nat /\ \A k \in 1 .. m.len : PayloadByte(m, k) \in Byte
    BY DEF PayloadByte, Byte, Message
  <1> QED BY <1>1 DEF Payload

LEMMA PayloadsTyped ==
    ASSUME NEW s \in Seq(Message), NEW r \in 0 .. Len(s)
    PROVE  /\ PayloadsAfter(s, r) \in Seq(Seq(Byte)) /\ Len(PayloadsAfter(s, r)) = Len(s) - r
           /\ \A k \in 1 .. Len(s) - r : PayloadsAfter(s, r)[k] = Payload(s[r + k])
  <1>1. PICK n \in Nat : n = Len(s) - r
    OBVIOUS
  <1>2. ASSUME NEW k \in 1 .. n PROVE Payload(s[r + k]) \in Seq(Byte)
    <2>1. r + k \in 1 .. Len(s)
      BY <1>1
    <2> QED BY <2>1, PayloadTyped
  <1>3. PayloadsAfter(s, r) = [k \in 1 .. n |-> Payload(s[r + k])]
    BY <1>1 DEF PayloadsAfter
  <1> QED BY <1>1, <1>2, <1>3

LEMMA PayloadsGrow ==
    ASSUME NEW s \in Seq(Message), NEW r \in 0 .. Len(s), NEW m \in Message
    PROVE  PayloadsAfter(Append(s, m), r) = Append(PayloadsAfter(s, r), Payload(m))
  <1> DEFINE t == Append(s, m)
             old == PayloadsAfter(s, r)
             new == PayloadsAfter(t, r)
  <1>1. /\ t \in Seq(Message) /\ Len(t) = Len(s) + 1 /\ t[Len(s) + 1] = m
        /\ \A k \in 1 .. Len(s) : t[k] = s[k]
        /\ r \in 0 .. Len(t) /\ Payload(m) \in Seq(Byte)
    BY PayloadTyped
  <1> HIDE DEF t
  <1>2. /\ new \in Seq(Seq(Byte)) /\ Len(new) = Len(s) - r + 1
        /\ \A k \in 1 .. Len(s) - r + 1 : new[k] = Payload(t[r + k])
    <2>1. Len(t) - r = Len(s) - r + 1
      BY <1>1
    <2> QED BY <1>1, <2>1, PayloadsTyped
  <1>3. /\ old \in Seq(Seq(Byte)) /\ Len(old) = Len(s) - r
        /\ \A k \in 1 .. Len(s) - r : old[k] = Payload(s[r + k])
    BY PayloadsTyped
  <1> HIDE DEF old, new
  <1>4. /\ Append(old, Payload(m)) \in Seq(Seq(Byte))
        /\ Len(Append(old, Payload(m))) = Len(s) - r + 1
        /\ \A k \in 1 .. Len(s) - r : Append(old, Payload(m))[k] = old[k]
        /\ Append(old, Payload(m))[Len(s) - r + 1] = Payload(m)
    BY <1>1, <1>3, AppendProperties
  <1>5. ASSUME NEW k \in 1 .. Len(s) - r + 1 PROVE new[k] = Append(old, Payload(m))[k]
    <2>1. CASE k = Len(s) - r + 1
      <3>1. r + k = Len(s) + 1
        BY <2>1
      <3> QED BY <1>1, <1>2, <1>4, <2>1, <3>1
    <2>2. CASE k # Len(s) - r + 1
      <3>1. k \in 1 .. Len(s) - r /\ r + k \in 1 .. Len(s)
        BY <2>2
      <3> QED BY <1>1, <1>2, <1>3, <1>4, <3>1
    <2> QED BY <2>1, <2>2
  <1>6. new = Append(old, Payload(m))
    BY <1>2, <1>4, <1>5, SeqEqual
  <1> QED BY <1>6 DEF new, old, t

LEMMA PayloadsShrink ==
    ASSUME NEW s \in Seq(Message), NEW r \in 0 .. Len(s), r < Len(s)
    PROVE  /\ PayloadsAfter(s, r) # << >>
           /\ Head(PayloadsAfter(s, r)) = Payload(s[r + 1])
           /\ PayloadsAfter(s, r + 1) = Tail(PayloadsAfter(s, r))
  <1> DEFINE old == PayloadsAfter(s, r)
             new == PayloadsAfter(s, r + 1)
  <1>1. /\ old \in Seq(Seq(Byte)) /\ Len(old) = Len(s) - r
        /\ \A k \in 1 .. Len(s) - r : old[k] = Payload(s[r + k])
    BY PayloadsTyped
  <1>2. /\ new \in Seq(Seq(Byte)) /\ Len(new) = Len(s) - (r + 1)
        /\ \A k \in 1 .. Len(s) - (r + 1) : new[k] = Payload(s[(r + 1) + k])
    <2>1. r + 1 \in 0 .. Len(s)
      OBVIOUS
    <2> QED BY <2>1, PayloadsTyped
  <1> HIDE DEF old, new
  <1>3. old # << >> /\ Head(old) = Payload(s[r + 1])
    <2>1. Len(old) > 0 /\ 1 \in 1 .. Len(s) - r
      BY <1>1
    <2> QED BY <1>1, <2>1
  <1>4. /\ Tail(old) \in Seq(Seq(Byte)) /\ Len(Tail(old)) = Len(s) - (r + 1)
        /\ \A k \in 1 .. Len(s) - (r + 1) : Tail(old)[k] = old[k + 1]
    <2>1. /\ Tail(old) \in Seq(Seq(Byte)) /\ Len(Tail(old)) = Len(old) - 1
          /\ \A k \in 1 .. Len(Tail(old)) : Tail(old)[k] = old[k + 1]
      BY <1>1, <1>3, HeadTailProperties
    <2>2. Len(old) - 1 = Len(s) - (r + 1)
      BY <1>1
    <2> QED BY <2>1, <2>2
  <1>5. ASSUME NEW k \in 1 .. Len(s) - (r + 1) PROVE new[k] = Tail(old)[k]
    <2>1. k + 1 \in 1 .. Len(s) - r /\ r + (k + 1) = (r + 1) + k
      OBVIOUS
    <2> QED BY <1>1, <1>2, <1>4, <2>1
  <1>6. new = Tail(old)
    BY <1>2, <1>4, <1>5, SeqEqual
  <1> QED BY <1>3, <1>6 DEF old, new

\* Publishing is the abstract Send ...
LEMMA PublishIsSend == ASSUME IInv, ContentInv, SendMsgPublish PROVE Ring!Send(Payload(sMsg))
  <1>1. /\ accepted' = Append(accepted, sMsg) /\ returned' = returned
        /\ accepted \in Seq(Message) /\ sMsg \in Message
        /\ Len(returned) \in 0 .. Len(accepted)
    BY DEF SendMsgPublish, rVars, IInv, TypeOK, ContentInv, ReturnsWhatWasAccepted
  <1>2. Unread' = PayloadsAfter(Append(accepted, sMsg), Len(returned))
    BY <1>1 DEF Unread, PayloadsAfter, Payload, PayloadByte
  <1> QED BY <1>1, <1>2, PayloadsGrow DEF Ring!Send, Unread

\* ... and consuming is the abstract Recv.
LEMMA ConsumeIsRecv == ASSUME IInv, ContentInv, RecvMsgConsume PROVE Ring!Recv
  <1>1. /\ accepted' = accepted /\ returned' = Append(returned, Payload(Oldest))
        /\ accepted \in Seq(Message) /\ returned \in Seq(Seq(Byte))
        /\ Len(returned) \in 0 .. Len(accepted) /\ Len(returned) < Len(accepted)
    BY DEF RecvMsgConsume, sVars, IInv, TypeOK, ContentInv, ReceiverFrame
  <1>2. Len(returned') = Len(returned) + 1
    BY <1>1
  <1>3. Unread' = PayloadsAfter(accepted, Len(returned) + 1)
    BY <1>1, <1>2 DEF Unread, PayloadsAfter, Payload, PayloadByte
  <1> QED BY <1>1, <1>3, PayloadsShrink DEF Ring!Recv, Unread, Oldest

\* Two processes that share the ring, its indices and nothing else implement a
\* FIFO: what they do is accept a message, return the oldest one, or nothing
\* the users of the queue can see.
THEOREM ImplementsFifoSteps == Spec => Ring!Init /\ [][Ring!Next]_Ring!vars
  <1>1. Init => Ring!Init
    BY DEF Init, Unread, PayloadsAfter, Ring!Init
  <1>2. IInv /\ ContentInv /\ [Next]_vars => [Ring!Next]_Ring!vars
    <2> SUFFICES ASSUME IInv, ContentInv, [Next]_vars
                 PROVE  [Ring!Next]_Ring!vars
      OBVIOUS
    <2>1. CASE SendMsgPublish
      <3>1. Payload(sMsg) \in {Payload(m) : m \in Message}
        BY DEF IInv, TypeOK
      <3> QED BY <2>1, <3>1, PublishIsSend DEF Ring!Next
    <2>2. CASE RecvMsgConsume
      BY <2>2, ConsumeIsRecv DEF Ring!Next
    <2>3. CASE UNCHANGED <<accepted, returned>>
      BY <2>3 DEF Unread, PayloadsAfter, Payload, PayloadByte, Ring!vars
    <2> QED
      BY <2>1, <2>2, <2>3
      DEF Next, SenderStep, ReceiverStep, vars, sVars, rVars, SendMsgRefuse, SendMsgBegin,
          SendMsgLength, SendMsgPayload, SendMsgPayloadToEnd, SendMsgPayloadRest,
          RecvMsgBegin, RecvMsgLength, RecvMsgPayload, RecvMsgPayloadToEnd,
          RecvMsgPayloadRest, SenderCrash, ReceiverCrash
  <1> QED BY <1>1, <1>2, ContentDiscipline, PTL DEF Spec
=============================================================================
