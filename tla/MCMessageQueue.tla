--------------------------- MODULE MCMessageQueue ---------------------------
(***************************************************************************)
(* MessageQueue on a small ring, and the refinement of Fifo.  The abstract *)
(* queue is not a history variable: it is what a receiver that attached    *)
(* now would read out of the shared segment.                               *)
(***************************************************************************)
EXTENDS MessageQueue

\* The messages stored in the used bytes from the off-th on.
StoredFrom ==
    LET stored[off \in 0 .. Size] ==
            IF off + LENGTH_BYTES > Used THEN << >>
            ELSE LET n == CHOOSE n \in LengthsAt(queue_buff, Advance(head_idx, off)) : TRUE
                     next == off + LENGTH_BYTES + n
                     cell(k) == Advance(head_idx, off + LENGTH_BYTES + k - 1)
                 IN  IF next > Used THEN << >>
                     ELSE << [k \in 1 .. n |-> queue_buff[cell(k)]] >> \o stored[next]
    IN  stored

Contents == StoredFrom[0]

Promise == INSTANCE Fifo WITH
    Message <- {Payload([id |-> i, len |-> n]) : i \in 1 .. MaxSends, n \in Lengths},
    queue <- Contents,
    returned <- returned

\* The ring implements the FIFO: every step of either process is one abstract
\* Send, one abstract Recv or nothing, and the receiver's polling is the
\* abstract fairness.
ImplementsFifo == Promise!Spec
=============================================================================
