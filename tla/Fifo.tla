-------------------------------- MODULE Fifo --------------------------------
(***************************************************************************)
(* What one direction of the shared-memory channel between ConnSvr and     *)
(* Zone promises to the two processes that use it: messages come out whole,*)
(* in the order they were accepted, each at most once.  A message that is  *)
(* refused (the queue is full) and a process that dies in the middle of a  *)
(* call leave no trace, so neither has an action here.                     *)
(***************************************************************************)
EXTENDS Sequences

CONSTANT Message

VARIABLES queue,     \* accepted and not yet returned, oldest first
          returned   \* what RecvMsg has returned so far

vars == <<queue, returned>>

Init == queue = << >> /\ returned = << >>

\* SendMsg accepts a message.
Send(m) ==
    /\ queue' = Append(queue, m)
    /\ UNCHANGED returned

\* RecvMsg returns the oldest message.
Recv ==
    /\ queue # << >>
    /\ returned' = Append(returned, Head(queue))
    /\ queue' = Tail(queue)

Next == Recv \/ \E m \in Message : Send(m)

\* The receiver polls for ever: a message in the queue is returned.
Spec == Init /\ [][Next]_vars /\ WF_vars(Recv)
=============================================================================
