---------------------------- MODULE TimerService ----------------------------
(***************************************************************************)
(* What the timer queue promises to the server: a timer runs exactly when  *)
(* its tick comes, once per turn, as often as it was asked to and not      *)
(* after its cancellation; no tick passes while a timer due at it waits.   *)
(* The death of the process loses at most the timer that was running.      *)
(***************************************************************************)
EXTENDS Integers

CONSTANT NoTimer    \* no timer is running

VARIABLES now,      \* the next tick to be served
          pending,  \* id -> when it is due, its period and the turns left
          running,  \* the id of the timer whose task runs, or NoTimer
          turn      \* the due tick, period and turns left of that timer

vars == <<now, pending, running, turn>>

Timer == [due : Nat, period : Nat, left : Nat]

Init ==
    /\ now = 0
    /\ pending = [id \in {} |-> 0]
    /\ running = NoTimer
    /\ turn = NoTimer

\* pending loses id and nothing else; pending gains id and nothing else.
Dropped(id) ==
    /\ id \in DOMAIN pending
    /\ pending' = [i \in DOMAIN pending \ {id} |-> pending[i]]

Added(id) ==
    /\ id \notin DOMAIN pending
    /\ DOMAIN pending' = DOMAIN pending \cup {id}
    /\ pending'[id] \in Timer
    /\ \A i \in DOMAIN pending : pending'[i] = pending[i]

\* A new timer is never due in the past.
Schedule(id) ==
    /\ id # running
    /\ Added(id)
    /\ pending'[id].due >= now
    /\ UNCHANGED <<now, running, turn>>

CancelPending(id) == Dropped(id) /\ UNCHANGED <<now, running, turn>>

\* A timer may cancel itself, or be cancelled by what its task calls.
CancelRunning ==
    /\ running # NoTimer
    /\ turn' = [turn EXCEPT !.left = 0]
    /\ UNCHANGED <<now, pending, running>>

Run(id) ==
    /\ running = NoTimer
    /\ Dropped(id)
    /\ pending[id].due = now
    /\ pending[id].left > 0
    /\ running' = id
    /\ turn' = [pending[id] EXCEPT !.left = @ - 1]
    /\ UNCHANGED now

\* The next turn comes a period later, counted from this turn or, when ticks
\* are skipped, from a later tick.
Again ==
    /\ running # NoTimer
    /\ turn.left > 0
    /\ Added(running)
    /\ pending'[running].left = turn.left
    /\ pending'[running].period = turn.period
    /\ pending'[running].due >= turn.due + turn.period
    /\ pending'[running].due > now
    /\ running' = NoTimer /\ turn' = NoTimer
    /\ UNCHANGED now

Retire ==
    /\ running # NoTimer
    /\ turn.left = 0
    /\ running' = NoTimer /\ turn' = NoTimer
    /\ UNCHANGED <<now, pending>>

\* Time passes only when nothing is due any more.
Advance ==
    /\ running = NoTimer
    /\ \A id \in DOMAIN pending : pending[id].due > now
    /\ now' = now + 1
    /\ UNCHANGED <<pending, running, turn>>

Crash ==
    /\ running' = NoTimer /\ turn' = NoTimer
    /\ UNCHANGED <<now, pending>>

Next ==
    \/ \E id \in DOMAIN pending' : Schedule(id)
    \/ \E id \in DOMAIN pending : CancelPending(id) \/ Run(id)
    \/ CancelRunning
    \/ Again
    \/ Retire
    \/ Advance
    \/ Crash

Spec == Init /\ [][Next]_vars
=============================================================================
