------------------------------- MODULE World --------------------------------
(***************************************************************************)
(* The Zone process from start to stop (Zone/src/main.cc, system/world.cc) *)
(* and the word of run flags that its main loop obeys (base/run_flags).    *)
(* A flag word is the set of its bits: bits 0-3 are the start mode, 4-7    *)
(* the quit mode, the others control a running server.                     *)
(*                                                                         *)
(* The process has one thread.  What runs inside an iteration of the loop, *)
(* the timers and the handlers of messages, may set and clear flags; so    *)
(* does CTimerQueue::DoBadTimeList when it gives up on a damaged bucket.   *)
(* A signal to leave comes at any time.                                    *)
(***************************************************************************)
EXTENDS Naturals

CONSTANT RunControl     \* the bits that control a running server

ASSUME RunControlAssumption == RunControl \subseteq 8 .. 15

FLAG_START_NORMAL == {0}
FLAG_START_RESUME == {1}
FLAG_QUIT_NORMAL == {4}
FLAG_QUIT_ABNORMAL == {5}
FLAG_QUIT_AFTER_KICK_ALL_USER == {6}
FLAG_QUIT_COREDUMP == {7}

StartModes == {FLAG_START_NORMAL, FLAG_START_RESUME}
QuitModes == {FLAG_QUIT_NORMAL, FLAG_QUIT_ABNORMAL, FLAG_QUIT_AFTER_KICK_ALL_USER,
              FLAG_QUIT_COREDUMP}
APP_FLAGS == StartModes \cup QuitModes \cup {{bit} : bit \in RunControl}

VARIABLES flag_,    \* CRunFlag::flag_
          pc,       \* where the process is
          asked     \* history: the quit mode asked for last, unless withdrawn since

vars == <<flag_, pc, asked>>

-----------------------------------------------------------------------------
(* CRunFlag. *)

StartBits == 0 .. 3
QuitBits == 4 .. 7

\* flag <= (0x1 << bit)
AtMost(flag, bit) == flag = {bit} \/ flag \subseteq 0 .. bit - 1

IsFlagSet(flag) == flag_ \cap flag # {}

\* Mutant: a quit mode is added to the one that is set.
SetFlagAdding(word, flag) ==
    IF AtMost(flag, 3) THEN (word \cap 4 .. 15) \cup flag ELSE word \cup flag

\* Mutant: a start mode clears the quit mode too.
SetFlagStartAlone(word, flag) ==
    IF AtMost(flag, 3) THEN (word \cap 8 .. 15) \cup flag
    ELSE IF AtMost(flag, 7) THEN (word \cap (StartBits \cup 8 .. 15)) \cup flag
    ELSE word \cup flag

\* Mutant: a quit mode clears the start mode too.
SetFlagAlone(word, flag) ==
    IF AtMost(flag, 3) THEN (word \cap 4 .. 15) \cup flag
    ELSE IF AtMost(flag, 7) THEN (word \cap 8 .. 15) \cup flag
    ELSE word \cup flag

\* The word after SetFlag: a mode takes the place of the one before.
SetFlag(word, flag) ==
    IF AtMost(flag, 3) THEN (word \cap 4 .. 15) \cup flag
    ELSE IF AtMost(flag, 7) THEN (word \cap (StartBits \cup 8 .. 15)) \cup flag
    ELSE word \cup flag

\* The word after ClearFlag.
ClearFlag(word, flag) ==
    IF AtMost(word, 7) THEN word
    ELSE word \cap ((flag \ 0 .. 15) \cup (0 .. 15 \ flag))     \* flag ^ 0xffff

-----------------------------------------------------------------------------
(* The process. *)

\* ParseArgs or InitConfig fails.
ZoneInitFail ==
    /\ pc = "init"
    /\ pc' = "stopped"
    /\ UNCHANGED <<flag_, asked>>

\* The configuration is read and the signal handlers are in place.
ZoneInit ==
    /\ pc = "init"
    /\ pc' = "prepare"
    /\ UNCHANGED <<flag_, asked>>

\* InitChannel and InitSocket have nothing that can fail.
ZonePrepare ==
    /\ pc = "prepare"
    /\ pc' = "check"
    /\ UNCHANGED <<flag_, asked>>

CheckRunFlags ==
    IF IsFlagSet(FLAG_QUIT_AFTER_KICK_ALL_USER) THEN FLAG_QUIT_AFTER_KICK_ALL_USER
    ELSE IF IsFlagSet(FLAG_QUIT_NORMAL) THEN FLAG_QUIT_NORMAL
    ELSE FLAG_START_NORMAL

\* One round of Loop: the check, and what follows it.
LoopCheck ==
    /\ pc = "check"
    /\ pc' = IF CheckRunFlags # FLAG_START_NORMAL THEN "stopped" ELSE "serve"
    /\ UNCHANGED <<flag_, asked>>

LoopServe ==
    /\ pc = "serve"
    /\ pc' = "check"
    /\ UNCHANGED <<flag_, asked>>

\* What a handler may call while it serves.
CallSetFlag(flag) ==
    /\ pc = "serve"
    /\ flag_' = SetFlag(flag_, flag)
    /\ asked' = IF flag \in QuitModes THEN flag ELSE asked
    /\ UNCHANGED pc

CallClearFlag(flag) ==
    /\ pc = "serve"
    /\ flag_' = ClearFlag(flag_, flag)
    /\ asked' = asked \ flag
    /\ UNCHANGED pc

\* The end of DoBadTimeList when a bucket cannot be repaired.
DoBadTimeListFails ==
    /\ pc = "serve"
    /\ flag_' = IF IsFlagSet(FLAG_QUIT_AFTER_KICK_ALL_USER) THEN flag_
                ELSE SetFlag(SetFlag(flag_, FLAG_QUIT_AFTER_KICK_ALL_USER),
                             FLAG_QUIT_COREDUMP)
    /\ asked' = IF IsFlagSet(FLAG_QUIT_AFTER_KICK_ALL_USER) THEN asked ELSE FLAG_QUIT_COREDUMP
    /\ UNCHANGED pc

\* A signal to leave.  Until ProcessSignal it kills the process; from then on its
\* handler is empty and nothing happens.
SigExitAfterAllKick ==
    /\ pc = "init"
    /\ pc' = "stopped"
    /\ UNCHANGED <<flag_, asked>>

Init == flag_ = {} /\ pc = "init" /\ asked = {}

Next ==
    \/ ZoneInitFail \/ ZoneInit \/ ZonePrepare \/ LoopCheck \/ LoopServe
    \/ \E flag \in APP_FLAGS : CallSetFlag(flag) \/ CallClearFlag(flag)
    \/ DoBadTimeListFails
    \/ SigExitAfterAllKick

Spec == Init /\ [][Next]_vars

\* The process gets the processor: its start and its loop go on.
FairSpec ==
    /\ Spec
    /\ WF_vars(ZoneInitFail \/ ZoneInit) /\ WF_vars(ZonePrepare)
    /\ WF_vars(LoopCheck) /\ WF_vars(LoopServe)

-----------------------------------------------------------------------------
(* Properties. *)

ModesOfLoop == {FLAG_QUIT_NORMAL, FLAG_QUIT_AFTER_KICK_ALL_USER}

\* There is one start mode and one quit mode at most, whatever calls were made
\* in whatever order (run_flags.cc:46, 52).
OneMode ==
    /\ \A a, b \in flag_ \cap StartBits : a = b
    /\ \A a, b \in flag_ \cap QuitBits : a = b

\* No call changes flags of two groups.
OneGroupPerCall ==
    [][\/ flag_' \cap StartBits = flag_ \cap StartBits /\ flag_' \cap QuitBits = flag_ \cap QuitBits
       \/ flag_' \ StartBits = flag_ \ StartBits
       \/ flag_' \ QuitBits = flag_ \ QuitBits]_vars

\* A handler that asks for one of the two quit modes the loop knows has the server
\* stop (world.cc:112), whatever start modes and run control flags are set and
\* cleared behind it in that iteration; only a call that asks for one of the other
\* modes, or clears the mode itself, takes the request back.
QuitStops ==
    asked \in ModesOfLoop ~> pc = "stopped" \/ asked \notin ModesOfLoop

\* Every way of quitting (run_flags.h:19), the core dump of DoBadTimeList
\* (timer_queue.cc:417) among them, ends the loop once a handler asked for it and
\* nothing takes the request back.
QuitModesStop ==
    \A mode \in QuitModes : <>[](asked = mode) => <>(pc = "stopped")
=============================================================================
