---------------------------- MODULE WorldProofs -----------------------------
(***************************************************************************)
(* The word of run flags never holds two start modes or two quit modes,    *)
(* whatever run control bits there are and in whatever order handlers,     *)
(* DoBadTimeList and the loop change it.                                   *)
(***************************************************************************)
EXTENDS World, TLAPS

\* A word with one start mode and one quit mode at most.
OneModeIn(word) ==
    /\ \A a, b \in word \cap StartBits : a = b
    /\ \A a, b \in word \cap QuitBits : a = b

IInv == flag_ \subseteq 0 .. 15 /\ OneMode

LEMMA FlagKinds ==
    ASSUME NEW flag \in APP_FLAGS
    PROVE  \E bit \in 0 .. 15 : /\ flag = {bit}
                                /\ AtMost(flag, 3) <=> bit <= 3
                                /\ AtMost(flag, 7) <=> bit <= 7
  <1>1. PICK bit \in 0 .. 15 : flag = {bit}
    BY RunControlAssumption DEF APP_FLAGS, StartModes, QuitModes, FLAG_START_NORMAL,
       FLAG_START_RESUME, FLAG_QUIT_NORMAL, FLAG_QUIT_ABNORMAL,
       FLAG_QUIT_AFTER_KICK_ALL_USER, FLAG_QUIT_COREDUMP
  <1>2. ASSUME NEW top \in {3, 7} PROVE AtMost({bit}, top) <=> bit <= top
    <2>1. CASE bit <= top
      <3>1. bit = top \/ bit \in 0 .. top - 1
        BY <2>1
      <3> QED BY <3>1, <2>1 DEF AtMost
    <2>2. CASE ~(bit <= top)
      <3>1. bit # top /\ bit \notin 0 .. top - 1
        BY <2>2
      <3>2. {bit} # {top}
        <4>1. SUFFICES ASSUME {bit} = {top} PROVE FALSE
          OBVIOUS
        <4>2. bit \in {top}
          BY <4>1
        <4> QED BY <4>2, <3>1
      <3> QED BY <3>1, <3>2, <2>2 DEF AtMost
    <2> QED BY <2>1, <2>2
  <1> QED BY <1>1, <1>2

\* SetFlag puts a mode in the place of the one of its kind and adds any other bit.
LEMMA SetFlagKeepsOneMode ==
    ASSUME NEW word \in SUBSET (0 .. 15), NEW flag \in APP_FLAGS, OneModeIn(word)
    PROVE  SetFlag(word, flag) \subseteq 0 .. 15 /\ OneModeIn(SetFlag(word, flag))
  <1>1. PICK bit \in 0 .. 15 : /\ flag = {bit}
                               /\ AtMost(flag, 3) <=> bit <= 3
                               /\ AtMost(flag, 7) <=> bit <= 7
    BY FlagKinds
  <1>2. CASE bit <= 3
    <2>1. SetFlag(word, flag) = (word \cap 4 .. 15) \cup {bit}
      BY <1>1, <1>2 DEF SetFlag
    <2> QED BY <2>1, <1>2 DEF OneModeIn, StartBits, QuitBits
  <1>3. CASE ~(bit <= 3) /\ bit <= 7
    <2>1. SetFlag(word, flag) = (word \cap (StartBits \cup 8 .. 15)) \cup {bit}
      BY <1>1, <1>3 DEF SetFlag
    <2> QED BY <2>1, <1>3 DEF OneModeIn, StartBits, QuitBits
  <1>4. CASE ~(bit <= 7)
    <2>1. SetFlag(word, flag) = word \cup {bit}
      BY <1>1, <1>4 DEF SetFlag
    <2> QED BY <2>1, <1>4 DEF OneModeIn, StartBits, QuitBits
  <1> QED BY <1>2, <1>3, <1>4

LEMMA ClearFlagTakesAway ==
    ASSUME NEW word, NEW flag
    PROVE  ClearFlag(word, flag) \subseteq word
  BY DEF ClearFlag

LEMMA InitOneMode == ASSUME Init PROVE IInv
  BY DEF Init, IInv, OneMode

LEMMA StepOneMode == ASSUME IInv, [Next]_vars PROVE IInv'
  <1>1. ASSUME NEW flag \in APP_FLAGS, CallSetFlag(flag) PROVE IInv'
    <2>1. flag_' = SetFlag(flag_, flag)
      BY <1>1 DEF CallSetFlag
    <2> QED BY <2>1, SetFlagKeepsOneMode DEF IInv, OneMode, OneModeIn
  <1>2. ASSUME NEW flag \in APP_FLAGS, CallClearFlag(flag) PROVE IInv'
    <2>1. flag_' \subseteq flag_
      BY <1>2, ClearFlagTakesAway DEF CallClearFlag
    <2> QED BY <2>1 DEF IInv, OneMode
  <1>3. CASE DoBadTimeListFails
    <2> DEFINE kick == SetFlag(flag_, FLAG_QUIT_AFTER_KICK_ALL_USER)
    <2>1. FLAG_QUIT_AFTER_KICK_ALL_USER \in APP_FLAGS /\ FLAG_QUIT_COREDUMP \in APP_FLAGS
      BY DEF APP_FLAGS, QuitModes
    <2>2. kick \subseteq 0 .. 15 /\ OneModeIn(kick)
      BY <2>1, SetFlagKeepsOneMode DEF IInv, OneMode, OneModeIn
    <2> HIDE DEF kick
    <2>3. /\ SetFlag(kick, FLAG_QUIT_COREDUMP) \subseteq 0 .. 15
          /\ OneModeIn(SetFlag(kick, FLAG_QUIT_COREDUMP))
      BY <2>1, <2>2, SetFlagKeepsOneMode
    <2>4. flag_' = flag_ \/ flag_' = SetFlag(kick, FLAG_QUIT_COREDUMP)
      BY <1>3 DEF DoBadTimeListFails, kick
    <2> QED BY <2>3, <2>4 DEF IInv, OneMode, OneModeIn
  <1>4. CASE UNCHANGED flag_
    BY <1>4 DEF IInv, OneMode
  <1> QED BY <1>1, <1>2, <1>3, <1>4 DEF Next, vars, ZoneInitFail, ZoneInit, ZonePrepare,
             LoopCheck, LoopServe, SigExitAfterAllKick

\* run_flags.cc:46 and 52: SetFlag makes room for a mode before it sets it, and
\* no other call sets one.
THEOREM OneModeAlways == Spec => []OneMode
  <1>1. Init => IInv
    BY InitOneMode
  <1>2. IInv /\ [Next]_vars => IInv'
    BY StepOneMode
  <1>3. IInv => OneMode
    BY DEF IInv
  <1> QED BY <1>1, <1>2, <1>3, PTL DEF Spec

\* What one call may change: the run control bits alone, or only the start
\* bits, or only the quit bits.
InOneGroup(word, next) ==
    \/ next \cap StartBits = word \cap StartBits /\ next \cap QuitBits = word \cap QuitBits
    \/ next \ StartBits = word \ StartBits
    \/ next \ QuitBits = word \ QuitBits

\* SetFlag of a quit mode takes the quit bits out and leaves the rest.
LEMMA KeepsTheRest ==
    ASSUME NEW word \in SUBSET (0 .. 15), NEW bit \in QuitBits
    PROVE  /\ ((word \cap (StartBits \cup 8 .. 15)) \cup {bit}) \ QuitBits = word \ QuitBits
           /\ (word \cap (StartBits \cup 8 .. 15)) \cup {bit} \subseteq 0 .. 15
  <1>1. \A x \in word : x \notin QuitBits => x \in StartBits \cup 8 .. 15
    BY DEF StartBits, QuitBits
  <1>2. bit \in 0 .. 15
    BY DEF QuitBits
  <1>3. ((word \cap (StartBits \cup 8 .. 15)) \cup {bit}) \ QuitBits = word \ QuitBits
    BY <1>1, Zenon
  <1> QED BY <1>2, <1>3

LEMMA SetFlagInOneGroup ==
    ASSUME NEW word \in SUBSET (0 .. 15), NEW flag \in APP_FLAGS
    PROVE  InOneGroup(word, SetFlag(word, flag))
  <1>1. PICK bit \in 0 .. 15 : /\ flag = {bit}
                               /\ AtMost(flag, 3) <=> bit <= 3
                               /\ AtMost(flag, 7) <=> bit <= 7
    BY FlagKinds
  <1>2. CASE bit <= 3
    <2>1. SetFlag(word, flag) = (word \cap 4 .. 15) \cup {bit}
      BY <1>1, <1>2 DEF SetFlag
    <2>2. SetFlag(word, flag) \ StartBits = word \ StartBits
      <3>1. \A x \in word : x \notin StartBits => x \in 4 .. 15
        BY DEF StartBits
      <3>2. bit \in StartBits
        BY <1>2 DEF StartBits
      <3>3. \A x \in 4 .. 15 : x \notin StartBits
        BY DEF StartBits
      <3> QED BY <2>1, <3>1, <3>2, <3>3, Zenon
    <2> QED BY <2>2 DEF InOneGroup
  <1>3. CASE ~(bit <= 3) /\ bit <= 7
    <2>1. SetFlag(word, flag) = (word \cap (StartBits \cup 8 .. 15)) \cup {bit}
      BY <1>1, <1>3 DEF SetFlag
    <2>2. SetFlag(word, flag) \ QuitBits = word \ QuitBits
      <3>1. bit \in QuitBits
        BY <1>3 DEF QuitBits
      <3> QED BY <2>1, <3>1, KeepsTheRest
    <2> QED BY <2>2 DEF InOneGroup
  <1>4. CASE ~(bit <= 7)
    <2>1. SetFlag(word, flag) = word \cup {bit} /\ bit \notin StartBits /\ bit \notin QuitBits
      BY <1>1, <1>4 DEF SetFlag, StartBits, QuitBits
    <2> QED BY <2>1 DEF InOneGroup
  <1> QED BY <1>2, <1>3, <1>4

LEMMA ClearFlagInOneGroup ==
    ASSUME NEW word \in SUBSET (0 .. 15), NEW flag \in APP_FLAGS
    PROVE  InOneGroup(word, ClearFlag(word, flag))
  <1>1. PICK bit \in 0 .. 15 : flag = {bit}
    BY FlagKinds
  <1>2. ClearFlag(word, flag) = word \/ ClearFlag(word, flag) = word \ {bit}
    BY <1>1 DEF ClearFlag
  <1>3. bit \in StartBits \/ bit \in QuitBits \/ (bit \notin StartBits /\ bit \notin QuitBits)
    OBVIOUS
  <1> QED BY <1>2, <1>3 DEF InOneGroup

\* DoBadTimeList calls SetFlag twice, for two quit modes.
LEMMA SetQuitTwice ==
    ASSUME NEW word \in SUBSET (0 .. 15), NEW kick, NEW core,
           kick = SetFlag(word, FLAG_QUIT_AFTER_KICK_ALL_USER),
           core = SetFlag(kick, FLAG_QUIT_COREDUMP)
    PROVE  InOneGroup(word, core)
  <1>1. /\ ~AtMost(FLAG_QUIT_AFTER_KICK_ALL_USER, 3) /\ AtMost(FLAG_QUIT_AFTER_KICK_ALL_USER, 7)
        /\ ~AtMost(FLAG_QUIT_COREDUMP, 3) /\ AtMost(FLAG_QUIT_COREDUMP, 7)
    <2>1. 6 \notin 0 .. 2 /\ 7 \notin 0 .. 2 /\ 6 \in 0 .. 6
      OBVIOUS
    <2>2. /\ {6} # {3} /\ {7} # {3} /\ ~({6} \subseteq 0 .. 2) /\ ~({7} \subseteq 0 .. 2)
          /\ {6} \subseteq 0 .. 6
      <3>1. 6 \notin {3} /\ 7 \notin {3} /\ 6 \in {6} /\ 7 \in {7}
        OBVIOUS
      <3> QED BY <2>1, <3>1
    <2> QED BY <2>2 DEF AtMost, FLAG_QUIT_AFTER_KICK_ALL_USER, FLAG_QUIT_COREDUMP
  <1>2. /\ kick = (word \cap (StartBits \cup 8 .. 15)) \cup {6}
        /\ core = (kick \cap (StartBits \cup 8 .. 15)) \cup {7}
    BY <1>1 DEF SetFlag, FLAG_QUIT_AFTER_KICK_ALL_USER, FLAG_QUIT_COREDUMP
  <1>3. core \ QuitBits = word \ QuitBits
    <2>1. 6 \in QuitBits /\ 7 \in QuitBits
      BY DEF QuitBits
    <2>2. kick \ QuitBits = word \ QuitBits /\ kick \in SUBSET (0 .. 15)
      BY <1>2, <2>1, KeepsTheRest
    <2>3. core \ QuitBits = kick \ QuitBits
      BY <1>2, <2>1, <2>2, KeepsTheRest
    <2> QED BY <2>2, <2>3
  <1> QED BY <1>3 DEF InOneGroup

LEMMA StepInOneGroup == ASSUME IInv, [Next]_vars PROVE InOneGroup(flag_, flag_')
  <1> flag_ \in SUBSET (0 .. 15)
    BY DEF IInv
  <1>1. ASSUME NEW flag \in APP_FLAGS, CallSetFlag(flag) PROVE InOneGroup(flag_, flag_')
    BY <1>1, SetFlagInOneGroup DEF CallSetFlag
  <1>2. ASSUME NEW flag \in APP_FLAGS, CallClearFlag(flag) PROVE InOneGroup(flag_, flag_')
    BY <1>2, ClearFlagInOneGroup DEF CallClearFlag
  <1>3. CASE UNCHANGED flag_
    BY <1>3 DEF InOneGroup
  <1>4. CASE DoBadTimeListFails
    BY <1>3, <1>4, SetQuitTwice DEF DoBadTimeListFails
  <1> QED BY <1>1, <1>2, <1>3, <1>4 DEF Next, vars, ZoneInitFail, ZoneInit, ZonePrepare,
             LoopCheck, LoopServe, SigExitAfterAllKick

\* run_flags.cc:41-80: whatever word it meets, a call changes the start mode, the
\* quit mode or run control bits, and never two of them.
THEOREM OneGroupPerCallAlways == Spec => OneGroupPerCall
  <1>1. Init => IInv
    BY InitOneMode
  <1>2. IInv /\ [Next]_vars => IInv'
    BY StepOneMode
  <1>3. IInv /\ [Next]_vars => InOneGroup(flag_, flag_')
    BY StepInOneGroup
  <1>4. IInv /\ [Next]_vars =>
            [\/ /\ flag_' \cap StartBits = flag_ \cap StartBits
                /\ flag_' \cap QuitBits = flag_ \cap QuitBits
             \/ flag_' \ StartBits = flag_ \ StartBits
             \/ flag_' \ QuitBits = flag_ \ QuitBits]_vars
    BY <1>3 DEF InOneGroup
  <1> QED BY <1>1, <1>2, <1>4, PTL DEF Spec, OneGroupPerCall

-----------------------------------------------------------------------------
(* What a request to quit is worth. *)

\* The request that nobody took back is in the word.
Stands == asked \subseteq flag_ /\ asked \subseteq QuitBits

LEMMA SetFlagKeepsRequest ==
    ASSUME NEW flag \in APP_FLAGS, NEW next, next = SetFlag(flag_, flag), Stands
    PROVE  /\ flag \in QuitModes => flag \subseteq next /\ flag \subseteq QuitBits
           /\ flag \notin QuitModes => asked \subseteq next
  <1>1. PICK bit \in 0 .. 15 : /\ flag = {bit}
                               /\ AtMost(flag, 3) <=> bit <= 3
                               /\ AtMost(flag, 7) <=> bit <= 7
    BY FlagKinds
  <1>2. flag \subseteq next
    BY <1>1 DEF SetFlag
  <1>3. flag \in QuitModes => bit \in QuitBits
    <2>1. flag \in QuitModes => bit \in {4, 5, 6, 7}
      BY <1>1 DEF QuitModes, FLAG_QUIT_NORMAL, FLAG_QUIT_ABNORMAL,
         FLAG_QUIT_AFTER_KICK_ALL_USER, FLAG_QUIT_COREDUMP
    <2> QED BY <2>1 DEF QuitBits
  <1>4. flag \in QuitModes \/ bit <= 3 \/ ~(bit <= 7)
    <2>1. flag \in StartModes => bit \in {0, 1}
      BY <1>1 DEF StartModes, FLAG_START_NORMAL, FLAG_START_RESUME
    <2>2. (\E b \in RunControl : flag = {b}) => bit \in 8 .. 15
      BY <1>1, RunControlAssumption
    <2> QED BY <2>1, <2>2 DEF APP_FLAGS
  <1>5. CASE bit <= 3
    <2>1. next = (flag_ \cap 4 .. 15) \cup flag
      BY <1>1, <1>5 DEF SetFlag
    <2>2. QuitBits \subseteq 4 .. 15
      BY DEF QuitBits
    <2>3. asked \subseteq next
      BY <2>1, <2>2 DEF Stands
    <2> QED BY <1>1, <1>2, <1>3, <2>3
  <1>6. CASE ~(bit <= 7)
    <2>1. next = flag_ \cup flag
      BY <1>1, <1>6 DEF SetFlag
    <2> QED BY <1>1, <1>2, <1>3, <2>1 DEF Stands
  <1> QED BY <1>1, <1>2, <1>3, <1>4, <1>5, <1>6

LEMMA StepStands == ASSUME IInv, Stands, [Next]_vars PROVE Stands'
  <1>1. ASSUME NEW flag \in APP_FLAGS, CallSetFlag(flag) PROVE Stands'
    <2>1. flag_' = SetFlag(flag_, flag) /\ asked' = IF flag \in QuitModes THEN flag ELSE asked
      BY <1>1 DEF CallSetFlag
    <2> QED BY <2>1, SetFlagKeepsRequest DEF Stands
  <1>2. ASSUME NEW flag \in APP_FLAGS, CallClearFlag(flag) PROVE Stands'
    <2>1. /\ asked' = asked \ flag
          /\ \/ flag_' = flag_
             \/ flag_' = flag_ \cap ((flag \ 0 .. 15) \cup (0 .. 15 \ flag))
      BY <1>2 DEF CallClearFlag, ClearFlag
    <2>2. QuitBits \subseteq 0 .. 15
      BY DEF QuitBits
    <2> QED BY <2>1, <2>2 DEF Stands
  <1>3. CASE DoBadTimeListFails
    <2>1. \/ flag_' = flag_ /\ asked' = asked
          \/ /\ flag_' = SetFlag(SetFlag(flag_, FLAG_QUIT_AFTER_KICK_ALL_USER),
                                 FLAG_QUIT_COREDUMP)
             /\ asked' = FLAG_QUIT_COREDUMP
      BY <1>3 DEF DoBadTimeListFails
    <2>2. \A word : FLAG_QUIT_COREDUMP \subseteq SetFlag(word, FLAG_QUIT_COREDUMP)
      BY DEF SetFlag
    <2>3. FLAG_QUIT_COREDUMP \subseteq QuitBits
      BY DEF FLAG_QUIT_COREDUMP, QuitBits
    <2> QED BY <2>1, <2>2, <2>3 DEF Stands
  <1>4. CASE UNCHANGED <<flag_, asked>>
    BY <1>4 DEF Stands
  <1> QED BY <1>1, <1>2, <1>3, <1>4 DEF Next, vars, ZoneInitFail, ZoneInit, ZonePrepare,
             LoopCheck, LoopServe, SigExitAfterAllKick

\* The safety half of QuitStops: whatever is set and cleared behind it, a request to
\* quit is in the word when the loop looks (world.cc:112), unless a call that names
\* a quit mode took it back.
THEOREM RequestsStand == Spec => [](asked \subseteq flag_)
  <1>1. Init => IInv /\ Stands
    BY InitOneMode DEF Init, Stands
  <1>2. IInv /\ Stands /\ [Next]_vars => IInv' /\ Stands'
    BY StepOneMode, StepStands
  <1>3. Stands => asked \subseteq flag_
    BY DEF Stands
  <1> QED BY <1>1, <1>2, <1>3, PTL DEF Spec
=============================================================================
