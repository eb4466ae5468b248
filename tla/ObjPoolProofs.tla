--------------------------- MODULE ObjPoolProofs ----------------------------
(***************************************************************************)
(* ObjPool for pools of every size, every range of sequence numbers, every *)
(* order of calls and deaths at any time: an id leads to its object while  *)
(* that object is in use, and never to another one before a whole round of *)
(* numbers was given out; the free list comes to its end, holds every free *)
(* node and needs no repair; a death costs one node; a loop over the       *)
(* objects misses none; the size is the number of the busy nodes, and one  *)
(* less for each death.                                                    *)
(***************************************************************************)
EXTENDS ObjPool, FiniteSetTheorems, WellFoundedInduction, TLAPS

IdTypes ==
    /\ typed \in [Nodes -> BOOLEAN]
    /\ m_seq \in [Nodes -> Int]
    /\ uses \in [Nodes -> Nat]
    /\ alive \in [Nodes -> BOOLEAN]
    /\ of \in [Owners -> Nat]
    /\ held \in [Owners -> ObjID \cup {NilID}]

PlaceTypes ==
    /\ bit_map_ \in Maps
    /\ free_node_ \in Heads
    /\ cur \in Nodes
    /\ dying \in Seq(Nodes)

\* No object is made while a destructor runs.
NoneDyingInAllocate == pc \in {"mark", "count", "rebase", "number", "name"} => dying = << >>

\* An object in use has its type, and its destructor does not run.
AliveIsTyped == \A n \in Nodes : alive[n] => typed[n]
DyingIsDead == \A i \in 1 .. Len(dying) : ~alive[dying[i]]

\* The number that is d steps after seq.
Later(seq, d) == IF seq + d <= SEQ_MAX THEN seq + d ELSE seq + d - SEQ_MAX

\* The number of a node is as many steps after the number in an id as the node
\* was used since, within one round.
NumbersInStep ==
    \A n \in Nodes : m_seq[n] \in 0 .. SEQ_MAX

\* The object that gets its id now has a number already.
NumberedBeforeNamed == pc = "name" => m_seq[cur] # 0

OwnersInStep ==
    \A o \in Owners : held[o] # NilID =>
        /\ of[o] <= uses[held[o].id]
        /\ uses[held[o].id] - of[o] < SEQ_MAX =>
              m_seq[held[o].id] = Later(held[o].seq, uses[held[o].id] - of[o])

IInv ==
    /\ IdTypes /\ PlaceTypes
    /\ NoneDyingInAllocate /\ AliveIsTyped /\ DyingIsDead
    /\ NumbersInStep /\ NumberedBeforeNamed /\ OwnersInStep

-----------------------------------------------------------------------------
(* The numbers. *)

LEMMA IncSeqIsNext ==
    ASSUME NEW seq \in 0 .. SEQ_MAX
    PROVE  IncSeq(seq) \in 1 .. SEQ_MAX
  BY PoolAssumption DEF IncSeq

LEMMA LaterStep ==
    ASSUME NEW seq \in 1 .. SEQ_MAX, NEW d \in Nat, d + 1 < SEQ_MAX
    PROVE  IncSeq(Later(seq, d)) = Later(seq, d + 1)
  BY PoolAssumption DEF IncSeq, Later

LEMMA LaterDiffers ==
    ASSUME NEW seq \in 1 .. SEQ_MAX, NEW d \in Nat, d > 0, d < SEQ_MAX
    PROVE  Later(seq, d) # seq
  BY PoolAssumption DEF Later


-----------------------------------------------------------------------------
(* The invariant holds. *)

LEMMA ObjIDFields ==
    /\ NilID \notin ObjID
    /\ \A id \in ObjID : id.id \in Nodes /\ id.seq \in 1 .. SEQ_MAX
  BY DEF ObjID, NilID, Nodes

LEMMA InitIInv == Init => IInv
  <1> SUFFICES ASSUME Init PROVE IInv
    OBVIOUS
  <1>1. IdTypes
    BY DEF Init, IdTypes
  <1>2. PlaceTypes
    BY PoolAssumption DEF Init, PlaceTypes, Maps, Heads, Nodes
  <1>3. /\ NoneDyingInAllocate /\ AliveIsTyped /\ DyingIsDead
        /\ NumbersInStep /\ NumberedBeforeNamed /\ OwnersInStep
    BY PoolAssumption DEF Init, NoneDyingInAllocate, AliveIsTyped, DyingIsDead, NumbersInStep,
                          NumberedBeforeNamed, OwnersInStep, NilID
  <1> QED BY <1>1, <1>2, <1>3 DEF IInv

\* An action that leaves the ids, the objects and the destructors alone and does
\* not begin an allocation in the middle of a destructor.
LEMMA QuietStep ==
    ASSUME IInv, PlaceTypes', NoneDyingInAllocate',
           UNCHANGED <<objects, ids, dying>>, pc' # "name" \/ UNCHANGED <<pc, cur>>
    PROVE  IInv'
  BY DEF IInv, IdTypes, AliveIsTyped, DyingIsDead, NumbersInStep, NumberedBeforeNamed, OwnersInStep,
         objects, ids

LEMMA NumberObjectKeepsIInv ==
    ASSUME IInv, NumberObject
    PROVE  IInv'
  <1> USE DEF IInv
  <1>1. cur \in Nodes /\ m_seq[cur] \in 0 .. SEQ_MAX
    BY DEF PlaceTypes, NumbersInStep
  <1>2. IncSeq(m_seq[cur]) \in 1 .. SEQ_MAX
    BY <1>1, IncSeqIsNext
  <1>3. dying = << >> /\ UNCHANGED <<dying, bit_map_, free_node_, cur, typed, alive, held, of>> /\ pc' = "name"
    BY DEF NumberObject, NoneDyingInAllocate, list
  <1>4. m_seq' = [m_seq EXCEPT ![cur] = IncSeq(m_seq[cur])] /\ uses' = [uses EXCEPT ![cur] = uses[cur] + 1]
    BY DEF NumberObject
  <1>5. IdTypes'
    BY <1>1, <1>2, <1>3, <1>4 DEF IdTypes
  <1>6. PlaceTypes' /\ NoneDyingInAllocate' /\ DyingIsDead' /\ AliveIsTyped'
    BY <1>3 DEF PlaceTypes, NoneDyingInAllocate, DyingIsDead, AliveIsTyped
  <1>7. NumbersInStep' /\ NumberedBeforeNamed'
    BY <1>1, <1>2, <1>3, <1>4, PoolAssumption DEF NumbersInStep, NumberedBeforeNamed, IdTypes
  <1>8. ASSUME NEW p \in Owners, held[p] # NilID
        PROVE  /\ of[p] <= uses'[held[p].id]
               /\ uses'[held[p].id] - of[p] < SEQ_MAX =>
                     m_seq'[held[p].id] = Later(held[p].seq, uses'[held[p].id] - of[p])
    <2>1. held[p].id \in Nodes /\ held[p].seq \in 1 .. SEQ_MAX /\ of[p] \in Nat
      BY <1>8, ObjIDFields DEF IdTypes
    <2>2. /\ of[p] <= uses[held[p].id]
          /\ uses[held[p].id] - of[p] < SEQ_MAX =>
                m_seq[held[p].id] = Later(held[p].seq, uses[held[p].id] - of[p])
      BY <1>8 DEF OwnersInStep
    <2>3. CASE held[p].id # cur
      <3>1. uses'[held[p].id] = uses[held[p].id] /\ m_seq'[held[p].id] = m_seq[held[p].id]
        BY <1>4, <2>1, <2>3 DEF IdTypes
      <3> QED BY <2>2, <3>1
    <2>4. CASE held[p].id = cur
      <3> DEFINE d == uses[cur] - of[p]
      <3>1. uses[cur] \in Nat /\ uses'[cur] = uses[cur] + 1 /\ m_seq'[cur] = IncSeq(m_seq[cur])
        BY <1>1, <1>4 DEF IdTypes
      <3>2. d \in Nat /\ uses'[cur] - of[p] = d + 1 /\ of[p] <= uses'[cur]
        BY <3>1, <2>1, <2>2, <2>4
      <3>3. ASSUME d + 1 < SEQ_MAX
            PROVE  m_seq'[cur] = Later(held[p].seq, d + 1)
        <4>1. m_seq[cur] = Later(held[p].seq, d)
          BY <3>2, <3>3, <2>2, <2>4, PoolAssumption
        <4> QED BY <4>1, <3>1, <3>2, <3>3, <2>1, LaterStep
      <3> HIDE DEF d
      <3> QED BY <2>4, <3>2, <3>3
    <2> QED BY <2>3, <2>4
  <1>9. OwnersInStep'
    BY <1>3, <1>8 DEF OwnersInStep
  <1> QED BY <1>5, <1>6, <1>7, <1>9

LEMMA NameObjectKeepsIInv ==
    ASSUME IInv, NEW o \in Owners, NameObject(o)
    PROVE  IInv'
  <1> DEFINE id == [id |-> cur, seq |-> m_seq[cur]]
  <1> USE DEF IInv
  <1>1. cur \in Nodes /\ m_seq[cur] \in 1 .. SEQ_MAX
    BY PoolAssumption DEF PlaceTypes, NumbersInStep, NumberedBeforeNamed, NameObject
  <1>2. id \in ObjID /\ id # NilID
    BY <1>1, ObjIDFields DEF ObjID
  <1>3. dying = << >> /\ UNCHANGED <<dying, bit_map_, free_node_, cur, m_seq, uses>> /\ pc' = "idle"
    BY DEF NameObject, NoneDyingInAllocate, list
  <1>4. IdTypes'
    BY <1>1, <1>2, <1>3 DEF NameObject, IdTypes
  <1>5. PlaceTypes' /\ NoneDyingInAllocate' /\ DyingIsDead' /\ NumbersInStep' /\ NumberedBeforeNamed'
    BY <1>3 DEF PlaceTypes, NoneDyingInAllocate, DyingIsDead, NumbersInStep, NumberedBeforeNamed
  <1>6. AliveIsTyped'
    BY DEF NameObject, AliveIsTyped, IdTypes
  <1>7. ASSUME NEW p \in Owners, held'[p] # NilID
        PROVE  /\ of'[p] <= uses[held'[p].id]
               /\ uses[held'[p].id] - of'[p] < SEQ_MAX =>
                     m_seq[held'[p].id] = Later(held'[p].seq, uses[held'[p].id] - of'[p])
    <2>1. CASE p = o
      <3>1. held'[p] = id /\ of'[p] = uses[cur] /\ uses[cur] \in Nat
        BY <2>1, <1>1 DEF NameObject, IdTypes
      <3>2. Later(m_seq[cur], 0) = m_seq[cur]
        BY <1>1, PoolAssumption DEF Later
      <3> QED BY <3>1, <3>2
    <2>2. CASE p # o
      BY <1>7, <2>2 DEF NameObject, IdTypes, OwnersInStep
    <2> QED BY <2>1, <2>2
  <1>8. OwnersInStep'
    BY <1>3, <1>7 DEF OwnersInStep
  <1> QED BY <1>4, <1>5, <1>6, <1>8

LEMMA CopyIDKeepsIInv ==
    ASSUME IInv, NEW o \in Owners, NEW p \in Owners, CopyID(o, p)
    PROVE  IInv'
  <1> USE DEF IInv
  <1>1. UNCHANGED <<typed, m_seq, uses, alive, dying, pc, cur, bit_map_, free_node_>>
    BY DEF CopyID, objects, list
  <1>2. IdTypes'
    BY <1>1 DEF CopyID, IdTypes
  <1>3. PlaceTypes' /\ NoneDyingInAllocate' /\ DyingIsDead' /\ AliveIsTyped' /\ NumbersInStep'
        /\ NumberedBeforeNamed'
    BY <1>1 DEF PlaceTypes, NoneDyingInAllocate, DyingIsDead, AliveIsTyped, NumbersInStep,
                NumberedBeforeNamed
  <1>4. \A q \in Owners : \E r \in Owners : held'[q] = held[r] /\ of'[q] = of[r]
    BY DEF CopyID, IdTypes
  <1>5. OwnersInStep'
    BY <1>1, <1>4 DEF OwnersInStep
  <1> QED BY <1>2, <1>3, <1>5

LEMMA SetFreeNodeKeepsIInv ==
    ASSUME IInv, SetFreeNode
    PROVE  IInv'
  <1> USE DEF IInv
  <1>1. cur \in Nodes /\ free_node_ \in Heads /\ free_node_ \in {TAIL_OF_LIST} \cup 0 .. count
    BY DEF PlaceTypes, Heads
  <1>2. UNCHANGED <<typed, m_seq, uses, held, of, cur>> /\ pc' = "idle"
    BY DEF SetFreeNode, objects
  <1>3. IdTypes'
    BY <1>2 DEF SetFreeNode, IdTypes
  <1>4. bit_map_' \in Maps /\ free_node_' \in Heads
    BY <1>1, PoolAssumption DEF SetFreeNode, PlaceTypes, Maps, Heads, Nodes
  <1>5. dying' = <<cur>> \o dying /\ dying' \in Seq(Nodes)
    BY <1>1 DEF SetFreeNode, PlaceTypes
  <1>6. PlaceTypes'
    BY <1>1, <1>2, <1>4, <1>5 DEF PlaceTypes
  <1>7. DyingIsDead'
    <2>1. \A n \in Nodes : alive'[n] => alive[n] /\ n # cur
      BY <1>1 DEF SetFreeNode, IdTypes
    <2>2. \A i \in 1 .. Len(dying') : dying'[i] = cur \/ (i - 1 \in 1 .. Len(dying) /\ dying'[i] = dying[i - 1])
      BY <1>1, <1>5 DEF PlaceTypes
    <2>3. \A i \in 1 .. Len(dying') : dying'[i] \in Nodes
      BY <1>5
    <2> QED BY <2>1, <2>2, <2>3 DEF DyingIsDead
  <1>8. NoneDyingInAllocate' /\ NumbersInStep' /\ NumberedBeforeNamed' /\ OwnersInStep'
    BY <1>2 DEF NoneDyingInAllocate, NumbersInStep, NumberedBeforeNamed, OwnersInStep
  <1>9. AliveIsTyped'
    BY <1>2 DEF SetFreeNode, AliveIsTyped, IdTypes
  <1> QED BY <1>3, <1>6, <1>7, <1>8, <1>9

LEMMA DestroyKeepsIInv ==
    ASSUME IInv, Destroy
    PROVE  IInv'
  <1> USE DEF IInv
  <1>1. UNCHANGED <<m_seq, uses, alive, held, of, cur, pc, bit_map_, free_node_>> /\ pc = "idle"
    BY DEF Destroy, ids, list
  <1>2. dying # << >> /\ dying \in Seq(Nodes) /\ dying' = Tail(dying)
    BY DEF Destroy, PlaceTypes
  <1>3. dying' \in Seq(Nodes) /\ Head(dying) = dying[1] /\ 1 \in 1 .. Len(dying)
    BY <1>2
  <1>4. \A i \in 1 .. Len(dying') : i + 1 \in 1 .. Len(dying) /\ dying'[i] = dying[i + 1]
    BY <1>2
  <1>5. IdTypes'
    BY <1>1, <1>3 DEF Destroy, IdTypes
  <1>6. PlaceTypes'
    BY <1>1, <1>3 DEF PlaceTypes
  <1>7. DyingIsDead'
    BY <1>1, <1>4 DEF DyingIsDead
  <1>8. AliveIsTyped'
    <2>1. ~alive[Head(dying)]
      BY <1>3 DEF DyingIsDead
    <2> QED BY <2>1, <1>1 DEF Destroy, AliveIsTyped, IdTypes
  <1>9. NoneDyingInAllocate' /\ NumbersInStep' /\ NumberedBeforeNamed' /\ OwnersInStep'
    BY <1>1 DEF NoneDyingInAllocate, NumbersInStep, NumberedBeforeNamed, OwnersInStep
  <1> QED BY <1>5, <1>6, <1>7, <1>8, <1>9

LEMMA RestartKeepsIInv ==
    ASSUME IInv, CrashAndResume
    PROVE  IInv'
  <1> USE DEF IInv
  <1>1. UNCHANGED <<typed, m_seq, uses, alive, held, of>> /\ dying' = << >> /\ pc' = "idle" /\ cur' = 0
    BY DEF CrashAndResume, Restart, ids, objects
  <1>2. bit_map_' \in Maps /\ free_node_' \in Heads
    BY DEF CrashAndResume
  <1>3. PlaceTypes'
    BY <1>1, <1>2, PoolAssumption DEF PlaceTypes, Nodes
  <1>4. /\ IdTypes' /\ NoneDyingInAllocate' /\ AliveIsTyped' /\ DyingIsDead'
        /\ NumbersInStep' /\ NumberedBeforeNamed' /\ OwnersInStep'
    BY <1>1 DEF IdTypes, NoneDyingInAllocate, AliveIsTyped, DyingIsDead, NumbersInStep,
                NumberedBeforeNamed, OwnersInStep
  <1> QED BY <1>3, <1>4

LEMMA NextIInv == IInv /\ [Next]_vars => IInv'
  <1> SUFFICES ASSUME IInv, [Next]_vars PROVE IInv'
    OBVIOUS
  <1> USE DEF IInv
  <1>1. CASE TakeFreeNode
    <2>1. free_node_ - 1 \in Nodes /\ bit_map_[free_node_ - 1] \in Heads
      BY <1>1, PoolAssumption DEF TakeFreeNode, PlaceTypes, Heads, Maps, Nodes, Busy, BUSY_NODE_INDEX, TAIL_OF_LIST
    <2>2. PlaceTypes' /\ NoneDyingInAllocate'
      BY <1>1, <2>1 DEF TakeFreeNode, PlaceTypes, NoneDyingInAllocate
    <2> QED BY <1>1, <2>2, QuietStep DEF TakeFreeNode
  <1>2. CASE MarkBusy
    <2>1. PlaceTypes' /\ NoneDyingInAllocate'
      BY <1>2, PoolAssumption DEF MarkBusy, PlaceTypes, Maps, BUSY_NODE_INDEX, NoneDyingInAllocate
    <2> QED BY <1>2, <2>1, QuietStep DEF MarkBusy
  <1>3. CASE CountAllocate
    <2>1. PlaceTypes' /\ NoneDyingInAllocate'
      BY <1>3 DEF CountAllocate, PlaceTypes, NoneDyingInAllocate, list
    <2> QED BY <1>3, <2>1, QuietStep DEF CountAllocate
  <1>4. CASE Rebase
    <2>1. PlaceTypes' /\ NoneDyingInAllocate'
      BY <1>4 DEF Rebase, PlaceTypes, NoneDyingInAllocate, list
    <2> QED BY <1>4, <2>1, QuietStep DEF Rebase
  <1>5. CASE NumberObject \/ \E o \in Owners : NameObject(o)
    BY <1>5, NumberObjectKeepsIInv, NameObjectKeepsIInv
  <1>6. CASE \E o, p \in Owners : CopyID(o, p)
    BY <1>6, CopyIDKeepsIInv
  <1>7. CASE \E o \in Owners : Deallocate(o)
    <2>1. PICK o \in Owners : Deallocate(o)
      BY <1>7
    <2>2. held[o].id \in Nodes
      BY <2>1, ObjIDFields DEF Deallocate, GetObject, IdTypes
    <2>3. PlaceTypes' /\ NoneDyingInAllocate'
      BY <2>1, <2>2 DEF Deallocate, PlaceTypes, NoneDyingInAllocate, list
    <2> QED BY <2>1, <2>3, QuietStep DEF Deallocate
  <1>8. CASE SetFreeNode
    BY <1>8, SetFreeNodeKeepsIInv
  <1>9. CASE Destroy
    BY <1>9, DestroyKeepsIInv
  <1>10. CASE (\E r \in Ranges : ForeachBegin(r[1], r[2])) \/ ForeachSkip \/ ForeachCall
              \/ ForeachReturn \/ ForeachEnd
    <2>1. UNCHANGED <<objects, ids, dying, pc, cur, bit_map_, free_node_>>
      BY <1>10 DEF ForeachBegin, ForeachSkip, ForeachCall, ForeachReturn, ForeachEnd, list
    <2>2. PlaceTypes' /\ NoneDyingInAllocate'
      BY <2>1 DEF PlaceTypes, NoneDyingInAllocate
    <2> QED BY <2>1, <2>2, QuietStep
  <1>11. CASE CrashAndResume
    BY <1>11, RestartKeepsIInv
  <1>12. CASE UNCHANGED vars
    <2>1. UNCHANGED <<objects, ids, dying, pc, cur, bit_map_, free_node_>>
      BY <1>12 DEF vars, list
    <2>2. PlaceTypes' /\ NoneDyingInAllocate'
      BY <2>1 DEF PlaceTypes, NoneDyingInAllocate
    <2> QED BY <2>1, <2>2, QuietStep
  <1> QED
    BY <1>1, <1>2, <1>3, <1>4, <1>5, <1>6, <1>7, <1>8, <1>9, <1>10, <1>11, <1>12
    DEF Next, AllocateStep

LEMMA IInvHolds == Spec => []IInv
  BY InitIInv, NextIInv, PTL DEF Spec

-----------------------------------------------------------------------------
(* What follows. *)

\* An owner's id leads to its object for as long as that object is in use.
THEOREM OwnersReachTheirObjects == Spec => []LivingResolves
  <1>1. IInv => LivingResolves
    <2> SUFFICES ASSUME IInv, NEW o \in Owners, held[o] # NilID, alive[held[o].id],
                        of[o] = uses[held[o].id]
                 PROVE  GetObject(held[o]) = held[o].id
      BY DEF LivingResolves
    <2>1. held[o].id \in Nodes /\ held[o].seq \in 1 .. SEQ_MAX
      BY ObjIDFields DEF IInv, IdTypes
    <2>2. typed[held[o].id]
      BY <2>1 DEF IInv, AliveIsTyped
    <2>3. uses[held[o].id] \in Nat /\ uses[held[o].id] - of[o] = 0
      BY <2>1 DEF IInv, IdTypes
    <2>4. m_seq[held[o].id] = held[o].seq
      BY <2>1, <2>3, PoolAssumption DEF IInv, OwnersInStep, Later
    <2> QED BY <2>2, <2>4 DEF GetObject
  <1> QED BY <1>1, IInvHolds, PTL

\* An id never leads to a later object of its node before SEQ_MAX uses of it.
THEOREM NoOtherObjectIsReached == Spec => []NeverAnotherObject
  <1>1. IInv => NeverAnotherObject
    <2> SUFFICES ASSUME IInv, NEW o \in Owners, GetObject(held[o]) # -1,
                        uses[held[o].id] # of[o]
                 PROVE  uses[held[o].id] - of[o] >= SEQ_MAX
      BY DEF NeverAnotherObject
    <2>1. held[o] # NilID /\ m_seq[held[o].id] = held[o].seq
      BY DEF GetObject
    <2>2. held[o].id \in Nodes /\ held[o].seq \in 1 .. SEQ_MAX
      BY <2>1, ObjIDFields DEF IInv, IdTypes
    <2> DEFINE d == uses[held[o].id] - of[o]
    <2>3. d \in Nat /\ d > 0
      <3>1. uses[held[o].id] \in Nat /\ of[o] \in Nat
        BY <2>2 DEF IInv, IdTypes
      <3>2. of[o] <= uses[held[o].id]
        BY <2>1 DEF IInv, OwnersInStep
      <3> QED BY <3>1, <3>2
    <2>4. d < SEQ_MAX => held[o].seq = Later(held[o].seq, d)
      BY <2>1 DEF IInv, OwnersInStep
    <2>5. ~(d < SEQ_MAX)
      BY <2>2, <2>3, <2>4, LaterDiffers
    <2> QED BY <2>3, <2>5, PoolAssumption
  <1> QED BY <1>1, IInvHolds, PTL

-----------------------------------------------------------------------------
(* The free list. *)

\* The nodes the list runs through.
OnList == {n \in Nodes : ~Busy(n)} \ (IF pc = "mark" THEN {cur} ELSE {})

\* The head and every link lead to a node of the list or to its end, and no two
\* of them lead to the same place.
Chain ==
    /\ free_node_ = TAIL_OF_LIST \/ free_node_ - 1 \in OnList
    /\ \A n \in OnList : bit_map_[n] = TAIL_OF_LIST \/ bit_map_[n] - 1 \in OnList
    /\ \A n \in OnList : bit_map_[n] # free_node_
    /\ \A n, m \in OnList : n # m => bit_map_[n] # bit_map_[m]

ListInv == PlaceTypes /\ Chain /\ (pc = "free" => Busy(cur))

\* The next node GetFreeNode hands out is free: FixFreeList is never called.
HeadIsFree == free_node_ # TAIL_OF_LIST => free_node_ - 1 \in Nodes /\ ~Busy(free_node_ - 1)

LEMMA InitListInv == Init => ListInv
  <1> SUFFICES ASSUME Init PROVE ListInv
    OBVIOUS
  <1>1. PlaceTypes /\ pc = "idle" /\ free_node_ = 1
    BY InitIInv DEF IInv, Init
  <1>2. \A n \in Nodes : bit_map_[n] = IF n = count - 1 THEN TAIL_OF_LIST ELSE n + 2
    BY DEF Init
  <1>3. OnList = Nodes
    BY <1>1, <1>2 DEF OnList, Busy, BUSY_NODE_INDEX, TAIL_OF_LIST, Nodes
  <1>4. Chain
    BY <1>1, <1>2, <1>3, PoolAssumption DEF Chain, Nodes, TAIL_OF_LIST
  <1> QED BY <1>1, <1>4 DEF ListInv

\* An action that leaves the list alone keeps it a chain.
LEMMA SameList ==
    ASSUME ListInv, UNCHANGED <<bit_map_, free_node_>>, pc # "mark", pc' # "mark"
    PROVE  Chain'
  BY DEF ListInv, Chain, OnList, Busy

LEMMA TakeFreeNodeKeepsChain ==
    ASSUME ListInv, TakeFreeNode
    PROVE  Chain'
  <1> DEFINE h == free_node_ - 1
  <1>1. pc = "idle" /\ pc' = "mark" /\ cur' = h /\ bit_map_' = bit_map_ /\ free_node_' = bit_map_[h]
        /\ free_node_ # TAIL_OF_LIST
    BY DEF TakeFreeNode, MayCall
  <1>2. h \in OnList /\ h \in Nodes
    BY <1>1 DEF ListInv, Chain, OnList
  <1>3. OnList' = OnList \ {h}
    BY <1>1 DEF OnList, Busy
  <1>4. \A n \in OnList : bit_map_[n] - 1 # h
    <2>1. \A n \in Nodes : bit_map_[n] \in Int
      BY PoolAssumption DEF ListInv, PlaceTypes, Maps, TAIL_OF_LIST
    <2>2. free_node_ \in Int
      BY PoolAssumption DEF ListInv, PlaceTypes, Heads, TAIL_OF_LIST
    <2> QED BY <2>1, <2>2 DEF ListInv, Chain, OnList
  <1> HIDE DEF h
  <1> QED BY <1>1, <1>2, <1>3, <1>4 DEF ListInv, Chain

LEMMA MarkBusyKeepsChain ==
    ASSUME ListInv, MarkBusy
    PROVE  Chain'
  <1>1. cur \in Nodes /\ pc = "mark" /\ pc' = "count" /\ free_node_' = free_node_
        /\ bit_map_' = [bit_map_ EXCEPT ![cur] = BUSY_NODE_INDEX]
    BY DEF MarkBusy, ListInv, PlaceTypes
  <1>2. \A n \in Nodes : bit_map_'[n] = IF n = cur THEN BUSY_NODE_INDEX ELSE bit_map_[n]
    BY <1>1 DEF ListInv, PlaceTypes, Maps
  <1>3. OnList' = OnList /\ \A n \in OnList : n \in Nodes /\ bit_map_'[n] = bit_map_[n]
    BY <1>1, <1>2 DEF OnList, Busy
  <1> QED BY <1>1, <1>3 DEF ListInv, Chain

LEMMA SetFreeNodeKeepsChain ==
    ASSUME ListInv, SetFreeNode
    PROVE  Chain'
  <1>1. cur \in Nodes /\ Busy(cur) /\ pc = "free" /\ pc' = "idle" /\ free_node_' = cur + 1
        /\ bit_map_' = [bit_map_ EXCEPT ![cur] = free_node_]
    BY DEF SetFreeNode, ListInv, PlaceTypes
  <1>2. \A n \in Nodes : bit_map_'[n] = IF n = cur THEN free_node_ ELSE bit_map_[n]
    BY <1>1 DEF ListInv, PlaceTypes, Maps
  <1>3. free_node_ # BUSY_NODE_INDEX
    BY DEF ListInv, PlaceTypes, Heads, TAIL_OF_LIST, BUSY_NODE_INDEX
  <1>4. OnList' = OnList \cup {cur} /\ cur \notin OnList /\ OnList \subseteq Nodes
    BY <1>1, <1>2, <1>3 DEF OnList, Busy
  <1>5. free_node_' - 1 = cur /\ cur + 1 # TAIL_OF_LIST
    BY <1>1 DEF Nodes, TAIL_OF_LIST
  <1>6. /\ bit_map_'[cur] = free_node_
        /\ \A n \in OnList : bit_map_'[n] = bit_map_[n]
    BY <1>1, <1>2, <1>4
  <1>7. /\ free_node_ = TAIL_OF_LIST \/ free_node_ - 1 \in OnList
        /\ \A n \in OnList : bit_map_[n] = TAIL_OF_LIST \/ bit_map_[n] - 1 \in OnList
        /\ \A n \in OnList : bit_map_[n] # free_node_
        /\ \A n, m \in OnList : n # m => bit_map_[n] # bit_map_[m]
    BY DEF ListInv, Chain
  <1>8. ASSUME NEW n \in OnList'
        PROVE  bit_map_'[n] = TAIL_OF_LIST \/ bit_map_'[n] - 1 \in OnList
    <2>1. CASE n = cur
      BY <1>6, <1>7, <2>1
    <2>2. CASE n \in OnList
      BY <1>6, <1>7, <2>2
    <2> QED BY <1>4, <2>1, <2>2
  <1>9. \A n \in OnList' : bit_map_'[n] # free_node_'
    BY <1>1, <1>4, <1>5, <1>8
  <1>10. ASSUME NEW n \in OnList', NEW m \in OnList', n # m
         PROVE  bit_map_'[n] # bit_map_'[m]
    <2>1. CASE n = cur
      BY <1>4, <1>6, <1>7, <1>10, <2>1
    <2>2. CASE m = cur
      BY <1>4, <1>6, <1>7, <1>10, <2>2
    <2>3. CASE n \in OnList /\ m \in OnList
      BY <1>6, <1>7, <1>10, <2>3
    <2> QED BY <1>4, <2>1, <2>2, <2>3
  <1> QED BY <1>4, <1>5, <1>8, <1>9, <1>10 DEF Chain

LEMMA ResumeMakesChain ==
    ASSUME CrashAndResume
    PROVE  Chain'
  <1> DEFINE free == {n \in Nodes : ~Busy(n)}
  <1>1. bit_map_' \in Maps /\ free_node_' \in Heads /\ Linked(bit_map_', free_node_', free) /\ pc' = "idle"
    BY DEF CrashAndResume, Restart
  <1>2. free \subseteq Nodes /\ free \subseteq Int
    BY DEF Nodes
  <1>3. ASSUME NEW n \in Nodes
        PROVE  /\ bit_map_'[n] \in Int
               /\ n \notin free => bit_map_'[n] = 0
               /\ n \in free => \/ bit_map_'[n] = -1 /\ \A k \in free : k <= n
                                \/ NextFree(n, bit_map_'[n] - 1, free)
    BY <1>1, PoolAssumption DEF Linked, Maps, TAIL_OF_LIST, BUSY_NODE_INDEX
  <1>4. \/ free_node_' = -1 /\ free = {}
        \/ free_node_' \in Int /\ NextFree(-1, free_node_' - 1, free)
    BY <1>1, PoolAssumption DEF Linked, Heads, TAIL_OF_LIST
  <1>5. \A n \in Nodes : n \in free <=> bit_map_'[n] # 0
    BY <1>3 DEF NextFree, Nodes
  <1>6. OnList' = free
    BY <1>1, <1>5 DEF OnList, Busy, BUSY_NODE_INDEX
  <1> HIDE DEF free
  <1>7. \A n \in free : bit_map_'[n] = -1 \/ bit_map_'[n] - 1 \in free
    BY <1>2, <1>3 DEF NextFree
  <1>8. \A n \in free : bit_map_'[n] # free_node_'
    BY <1>2, <1>3, <1>4 DEF NextFree, Nodes
  <1>9. \A n, m \in free : n # m => bit_map_'[n] # bit_map_'[m]
    BY <1>2, <1>3 DEF NextFree, Nodes
  <1>10. free_node_' = -1 \/ free_node_' - 1 \in free
    BY <1>4 DEF NextFree
  <1> QED BY <1>6, <1>7, <1>8, <1>9, <1>10 DEF Chain, TAIL_OF_LIST

LEMMA NextListInv == IInv /\ IInv' /\ ListInv /\ [Next]_vars => ListInv'
  <1> SUFFICES ASSUME IInv, IInv', ListInv, [Next]_vars PROVE ListInv'
    OBVIOUS
  <1>1. PlaceTypes'
    BY DEF IInv
  <1>2. CASE TakeFreeNode
    BY <1>1, <1>2, TakeFreeNodeKeepsChain DEF ListInv, TakeFreeNode
  <1>3. CASE MarkBusy
    BY <1>1, <1>3, MarkBusyKeepsChain DEF ListInv, MarkBusy
  <1>4. CASE CountAllocate \/ Rebase \/ NumberObject \/ \E o \in Owners : NameObject(o)
    <2>1. UNCHANGED <<bit_map_, free_node_>> /\ pc # "mark" /\ pc' \notin {"mark", "free"}
      BY <1>4 DEF CountAllocate, Rebase, NumberObject, NameObject, list
    <2> QED BY <1>1, <2>1, SameList DEF ListInv
  <1>5. CASE \E o \in Owners : Deallocate(o)
    <2>1. UNCHANGED <<bit_map_, free_node_>> /\ pc # "mark" /\ pc' = "free" /\ Busy(cur')
      BY <1>5 DEF Deallocate, MayCall, list
    <2> QED BY <1>1, <2>1, SameList DEF ListInv, Busy
  <1>6. CASE SetFreeNode
    BY <1>1, <1>6, SetFreeNodeKeepsChain DEF ListInv, SetFreeNode
  <1>7. CASE CrashAndResume
    BY <1>1, <1>7, ResumeMakesChain DEF ListInv, CrashAndResume, Restart
  <1>8. CASE \/ \E o, p \in Owners : CopyID(o, p)
             \/ Destroy
             \/ \E r \in Ranges : ForeachBegin(r[1], r[2])
             \/ ForeachSkip \/ ForeachCall \/ ForeachReturn \/ ForeachEnd
             \/ UNCHANGED vars
    <2>1. UNCHANGED <<bit_map_, free_node_, pc, cur>>
      BY <1>8 DEF CopyID, Destroy, ForeachBegin, ForeachSkip, ForeachCall, ForeachReturn, ForeachEnd, vars, list
    <2>2. OnList' = OnList
      BY <2>1 DEF OnList, Busy
    <2> QED BY <1>1, <2>1, <2>2 DEF ListInv, Chain, Busy
  <1> QED BY <1>2, <1>3, <1>4, <1>5, <1>6, <1>7, <1>8 DEF Next, AllocateStep

\* GetFreeNode never meets a busy node at the head of the free list, whatever
\* was allocated and deallocated and whoever died: the repair is dead code.
THEOREM FixFreeListIsNotNeeded == Spec => []HeadIsFree
  <1>1. ListInv => HeadIsFree
    BY DEF ListInv, Chain, OnList, HeadIsFree
  <1> QED BY <1>1, InitListInv, NextListInv, IInvHolds, PTL DEF Spec

-----------------------------------------------------------------------------
(* What a death costs. *)

\* The steps of an allocation whose node is busy and has no object yet.
Unborn == {"count", "rebase", "number", "name"}

\* The nodes that nobody can use.
Leaked == {n \in Nodes : Busy(n) /\ ~alive[n]}

LeakInv ==
    /\ crashes \in Nat
    /\ \A n \in Nodes : alive[n] => Busy(n)
    /\ pc = "mark" => ~Busy(cur)
    /\ pc \in Unborn => cur \in Leaked
    /\ Cardinality(Leaked) <= crashes + (IF pc \in Unborn THEN 1 ELSE 0)

LEMMA LeakedFinite == IsFiniteSet(Leaked) /\ Cardinality(Leaked) \in Nat
  <1>1. IsFiniteSet(Nodes)
    BY PoolAssumption, FS_Interval DEF Nodes
  <1>2. Leaked \in SUBSET Nodes
    BY DEF Leaked
  <1>3. IsFiniteSet(Leaked)
    BY <1>1, <1>2, FS_Subset
  <1> QED BY <1>3, FS_CardinalityType

LEMMA InitLeak == Init => LeakInv
  <1> SUFFICES ASSUME Init PROVE LeakInv
    OBVIOUS
  <1>1. \A n \in Nodes : ~Busy(n) /\ ~alive[n]
    BY DEF Init, Busy, BUSY_NODE_INDEX, TAIL_OF_LIST, Nodes
  <1>2. Leaked = {} /\ pc = "idle" /\ crashes = 0
    BY <1>1 DEF Init, Leaked
  <1>3. Cardinality(Leaked) = 0
    BY <1>2, FS_EmptySet
  <1> QED BY <1>1, <1>2, <1>3 DEF LeakInv, Unborn

\* The nodes stay busy and in use as they are.
LEMMA SameLeaks ==
    ASSUME LeakInv, \A n \in Nodes : Busy(n)' = Busy(n), alive' = alive, crashes' = crashes,
           cur' \in Nodes,
           \/ pc' = pc /\ cur' = cur
           \/ pc \in Unborn /\ pc' \in Unborn /\ cur' = cur
           \/ pc \notin Unborn /\ pc' \notin Unborn /\ (pc' = "mark" => ~Busy(cur'))
    PROVE  LeakInv'
  <1>1. Leaked' = Leaked
    BY DEF Leaked
  <1> QED BY <1>1 DEF LeakInv, Unborn

LEMMA NextLeak == IInv /\ IInv' /\ LeakInv /\ [Next]_vars => LeakInv'
  <1> SUFFICES ASSUME IInv, IInv', LeakInv, [Next]_vars PROVE LeakInv'
    OBVIOUS
  <1>1. /\ cur \in Nodes /\ cur' \in Nodes /\ bit_map_ \in Maps /\ bit_map_' \in Maps
        /\ alive \in [Nodes -> BOOLEAN] /\ free_node_ \in Heads
    BY DEF IInv, PlaceTypes, IdTypes
  <1>2. CASE MarkBusy
    <2>1. /\ pc = "mark" /\ pc' = "count" /\ UNCHANGED <<cur, alive, crashes>>
          /\ bit_map_' = [bit_map_ EXCEPT ![cur] = BUSY_NODE_INDEX]
      BY <1>2 DEF MarkBusy, ids, bounds
    <2>2. ~Busy(cur) /\ ~alive[cur]
      BY <1>1, <2>1 DEF LeakInv
    <2>3. \A n \in Nodes : Busy(n)' <=> Busy(n) \/ n = cur
      BY <1>1, <2>1 DEF Busy, Maps
    <2>4. Leaked' = Leaked \cup {cur} /\ cur \notin Leaked
      BY <1>1, <2>1, <2>2, <2>3 DEF Leaked
    <2>5. Cardinality(Leaked') = Cardinality(Leaked) + 1
      BY <2>4, LeakedFinite, FS_AddElement
    <2>6. Cardinality(Leaked) <= crashes /\ crashes \in Nat
      BY <2>1 DEF LeakInv, Unborn
    <2>7. Cardinality(Leaked') <= crashes' + 1
      BY <2>1, <2>5, <2>6, LeakedFinite
    <2> QED BY <2>1, <2>3, <2>4, <2>7 DEF LeakInv, Unborn
  <1>3. CASE \E o \in Owners : NameObject(o)
    <2>1. /\ pc = "name" /\ pc' = "idle" /\ alive' = [alive EXCEPT ![cur] = TRUE]
          /\ UNCHANGED <<bit_map_, cur, crashes>>
      BY <1>3 DEF NameObject, list, bounds
    <2>2. cur \in Leaked /\ Busy(cur)
      BY <2>1 DEF LeakInv, Unborn, Leaked
    <2>3. \A n \in Nodes : (Busy(n)' <=> Busy(n)) /\ (alive'[n] <=> alive[n] \/ n = cur)
      BY <1>1, <2>1 DEF Busy
    <2>4. Leaked' = Leaked \ {cur}
      BY <2>3 DEF Leaked
    <2>5. Cardinality(Leaked') = Cardinality(Leaked) - 1
      BY <2>2, <2>4, LeakedFinite, FS_RemoveElement
    <2>6. Cardinality(Leaked) <= crashes + 1 /\ crashes \in Nat
      BY <2>1 DEF LeakInv, Unborn
    <2>7. Cardinality(Leaked') <= crashes'
      BY <2>1, <2>5, <2>6, LeakedFinite
    <2> QED BY <2>1, <2>2, <2>3, <2>7 DEF LeakInv, Unborn
  <1>4. CASE SetFreeNode
    <2>1. /\ pc = "free" /\ pc' = "idle" /\ bit_map_' = [bit_map_ EXCEPT ![cur] = free_node_]
          /\ alive' = [alive EXCEPT ![cur] = FALSE] /\ UNCHANGED <<cur, crashes>>
      BY <1>4 DEF SetFreeNode, bounds
    <2>2. \A n \in Nodes : /\ Busy(n)' <=> Busy(n) /\ n # cur
                           /\ alive'[n] <=> alive[n] /\ n # cur
      BY <1>1, <2>1 DEF Busy, Maps, Heads, BUSY_NODE_INDEX, TAIL_OF_LIST
    <2>3. Leaked' \in SUBSET Leaked
      BY <2>2 DEF Leaked
    <2>4. Cardinality(Leaked') <= Cardinality(Leaked) /\ Cardinality(Leaked') \in Nat
      <3> DEFINE T == Leaked'
      <3>1. IsFiniteSet(T) /\ Cardinality(T) <= Cardinality(Leaked)
        <4> HIDE DEF T
        <4> QED BY <2>3, LeakedFinite, FS_Subset DEF T
      <3>2. Cardinality(T) \in Nat
        BY <3>1, FS_CardinalityType
      <3> QED BY <3>1, <3>2
    <2>5. Cardinality(Leaked) <= crashes /\ crashes \in Nat
      BY <2>1 DEF LeakInv, Unborn
    <2>6. Cardinality(Leaked') <= crashes'
      BY <2>1, <2>4, <2>5, LeakedFinite
    <2> QED BY <2>1, <2>2, <2>6 DEF LeakInv, Unborn
  <1>5. CASE CrashAndResume
    <2>1. /\ pc' = "idle" /\ crashes' = crashes + 1 /\ alive' = alive
          /\ Linked(bit_map_', free_node_', {n \in Nodes : ~Busy(n)})
      BY <1>5 DEF CrashAndResume, Restart, ids
    <2>2. \A n \in Nodes : Busy(n)' <=> Busy(n)
      BY <2>1 DEF Linked, NextFree, Busy, Nodes, BUSY_NODE_INDEX, TAIL_OF_LIST
    <2>3. Leaked' = Leaked
      BY <2>1, <2>2 DEF Leaked
    <2>4. Cardinality(Leaked) <= crashes + 1 /\ crashes \in Nat
      BY LeakedFinite DEF LeakInv
    <2>5. Cardinality(Leaked') <= crashes'
      BY <2>1, <2>3, <2>4
    <2> QED BY <2>1, <2>2, <2>4, <2>5 DEF LeakInv, Unborn
  <1>6. CASE TakeFreeNode
    <2>1. UNCHANGED <<bit_map_, alive, crashes>> /\ pc = "idle" /\ pc' = "mark" /\ ~Busy(cur')
      BY <1>6 DEF TakeFreeNode, MayCall, ids
    <2> QED BY <1>1, <2>1, SameLeaks DEF Busy, Unborn
  <1>7. CASE CountAllocate \/ Rebase \/ NumberObject
    <2>1. UNCHANGED <<bit_map_, alive, crashes, cur>> /\ pc \in Unborn /\ pc' \in Unborn
      BY <1>7 DEF CountAllocate, Rebase, NumberObject, Unborn, list, ids, bounds
    <2> QED BY <1>1, <2>1, SameLeaks DEF Busy
  <1>8. CASE \E o \in Owners : Deallocate(o)
    <2>1. UNCHANGED <<bit_map_, alive, crashes>> /\ pc = "idle" /\ pc' = "free"
      BY <1>8 DEF Deallocate, MayCall, list, ids, bounds
    <2> QED BY <1>1, <2>1, SameLeaks DEF Busy, Unborn
  <1>9. CASE \/ \E o, p \in Owners : CopyID(o, p)
             \/ Destroy
             \/ \E r \in Ranges : ForeachBegin(r[1], r[2])
             \/ ForeachSkip \/ ForeachCall \/ ForeachReturn \/ ForeachEnd
             \/ UNCHANGED vars
    <2>1. UNCHANGED <<bit_map_, alive, crashes, pc, cur>>
      BY <1>9 DEF CopyID, Destroy, ForeachBegin, ForeachSkip, ForeachCall, ForeachReturn, ForeachEnd,
                  vars, list, ids, bounds
    <2> QED BY <1>1, <2>1, SameLeaks DEF Busy
  <1> QED BY <1>2, <1>3, <1>4, <1>5, <1>6, <1>7, <1>8, <1>9 DEF Next, AllocateStep

\* For pools of every size: n deaths make n nodes at most unusable, wherever in an
\* allocation, a deallocation or a destructor they fall.
THEOREM DeathLeaksOneNode == Spec => []LeakBounded
  <1>1. LeakInv => LeakBounded
    BY DEF LeakInv, LeakBounded, Leaked, Unborn
  <1> QED BY <1>1, InitLeak, NextLeak, IInvHolds, PTL DEF Spec

-----------------------------------------------------------------------------
(* ForeachObj.  Its range is cut at max_used_node_ when it begins; no object   *)
(* that was there then is beyond that, and one that takes the place of such an *)
(* object is another use of its node.                                          *)

Allocating == pc \in {"mark"} \cup Unborn

\* max_used_node_ is beyond every object.
MaxUsedInv ==
    /\ max_used_node_ \in Int
    /\ \A n \in Nodes : alive[n] => n < max_used_node_
    /\ Allocating => cur < max_used_node_

\* A new object is none of those that were there.
ThereInv ==
    /\ \A n \in Nodes : \A u : <<n, u>> \in there => u \in Nat /\ u <= uses[n]
    /\ pc = "name" => <<cur, uses[cur]>> \notin there

StillThere(n) == alive[n] /\ <<n, uses[n]>> \in there

LoopInv ==
    /\ first \in Int /\ last \in Int /\ loop \in {"none", "test", "call"}
    /\ loop # "none" => \A n \in Nodes : StillThere(n) =>
          /\ n < last
          /\ n < first \/ (loop = "call" /\ n = first) => <<n, uses[n]>> \in seen

ForeachInv == MaxUsedInv /\ ThereInv /\ LoopInv

LEMMA InitForeach == Init => ForeachInv
  BY DEF Init, ForeachInv, MaxUsedInv, ThereInv, LoopInv, StillThere, Allocating, Unborn

\* The loop stands still and no object is made.
LEMMA ForeachKept ==
    ASSUME ForeachInv, UNCHANGED <<loop, first, last, there, seen, uses>>,
           \A n \in Nodes : alive'[n] => alive[n], pc' # "name" \/ UNCHANGED <<pc, cur>>
    PROVE  ThereInv' /\ LoopInv'
  BY DEF ForeachInv, ThereInv, LoopInv, StillThere

LEMMA NextForeach == IInv /\ IInv' /\ LeakInv /\ ForeachInv /\ [Next]_vars => ForeachInv'
  <1> SUFFICES ASSUME IInv, IInv', LeakInv, ForeachInv, [Next]_vars PROVE ForeachInv'
    OBVIOUS
  <1>1. /\ cur \in Nodes /\ cur' \in Nodes /\ alive \in [Nodes -> BOOLEAN] /\ uses \in [Nodes -> Nat]
        /\ free_node_ \in Int /\ Nodes \subseteq Int
    BY PoolAssumption DEF IInv, PlaceTypes, IdTypes, Heads, TAIL_OF_LIST, Nodes
  <1>2. CASE TakeFreeNode
    <2>1. /\ UNCHANGED <<loop, first, last, there, seen, uses, alive>> /\ pc' = "mark"
          /\ max_used_node_' = IF free_node_ > max_used_node_ THEN free_node_ ELSE max_used_node_
          /\ cur' = free_node_ - 1
      BY <1>2 DEF TakeFreeNode, foreach, ids
    <2>2. max_used_node_' \in Int /\ max_used_node_' >= max_used_node_ /\ cur' < max_used_node_'
      BY <1>1, <2>1 DEF ForeachInv, MaxUsedInv
    <2>3. MaxUsedInv'
      BY <1>1, <2>1, <2>2 DEF ForeachInv, MaxUsedInv
    <2> QED BY <2>1, <2>3, ForeachKept DEF ForeachInv
  <1>3. CASE MarkBusy \/ CountAllocate \/ Rebase
    <2>1. /\ UNCHANGED <<loop, first, last, there, seen, uses, alive, max_used_node_, cur>>
          /\ pc' # "name" /\ Allocating
      BY <1>3 DEF MarkBusy, CountAllocate, Rebase, foreach, ids, Allocating, Unborn
    <2>2. MaxUsedInv'
      BY <2>1 DEF ForeachInv, MaxUsedInv
    <2> QED BY <2>1, <2>2, ForeachKept DEF ForeachInv
  <1>4. CASE NumberObject
    <2>1. /\ UNCHANGED <<loop, first, last, there, seen, alive, max_used_node_, cur>>
          /\ pc = "number" /\ Allocating /\ uses' = [uses EXCEPT ![cur] = uses[cur] + 1]
      BY <1>4 DEF NumberObject, foreach, Allocating, Unborn
    <2>2. MaxUsedInv'
      BY <2>1 DEF ForeachInv, MaxUsedInv
    <2>3. \A n \in Nodes : uses'[n] = IF n = cur THEN uses[n] + 1 ELSE uses[n]
      BY <1>1, <2>1
    <2>4. <<cur, uses[cur] + 1>> \notin there
      BY <1>1 DEF ForeachInv, ThereInv
    <2>5. ThereInv'
      BY <1>1, <2>1, <2>3, <2>4 DEF ForeachInv, ThereInv
    <2>6. \A n \in Nodes : StillThere(n)' => StillThere(n) /\ uses'[n] = uses[n]
      BY <1>1, <2>1, <2>3, <2>4 DEF StillThere
    <2>7. LoopInv'
      BY <2>1, <2>6 DEF ForeachInv, LoopInv
    <2> QED BY <2>2, <2>5, <2>7 DEF ForeachInv
  <1>5. CASE \E o \in Owners : NameObject(o)
    <2>1. /\ UNCHANGED <<loop, first, last, there, seen, uses, max_used_node_, cur>>
          /\ pc = "name" /\ pc' = "idle" /\ alive' = [alive EXCEPT ![cur] = TRUE]
      BY <1>5 DEF NameObject, foreach
    <2>2. \A n \in Nodes : alive'[n] <=> alive[n] \/ n = cur
      BY <1>1, <2>1
    <2>3. MaxUsedInv'
      BY <2>1, <2>2 DEF ForeachInv, MaxUsedInv, Allocating, Unborn
    <2>4. ThereInv'
      BY <2>1 DEF ForeachInv, ThereInv
    <2>5. \A n \in Nodes : StillThere(n)' => StillThere(n)
      BY <2>1, <2>2 DEF ForeachInv, ThereInv, StillThere
    <2>6. LoopInv'
      BY <2>1, <2>5 DEF ForeachInv, LoopInv
    <2> QED BY <2>3, <2>4, <2>6 DEF ForeachInv
  <1>6. CASE SetFreeNode
    <2>1. /\ UNCHANGED <<loop, first, last, there, seen, uses, max_used_node_>>
          /\ pc' = "idle" /\ alive' = [alive EXCEPT ![cur] = FALSE]
      BY <1>6 DEF SetFreeNode, foreach
    <2>2. \A n \in Nodes : alive'[n] => alive[n]
      BY <1>1, <2>1
    <2>3. MaxUsedInv'
      BY <2>1, <2>2 DEF ForeachInv, MaxUsedInv, Allocating, Unborn
    <2> QED BY <2>1, <2>2, <2>3, ForeachKept DEF ForeachInv
  <1>7. CASE \E r \in Ranges : ForeachBegin(r[1], r[2])
    <2>1. PICK from \in 0 .. count, to \in 0 .. count : ForeachBegin(from, to)
      BY <1>7, PoolAssumption
    <2>2. /\ UNCHANGED <<max_used_node_, alive, uses, pc, cur>> /\ pc = "idle" /\ loop' = "test"
          /\ first' = from /\ last' = IF to > max_used_node_ THEN max_used_node_ ELSE to
          /\ there' = {<<n, uses[n]>> : n \in {m \in from .. to - 1 : alive[m]}}
      BY <2>1 DEF ForeachBegin, MayCall, ids
    <2>3. MaxUsedInv'
      BY <2>2 DEF ForeachInv, MaxUsedInv, Allocating
    <2>4. \A n \in Nodes : \A u : <<n, u>> \in there' => n \in from .. to - 1 /\ u = uses[n]
      BY <2>2
    <2>5. ThereInv'
      BY <1>1, <2>2, <2>4 DEF ThereInv
    <2>6. \A n \in Nodes : StillThere(n)' => alive[n] /\ n \in from .. to - 1
      BY <2>2, <2>4 DEF StillThere
    <2>7. max_used_node_ \in Int /\ \A n \in Nodes : alive[n] => n < max_used_node_
      BY DEF ForeachInv, MaxUsedInv
    <2>8. LoopInv'
      BY <1>1, <2>2, <2>6, <2>7 DEF LoopInv
    <2> QED BY <2>3, <2>5, <2>8 DEF ForeachInv
  <1>8. CASE ForeachSkip \/ ForeachCall \/ ForeachReturn \/ ForeachEnd
    <2>1. UNCHANGED <<max_used_node_, alive, uses, pc, cur, there, last>>
      BY <1>8 DEF ForeachSkip, ForeachCall, ForeachReturn, ForeachEnd, ids
    <2>2. MaxUsedInv' /\ ThereInv' /\ \A n \in Nodes : StillThere(n)' <=> StillThere(n)
      BY <2>1 DEF ForeachInv, MaxUsedInv, ThereInv, StillThere, Allocating
    <2>3. first \in Int /\ last \in Int /\ \A n \in Nodes : alive[n] => Busy(n)
      BY DEF ForeachInv, LoopInv, LeakInv
    <2>4. CASE ForeachSkip
      <3>1. loop = "test" /\ loop' = "test" /\ first' = first + 1 /\ ~Busy(first) /\ seen' = seen
        BY <2>4 DEF ForeachSkip
      <3>2. \A n \in Nodes : StillThere(n) => n # first
        BY <2>3, <3>1 DEF StillThere
      <3>3. \A n \in Nodes : StillThere(n) /\ n < first' => n < first
        BY <1>1, <2>3, <3>1, <3>2
      <3> QED BY <2>1, <2>2, <2>3, <3>1, <3>3 DEF ForeachInv, LoopInv
    <2>5. CASE ForeachCall
      <3>1. loop = "test" /\ loop' = "call" /\ first' = first /\ seen' = seen \cup {<<first, uses[first]>>}
        BY <2>5 DEF ForeachCall
      <3> QED BY <2>1, <2>2, <2>3, <3>1 DEF ForeachInv, LoopInv
    <2>6. CASE ForeachReturn \/ ForeachEnd
      <3>1. /\ seen' = seen
            /\ \/ loop' = "none" /\ first' = first
               \/ loop = "call" /\ loop' = "test" /\ first' = first + 1
        BY <2>6 DEF ForeachReturn, ForeachEnd
      <3>2. \A n \in Nodes : n < first + 1 => n < first \/ n = first
        BY <1>1, <2>3
      <3> QED BY <2>1, <2>2, <2>3, <3>1, <3>2 DEF ForeachInv, LoopInv
    <2> QED BY <1>8, <2>4, <2>5, <2>6
  <1>9. CASE CrashAndResume
    <2>1. /\ UNCHANGED <<max_used_node_, alive, uses>> /\ pc' = "idle"
          /\ loop' = "none" /\ first' = 0 /\ last' = 0 /\ there' = {}
      BY <1>9 DEF CrashAndResume, Restart, ids
    <2> QED BY <2>1 DEF ForeachInv, MaxUsedInv, ThereInv, LoopInv, Allocating, Unborn
  <1>10. CASE \/ \E o, p \in Owners : CopyID(o, p)
              \/ \E o \in Owners : Deallocate(o)
              \/ Destroy
              \/ UNCHANGED vars
    <2>1. /\ UNCHANGED <<loop, first, last, there, seen, uses, alive, max_used_node_>>
          /\ (pc' = "free" \/ UNCHANGED <<pc, cur>>)
      BY <1>10 DEF CopyID, Deallocate, Destroy, vars, foreach, ids
    <2>2. MaxUsedInv'
      BY <2>1 DEF ForeachInv, MaxUsedInv, Allocating, Unborn
    <2> QED BY <2>1, <2>2, ForeachKept DEF ForeachInv
  <1> QED BY <1>2, <1>3, <1>4, <1>5, <1>6, <1>7, <1>8, <1>9, <1>10 DEF Next, AllocateStep

\* For pools of every size and every range: a ForeachObj that comes to its end has
\* called the function for every object that was in its range from its beginning,
\* whatever the function allocated and deallocated meanwhile.
THEOREM ForeachMissesNone == Spec => []ForeachSeesAll
  <1>1. ForeachInv => ForeachSeesAll
    BY DEF ForeachInv, LoopInv, StillThere, ForeachSeesAll
  <1> QED BY <1>1, InitForeach, NextForeach, InitLeak, NextLeak, IInvHolds, PTL DEF Spec

-----------------------------------------------------------------------------
(* The size.  It is wrong by one between the store of a count and that of the  *)
(* map; a death between them leaves it so.  Once the counts were rebased, a     *)
(* death between the two stores of that may leave any size.                     *)

Occupied == {n \in Nodes : Busy(n)}

Size == allocate_count_ - deallocate_count_

\* By how many the map is ahead of the counts.
Ahead == IF pc \in {"count", "free"} THEN 1 ELSE 0

CountInv ==
    /\ allocate_count_ \in Int /\ deallocate_count_ \in Nat /\ allocates \in Nat /\ crashes \in Nat
    /\ pc = "rebase" => allocates >= MAX_ALLOCATE_COUNT
    /\ allocates < MAX_ALLOCATE_COUNT =>
          allocate_count_ + (IF pc \in {"mark", "count"} THEN 1 ELSE 0) <= allocates
    /\ crashes = 0 /\ pc = "rebase" => Cardinality(Occupied) = allocate_count_
    /\ (crashes = 0 \/ allocates < MAX_ALLOCATE_COUNT) /\ pc # "rebase" =>
          /\ Size + Ahead <= Cardinality(Occupied)
          /\ Cardinality(Occupied) <= Size + Ahead + crashes

LEMMA OccupiedFinite == IsFiniteSet(Occupied) /\ Cardinality(Occupied) \in Nat
  <1>1. IsFiniteSet(Nodes)
    BY PoolAssumption, FS_Interval DEF Nodes
  <1>2. Occupied \in SUBSET Nodes
    BY DEF Occupied
  <1>3. IsFiniteSet(Occupied)
    BY <1>1, <1>2, FS_Subset
  <1> QED BY <1>3, FS_CardinalityType

LEMMA InitCount == Init => CountInv
  <1> SUFFICES ASSUME Init PROVE CountInv
    OBVIOUS
  <1>1. Occupied = {}
    BY DEF Init, Occupied, Busy, BUSY_NODE_INDEX, TAIL_OF_LIST, Nodes
  <1>2. Cardinality(Occupied) = 0
    BY <1>1, FS_EmptySet
  <1> QED BY <1>2, PoolAssumption DEF Init, CountInv, Size, Ahead

LEMMA NextCount == IInv /\ ListInv /\ LeakInv /\ CountInv /\ [Next]_vars => CountInv'
  <1> SUFFICES ASSUME IInv, ListInv, LeakInv, CountInv, [Next]_vars PROVE CountInv'
    OBVIOUS
  <1> DEFINE c == Cardinality(Occupied)
             e == Cardinality(Occupied')
  <1>1. /\ cur \in Nodes /\ bit_map_ \in Maps /\ free_node_ \in Heads
        /\ allocate_count_ \in Int /\ deallocate_count_ \in Nat /\ allocates \in Nat /\ crashes \in Nat
        /\ c \in Nat /\ MAX_ALLOCATE_COUNT \in Nat
    BY OccupiedFinite, PoolAssumption DEF IInv, PlaceTypes, CountInv
  <1>2. ASSUME \A n \in Nodes : Busy(n)' <=> Busy(n)
        PROVE  Occupied' = Occupied /\ e = c
    BY <1>2 DEF Occupied
  <1>3. bit_map_' = bit_map_ => e = c
    BY DEF Occupied, Busy
  <1> HIDE DEF c, e
  <1>4. CASE TakeFreeNode
    <2>1. /\ pc = "idle" /\ pc' = "mark" /\ allocates' = allocates + 1
          /\ UNCHANGED <<bit_map_, allocate_count_, deallocate_count_, crashes>>
      BY <1>4 DEF TakeFreeNode, MayCall, counts
    <2> QED BY <1>1, <1>3, <2>1 DEF CountInv, Size, Ahead, c, e
  <1>5. CASE MarkBusy
    <2>1. /\ pc = "mark" /\ pc' = "count" /\ bit_map_' = [bit_map_ EXCEPT ![cur] = BUSY_NODE_INDEX]
          /\ UNCHANGED <<allocate_count_, deallocate_count_, crashes, allocates>>
      BY <1>5 DEF MarkBusy, counts, bounds
    <2>2. Occupied' = Occupied \cup {cur} /\ cur \notin Occupied
      BY <1>1, <2>1 DEF Occupied, Busy, Maps, LeakInv
    <2>3. e = c + 1
      BY <2>2, OccupiedFinite, FS_AddElement DEF c, e
    <2> QED BY <1>1, <2>1, <2>3 DEF CountInv, Size, Ahead, c, e
  <1>6. CASE CountAllocate
    <2>1. /\ pc = "count" /\ UNCHANGED <<bit_map_, deallocate_count_, crashes, allocates>>
          /\ IF allocate_count_ + 1 >= MAX_ALLOCATE_COUNT
             THEN /\ allocate_count_' = allocate_count_ + 1 - deallocate_count_
                  /\ pc' = "rebase"
             ELSE /\ allocate_count_' = allocate_count_ + 1
                  /\ pc' = "number"
      BY <1>6 DEF CountAllocate, list, bounds
    <2>2. CASE allocate_count_ + 1 >= MAX_ALLOCATE_COUNT
      <3>1. ~(allocates < MAX_ALLOCATE_COUNT)
        BY <1>1, <2>1, <2>2 DEF CountInv
      <3>2. crashes = 0 => c = allocate_count_ + 1 - deallocate_count_
        BY <1>1, <2>1 DEF CountInv, Size, Ahead, c
      <3> QED BY <1>1, <1>3, <2>1, <2>2, <3>1, <3>2 DEF CountInv, Size, Ahead, c, e
    <2>3. CASE ~(allocate_count_ + 1 >= MAX_ALLOCATE_COUNT)
      BY <1>1, <1>3, <2>1, <2>3 DEF CountInv, Size, Ahead, c, e
    <2> QED BY <2>2, <2>3
  <1>7. CASE Rebase
    <2>1. /\ pc = "rebase" /\ pc' = "number" /\ deallocate_count_' = 0
          /\ UNCHANGED <<bit_map_, allocate_count_, crashes, allocates>>
      BY <1>7 DEF Rebase, list, bounds
    <2> QED BY <1>1, <1>3, <2>1 DEF CountInv, Size, Ahead, c, e
  <1>8. CASE NumberObject \/ \E o \in Owners : NameObject(o)
    <2>1. /\ pc \in {"number", "name"} /\ pc' \in {"name", "idle"}
          /\ UNCHANGED <<bit_map_, allocate_count_, deallocate_count_, crashes, allocates>>
      BY <1>8 DEF NumberObject, NameObject, list, counts, bounds
    <2> QED BY <1>1, <1>3, <2>1 DEF CountInv, Size, Ahead, c, e
  <1>9. CASE \E o \in Owners : Deallocate(o)
    <2>1. /\ pc = "idle" /\ pc' = "free" /\ deallocate_count_' = deallocate_count_ + 1
          /\ UNCHANGED <<bit_map_, allocate_count_, crashes, allocates>>
      BY <1>9 DEF Deallocate, MayCall, list, bounds
    <2> QED BY <1>1, <1>3, <2>1 DEF CountInv, Size, Ahead, c, e
  <1>10. CASE SetFreeNode
    <2>1. /\ pc = "free" /\ pc' = "idle" /\ bit_map_' = [bit_map_ EXCEPT ![cur] = free_node_]
          /\ UNCHANGED <<allocate_count_, deallocate_count_, crashes, allocates>>
      BY <1>10 DEF SetFreeNode, counts, bounds
    <2>2. Busy(cur) /\ free_node_ # BUSY_NODE_INDEX
      BY <1>1, <2>1 DEF ListInv, Heads, BUSY_NODE_INDEX, TAIL_OF_LIST
    <2>3. Occupied' = Occupied \ {cur} /\ cur \in Occupied
      BY <1>1, <2>1, <2>2 DEF Occupied, Busy, Maps
    <2>4. e = c - 1
      BY <2>3, OccupiedFinite, FS_RemoveElement DEF c, e
    <2> QED BY <1>1, <2>1, <2>4 DEF CountInv, Size, Ahead, c, e
  <1>11. CASE CrashAndResume
    <2>1. /\ pc' = "idle" /\ crashes' = crashes + 1
          /\ UNCHANGED <<allocate_count_, deallocate_count_, allocates>>
          /\ Linked(bit_map_', free_node_', {n \in Nodes : ~Busy(n)})
      BY <1>11 DEF CrashAndResume, Restart, counts
    <2>2. \A n \in Nodes : Busy(n)' <=> Busy(n)
      BY <2>1 DEF Linked, NextFree, Busy, Nodes, BUSY_NODE_INDEX, TAIL_OF_LIST
    <2>3. e = c
      BY <1>2, <2>2
    <2> QED BY <1>1, <2>1, <2>3 DEF CountInv, Size, Ahead, c, e
  <1>12. CASE \/ \E o, p \in Owners : CopyID(o, p)
              \/ Destroy
              \/ \E r \in Ranges : ForeachBegin(r[1], r[2])
              \/ ForeachSkip \/ ForeachCall \/ ForeachReturn \/ ForeachEnd
              \/ UNCHANGED vars
    <2>1. UNCHANGED <<bit_map_, allocate_count_, deallocate_count_, crashes, allocates, pc>>
      BY <1>12 DEF CopyID, Destroy, ForeachBegin, ForeachSkip, ForeachCall, ForeachReturn, ForeachEnd,
                   vars, list, counts, bounds
    <2> QED BY <1>1, <1>3, <2>1 DEF CountInv, Size, Ahead, c, e
  <1> QED BY <1>4, <1>5, <1>6, <1>7, <1>8, <1>9, <1>10, <1>11, <1>12 DEF Next, AllocateStep

\* Until the first death the size of a pool is the number of its busy nodes,
\* however often the counts were rebased (obj_pool.h:302-308).
THEOREM SizesAreExact == Spec => [](crashes = 0 => SizeIsBusyNodes)
  <1>1. CountInv => (crashes = 0 => SizeIsBusyNodes)
    BY OccupiedFinite DEF CountInv, SizeIsBusyNodes, Occupied, Size, Ahead
  <1> QED BY <1>1, InitCount, NextCount, InitLeak, NextLeak, InitListInv, NextListInv, IInvHolds, PTL DEF Spec

\* As long as no allocation has made the counts be rebased, every death makes the
\* size too small by one at most, never too large.
THEOREM DeathsMakeSizesSmaller ==
    Spec => [](allocates < MAX_ALLOCATE_COUNT => SizeDriftBounded)
  <1>1. CountInv => (allocates < MAX_ALLOCATE_COUNT => SizeDriftBounded)
    <2> SUFFICES ASSUME CountInv, allocates < MAX_ALLOCATE_COUNT PROVE SizeDriftBounded
      OBVIOUS
    <2> DEFINE busy == Cardinality(Occupied)
    <2>1. busy \in Nat /\ busy = Cardinality({n \in Nodes : Busy(n)})
      BY OccupiedFinite DEF Occupied
    <2>2. pc # "rebase"
      BY PoolAssumption DEF CountInv
    <2>3. allocate_count_ \in Int /\ deallocate_count_ \in Nat /\ crashes \in Nat
      BY DEF CountInv
    <2>4. Size + Ahead <= busy /\ busy <= Size + Ahead + crashes
      BY <2>2 DEF CountInv
    <2> HIDE DEF busy
    <2>5. /\ allocate_count_ - deallocate_count_ <= busy
          /\ busy <= allocate_count_ - deallocate_count_ + crashes + (IF pc = "idle" THEN 0 ELSE 1)
      BY <2>1, <2>3, <2>4 DEF Size, Ahead
    <2> QED BY <2>1, <2>5 DEF SizeDriftBounded
  <1> QED BY <1>1, InitCount, NextCount, InitLeak, NextLeak, InitListInv, NextListInv, IInvHolds, PTL DEF Spec

-----------------------------------------------------------------------------
(* The free list comes to its end.  Along its links a rank grows, so the nodes  *)
(* of a walk differ; and each node of the list but the first has one before it, *)
(* so a walk leaves none out.                                                   *)

Grows(d) == \A n \in OnList : bit_map_[n] # TAIL_OF_LIST => d[n] < d[bit_map_[n] - 1]

HasOneBefore ==
    \A n \in OnList : free_node_ = n + 1 \/ \E p \in OnList : bit_map_[p] = n + 1

RankInv == HasOneBefore /\ \E d \in [Nodes -> Nat] : Grows(d)

LEMMA HasLeast ==
    ASSUME NEW S \in SUBSET Nat, S # {}
    PROVE  \E m \in S : \A k \in S : m <= k
  <1> DEFINE R == OpToRel(<, Nat)
  <1>1. IsWellFoundedOn(R, Nat)
    BY NatLessThanWellFounded, Zenon
  <1>2. PICK m \in S : \A k \in S : <<k, m>> \notin R
    <2> HIDE DEF R
    <2> QED BY <1>1, WFMin
  <1>3. \A k \in S : ~(k < m)
    BY <1>2 DEF OpToRel
  <1> QED BY <1>3

LEMMA HasGreatest ==
    ASSUME NEW S \in SUBSET Nodes, S # {}
    PROVE  \E m \in S : \A k \in S : k <= m
  <1> DEFINE T == {count - n : n \in S}
  <1>0. \A n \in S : n \in Int /\ count - n \in Nat
    BY PoolAssumption DEF Nodes
  <1>1. T \in SUBSET Nat /\ T # {}
    BY <1>0
  <1>2. PICK t \in T : \A k \in T : t <= k
    BY <1>1, HasLeast
  <1>3. PICK m \in S : t = count - m
    BY <1>2
  <1>4. \A k \in S : count - m <= count - k
    BY <1>2, <1>3
  <1> QED BY <1>4, PoolAssumption DEF Nodes

LEMMA InitRank == Init => RankInv
  <1> SUFFICES ASSUME Init PROVE RankInv
    OBVIOUS
  <1>1. /\ free_node_ = 1 /\ count \in Nat
        /\ \A n \in Nodes : bit_map_[n] = IF n = count - 1 THEN TAIL_OF_LIST ELSE n + 2
    BY PoolAssumption DEF Init
  <1>2. OnList = Nodes
    BY <1>1 DEF Init, OnList, Busy, BUSY_NODE_INDEX, TAIL_OF_LIST, Nodes
  <1>3. ASSUME NEW n \in Nodes, n # 0
        PROVE  n - 1 \in Nodes /\ bit_map_[n - 1] = n + 1
    BY <1>1, <1>3 DEF Nodes
  <1>4. HasOneBefore
    BY <1>1, <1>2, <1>3 DEF HasOneBefore, Nodes
  <1> DEFINE d == [n \in Nodes |-> n]
  <1>5. d \in [Nodes -> Nat]
    BY DEF Nodes
  <1>6. ASSUME NEW n \in Nodes, bit_map_[n] # TAIL_OF_LIST
        PROVE  d[n] < d[bit_map_[n] - 1]
    <2>1. bit_map_[n] - 1 = n + 1 /\ n + 1 \in Nodes
      BY <1>1, <1>6 DEF Nodes
    <2> QED BY <2>1 DEF Nodes
  <1>7. Grows(d)
    BY <1>2, <1>6 DEF Grows
  <1> QED BY <1>4, <1>5, <1>7 DEF RankInv

\* The rest of a list without its first node.
LEMMA TakeFreeNodeKeepsRank ==
    ASSUME ListInv, RankInv, TakeFreeNode
    PROVE  RankInv'
  <1> DEFINE h == free_node_ - 1
  <1>1. pc = "idle" /\ pc' = "mark" /\ cur' = h /\ bit_map_' = bit_map_ /\ free_node_' = bit_map_[h]
        /\ free_node_ # TAIL_OF_LIST
    BY DEF TakeFreeNode, MayCall
  <1>2. h \in OnList /\ h \in Nodes /\ free_node_ \in Int /\ free_node_ = h + 1
    BY <1>1, PoolAssumption DEF ListInv, Chain, OnList, PlaceTypes, Heads, TAIL_OF_LIST
  <1>3. OnList' = OnList \ {h}
    BY <1>1 DEF OnList, Busy
  <1>4. ASSUME NEW n \in OnList, n # h
        PROVE  bit_map_[h] = n + 1 \/ \E p \in OnList \ {h} : bit_map_[p] = n + 1
    <2>1. n \in Int /\ h \in Int
      BY <1>2 DEF OnList, Nodes
    <2>2. n + 1 # free_node_
      BY <1>2, <1>4, <2>1
    <2>3. PICK p \in OnList : bit_map_[p] = n + 1
      BY <2>2 DEF RankInv, HasOneBefore
    <2> QED BY <2>3
  <1> HIDE DEF h
  <1>5. HasOneBefore'
    BY <1>1, <1>3, <1>4 DEF HasOneBefore
  <1>6. PICK d \in [Nodes -> Nat] : Grows(d)
    BY DEF RankInv
  <1>7. Grows(d)'
    BY <1>1, <1>3, <1>6 DEF Grows
  <1> QED BY <1>5, <1>6, <1>7 DEF RankInv

LEMMA MarkBusyKeepsRank ==
    ASSUME ListInv, RankInv, MarkBusy
    PROVE  RankInv'
  <1>1. cur \in Nodes /\ pc = "mark" /\ pc' = "count" /\ free_node_' = free_node_
        /\ bit_map_' = [bit_map_ EXCEPT ![cur] = BUSY_NODE_INDEX]
    BY DEF MarkBusy, ListInv, PlaceTypes
  <1>2. \A n \in Nodes : bit_map_'[n] = IF n = cur THEN BUSY_NODE_INDEX ELSE bit_map_[n]
    BY <1>1 DEF ListInv, PlaceTypes, Maps
  <1>3. OnList' = OnList /\ \A n \in OnList : n \in Nodes /\ bit_map_'[n] = bit_map_[n]
    BY <1>1, <1>2 DEF OnList, Busy
  <1>4. PICK d \in [Nodes -> Nat] : Grows(d)
    BY DEF RankInv
  <1>5. Grows(d)'
    BY <1>3, <1>4 DEF Grows
  <1>6. HasOneBefore'
    BY <1>1, <1>3 DEF HasOneBefore, RankInv
  <1> QED BY <1>4, <1>5, <1>6 DEF RankInv

\* The node that is put first has the lowest rank.
LEMMA SetFreeNodeKeepsRank ==
    ASSUME ListInv, RankInv, SetFreeNode
    PROVE  RankInv'
  <1>1. cur \in Nodes /\ Busy(cur) /\ pc = "free" /\ pc' = "idle" /\ free_node_' = cur + 1
        /\ bit_map_' = [bit_map_ EXCEPT ![cur] = free_node_]
    BY DEF SetFreeNode, ListInv, PlaceTypes
  <1>2. \A n \in Nodes : bit_map_'[n] = IF n = cur THEN free_node_ ELSE bit_map_[n]
    BY <1>1 DEF ListInv, PlaceTypes, Maps
  <1>3. free_node_ # BUSY_NODE_INDEX
    BY DEF ListInv, PlaceTypes, Heads, TAIL_OF_LIST, BUSY_NODE_INDEX
  <1>4. OnList' = OnList \cup {cur} /\ cur \notin OnList /\ OnList \subseteq Nodes
    BY <1>1, <1>2, <1>3 DEF OnList, Busy
  <1>5. /\ bit_map_'[cur] = free_node_
        /\ \A n \in OnList : bit_map_'[n] = bit_map_[n]
    BY <1>1, <1>2, <1>4
  <1>6. /\ free_node_ = TAIL_OF_LIST \/ free_node_ - 1 \in OnList
        /\ \A n \in OnList : bit_map_[n] = TAIL_OF_LIST \/ bit_map_[n] - 1 \in OnList
    BY DEF ListInv, Chain
  <1>7. ASSUME NEW n \in OnList
        PROVE  \E p \in OnList' : bit_map_'[p] = n + 1
    <2>1. CASE free_node_ = n + 1
      BY <1>4, <1>5, <2>1
    <2>2. CASE \E p \in OnList : bit_map_[p] = n + 1
      BY <1>4, <1>5, <2>2
    <2> QED BY <2>1, <2>2 DEF RankInv, HasOneBefore
  <1>8. HasOneBefore'
    BY <1>1, <1>4, <1>7 DEF HasOneBefore
  <1>9. PICK d \in [Nodes -> Nat] : Grows(d)
    BY DEF RankInv
  <1> DEFINE e == [n \in Nodes |-> IF n = cur THEN 0 ELSE d[n] + 1]
  <1>10. e \in [Nodes -> Nat]
    BY <1>9
  <1>11. \A n \in OnList : e[n] = d[n] + 1 /\ d[n] \in Nat
    BY <1>4, <1>9
  <1>12. e[cur] = 0
    BY <1>1
  <1> HIDE DEF e
  <1>13. ASSUME NEW n \in OnList', bit_map_'[n] # TAIL_OF_LIST
         PROVE  e[n] < e[bit_map_'[n] - 1]
    <2>1. CASE n = cur
      <3>1. bit_map_'[n] - 1 \in OnList
        BY <1>5, <1>6, <1>13, <2>1
      <3> QED BY <3>1, <1>11, <1>12, <2>1
    <2>2. CASE n \in OnList
      <3>1. bit_map_'[n] = bit_map_[n] /\ bit_map_[n] - 1 \in OnList
        BY <1>5, <1>6, <1>13, <2>2
      <3>2. d[n] < d[bit_map_[n] - 1]
        BY <1>9, <1>13, <2>2, <3>1 DEF Grows
      <3> QED BY <3>1, <3>2, <1>11, <2>2
    <2> QED BY <1>4, <2>1, <2>2
  <1>14. PICK g \in [Nodes -> Nat] : g = e
    BY <1>10
  <1>15. Grows(g)'
    BY <1>13, <1>14 DEF Grows
  <1> QED BY <1>8, <1>15 DEF RankInv

LEMMA FirstIsLeast ==
    ASSUME NEW free \in SUBSET Nat, NEW n \in free, \A k \in free : ~(k < n),
           NEW h \in Int, NextFree(-1, h - 1, free)
    PROVE  h = n + 1
  <1>1. h - 1 \in free /\ n <= h - 1
    BY DEF NextFree
  <1>2. h - 1 <= n
    <2>1. n >= h - 1 \/ n <= -1
      BY DEF NextFree
    <2> QED BY <2>1
  <1> QED BY <1>1, <1>2

\* In a list that was rebuilt the nodes are in their order.
LEMMA ResumeMakesRank ==
    ASSUME CrashAndResume
    PROVE  RankInv'
  <1> DEFINE free == {n \in Nodes : ~Busy(n)}
  <1>1. bit_map_' \in Maps /\ free_node_' \in Heads /\ Linked(bit_map_', free_node_', free) /\ pc' = "idle"
    BY DEF CrashAndResume, Restart
  <1>2. free \subseteq Nodes /\ free \subseteq Nat
    BY DEF Nodes
  <1>3. ASSUME NEW n \in Nodes
        PROVE  /\ bit_map_'[n] \in Int
               /\ n \notin free => bit_map_'[n] = 0
               /\ n \in free => \/ bit_map_'[n] = -1 /\ \A k \in free : k <= n
                                \/ NextFree(n, bit_map_'[n] - 1, free)
    BY <1>1, PoolAssumption DEF Linked, Maps, TAIL_OF_LIST, BUSY_NODE_INDEX
  <1>4. \/ free_node_' = -1 /\ free = {}
        \/ free_node_' \in Int /\ NextFree(-1, free_node_' - 1, free)
    BY <1>1, PoolAssumption DEF Linked, Heads, TAIL_OF_LIST
  <1>5. \A n \in Nodes : n \in free <=> bit_map_'[n] # 0
    BY <1>3 DEF NextFree, Nodes
  <1>6. OnList' = free
    BY <1>1, <1>5 DEF OnList, Busy, BUSY_NODE_INDEX
  <1> HIDE DEF free
  <1>7. ASSUME NEW n \in free, \E k \in free : k < n
        PROVE  \E p \in free : bit_map_'[p] = n + 1
    <2> DEFINE S == {k \in free : k < n}
    <2>1. S \in SUBSET Nodes /\ S # {}
      BY <1>2, <1>7
    <2>2. PICK p \in S : \A k \in S : k <= p
      BY <2>1, HasGreatest
    <2>3. p \in free /\ p < n /\ \A k \in free : k < n => k <= p
      BY <2>2
    <2>4. NextFree(p, bit_map_'[p] - 1, free) /\ bit_map_'[p] \in Int
      BY <1>2, <1>3, <2>3
    <2>5. bit_map_'[p] - 1 = n
      BY <1>2, <2>3, <2>4 DEF NextFree
    <2> QED BY <1>2, <2>3, <2>4, <2>5
  <1>8. ASSUME NEW n \in free, \A k \in free : ~(k < n)
        PROVE  free_node_' = n + 1
    <2>1. free_node_' \in Int /\ NextFree(-1, free_node_' - 1, free)
      BY <1>4
    <2> QED BY <1>2, <1>8, <2>1, FirstIsLeast
  <1>9. HasOneBefore'
    BY <1>6, <1>7, <1>8 DEF HasOneBefore
  <1>10. PICK d \in [Nodes -> Nat] : \A n \in Nodes : d[n] = n
    <2>1. [n \in Nodes |-> n] \in [Nodes -> Nat]
      BY DEF Nodes
    <2> QED BY <2>1
  <1>11. ASSUME NEW n \in free, bit_map_'[n] # -1
         PROVE  d[n] < d[bit_map_'[n] - 1]
    <2>1. NextFree(n, bit_map_'[n] - 1, free)
      BY <1>2, <1>3, <1>11
    <2> QED BY <1>2, <1>10, <2>1 DEF NextFree
  <1>12. Grows(d)'
    BY <1>6, <1>11 DEF Grows, TAIL_OF_LIST
  <1> QED BY <1>9, <1>12 DEF RankInv

LEMMA NextRank == ListInv /\ RankInv /\ [Next]_vars => RankInv'
  <1> SUFFICES ASSUME ListInv, RankInv, [Next]_vars PROVE RankInv'
    OBVIOUS
  <1>1. ASSUME UNCHANGED <<bit_map_, free_node_>>, OnList' = OnList
        PROVE  RankInv'
    BY <1>1 DEF RankInv, HasOneBefore, Grows
  <1>2. CASE TakeFreeNode
    BY <1>2, TakeFreeNodeKeepsRank
  <1>3. CASE MarkBusy
    BY <1>3, MarkBusyKeepsRank
  <1>4. CASE CountAllocate \/ Rebase \/ NumberObject \/ (\E o \in Owners : NameObject(o))
             \/ (\E o \in Owners : Deallocate(o))
    <2>1. UNCHANGED <<bit_map_, free_node_>> /\ pc # "mark" /\ pc' # "mark"
      BY <1>4 DEF CountAllocate, Rebase, NumberObject, NameObject, Deallocate, MayCall, list
    <2>2. OnList' = OnList
      BY <2>1 DEF OnList, Busy
    <2> QED BY <1>1, <2>1, <2>2
  <1>5. CASE SetFreeNode
    BY <1>5, SetFreeNodeKeepsRank
  <1>6. CASE CrashAndResume
    BY <1>6, ResumeMakesRank
  <1>7. CASE \/ \E o, p \in Owners : CopyID(o, p)
             \/ Destroy
             \/ \E r \in Ranges : ForeachBegin(r[1], r[2])
             \/ ForeachSkip \/ ForeachCall \/ ForeachReturn \/ ForeachEnd
             \/ UNCHANGED vars
    <2>1. UNCHANGED <<bit_map_, free_node_, pc, cur>>
      BY <1>7 DEF CopyID, Destroy, ForeachBegin, ForeachSkip, ForeachCall, ForeachReturn, ForeachEnd, vars, list
    <2>2. OnList' = OnList
      BY <2>1 DEF OnList, Busy
    <2> QED BY <1>1, <2>1, <2>2
  <1> QED BY <1>2, <1>3, <1>4, <1>5, <1>6, <1>7 DEF Next, AllocateStep
\* A walk of j links along the list: FreeNode as far as j.
Step(m) == IF m <= 0 THEN m ELSE bit_map_[m - 1]

Walk(w, j) == w = [k \in 0 .. j |-> IF k = 0 THEN free_node_ ELSE Step(w[k - 1])]

\* The links from the head to the j-th node of the list.
LEMMA WalkLinks ==
    ASSUME NEW j \in Nat, NEW w, Walk(w, j)
    PROVE  w[0] = free_node_ /\ \A k \in 0 .. j : k # 0 => w[k] = Step(w[k - 1])
  <1>1. w = [k \in 0 .. j |-> IF k = 0 THEN free_node_ ELSE Step(w[k - 1])]
    BY DEF Walk
  <1>2. \A k \in 0 .. j : w[k] = IF k = 0 THEN free_node_ ELSE Step(w[k - 1])
    BY <1>1
  <1> QED BY <1>2

LEMMA WalkExists ==
    ASSUME NEW j \in Nat
    PROVE  \E w : Walk(w, j)
  <1> DEFINE S == {i \in Nat : ~ \E w : Walk(w, i)}
  <1>1. SUFFICES ASSUME S # {} PROVE FALSE
    OBVIOUS
  <1>2. PICK i \in S : \A k \in S : i <= k
    BY <1>1, HasLeast
  <1>3. i # 0
    <2>1. ASSUME i = 0 PROVE FALSE
      <3> DEFINE w == [k \in 0 .. 0 |-> free_node_]
      <3>1. w = [k \in 0 .. 0 |-> IF k = 0 THEN free_node_ ELSE Step(w[k - 1])]
        OBVIOUS
      <3>2. Walk(w, 0)
        BY <3>1 DEF Walk
      <3> QED BY <1>2, <2>1, <3>2
    <2> QED BY <2>1
  <1>4. i - 1 \in Nat /\ i \in Nat
    BY <1>3
  <1>5. \E w : Walk(w, i - 1)
    BY <1>2, <1>4
  <1>6. PICK w : Walk(w, i - 1)
    BY <1>5
  <1>7. w[0] = free_node_ /\ \A k \in 0 .. i - 1 : k # 0 => w[k] = Step(w[k - 1])
    BY <1>4, <1>6, WalkLinks
  <1> DEFINE v == [k \in 0 .. i |-> IF k = i THEN Step(w[i - 1]) ELSE w[k]]
  <1>8. \A k \in 0 .. i : v[k] = IF k = 0 THEN free_node_ ELSE Step(v[k - 1])
    BY <1>3, <1>4, <1>7
  <1>9. v = [k \in 0 .. i |-> v[k]]
    OBVIOUS
  <1> HIDE DEF v
  <1>10. Walk(v, i)
    BY <1>8, <1>9 DEF Walk
  <1> QED BY <1>2, <1>10

LEMMA FreeNodeWalks == Walk(FreeNode, count)
  <1>1. \E w : Walk(w, count)
    BY WalkExists, PoolAssumption
  <1>2. \E w : w = [k \in 0 .. count |->
                       IF k = 0 THEN free_node_
                       ELSE IF w[k - 1] <= 0 THEN w[k - 1] ELSE bit_map_[w[k - 1] - 1]]
    BY <1>1 DEF Walk, Step
  <1>3. FreeNode = [k \in 0 .. count |->
                       IF k = 0 THEN free_node_
                       ELSE IF FreeNode[k - 1] <= 0 THEN FreeNode[k - 1]
                       ELSE bit_map_[FreeNode[k - 1] - 1]]
    BY <1>2 DEF FreeNode
  <1> QED BY <1>3 DEF Walk, Step

LEMMA FreeNodeLinks ==
    /\ FreeNode[0] = free_node_
    /\ \A k \in 0 .. count : k # 0 => FreeNode[k] = Step(FreeNode[k - 1])
  BY FreeNodeWalks, WalkLinks, PoolAssumption

\* A link from a node of the list, and from its end.
LEMMA StepOnList ==
    ASSUME ListInv
    PROVE  /\ \A n \in OnList : n + 1 \in Nat \ {0} /\ Step(n + 1) = bit_map_[n]
           /\ Step(TAIL_OF_LIST) = TAIL_OF_LIST
           /\ \A n \in OnList : bit_map_[n] = TAIL_OF_LIST
                                \/ \E m \in OnList : bit_map_[n] = m + 1
           /\ free_node_ = TAIL_OF_LIST \/ \E m \in OnList : free_node_ = m + 1
  <1>1. OnList \subseteq Nodes /\ Nodes \subseteq Nat
    BY DEF OnList, Nodes
  <1>2. free_node_ \in Int /\ \A n \in Nodes : bit_map_[n] \in Int
    BY PoolAssumption DEF ListInv, PlaceTypes, Heads, Maps, TAIL_OF_LIST
  <1>3. \A n \in OnList : n + 1 \in Nat \ {0} /\ (n + 1) - 1 = n
    BY <1>1
  <1>4. \A n \in OnList : Step(n + 1) = bit_map_[n]
    BY <1>3 DEF Step
  <1>5. Step(TAIL_OF_LIST) = TAIL_OF_LIST
    BY DEF Step, TAIL_OF_LIST
  <1>6. ASSUME NEW n \in OnList
        PROVE  bit_map_[n] = TAIL_OF_LIST \/ \E m \in OnList : bit_map_[n] = m + 1
    <2>1. bit_map_[n] \in Int /\ (bit_map_[n] = TAIL_OF_LIST \/ bit_map_[n] - 1 \in OnList)
      BY <1>1, <1>2 DEF ListInv, Chain
    <2>2. bit_map_[n] = (bit_map_[n] - 1) + 1
      BY <2>1
    <2> QED BY <2>1, <2>2
  <1>7. free_node_ = TAIL_OF_LIST \/ \E m \in OnList : free_node_ = m + 1
    <2>1. free_node_ = TAIL_OF_LIST \/ free_node_ - 1 \in OnList
      BY DEF ListInv, Chain
    <2>2. free_node_ = (free_node_ - 1) + 1
      BY <1>2
    <2> QED BY <2>1, <2>2
  <1> QED BY <1>3, <1>4, <1>5, <1>6, <1>7

LEMMA FreeNodesAreOnList ==
    ASSUME ListInv
    PROVE  \A k \in 0 .. count :
              FreeNode[k] = TAIL_OF_LIST \/ \E n \in OnList : FreeNode[k] = n + 1
  <1> DEFINE On(k) == FreeNode[k] = TAIL_OF_LIST \/ \E n \in OnList : FreeNode[k] = n + 1
             S == {k \in 0 .. count : ~On(k)}
  <1>1. SUFFICES ASSUME S # {} PROVE FALSE
    OBVIOUS
  <1>2. PICK k \in S : \A i \in S : k <= i
    <2>1. S \in SUBSET Nat
      BY PoolAssumption
    <2> QED BY <1>1, <2>1, HasLeast
  <1>3. On(0)
    BY FreeNodeLinks, StepOnList
  <1>4. k # 0 /\ k \in 0 .. count /\ k - 1 \in 0 .. count /\ k - 1 < k /\ ~On(k)
    BY <1>2, <1>3, PoolAssumption
  <1>5. On(k - 1)
    BY <1>2, <1>4, PoolAssumption
  <1>6. FreeNode[k] = Step(FreeNode[k - 1])
    BY <1>4, FreeNodeLinks
  <1>7. CASE FreeNode[k - 1] = TAIL_OF_LIST
    BY <1>4, <1>6, <1>7, StepOnList
  <1>8. CASE \E n \in OnList : FreeNode[k - 1] = n + 1
    <2>1. PICK n \in OnList : FreeNode[k - 1] = n + 1
      BY <1>8
    <2>2. FreeNode[k] = bit_map_[n]
      BY <1>6, <2>1, StepOnList
    <2> QED BY <1>4, <2>2, StepOnList
  <1> QED BY <1>5, <1>7, <1>8

\* Later nodes of the walk have greater ranks.
LEMMA RanksGrow ==
    ASSUME ListInv, NEW d \in [Nodes -> Nat], Grows(d), NEW i \in 0 .. count
    PROVE  \A j \in 0 .. count : i < j /\ FreeNode[j] # TAIL_OF_LIST =>
              FreeNode[i] # TAIL_OF_LIST /\ d[FreeNode[i] - 1] < d[FreeNode[j] - 1]
  <1> DEFINE Less(j) == FreeNode[i] # TAIL_OF_LIST /\ d[FreeNode[i] - 1] < d[FreeNode[j] - 1]
             S == {j \in 0 .. count : i < j /\ FreeNode[j] # TAIL_OF_LIST /\ ~Less(j)}
  <1>1. SUFFICES ASSUME S # {} PROVE FALSE
    OBVIOUS
  <1>2. PICK j \in S : \A k \in S : j <= k
    <2>1. S \in SUBSET Nat
      BY PoolAssumption
    <2> QED BY <1>1, <2>1, HasLeast
  <1>3. /\ j \in 0 .. count /\ j # 0 /\ j - 1 \in 0 .. count /\ i <= j - 1 /\ j - 1 < j
        /\ FreeNode[j] # TAIL_OF_LIST /\ ~Less(j)
    BY <1>2, PoolAssumption
  <1>4. FreeNode[j] = Step(FreeNode[j - 1])
    BY <1>3, FreeNodeLinks
  <1>5. FreeNode[j - 1] # TAIL_OF_LIST
    BY <1>3, <1>4, StepOnList
  <1>6. PICK n \in OnList : FreeNode[j - 1] = n + 1
    BY <1>3, <1>5, FreeNodesAreOnList
  <1>7. n \in Nodes /\ n \in Int /\ FreeNode[j - 1] - 1 = n
    BY <1>6 DEF OnList, Nodes
  <1>8. FreeNode[j] = bit_map_[n]
    BY <1>4, <1>6, StepOnList
  <1>9. d[n] < d[FreeNode[j] - 1]
    BY <1>3, <1>8 DEF Grows
  <1>10. PICK m \in OnList : FreeNode[j] = m + 1
    BY <1>3, FreeNodesAreOnList
  <1>11. m \in Nodes /\ FreeNode[j] - 1 = m
    BY <1>10 DEF OnList, Nodes
  <1>12. CASE i = j - 1
    BY <1>3, <1>5, <1>7, <1>9, <1>12
  <1>13. CASE i < j - 1
    <2>1. Less(j - 1)
      BY <1>2, <1>3, <1>5, <1>13, PoolAssumption
    <2>2. PICK l \in OnList : FreeNode[i] = l + 1
      BY <2>1, FreeNodesAreOnList
    <2>3. l \in Nodes /\ FreeNode[i] - 1 = l
      BY <2>2 DEF OnList, Nodes
    <2>4. d[l] < d[n] /\ d[n] < d[m] /\ d[l] \in Nat /\ d[n] \in Nat /\ d[m] \in Nat
      BY <2>1, <2>3, <1>7, <1>9, <1>11
    <2> QED BY <1>3, <1>11, <2>1, <2>3, <2>4
  <1> QED BY <1>3, <1>12, <1>13, PoolAssumption

LEMMA ListComesToItsEnd ==
    ASSUME ListInv, RankInv
    PROVE  FreeNode[count] = TAIL_OF_LIST
  <1>1. PICK d \in [Nodes -> Nat] : Grows(d)
    BY DEF RankInv
  <1>2. SUFFICES ASSUME FreeNode[count] # TAIL_OF_LIST PROVE FALSE
    OBVIOUS
  <1>3. ASSUME NEW i \in 0 .. count
        PROVE  FreeNode[i] # TAIL_OF_LIST
    <2>1. i = count \/ i < count
      BY PoolAssumption
    <2> QED BY <1>1, <1>2, <2>1, RanksGrow, PoolAssumption
  <1>4. ASSUME NEW i \in 0 .. count
        PROVE  FreeNode[i] - 1 \in Nodes
    <2>1. PICK n \in OnList : FreeNode[i] = n + 1
      BY <1>3, FreeNodesAreOnList
    <2> QED BY <2>1 DEF OnList, Nodes
  <1> DEFINE f == [i \in 0 .. count |-> FreeNode[i] - 1]
  <1>5. f \in [0 .. count -> Nodes]
    BY <1>4
  <1>6. ASSUME NEW i \in 0 .. count, NEW j \in 0 .. count, i < j
        PROVE  f[i] # f[j]
    <2>1. d[FreeNode[i] - 1] < d[FreeNode[j] - 1]
      BY <1>1, <1>3, <1>6, RanksGrow
    <2>2. d[FreeNode[i] - 1] \in Nat /\ d[FreeNode[j] - 1] \in Nat
      BY <1>1, <1>4
    <2> QED BY <2>1, <2>2
  <1> HIDE DEF f
  <1>7. \A i, j \in 0 .. count : f[i] = f[j] => i = j
    <2> SUFFICES ASSUME NEW i \in 0 .. count, NEW j \in 0 .. count, i # j
                 PROVE  f[i] # f[j]
      OBVIOUS
    <2>1. i < j \/ j < i
      BY PoolAssumption
    <2> QED BY <1>6, <2>1
  <1>8. f \in Injection(0 .. count, Nodes)
    BY <1>5, <1>7 DEF Injection, IsInjective
  <1>9. IsFiniteSet(Nodes) /\ Cardinality(Nodes) = count /\ Cardinality(0 .. count) = count + 1
    BY FS_Interval, PoolAssumption DEF Nodes
  <1>10. Cardinality(0 .. count) <= Cardinality(Nodes)
    BY <1>8, <1>9, FS_Injection
  <1> QED BY <1>9, <1>10, PoolAssumption

LEMMA ListHoldsAll ==
    ASSUME ListInv, RankInv
    PROVE  \A n \in OnList : \E k \in 0 .. count : FreeNode[k] = n + 1
  <1>1. PICK d \in [Nodes -> Nat] : Grows(d)
    BY DEF RankInv
  <1> DEFINE Reached(n) == \E k \in 0 .. count : FreeNode[k] = n + 1
             S == {d[n] : n \in {m \in OnList : ~Reached(m)}}
  <1>2. OnList \subseteq Nodes /\ Nodes \subseteq Int
    BY DEF OnList, Nodes
  <1>3. SUFFICES ASSUME NEW x \in OnList, ~Reached(x) PROVE FALSE
    OBVIOUS
  <1>4. S \in SUBSET Nat /\ S # {}
    BY <1>1, <1>2, <1>3
  <1>5. PICK r \in S : \A s \in S : r <= s
    BY <1>4, HasLeast
  <1>6. PICK n \in OnList : ~Reached(n) /\ r = d[n]
    BY <1>5
  <1>7. free_node_ # n + 1
    BY <1>6, FreeNodeLinks, PoolAssumption
  <1>8. PICK p \in OnList : bit_map_[p] = n + 1
    BY <1>7 DEF RankInv, HasOneBefore
  <1>9. n + 1 # TAIL_OF_LIST /\ (n + 1) - 1 = n
    BY <1>2 DEF TAIL_OF_LIST, OnList, Nodes
  <1>10. d[p] < d[n]
    BY <1>1, <1>8, <1>9 DEF Grows
  <1>11. d[p] \in Nat /\ d[n] \in Nat
    BY <1>1, <1>2
  <1>12. Reached(p)
    <2>1. ASSUME ~Reached(p) PROVE FALSE
      <3>1. d[p] \in S
        BY <2>1
      <3> QED BY <1>5, <1>6, <1>10, <1>11, <3>1
    <2> QED BY <2>1
  <1>13. PICK k \in 0 .. count : FreeNode[k] = p + 1
    BY <1>12
  <1>14. p + 1 # TAIL_OF_LIST
    BY <1>2 DEF TAIL_OF_LIST, OnList, Nodes
  <1>15. k # count
    BY <1>13, <1>14, ListComesToItsEnd
  <1>16. k + 1 \in 0 .. count /\ k + 1 # 0 /\ (k + 1) - 1 = k
    BY <1>15, PoolAssumption
  <1>17. FreeNode[k + 1] = Step(FreeNode[k])
    BY <1>16, FreeNodeLinks
  <1>18. FreeNode[k + 1] = n + 1
    BY <1>8, <1>13, <1>17, StepOnList
  <1> QED BY <1>6, <1>16, <1>18

\* Whoever allocates, deallocates and dies: the free list comes to its end and runs
\* through every node that is not busy; no node is lost but those a death costs.
THEOREM FreeListIsSound == Spec => []FreeListSound
  <1>1. ListInv /\ RankInv => FreeListSound
    <2> SUFFICES ASSUME ListInv, RankInv PROVE FreeListSound
      OBVIOUS
    <2> DEFINE J == {j \in 0 .. count : FreeNode[j] # TAIL_OF_LIST}
    <2>1. FreeNode[count] = TAIL_OF_LIST
      BY ListComesToItsEnd
    <2>2. ASSUME NEW k \in J
          PROVE  FreeNode[k] - 1 \in OnList
      <3>1. PICK n \in OnList : FreeNode[k] = n + 1
        BY FreeNodesAreOnList
      <3> QED BY <3>1 DEF OnList, Nodes
    <2>3. ASSUME NEW n \in OnList
          PROVE  \E k \in J : FreeNode[k] - 1 = n
      <3>1. PICK k \in 0 .. count : FreeNode[k] = n + 1
        BY ListHoldsAll
      <3>2. n + 1 # TAIL_OF_LIST /\ (n + 1) - 1 = n
        BY DEF TAIL_OF_LIST, OnList, Nodes
      <3> QED BY <3>1, <3>2
    <2>4. {FreeNode[k] - 1 : k \in J} = OnList
      BY <2>2, <2>3
    <2> QED BY <2>1, <2>4 DEF FreeListSound, OnList
  <1> QED BY <1>1, InitRank, NextRank, InitListInv, NextListInv, IInvHolds, PTL DEF Spec
=============================================================================
