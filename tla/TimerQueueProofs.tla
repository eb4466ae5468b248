-------------------------- MODULE TimerQueueProofs --------------------------
(***************************************************************************)
(* TimerQueue, for every number of nodes and buckets, every set of calls   *)
(* and any number of deaths: its lists and the cursor of the walk, its     *)
(* ids, and that it keeps the promise of TimerService.                     *)
(***************************************************************************)
EXTENDS TimerQueue, SequenceTheorems, FiniteSetTheorems, TLAPS

-----------------------------------------------------------------------------
(* Lists: who is on them after a call. *)

\* list is s and the node e that was not on it.
LEMMA AppendMembers ==
    ASSUME NEW S, NEW s \in Seq(S), NEW e \in S, IsInjective(s), ~Contains(s, e)
    PROVE  /\ Append(s, e) \in Seq(S) /\ IsInjective(Append(s, e))
           /\ \A x : Contains(Append(s, e), x) <=> Contains(s, x) \/ x = e
  <1> DEFINE t == Append(s, e)
  <1>1. /\ t \in Seq(S) /\ Len(t) = Len(s) + 1 /\ Len(s) \in Nat
        /\ \A i \in 1 .. Len(s) : t[i] = s[i]
        /\ t[Len(s) + 1] = e
    BY AppendProperties
  <1>2. DOMAIN s = 1 .. Len(s) /\ DOMAIN t = 1 .. Len(s) + 1
    BY <1>1
  <1> HIDE DEF t
  <1>3. \A i \in 1 .. Len(s) + 1 : i \in 1 .. Len(s) \/ i = Len(s) + 1
    BY <1>1
  <1>4. IsInjective(t)
    BY <1>1, <1>2, <1>3 DEF IsInjective, Contains
  <1>5. ASSUME NEW x PROVE Contains(t, x) <=> Contains(s, x) \/ x = e
    <2>1. Contains(s, x) => Contains(t, x)
      BY <1>1 DEF Contains
    <2>2. Contains(t, e)
      BY <1>1 DEF Contains
    <2>3. Contains(t, x) => Contains(s, x) \/ x = e
      BY <1>1, <1>3 DEF Contains
    <2> QED BY <2>1, <2>2, <2>3
  <1> QED BY <1>1, <1>4, <1>5 DEF t

LEMMA PushMembers ==
    ASSUME NEW S, NEW s \in Seq(S), NEW e \in S, IsInjective(s), ~Contains(s, e)
    PROVE  /\ <<e>> \o s \in Seq(S) /\ IsInjective(<<e>> \o s)
           /\ \A x : Contains(<<e>> \o s, x) <=> Contains(s, x) \/ x = e
  <1> DEFINE t == <<e>> \o s
  <1>1. /\ t \in Seq(S) /\ Len(t) = Len(s) + 1 /\ Len(s) \in Nat /\ t[1] = e
        /\ \A i \in 2 .. Len(s) + 1 : t[i] = s[i - 1]
    <2>1. <<e>> \in Seq(S) /\ Len(<<e>>) = 1 /\ <<e>>[1] = e
      OBVIOUS
    <2>2. /\ t \in Seq(S) /\ Len(t) = Len(<<e>>) + Len(s)
          /\ \A i \in 1 .. Len(<<e>>) + Len(s) :
                t[i] = IF i <= Len(<<e>>) THEN <<e>>[i] ELSE s[i - Len(<<e>>)]
      BY <2>1, ConcatProperties
    <2> QED BY <2>1, <2>2
  <1>2. DOMAIN s = 1 .. Len(s) /\ DOMAIN t = 1 .. Len(s) + 1
    BY <1>1
  <1> HIDE DEF t
  <1>3. \A i \in 1 .. Len(s) + 1 : i = 1 \/ (i \in 2 .. Len(s) + 1 /\ i - 1 \in 1 .. Len(s))
    BY <1>1
  <1>4. IsInjective(t)
    <2> SUFFICES ASSUME NEW i \in 1 .. Len(s) + 1, NEW j \in 1 .. Len(s) + 1, t[i] = t[j]
                 PROVE  i = j
      BY <1>2 DEF IsInjective
    <2>1. \A k \in 2 .. Len(s) + 1 : k - 1 \in 1 .. Len(s) /\ t[k] # e
      BY <1>1 DEF Contains
    <2>2. CASE i = 1 \/ j = 1
      BY <1>1, <1>3, <2>1, <2>2
    <2>3. CASE i # 1 /\ j # 1
      <3>1. s[i - 1] = s[j - 1] /\ i - 1 \in 1 .. Len(s) /\ j - 1 \in 1 .. Len(s)
        BY <1>1, <1>3, <2>3
      <3>2. i - 1 = j - 1
        BY <1>2, <3>1 DEF IsInjective
      <3> QED BY <3>2
    <2> QED BY <2>2, <2>3
  <1>5. ASSUME NEW x PROVE Contains(t, x) <=> Contains(s, x) \/ x = e
    <2>1. ASSUME NEW i \in 1 .. Len(s), s[i] = x PROVE Contains(t, x)
      <3>1. i + 1 \in 2 .. Len(s) + 1 /\ i + 1 \in 1 .. Len(t) /\ (i + 1) - 1 = i
        BY <1>1
      <3>2. t[i + 1] = x
        BY <1>1, <2>1, <3>1
      <3> QED BY <3>1, <3>2 DEF Contains
    <2>2. Contains(t, e)
      BY <1>1 DEF Contains
    <2>3. Contains(t, x) => Contains(s, x) \/ x = e
      BY <1>1, <1>3 DEF Contains
    <2> QED BY <2>1, <2>2, <2>3 DEF Contains
  <1> QED BY <1>1, <1>4, <1>5 DEF t

LEMMA TailMembers ==
    ASSUME NEW S, NEW s \in Seq(S), s # << >>, IsInjective(s)
    PROVE  /\ Tail(s) \in Seq(S) /\ IsInjective(Tail(s)) /\ Head(s) \in S
           /\ \A x : Contains(Tail(s), x) <=> Contains(s, x) /\ x # Head(s)
           /\ Contains(s, Head(s))
  <1> DEFINE t == Tail(s)
             n == Len(s)
  <1>1. /\ n \in Nat /\ n > 0 /\ Head(s) = s[1] /\ Head(s) \in S
        /\ t \in Seq(S) /\ Len(t) = n - 1
        /\ \A i \in 1 .. n - 1 : t[i] = s[i + 1]
    <2>1. n \in Nat /\ n > 0 /\ Head(s) = s[1]
      OBVIOUS
    <2>2. /\ Head(s) \in S /\ t \in Seq(S) /\ Len(t) = n - 1
          /\ \A i \in 1 .. Len(t) : t[i] = s[i + 1]
      BY HeadTailProperties
    <2> HIDE DEF t, n
    <2> QED BY <2>1, <2>2
  <1>2. DOMAIN s = 1 .. n /\ DOMAIN t = 1 .. n - 1
    BY <1>1
  <1> HIDE DEF t, n
  <1>3. \A i \in 1 .. n - 1 : i + 1 \in 1 .. n /\ i + 1 # 1
    BY <1>1
  <1>4. IsInjective(t)
    <2> SUFFICES ASSUME NEW i \in 1 .. n - 1, NEW j \in 1 .. n - 1, t[i] = t[j] PROVE i = j
      BY <1>2 DEF IsInjective
    <2>1. s[i + 1] = s[j + 1] /\ i + 1 \in 1 .. n /\ j + 1 \in 1 .. n
      BY <1>1, <1>3
    <2>2. i + 1 = j + 1
      BY <1>2, <2>1 DEF IsInjective
    <2> QED BY <2>2
  <1>5. ASSUME NEW x PROVE Contains(t, x) <=> Contains(s, x) /\ x # s[1]
    <2>1. ASSUME NEW i \in 1 .. n, s[i] = x, x # s[1] PROVE Contains(t, x)
      <3>1. i - 1 \in 1 .. n - 1 /\ (i - 1) + 1 = i
        BY <1>1, <2>1
      <3> QED BY <1>1, <2>1, <3>1 DEF Contains
    <2>2. ASSUME NEW i \in 1 .. n - 1, t[i] = x PROVE Contains(s, x) /\ x # s[1]
      <3>1. i + 1 \in 1 .. n /\ s[i + 1] = x /\ i + 1 # 1 /\ 1 \in 1 .. n
        BY <1>1, <1>3, <2>2
      <3> QED BY <1>2, <3>1 DEF Contains, IsInjective, n
    <2> QED BY <1>1, <2>1, <2>2 DEF Contains, n
  <1>6. Contains(s, s[1])
    BY <1>1 DEF Contains, n
  <1> QED BY <1>1, <1>4, <1>5, <1>6 DEF t

LEMMA PositionOf ==
    ASSUME NEW S, NEW s \in Seq(S), NEW e, Contains(s, e)
    PROVE  Position(s, e) \in 1 .. Len(s) /\ s[Position(s, e)] = e
  BY DEF Contains, Position

\* The nodes behind the one that is erased move up by one place.
LEMMA EraseAt ==
    ASSUME NEW S, NEW s \in Seq(S), NEW e, Contains(s, e)
    PROVE  /\ Erase(s, e) \in Seq(S) /\ Len(Erase(s, e)) = Len(s) - 1
           /\ \A i \in 1 .. Len(s) - 1 :
                 Erase(s, e)[i] = IF i < Position(s, e) THEN s[i] ELSE s[i + 1]
  <1> DEFINE p == Position(s, e)
             n == Len(s)
             t == Erase(s, e)
             before == SubSeq(s, 1, p - 1)
             behind == SubSeq(s, p + 1, n)
  <1>1. n \in Nat /\ p \in 1 .. n /\ s[p] = e /\ DOMAIN s = 1 .. n
    BY PositionOf
  <1> HIDE DEF p, n
  <1>2. /\ before \in Seq(S) /\ Len(before) = p - 1
        /\ \A i \in 1 .. p - 1 : before[i] = s[i]
    <2>1. p - 1 \in Int /\ \A i \in 1 .. p - 1 : s[i] \in S
      BY <1>1 DEF n
    <2>2. /\ before \in Seq(S) /\ Len(before) = IF 1 <= p - 1 THEN p - 1 - 1 + 1 ELSE 0
          /\ \A i \in 1 .. p - 1 - 1 + 1 : before[i] = s[1 + i - 1]
      BY <2>1, SubSeqProperties
    <2>3. \A i \in 1 .. p - 1 : i \in 1 .. p - 1 - 1 + 1 /\ 1 + i - 1 = i
      BY <1>1
    <2> HIDE DEF before
    <2> QED BY <1>1, <2>2, <2>3
  <1>3. /\ behind \in Seq(S) /\ Len(behind) = n - p
        /\ \A i \in 1 .. n - p : behind[i] = s[p + i]
    <2>1. p + 1 \in Int /\ n \in Int /\ \A i \in p + 1 .. n : s[i] \in S
      BY <1>1 DEF n
    <2>2. /\ behind \in Seq(S) /\ Len(behind) = IF p + 1 <= n THEN n - (p + 1) + 1 ELSE 0
          /\ \A i \in 1 .. n - (p + 1) + 1 : behind[i] = s[(p + 1) + i - 1]
      BY <2>1, SubSeqProperties
    <2>3. \A i \in 1 .. n - p : i \in 1 .. n - (p + 1) + 1 /\ (p + 1) + i - 1 = p + i
      BY <1>1
    <2> HIDE DEF behind
    <2> QED BY <1>1, <2>2, <2>3
  <1>4. t = before \o behind
    BY DEF Erase, RemoveAt, p, n
  <1> HIDE DEF before, behind, t
  <1>5. /\ t \in Seq(S) /\ Len(t) = n - 1
        /\ \A i \in 1 .. n - 1 : t[i] = IF i < p THEN s[i] ELSE s[i + 1]
    <2>1. /\ t \in Seq(S) /\ Len(t) = Len(before) + Len(behind)
          /\ \A i \in 1 .. Len(before) + Len(behind) :
                t[i] = IF i <= Len(before) THEN before[i] ELSE behind[i - Len(before)]
      BY <1>2, <1>3, <1>4, ConcatProperties
    <2>2. Len(before) + Len(behind) = n - 1
      BY <1>1, <1>2, <1>3
    <2>3. ASSUME NEW i \in 1 .. n - 1 PROVE t[i] = IF i < p THEN s[i] ELSE s[i + 1]
      <3>1. CASE i < p
        <4>1. i \in 1 .. p - 1 /\ i <= Len(before)
          BY <1>1, <1>2, <3>1
        <4> QED BY <1>2, <2>1, <2>2, <3>1, <4>1
      <3>2. CASE ~(i < p)
        <4>1. ~(i <= Len(before)) /\ i - Len(before) \in 1 .. n - p /\ p + (i - Len(before)) = i + 1
          BY <1>1, <1>2, <3>2
        <4>2. behind[i - Len(before)] = s[i + 1]
          BY <1>3, <4>1
        <4> QED BY <2>1, <2>2, <3>2, <4>1, <4>2
      <3> QED BY <3>1, <3>2
    <2> QED BY <2>1, <2>2, <2>3
  <1> QED BY <1>5 DEF p, n, t

LEMMA EraseMembers ==
    ASSUME NEW S, NEW s \in Seq(S), NEW e, Contains(s, e), IsInjective(s)
    PROVE  /\ Erase(s, e) \in Seq(S) /\ IsInjective(Erase(s, e))
           /\ \A x : Contains(Erase(s, e), x) <=> Contains(s, x) /\ x # e
  <1> DEFINE p == Position(s, e)
             n == Len(s)
             t == Erase(s, e)
  <1>1. n \in Nat /\ p \in 1 .. n /\ s[p] = e /\ DOMAIN s = 1 .. n
    BY PositionOf
  <1>2. /\ t \in Seq(S) /\ Len(t) = n - 1
        /\ \A i \in 1 .. n - 1 : t[i] = IF i < p THEN s[i] ELSE s[i + 1]
    BY EraseAt
  <1> HIDE DEF p, n, t
  <1> DEFINE q(i) == IF i < p THEN i ELSE i + 1
  <1>6. \A i \in 1 .. n - 1 : q(i) \in 1 .. n /\ q(i) # p /\ t[i] = s[q(i)]
    BY <1>1, <1>2
  <1>7. \A i, j \in 1 .. n - 1 : q(i) = q(j) => i = j
    BY <1>1
  <1>8. ASSUME NEW k \in 1 .. n, k # p PROVE \E i \in 1 .. n - 1 : q(i) = k
    <2>1. CASE k < p
      BY <1>1, <2>1
    <2>2. CASE ~(k < p)
      <3>1. k - 1 \in 1 .. n - 1 /\ q(k - 1) = k
        BY <1>1, <1>8, <2>2
      <3> QED BY <3>1
    <2> QED BY <2>1, <2>2
  <1> HIDE DEF q
  <1>9. IsInjective(t)
    <2>1. DOMAIN t = 1 .. n - 1
      BY <1>1, <1>2
    <2> QED BY <1>1, <1>6, <1>7, <2>1 DEF IsInjective
  <1>10. ASSUME NEW x PROVE Contains(t, x) <=> Contains(s, x) /\ x # e
    <2>1. ASSUME NEW i \in 1 .. n - 1, t[i] = x PROVE Contains(s, x) /\ x # e
      <3>1. q(i) \in 1 .. n /\ q(i) # p /\ s[q(i)] = x
        BY <1>6, <2>1
      <3>2. x # e
        BY <1>1, <3>1 DEF IsInjective
      <3> QED BY <3>1, <3>2 DEF Contains, n
    <2>2. ASSUME NEW k \in 1 .. n, s[k] = x, x # e PROVE Contains(t, x)
      <3>1. PICK i \in 1 .. n - 1 : q(i) = k
        BY <1>1, <1>8, <2>2
      <3>2. t[i] = x /\ i \in 1 .. Len(t)
        BY <1>2, <1>6, <2>2, <3>1
      <3> QED BY <3>2 DEF Contains
    <2> QED BY <1>2, <2>1, <2>2 DEF Contains, n
  <1> QED BY <1>2, <1>9, <1>10 DEF t

\* The cursor goes on to another node of the list or to its end.
LEMMA NextMember ==
    ASSUME NEW S, NEW s \in Seq(S), NEW e, Contains(s, e), IsInjective(s)
    PROVE  NextOf(s, e) = END \/ (Contains(s, NextOf(s, e)) /\ NextOf(s, e) # e /\ NextOf(s, e) \in S)
  <1>1. Position(s, e) \in 1 .. Len(s) /\ s[Position(s, e)] = e /\ DOMAIN s = 1 .. Len(s)
    BY PositionOf
  <1>2. CASE Position(s, e) # Len(s)
    <2>1. Position(s, e) + 1 \in 1 .. Len(s) /\ NextOf(s, e) = s[Position(s, e) + 1]
      BY <1>1, <1>2 DEF NextOf
    <2>2. Position(s, e) + 1 # Position(s, e)
      BY <1>1
    <2>3. s[Position(s, e) + 1] # e /\ s[Position(s, e) + 1] \in S
      BY <1>1, <2>1, <2>2 DEF IsInjective
    <2>4. Contains(s, s[Position(s, e) + 1])
      BY <2>1 DEF Contains
    <2> QED BY <2>1, <2>3, <2>4
  <1> QED BY <1>2 DEF NextOf

-----------------------------------------------------------------------------
(* The strengthening. *)

NodeRecord == [expire : Nat, period : Nat, repeatCount : Nat, type : Nat, seq : Nat]
Id == [type : Nat, pos : Nodes, seq : Nat]

TypeInv ==
    /\ node \in [Nodes -> NodeRecord]
    /\ bucket \in [Buckets -> Seq(Nodes)]
    /\ freeList \in Seq(Nodes)
    /\ tickIterator \in Nodes \cup {END}
    /\ currentTick \in Nat /\ s_currentTick \in Nat
    /\ pc \in {"idle", "tick", "walk", "task"}
    /\ pc = "task" => running \in Nodes
    /\ handle \in [Handles -> Id \cup {INVALID_TIMER_ID}]
    /\ crashes \in Nat

\* A node is on one list at most, once, and in the bucket of its tick.
ListsInv ==
    /\ \A b \in Buckets : IsInjective(bucket[b])
    /\ IsInjective(freeList)
    /\ \A n \in Nodes, b \in Buckets :
          Contains(bucket[b], n) => b = BucketOf(n) /\ ~Contains(freeList, n)

Orphans == {n \in Nodes : Orphan(n)}

OrphansInv ==
    /\ Cardinality(Orphans) <= crashes + (IF pc = "task" THEN 1 ELSE 0)
    /\ pc = "task" => running \in Orphans

IInv == TypeInv /\ ListsInv /\ OrphansInv /\ CursorInBucket

LEMMA HashInBuckets == ASSUME NEW t \in Nat PROVE HashTick(t) \in Buckets
  BY TimerAssumption DEF HashTick, Buckets

LEMMA Uint32IsNat == ASSUME NEW i \in Int PROVE Uint32(i) \in Nat
  BY TimerAssumption DEF Uint32

LEMMA EndIsNoNode == END \notin Nodes
  BY DEF END, Nodes

LEMMA OrphansFinite == IsFiniteSet(Orphans) /\ Cardinality(Orphans) \in Nat
  <1>1. IsFiniteSet(Nodes)
    BY TimerAssumption, FS_Interval DEF Nodes
  <1>2. Orphans \in SUBSET Nodes
    BY DEF Orphans
  <1>3. IsFiniteSet(Orphans)
    BY <1>1, <1>2, FS_Subset
  <1> QED BY <1>3, FS_CardinalityType

\* Which bucket a queued node is in.
LEMMA BucketOfNode ==
    ASSUME TypeInv, ListsInv, NEW n \in Nodes
    PROVE  /\ BucketOf(n) \in Buckets
           /\ Queued(n) <=> \E b \in Buckets : Contains(bucket[b], n)
           /\ Queued(n) => ~Free(n)
  <1>1. BucketOf(n) \in Buckets
    BY HashInBuckets DEF TypeInv, NodeRecord, BucketOf
  <1> QED BY <1>1 DEF ListsInv, Queued, Free

\* A call that leaves the lists and the ticks of the nodes alone.
LEMMA ListsKept ==
    ASSUME TypeInv, ListsInv, UNCHANGED <<bucket, freeList>>,
           \A m \in Nodes : node'[m].expire = node[m].expire
    PROVE  ListsInv' /\ Orphans' = Orphans
  <1>1. \A m \in Nodes : BucketOf(m)' = BucketOf(m)
    BY DEF BucketOf
  <1> QED BY <1>1 DEF ListsInv, Orphans, Orphan, Queued, Free

\* A node that is in no bucket enters one.
LEMMA Enters ==
    ASSUME TypeInv, ListsInv, NEW n \in Nodes, NEW e \in Nat,
           \A b \in Buckets : ~Contains(bucket[b], n),
           node'[n].expire = e,
           \A m \in Nodes \ {n} : node'[m].expire = node[m].expire,
           bucket' = [bucket EXCEPT ![HashTick(e)] = Append(@, n)],
           IsInjective(freeList'), ~Contains(freeList', n),
           \A m \in Nodes \ {n} : Contains(freeList', m) <=> Contains(freeList, m)
    PROVE  /\ bucket' \in [Buckets -> Seq(Nodes)] /\ ListsInv'
           /\ Orphans' = Orphans \ {n}
           /\ \A b \in Buckets, m \in Nodes : Contains(bucket[b], m) => Contains(bucket'[b], m)
  <1> DEFINE c == HashTick(e)
  <1>1. c \in Buckets
    BY HashInBuckets
  <1>2. /\ bucket[c] \in Seq(Nodes) /\ IsInjective(bucket[c])
        /\ bucket \in [Buckets -> Seq(Nodes)]
        /\ \A b \in Buckets : bucket'[b] = IF b = c THEN Append(bucket[c], n) ELSE bucket[b]
    BY <1>1 DEF TypeInv, ListsInv
  <1>3. /\ Append(bucket[c], n) \in Seq(Nodes) /\ IsInjective(Append(bucket[c], n))
        /\ \A x : Contains(Append(bucket[c], n), x) <=> Contains(bucket[c], x) \/ x = n
    BY <1>1, <1>2, AppendMembers
  <1>4. \A b \in Buckets, m \in Nodes :
            Contains(bucket'[b], m) <=> Contains(bucket[b], m) \/ (m = n /\ b = c)
    BY <1>2, <1>3
  <1>5. bucket' \in [Buckets -> Seq(Nodes)]
    BY <1>1, <1>2, <1>3
  <1>6. BucketOf(n)' = c /\ \A m \in Nodes \ {n} : BucketOf(m)' = BucketOf(m)
    BY DEF BucketOf
  <1> HIDE DEF c
  <1>7. ListsInv'
    <2>1. \A b \in Buckets : IsInjective(bucket'[b])
      BY <1>2, <1>3 DEF ListsInv
    <2>2. ASSUME NEW m \in Nodes, NEW b \in Buckets, Contains(bucket'[b], m)
          PROVE  b = BucketOf(m)' /\ ~Contains(freeList', m)
      BY <1>4, <1>6, <2>2 DEF ListsInv
    <2> QED BY <2>1, <2>2 DEF ListsInv
  <1>8. \A m \in Nodes : Orphan(m)' <=> Orphan(m) /\ m # n
    <2>1. ~Orphan(n)'
      BY <1>1, <1>4, <1>6 DEF Orphan, Queued
    <2>2. ASSUME NEW m \in Nodes \ {n} PROVE Orphan(m)' <=> Orphan(m)
      <3>1. BucketOf(m)' = BucketOf(m) /\ BucketOf(m) \in Buckets
        BY <1>6, BucketOfNode
      <3> QED BY <1>4, <3>1 DEF Orphan, Queued, Free
    <2> QED BY <2>1, <2>2
  <1> QED BY <1>4, <1>5, <1>7, <1>8 DEF Orphans

\* A queued node leaves its bucket.
LEMMA Leaves ==
    ASSUME TypeInv, ListsInv, NEW n \in Nodes, NEW c \in Buckets, Contains(bucket[c], n),
           \A m \in Nodes : node'[m].expire = node[m].expire,
           bucket' = [bucket EXCEPT ![c] = Erase(@, n)],
           freeList' \in {freeList, <<n>> \o freeList}
    PROVE  /\ bucket' \in [Buckets -> Seq(Nodes)] /\ freeList' \in Seq(Nodes) /\ ListsInv'
           /\ freeList' = freeList => Orphans' = Orphans \cup {n}
           /\ freeList' # freeList => Orphans' = Orphans
           /\ \A b \in Buckets, m \in Nodes :
                 Contains(bucket'[b], m) <=> Contains(bucket[b], m) /\ m # n
  <1>1. /\ bucket[c] \in Seq(Nodes) /\ IsInjective(bucket[c])
        /\ bucket \in [Buckets -> Seq(Nodes)] /\ freeList \in Seq(Nodes) /\ IsInjective(freeList)
        /\ \A b \in Buckets : bucket'[b] = IF b = c THEN Erase(bucket[c], n) ELSE bucket[b]
        /\ ~Contains(freeList, n) /\ c = BucketOf(n)
        /\ \A b \in Buckets : Contains(bucket[b], n) => b = c
    BY DEF TypeInv, ListsInv
  <1>2. /\ Erase(bucket[c], n) \in Seq(Nodes) /\ IsInjective(Erase(bucket[c], n))
        /\ \A x : Contains(Erase(bucket[c], n), x) <=> Contains(bucket[c], x) /\ x # n
    BY <1>1, EraseMembers
  <1>3. /\ freeList' \in Seq(Nodes) /\ IsInjective(freeList')
        /\ freeList' # freeList =>
              \A m \in Nodes : Contains(freeList', m) <=> Contains(freeList, m) \/ m = n
    <2>1. /\ <<n>> \o freeList \in Seq(Nodes) /\ IsInjective(<<n>> \o freeList)
          /\ \A x : Contains(<<n>> \o freeList, x) <=> Contains(freeList, x) \/ x = n
      BY <1>1, PushMembers
    <2> QED BY <1>1, <2>1
  <1>4. \A b \in Buckets, m \in Nodes : Contains(bucket'[b], m) <=> Contains(bucket[b], m) /\ m # n
    BY <1>1, <1>2
  <1>5. bucket' \in [Buckets -> Seq(Nodes)]
    BY <1>1, <1>2
  <1>6. \A m \in Nodes : BucketOf(m)' = BucketOf(m) /\ BucketOf(m) \in Buckets
    BY BucketOfNode DEF BucketOf
  <1>7. ListsInv'
    <2>1. \A b \in Buckets : IsInjective(bucket'[b])
      BY <1>1, <1>2 DEF ListsInv
    <2>2. ASSUME NEW m \in Nodes, NEW b \in Buckets, Contains(bucket'[b], m)
          PROVE  b = BucketOf(m)' /\ ~Contains(freeList', m)
      <3>1. Contains(bucket[b], m) /\ m # n
        BY <1>4, <2>2
      <3>2. b = BucketOf(m) /\ ~Contains(freeList, m)
        BY <3>1 DEF ListsInv
      <3> QED BY <1>3, <1>6, <3>1, <3>2
    <2> QED BY <1>3, <2>1, <2>2 DEF ListsInv
  <1>8. ASSUME NEW m \in Nodes
        PROVE  /\ freeList' = freeList => (Orphan(m)' <=> Orphan(m) \/ m = n)
               /\ freeList' # freeList => (Orphan(m)' <=> Orphan(m))
    <2>1. Queued(m)' <=> Queued(m) /\ m # n
      BY <1>4, <1>6 DEF Queued
    <2>2. Queued(n)
      BY <1>1 DEF Queued
    <2> QED BY <1>1, <1>3, <2>1, <2>2 DEF Orphan, Free
  <1> QED BY <1>3, <1>4, <1>5, <1>7, <1>8 DEF Orphans

-----------------------------------------------------------------------------
(* The invariant is inductive. *)

LEMMA InitInv == Init => IInv
  <1> SUFFICES ASSUME Init PROVE IInv
    OBVIOUS
  <1>1. /\ freeList = [i \in 1 .. Count |-> i] /\ Count \in Nat
        /\ freeList \in Seq(Nodes) /\ Len(freeList) = Count
    BY TimerAssumption DEF Init, Nodes
  <1>2. \A b \in Buckets : bucket[b] = << >>
    BY DEF Init
  <1>3. TypeInv
    BY <1>1 DEF Init, TypeInv, NodeRecord
  <1>4. ListsInv
    BY <1>1, <1>2 DEF ListsInv, IsInjective, Contains
  <1>5. \A n \in Nodes : Free(n)
    BY <1>1 DEF Free, Contains, Nodes
  <1>6. Orphans = {} /\ pc = "idle" /\ crashes = 0
    BY <1>5 DEF Init, Orphans, Orphan
  <1>7. OrphansInv
    BY <1>6, FS_EmptySet DEF OrphansInv
  <1> QED BY <1>3, <1>4, <1>6, <1>7 DEF IInv, CursorInBucket

\* A new timer leaves the free stack and enters the bucket of its tick.
LEMMA ScheduleStep ==
    ASSUME IInv, NEW h \in Handles, NEW type \in Types, NEW delay \in Delays,
           NEW period \in Nat, NEW repeat \in Nat, Schedule(h, type, delay, period, repeat)
    PROVE  IInv'
  <1> DEFINE n == Head(freeList)
             e == Uint32(s_currentTick + (IF delay = 0 THEN 1 ELSE delay))
             seq == StepUpTimerSeq(node[n].seq)
  <1>1. /\ TypeInv /\ ListsInv /\ freeList # << >> /\ freeList \in Seq(Nodes) /\ IsInjective(freeList)
        /\ freeList' = Tail(freeList)
        /\ node' = [node EXCEPT ![n] = [expire |-> e, period |-> period, repeatCount |-> repeat,
                                        type |-> type, seq |-> seq]]
        /\ bucket' = [bucket EXCEPT ![HashTick(e)] = Append(@, n)]
        /\ handle' = [handle EXCEPT ![h] = [type |-> type, pos |-> n, seq |-> seq]]
        /\ pc \in {"idle", "task"}
        /\ UNCHANGED <<tickIterator, currentTick, s_currentTick, pc, running, crashes>>
    BY DEF IInv, TypeInv, ListsInv, Schedule, MayCall
  <1>2. /\ freeList' \in Seq(Nodes) /\ IsInjective(freeList') /\ n \in Nodes /\ Free(n)
        /\ ~Contains(freeList', n)
        /\ \A m \in Nodes \ {n} : Contains(freeList', m) <=> Contains(freeList, m)
    BY <1>1, TailMembers DEF Free
  <1>3. e \in Nat
    <2>1. s_currentTick + (IF delay = 0 THEN 1 ELSE delay) \in Int
      BY <1>1, TimerAssumption DEF TypeInv
    <2> QED BY <2>1, Uint32IsNat
  <1>4. seq \in Nat /\ type \in Nat
    <2>1. node[n] \in NodeRecord
      BY <1>1, <1>2 DEF TypeInv
    <2>2. node[n].seq \in Nat
      BY <2>1 DEF NodeRecord
    <2> QED BY <2>2, TimerAssumption DEF StepUpTimerSeq
  <1> HIDE DEF n, e, seq
  <1>5. node' \in [Nodes -> NodeRecord] /\ node'[n].expire = e
        /\ \A m \in Nodes \ {n} : node'[m].expire = node[m].expire
    BY <1>1, <1>2, <1>3, <1>4 DEF TypeInv, NodeRecord
  <1>6. /\ bucket' \in [Buckets -> Seq(Nodes)] /\ ListsInv' /\ Orphans' = Orphans \ {n}
        /\ \A b \in Buckets, m \in Nodes : Contains(bucket[b], m) => Contains(bucket'[b], m)
    <2>1. \A b \in Buckets : ~Contains(bucket[b], n)
      BY <1>1, <1>2 DEF ListsInv, Free
    <2> QED BY <1>1, <1>2, <1>3, <1>5, <2>1, Enters
  <1>7. Orphans' = Orphans
    BY <1>2, <1>6 DEF Orphans, Orphan
  <1>8. TypeInv'
    <2>1. handle' \in [Handles -> Id \cup {INVALID_TIMER_ID}]
      BY <1>1, <1>2, <1>4 DEF TypeInv, Id
    <2> QED BY <1>1, <1>2, <1>5, <1>6, <2>1 DEF TypeInv
  <1>9. OrphansInv'
    BY <1>1, <1>7 DEF IInv, OrphansInv
  <1>10. CursorInBucket'
    <2>1. HashTick(currentTick) \in Buckets /\ (tickIterator # END => tickIterator \in Nodes)
      BY <1>1, HashInBuckets DEF TypeInv
    <2> QED BY <1>1, <1>6, <2>1 DEF IInv, CursorInBucket
  <1> QED BY <1>6, <1>8, <1>9, <1>10 DEF IInv

\* An id that is not the invalid one names a node.
LEMMA HandleNamesNode ==
    ASSUME IInv, NEW h \in Handles, handle[h] # INVALID_TIMER_ID
    PROVE  handle[h].pos \in Nodes
  BY DEF IInv, TypeInv, Id

LEMMA CancelOrphanStep ==
    ASSUME IInv, NEW h \in Handles, CancelOrphan(h) PROVE IInv'
  <1> DEFINE n == handle[h].pos
  <1>1. /\ n \in Nodes /\ node' = [node EXCEPT ![n].repeatCount = 0]
        /\ handle' = [handle EXCEPT ![h] = INVALID_TIMER_ID]
        /\ UNCHANGED <<bucket, freeList, tickIterator, currentTick, s_currentTick, pc, running, crashes>>
    BY HandleNamesNode DEF CancelOrphan, Cancelling
  <1> HIDE DEF n
  <1>2. /\ node' \in [Nodes -> NodeRecord] /\ \A m \in Nodes : node'[m].expire = node[m].expire
    BY <1>1 DEF IInv, TypeInv, NodeRecord
  <1>3. ListsInv' /\ Orphans' = Orphans
    BY <1>1, <1>2, ListsKept DEF IInv
  <1>4. TypeInv'
    BY <1>1, <1>2 DEF IInv, TypeInv
  <1>5. OrphansInv' /\ CursorInBucket'
    BY <1>1, <1>3 DEF IInv, OrphansInv, CursorInBucket
  <1> QED BY <1>3, <1>4, <1>5 DEF IInv

\* The cursor of a walk is moved off the node that is cancelled under it.
LEMMA CancelQueuedStep ==
    ASSUME IInv, NEW h \in Handles, CancelQueued(h) PROVE IInv'
  <1> DEFINE n == handle[h].pos
             c == BucketOf(n)
  <1>1. /\ n \in Nodes /\ Queued(n) /\ TypeInv /\ ListsInv
        /\ bucket' = [bucket EXCEPT ![c] = Erase(@, n)]
        /\ freeList' = <<n>> \o freeList
        /\ tickIterator' = IF tickIterator = n THEN NextOf(bucket[c], n) ELSE tickIterator
        /\ handle' = [handle EXCEPT ![h] = INVALID_TIMER_ID]
        /\ UNCHANGED <<node, currentTick, s_currentTick, pc, running, crashes>>
    BY HandleNamesNode DEF CancelQueued, Cancelling, IInv
  <1>2. c \in Buckets /\ Contains(bucket[c], n)
    BY <1>1, BucketOfNode DEF Queued
  <1> HIDE DEF n, c
  <1>3. freeList' # freeList
    <2>1. freeList \in Seq(Nodes) /\ <<n>> \in Seq(Nodes) /\ Len(<<n>>) = 1
      BY <1>1 DEF TypeInv
    <2>2. Len(<<n>> \o freeList) = 1 + Len(freeList)
      BY <2>1, ConcatProperties
    <2> QED BY <1>1, <2>1, <2>2
  <1>4. /\ bucket' \in [Buckets -> Seq(Nodes)] /\ freeList' \in Seq(Nodes) /\ ListsInv'
        /\ Orphans' = Orphans
        /\ \A b \in Buckets, m \in Nodes : Contains(bucket'[b], m) <=> Contains(bucket[b], m) /\ m # n
    BY <1>1, <1>2, <1>3, Leaves
  <1>5. tickIterator = n => \/ tickIterator' = END
                            \/ /\ tickIterator' \in Nodes /\ tickIterator' # n
                               /\ Contains(bucket[c], tickIterator')
    <2>1. bucket[c] \in Seq(Nodes) /\ IsInjective(bucket[c])
      BY <1>1, <1>2 DEF TypeInv, ListsInv
    <2> QED BY <1>1, <1>2, <2>1, NextMember
  <1>6. TypeInv'
    <2>1. tickIterator' \in Nodes \cup {END}
      BY <1>1, <1>5 DEF TypeInv
    <2>2. handle' \in [Handles -> Id \cup {INVALID_TIMER_ID}]
      BY <1>1 DEF TypeInv
    <2> QED BY <1>1, <1>4, <2>1, <2>2 DEF TypeInv
  <1>7. OrphansInv'
    BY <1>1, <1>4 DEF IInv, OrphansInv
  <1>8. CursorInBucket'
    <2> DEFINE b == HashTick(currentTick)
    <2> SUFFICES ASSUME pc \in {"walk", "task"}, tickIterator' # END
                 PROVE  Contains(bucket'[b], tickIterator')
      BY <1>1 DEF CursorInBucket
    <2>1. b \in Buckets
      BY <1>1, HashInBuckets DEF TypeInv
    <2>2. CASE tickIterator = n
      <3>1. tickIterator # END
        BY <1>1, <2>2, EndIsNoNode
      <3>2. Contains(bucket[b], n)
        BY <2>2, <3>1 DEF IInv, CursorInBucket
      <3>3. b = c
        BY <1>1, <1>2, <2>1, <3>2 DEF ListsInv
      <3> QED BY <1>4, <1>5, <2>1, <2>2, <3>3
    <2>3. CASE tickIterator # n
      <3>1. tickIterator' = tickIterator /\ tickIterator \in Nodes
        BY <1>1, <2>3 DEF TypeInv
      <3>2. Contains(bucket[b], tickIterator)
        BY <3>1 DEF IInv, CursorInBucket
      <3> QED BY <1>4, <2>1, <2>3, <3>1, <3>2
    <2> QED BY <2>2, <2>3
  <1> QED BY <1>4, <1>6, <1>7, <1>8 DEF IInv

\* The node under the cursor leaves its bucket; its task runs while it is on no list.
LEMMA TimeOutStep == ASSUME IInv, TimeOut PROVE IInv'
  <1> DEFINE n == tickIterator
             c == HashTick(currentTick)
  <1>1. /\ TypeInv /\ ListsInv /\ n \in Nodes /\ c \in Buckets /\ pc = "walk" /\ pc' = "task"
        /\ Contains(bucket[c], n)
        /\ node' = [node EXCEPT ![n].repeatCount = Uint32(@ - 1)]
        /\ bucket' = [bucket EXCEPT ![c] = Erase(@, n)]
        /\ tickIterator' = NextOf(bucket[c], n) /\ running' = n
        /\ UNCHANGED <<freeList, currentTick, s_currentTick, handle, crashes>>
    BY HashInBuckets DEF TimeOut, IInv, TypeInv, CursorInBucket, bounds
  <1> HIDE DEF n, c
  <1>2. node' \in [Nodes -> NodeRecord] /\ \A m \in Nodes : node'[m].expire = node[m].expire
    <2>1. node[n] \in NodeRecord /\ node[n].repeatCount - 1 \in Int
      BY <1>1 DEF TypeInv, NodeRecord
    <2>2. Uint32(node[n].repeatCount - 1) \in Nat
      BY <2>1, Uint32IsNat
    <2> QED BY <1>1, <2>1, <2>2 DEF TypeInv, NodeRecord
  <1>3. /\ bucket' \in [Buckets -> Seq(Nodes)] /\ ListsInv' /\ Orphans' = Orphans \cup {n}
        /\ \A b \in Buckets, m \in Nodes : Contains(bucket'[b], m) <=> Contains(bucket[b], m) /\ m # n
    BY <1>1, <1>2, Leaves
  <1>4. \/ tickIterator' = END
        \/ tickIterator' \in Nodes /\ tickIterator' # n /\ Contains(bucket[c], tickIterator')
    <2>1. bucket[c] \in Seq(Nodes) /\ IsInjective(bucket[c])
      BY <1>1 DEF TypeInv, ListsInv
    <2> QED BY <1>1, <2>1, NextMember
  <1>5. TypeInv'
    BY <1>1, <1>2, <1>3, <1>4 DEF TypeInv
  <1>6. OrphansInv'
    <2>1. Cardinality(Orphans') = Cardinality(Orphans) \/ Cardinality(Orphans') = Cardinality(Orphans) + 1
      <3>1. CASE n \in Orphans
        <4>1. Orphans' = Orphans
          BY <1>3, <3>1
        <4> QED BY <4>1
      <3>2. CASE n \notin Orphans
        <4>1. Cardinality(Orphans \cup {n}) = Cardinality(Orphans) + 1
          BY <3>2, OrphansFinite, FS_AddElement
        <4> QED BY <1>3, <4>1
      <3> QED BY <3>1, <3>2
    <2>3. Cardinality(Orphans) <= crashes /\ crashes \in Nat
      BY <1>1, OrphansFinite DEF IInv, OrphansInv, TypeInv
    <2>4. Cardinality(Orphans') <= crashes + 1
      BY <2>1, <2>3, OrphansFinite
    <2> QED BY <1>1, <1>3, <2>4 DEF OrphansInv
  <1>7. CursorInBucket'
    BY <1>1, <1>3, <1>4 DEF CursorInBucket, c
  <1> QED BY <1>3, <1>5, <1>6, <1>7 DEF IInv

\* The node of a finished task is on no list, and enters one.
LEMMA RearmStep == ASSUME IInv, Rearm PROVE IInv'
  <1> DEFINE n == running
             e == NextExpire(n)
  <1>1. /\ TypeInv /\ ListsInv /\ n \in Nodes /\ n \in Orphans /\ pc = "task" /\ pc' = "walk"
        /\ node' = [node EXCEPT ![n].expire = e]
        /\ bucket' = [bucket EXCEPT ![HashTick(e)] = Append(@, n)]
        /\ UNCHANGED <<freeList, tickIterator, currentTick, s_currentTick, handle, crashes>>
    BY DEF Rearm, IInv, TypeInv, OrphansInv, bounds
  <1>2. e \in Nat
    <2>1. node[n].expire \in Nat /\ node[n].period \in Nat /\ s_currentTick \in Nat
      BY <1>1 DEF TypeInv, NodeRecord
    <2>2. (IF mode = "tick" THEN node[n].expire ELSE s_currentTick) + node[n].period \in Int
      BY <2>1
    <2> QED BY <2>2, Uint32IsNat DEF NextExpire
  <1> HIDE DEF n, e
  <1>3. /\ node' \in [Nodes -> NodeRecord] /\ node'[n].expire = e
        /\ \A m \in Nodes \ {n} : node'[m].expire = node[m].expire
    BY <1>1, <1>2 DEF TypeInv, NodeRecord
  <1>4. ~Contains(freeList, n) /\ IsInjective(freeList) /\ \A b \in Buckets : ~Contains(bucket[b], n)
    BY <1>1, BucketOfNode DEF Orphans, Orphan, Free, ListsInv
  <1>5. /\ bucket' \in [Buckets -> Seq(Nodes)] /\ ListsInv' /\ Orphans' = Orphans \ {n}
        /\ \A b \in Buckets, m \in Nodes : Contains(bucket[b], m) => Contains(bucket'[b], m)
    BY <1>1, <1>2, <1>3, <1>4, Enters
  <1>6. TypeInv'
    BY <1>1, <1>3, <1>5 DEF TypeInv
  <1>7. OrphansInv'
    <2>1. Cardinality(Orphans') = Cardinality(Orphans) - 1
      BY <1>1, <1>5, OrphansFinite, FS_RemoveElement
    <2>2. Cardinality(Orphans) <= crashes + 1 /\ crashes \in Nat
      BY <1>1 DEF IInv, OrphansInv, TypeInv
    <2>3. Cardinality(Orphans') <= crashes
      BY <2>1, <2>2, OrphansFinite
    <2> QED BY <1>1, <2>3, OrphansFinite DEF OrphansInv, TypeInv
  <1>8. CursorInBucket'
    <2>1. HashTick(currentTick) \in Buckets /\ (tickIterator # END => tickIterator \in Nodes)
      BY <1>1, HashInBuckets DEF TypeInv
    <2> QED BY <1>1, <1>5, <2>1 DEF IInv, CursorInBucket
  <1> QED BY <1>5, <1>6, <1>7, <1>8 DEF IInv

LEMMA RetireStep == ASSUME IInv, Retire PROVE IInv'
  <1> DEFINE n == running
  <1>1. /\ TypeInv /\ ListsInv /\ n \in Nodes /\ n \in Orphans /\ pc = "task" /\ pc' = "walk"
        /\ freeList' = <<n>> \o freeList
        /\ UNCHANGED <<node, bucket, tickIterator, currentTick, s_currentTick, handle, crashes>>
    BY DEF Retire, IInv, TypeInv, OrphansInv, bounds
  <1> HIDE DEF n
  <1>2. /\ ~Contains(freeList, n) /\ IsInjective(freeList) /\ freeList \in Seq(Nodes)
        /\ \A b \in Buckets : ~Contains(bucket[b], n)
    BY <1>1, BucketOfNode DEF Orphans, Orphan, Free, ListsInv, TypeInv
  <1>3. /\ freeList' \in Seq(Nodes) /\ IsInjective(freeList')
        /\ \A x : Contains(freeList', x) <=> Contains(freeList, x) \/ x = n
    BY <1>1, <1>2, PushMembers
  <1>4. \A m \in Nodes : BucketOf(m)' = BucketOf(m) /\ (Queued(m)' <=> Queued(m))
    BY <1>1 DEF BucketOf, Queued
  <1>5. ListsInv'
    BY <1>1, <1>2, <1>3, <1>4 DEF ListsInv
  <1>6. Orphans' = Orphans \ {n}
    BY <1>3, <1>4 DEF Orphans, Orphan, Free
  <1>7. TypeInv'
    BY <1>1, <1>3 DEF TypeInv
  <1>8. OrphansInv'
    <2>1. Cardinality(Orphans') = Cardinality(Orphans) - 1
      BY <1>1, <1>6, OrphansFinite, FS_RemoveElement
    <2>2. Cardinality(Orphans) <= crashes + 1 /\ crashes \in Nat
      BY <1>1 DEF IInv, OrphansInv, TypeInv
    <2>3. Cardinality(Orphans') <= crashes
      BY <2>1, <2>2, OrphansFinite
    <2> QED BY <1>1, <2>3, OrphansFinite DEF OrphansInv, TypeInv
  <1>9. CursorInBucket'
    BY <1>1 DEF IInv, CursorInBucket
  <1> QED BY <1>5, <1>7, <1>8, <1>9 DEF IInv

\* The other steps leave the lists alone; a death takes the running node with it.
LEMMA QuietStep ==
    ASSUME IInv, UNCHANGED <<node, bucket, freeList>>,
           /\ tickIterator' \in Nodes \cup {END} /\ currentTick' \in Nat /\ s_currentTick' \in Nat
           /\ handle' \in [Handles -> Id \cup {INVALID_TIMER_ID}],
           pc' \in {"idle", "tick", "walk", "task"},
           \/ pc' = "task" /\ pc = "task" /\ running' = running /\ crashes' = crashes
           \/ pc' # "task" /\ pc # "task" /\ crashes' = crashes
           \/ pc' = "idle" /\ crashes' = crashes + 1,
           CursorInBucket'
    PROVE  IInv'
  <1>1. ListsInv' /\ Orphans' = Orphans
    BY ListsKept DEF IInv
  <1>2. crashes \in Nat /\ Cardinality(Orphans) \in Nat
    BY OrphansFinite DEF IInv, TypeInv
  <1>3. TypeInv'
    BY <1>2 DEF IInv, TypeInv
  <1>4. OrphansInv'
    BY <1>1, <1>2 DEF IInv, OrphansInv
  <1> QED BY <1>1, <1>3, <1>4 DEF IInv

LEMMA WalkStep == ASSUME IInv, WalkBegin \/ PassOver PROVE IInv'
  <1> DEFINE list == bucket[HashTick(currentTick)]
  <1>1. /\ list \in Seq(Nodes) /\ IsInjective(list)
        /\ s_currentTick \in Nat /\ currentTick \in Nat
    BY HashInBuckets DEF IInv, TypeInv, ListsInv
  <1>2. /\ UNCHANGED <<node, bucket, freeList, currentTick, handle, crashes>>
        /\ pc' = "walk" /\ pc # "task" /\ s_currentTick' \in {s_currentTick, currentTick}
    BY DEF WalkBegin, PassOver, bounds
  <1> HIDE DEF list
  <1>3. tickIterator' = END \/ (tickIterator' \in Nodes /\ Contains(list, tickIterator'))
    <2>1. CASE WalkBegin
      <3>1. tickIterator' = IF list = << >> THEN END ELSE Head(list)
        BY <2>1 DEF WalkBegin, Begin, list
      <3> QED BY <1>1, <3>1, TailMembers
    <2>2. CASE PassOver
      <3>1. Contains(list, tickIterator) /\ tickIterator' = NextOf(list, tickIterator)
        BY <2>2 DEF PassOver, IInv, CursorInBucket, list
      <3> QED BY <1>1, <3>1, NextMember
    <2> QED BY <2>1, <2>2
  <1>4. CursorInBucket'
    BY <1>2, <1>3 DEF CursorInBucket, list
  <1>5. s_currentTick' \in Nat /\ handle' \in [Handles -> Id \cup {INVALID_TIMER_ID}]
    BY <1>1, <1>2 DEF IInv, TypeInv
  <1> QED BY <1>1, <1>2, <1>3, <1>4, <1>5, QuietStep

LEMMA NextStep == ASSUME IInv, [Next]_vars PROVE IInv'
  <1>1. CASE \E h \in Handles, type \in Types, delay \in Delays, r \in Repeats :
                Schedule(h, type, delay, r[1], r[2])
    <2>1. PICK h \in Handles, type \in Types, delay \in Delays, r \in Repeats :
                Schedule(h, type, delay, r[1], r[2])
      BY <1>1
    <2>2. r[1] \in Nat /\ r[2] \in Nat
      BY TimerAssumption
    <2> QED BY <2>1, <2>2, ScheduleStep
  <1>2. CASE \E h \in Handles : CancelOrphan(h) \/ CancelQueued(h)
    BY <1>2, CancelOrphanStep, CancelQueuedStep
  <1>3. CASE TimeOut \/ Rearm \/ Retire
    BY <1>3, TimeOutStep, RearmStep, RetireStep
  <1>4. CASE WalkBegin \/ PassOver
    BY <1>4, WalkStep
  <1> USE DEF IInv, TypeInv, CursorInBucket
  <1>5. CASE \E h \in Handles, r \in Repeats : ScheduleFail(h, r[1], r[2])
    <2>1. PICK h \in Handles : handle' = [handle EXCEPT ![h] = INVALID_TIMER_ID]
      BY <1>5 DEF ScheduleFail
    <2>2. handle' \in [Handles -> Id \cup {INVALID_TIMER_ID}]
      BY <2>1
    <2>3. UNCHANGED <<shm, s_currentTick, pc, running, crashes>>
      BY <1>5 DEF ScheduleFail
    <2> QED BY <2>2, <2>3, QuietStep DEF shm
  <1>6. CASE \E h \in Handles : CancelStale(h)
    <2>1. UNCHANGED <<shm, s_currentTick, pc, running, crashes, handle>>
      BY <1>6 DEF CancelStale
    <2> QED BY <2>1, QuietStep DEF shm
  <1>7. CASE \E c \in Clocks : TickBegin(c) \/ SkipTickBegin(c)
    <2>1. PICK c \in Clocks : TickBegin(c) \/ SkipTickBegin(c)
      BY <1>7
    <2>2. Uint32(c) \in Nat
      BY TimerAssumption, Uint32IsNat
    <2>3. /\ UNCHANGED <<shm, running, crashes, handle>> /\ s_currentTick' \in {s_currentTick, Uint32(c)}
          /\ pc = "idle" /\ pc' \in {"idle", "tick"}
      BY <2>1 DEF TickBegin, SkipTickBegin, bounds
    <2> QED BY <2>2, <2>3, QuietStep DEF shm
  <1>8. CASE WalkEnd
    <2>1. /\ UNCHANGED <<node, bucket, freeList, tickIterator, s_currentTick, running, crashes, handle>>
          /\ currentTick' = currentTick + 1 /\ pc = "walk" /\ pc' \in {"idle", "tick"}
      BY <1>8 DEF WalkEnd, bounds
    <2> QED BY <2>1, QuietStep
  <1>9. CASE CrashAndResume
    <2>1. /\ UNCHANGED <<node, bucket, freeList, currentTick, handle>>
          /\ s_currentTick' = currentTick /\ pc' = "idle" /\ crashes' = crashes + 1
          /\ tickIterator' = END
      BY <1>9 DEF CrashAndResume, Restart
    <2>2. CursorInBucket'
      BY <2>1 DEF CursorInBucket
    <2>3. /\ tickIterator' \in Nodes \cup {END} /\ currentTick' \in Nat /\ s_currentTick' \in Nat
          /\ handle' \in [Handles -> Id \cup {INVALID_TIMER_ID}]
      BY <2>1 DEF IInv, TypeInv
    <2> QED BY <2>1, <2>2, <2>3, QuietStep
  <1>10. CASE UNCHANGED vars
    BY <1>10, QuietStep DEF vars, shm, bounds
  <1> QED
    BY <1>1, <1>2, <1>3, <1>4, <1>5, <1>6, <1>7, <1>8, <1>9, <1>10 DEF Next, TickStep

\* Every reachable wheel has its types, its lists, its lost nodes and its cursor in order.
THEOREM ListDiscipline == Spec => []IInv
  BY InitInv, NextStep, PTL DEF Spec

-----------------------------------------------------------------------------
(* What follows for the properties of TimerQueue. *)

\* Whatever tasks schedule and cancel while a bucket is walked, and whenever the
\* process dies: no node is on two lists, twice on one, or in a bucket its tick does
\* not lead to, and a node is lost only to a death while its task runs.
THEOREM NodesAreOnce == Spec => []EachNodeOnce
  <1>1. IInv => EachNodeOnce
    <2> SUFFICES ASSUME IInv PROVE EachNodeOnce
      OBVIOUS
    <2>1. \A n \in Nodes : Queued(n) => ~Free(n)
      BY BucketOfNode DEF IInv
    <2> QED BY <2>1 DEF EachNodeOnce, IInv, ListsInv, OrphansInv, Orphans
  <1> QED BY <1>1, ListDiscipline, PTL

\* The cursor of a walk never dangles: it is at the end of the bucket or on a node
\* that is still in it, though tasks erase nodes, that one included.
THEOREM CursorStays == Spec => []CursorInBucket
  <1>1. IInv => CursorInBucket
    BY DEF IInv
  <1> QED BY <1>1, ListDiscipline, PTL

-----------------------------------------------------------------------------
(* Sequence numbers.  Every use of a node takes the next of SEQ_LIMIT - 1      *)
(* numbers, so two uses have the same one only a whole round apart; as there   *)
(* is one use at most per call of Schedule, so are the calls.                  *)

Held(h) == handle[h] # INVALID_TIMER_ID

\* The number of a node used k times since it was s, for fewer than a round.
SeqAfter(s, k) == IF s + k >= SEQ_LIMIT THEN s + k - SEQ_LIMIT + 1 ELSE s + k

HandleSeqInv(h) ==
    /\ handle[h].seq \in 1 .. SEQ_LIMIT - 1
    /\ born[h] < schedules
    /\ schedules - born[h] < SEQ_LIMIT =>
          \E k \in 0 .. schedules - born[h] - 1 :
              node[handle[h].pos].seq = SeqAfter(handle[h].seq, k)

PairSeqInv(h, i) ==
    /\ born[h] # born[i]
    /\ /\ handle[h].pos = handle[i].pos
       /\ born[h] < born[i]
       /\ born[i] - born[h] < SEQ_LIMIT - 1
       => \E k \in 1 .. born[i] - born[h] : handle[i].seq = SeqAfter(handle[h].seq, k)

SeqInv ==
    /\ schedules \in Nat /\ born \in [Handles -> Nat]
    /\ \A n \in Nodes : node[n].seq \in 1 .. SEQ_LIMIT - 1
    /\ \A h \in Handles : Held(h) => HandleSeqInv(h)
    /\ \A h, i \in Handles : Held(h) /\ Held(i) /\ h # i => PairSeqInv(h, i)

LEMMA InitSeq == Init => SeqInv
  BY TimerAssumption DEF Init, SeqInv, Held

LEMMA StepUpAfter ==
    ASSUME NEW s \in 1 .. SEQ_LIMIT - 1, NEW k \in Nat, k + 1 < SEQ_LIMIT - 1
    PROVE  /\ StepUpTimerSeq(SeqAfter(s, k)) = SeqAfter(s, k + 1)
           /\ SeqAfter(s, k) # s \/ k = 0
  BY TimerAssumption DEF StepUpTimerSeq, SeqAfter

LEMMA StepUpInRange ==
    ASSUME NEW s \in 1 .. SEQ_LIMIT - 1 PROVE StepUpTimerSeq(s) \in 1 .. SEQ_LIMIT - 1
  BY TimerAssumption DEF StepUpTimerSeq

\* Every call but a Schedule that succeeds: no node gets a new number, ids are only dropped.
LEMMA SeqKept ==
    ASSUME TypeInv, SeqInv, \A n \in Nodes : node'[n].seq = node[n].seq,
           schedules' \in {schedules, schedules + 1}, born' = born,
           \A h \in Handles : handle'[h] \in {handle[h], INVALID_TIMER_ID}
    PROVE  SeqInv'
  <1>1. ASSUME NEW h \in Handles, Held(h)'
        PROVE  handle'[h] = handle[h] /\ Held(h)
    BY <1>1 DEF Held
  <1>2. ASSUME NEW h \in Handles, Held(h)'
        PROVE  HandleSeqInv(h)'
    <2>1. Held(h) /\ handle'[h] = handle[h] /\ HandleSeqInv(h)
      BY <1>1, <1>2 DEF SeqInv
    <2>2. handle[h].pos \in Nodes
      BY <2>1 DEF TypeInv, Id, Held
    <2>3. node'[handle[h].pos].seq = node[handle[h].pos].seq
      BY <2>2
    <2>4. born[h] \in Nat /\ schedules \in Nat
      BY DEF SeqInv
    <2>5. born[h] < schedules'
      BY <2>1, <2>4 DEF HandleSeqInv
    <2>6. ASSUME schedules' - born[h] < SEQ_LIMIT
          PROVE  \E k \in 0 .. schedules' - born[h] - 1 :
                    node[handle[h].pos].seq = SeqAfter(handle[h].seq, k)
      <3>1. schedules - born[h] < SEQ_LIMIT
        BY <2>4, <2>6, TimerAssumption
      <3>2. PICK k \in 0 .. schedules - born[h] - 1 :
                    node[handle[h].pos].seq = SeqAfter(handle[h].seq, k)
        BY <2>1, <3>1 DEF HandleSeqInv
      <3>3. k \in 0 .. schedules' - born[h] - 1
        BY <2>4
      <3> QED BY <3>2, <3>3
    <2> QED BY <2>1, <2>3, <2>5, <2>6 DEF HandleSeqInv
  <1>3. ASSUME NEW h \in Handles, NEW i \in Handles, Held(h)', Held(i)', h # i
        PROVE  PairSeqInv(h, i)'
    <2>1. PairSeqInv(h, i) /\ handle'[h] = handle[h] /\ handle'[i] = handle[i]
      BY <1>1, <1>3 DEF SeqInv
    <2> QED BY <2>1 DEF PairSeqInv, SeqAfter
  <1>4. schedules' \in Nat /\ born' \in [Handles -> Nat] /\ \A n \in Nodes : node'[n].seq \in 1 .. SEQ_LIMIT - 1
    BY DEF SeqInv
  <1> QED BY <1>2, <1>3, <1>4 DEF SeqInv

\* The new id is one number on from every id of that node that is not a round old.
LEMMA ScheduleSeq ==
    ASSUME IInv, SeqInv, NEW g \in Handles, NEW type \in Types, NEW delay \in Delays,
           NEW period, NEW repeat, Schedule(g, type, delay, period, repeat)
    PROVE  SeqInv'
  <1> DEFINE n == Head(freeList)
             seq == StepUpTimerSeq(node[n].seq)
  <1>1. /\ TypeInv /\ n \in Nodes
        /\ node'[n].seq = seq /\ \A m \in Nodes \ {n} : node'[m].seq = node[m].seq
        /\ handle'[g] = [type |-> type, pos |-> n, seq |-> seq]
        /\ \A h \in Handles \ {g} : handle'[h] = handle[h]
        /\ born' = [born EXCEPT ![g] = schedules] /\ schedules' = schedules + 1
    <2>1. freeList \in Seq(Nodes) /\ freeList # << >>
      BY DEF IInv, TypeInv, Schedule
    <2>2. n \in Nodes
      BY <2>1
    <2> QED BY <2>2 DEF IInv, TypeInv, Schedule
  <1>2. /\ schedules \in Nat /\ born \in [Handles -> Nat]
        /\ node[n].seq \in 1 .. SEQ_LIMIT - 1 /\ seq \in 1 .. SEQ_LIMIT - 1
        /\ \A m \in Nodes : node[m].seq \in 1 .. SEQ_LIMIT - 1
    BY <1>1, StepUpInRange DEF SeqInv
  <1>3. born'[g] = schedules /\ \A h \in Handles \ {g} : born'[h] = born[h]
    BY <1>1, <1>2
  <1>4. handle'[g].pos = n /\ handle'[g].seq = seq
    BY <1>1
  <1>5. StepUpTimerSeq(node[n].seq) = seq
    OBVIOUS
  <1> HIDE DEF n, seq
  <1>6. ASSUME NEW h \in Handles \ {g}, Held(h)'
        PROVE  /\ Held(h) /\ HandleSeqInv(h) /\ handle'[h] = handle[h] /\ born'[h] = born[h]
               /\ born[h] \in Nat /\ handle[h].pos \in Nodes
    <2>1. Held(h)
      BY <1>1, <1>6 DEF Held
    <2>2. handle[h].pos \in Nodes
      BY <1>1, <2>1 DEF TypeInv, Id, Held
    <2> QED BY <1>1, <1>2, <1>3, <2>1, <2>2 DEF SeqInv
  <1>7. ASSUME NEW h \in Handles \ {g}, Held(h)', handle[h].pos = n,
               schedules - born[h] < SEQ_LIMIT - 1
        PROVE  \E k \in 1 .. schedules - born[h] : seq = SeqAfter(handle[h].seq, k)
    <2>1. /\ HandleSeqInv(h) /\ born[h] \in Nat
      BY <1>6, <1>7
    <2>2. schedules - born[h] < SEQ_LIMIT /\ born[h] < schedules /\ handle[h].seq \in 1 .. SEQ_LIMIT - 1
      BY <1>2, <1>7, <2>1, TimerAssumption DEF HandleSeqInv
    <2>3. PICK k \in 0 .. schedules - born[h] - 1 : node[n].seq = SeqAfter(handle[h].seq, k)
      BY <1>7, <2>1, <2>2 DEF HandleSeqInv
    <2>4. k \in Nat /\ k + 1 < SEQ_LIMIT - 1 /\ k + 1 \in 1 .. schedules - born[h]
      BY <1>2, <1>7, <2>1, <2>2, TimerAssumption
    <2>5. seq = SeqAfter(handle[h].seq, k + 1)
      BY <1>5, <2>2, <2>3, <2>4, StepUpAfter
    <2> QED BY <2>4, <2>5
  <1>8. ASSUME NEW h \in Handles, Held(h)'
        PROVE  HandleSeqInv(h)'
    <2>1. CASE h = g
      <3>1. SeqAfter(seq, 0) = seq
        BY <1>2, TimerAssumption DEF SeqAfter
      <3>2. handle'[h].seq \in 1 .. SEQ_LIMIT - 1 /\ born'[h] < schedules' /\ schedules' - born'[h] - 1 = 0
        BY <1>1, <1>2, <1>3, <1>4, <2>1
      <3>3. node'[handle'[h].pos].seq = SeqAfter(handle'[h].seq, 0) /\ 0 \in 0 .. schedules' - born'[h] - 1
        BY <1>1, <1>4, <2>1, <3>1, <3>2
      <3> QED BY <3>2, <3>3 DEF HandleSeqInv
    <2>2. CASE h # g
      <3>1. /\ HandleSeqInv(h) /\ handle'[h] = handle[h] /\ born'[h] = born[h]
            /\ born[h] \in Nat /\ handle[h].pos \in Nodes
        BY <1>6, <1>8, <2>2
      <3>2. handle'[h].seq \in 1 .. SEQ_LIMIT - 1 /\ born'[h] < schedules'
        BY <1>1, <1>2, <3>1 DEF HandleSeqInv
      <3>3. ASSUME schedules' - born'[h] < SEQ_LIMIT
            PROVE  \E k \in 0 .. schedules' - born'[h] - 1 :
                      node'[handle'[h].pos].seq = SeqAfter(handle'[h].seq, k)
        <4>1. /\ schedules - born[h] < SEQ_LIMIT - 1 /\ schedules - born[h] < SEQ_LIMIT
              /\ schedules' - born'[h] - 1 = schedules - born[h]
          BY <1>1, <1>2, <3>1, <3>3, TimerAssumption
        <4>2. CASE handle[h].pos = n
          <5>1. PICK k \in 1 .. schedules - born[h] : seq = SeqAfter(handle[h].seq, k)
            BY <1>7, <1>8, <2>2, <4>1, <4>2
          <5>2. k \in 0 .. schedules - born[h]
            BY <1>2, <3>1
          <5>3. node'[handle'[h].pos].seq = SeqAfter(handle'[h].seq, k)
            BY <1>1, <3>1, <4>2, <5>1
          <5> QED BY <4>1, <5>2, <5>3
        <4>3. CASE handle[h].pos # n
          <5>1. PICK k \in 0 .. schedules - born[h] - 1 :
                    node[handle[h].pos].seq = SeqAfter(handle[h].seq, k)
            BY <3>1, <4>1 DEF HandleSeqInv
          <5>2. k \in 0 .. schedules - born[h]
            BY <1>2, <3>1
          <5>3. node'[handle'[h].pos].seq = SeqAfter(handle'[h].seq, k)
            BY <1>1, <3>1, <4>3, <5>1
          <5> QED BY <4>1, <5>2, <5>3
        <4> QED BY <4>2, <4>3
      <3> QED BY <3>2, <3>3 DEF HandleSeqInv
    <2> QED BY <2>1, <2>2
  <1>9. ASSUME NEW h \in Handles, NEW i \in Handles, Held(h)', Held(i)', h # i
        PROVE  PairSeqInv(h, i)'
    <2>1. CASE h = g
      <3>1. born'[i] = born[i] /\ born[i] < schedules /\ born[i] \in Nat /\ born'[h] = schedules
        BY <1>3, <1>6, <1>9, <2>1 DEF HandleSeqInv
      <3>2. born'[h] # born'[i] /\ ~(born'[h] < born'[i])
        BY <1>2, <3>1
      <3> QED BY <3>2 DEF PairSeqInv
    <2>2. CASE i = g
      <3>1. /\ born'[h] = born[h] /\ born[h] < schedules /\ born[h] \in Nat /\ born'[i] = schedules
            /\ handle'[h] = handle[h] /\ handle'[i].pos = n /\ handle'[i].seq = seq
        BY <1>3, <1>4, <1>6, <1>9, <2>2 DEF HandleSeqInv
      <3>2. born'[h] # born'[i]
        BY <1>2, <3>1
      <3>3. ASSUME handle'[h].pos = handle'[i].pos, born'[i] - born'[h] < SEQ_LIMIT - 1
            PROVE  \E k \in 1 .. born'[i] - born'[h] : handle'[i].seq = SeqAfter(handle'[h].seq, k)
        <4>1. handle[h].pos = n /\ schedules - born[h] < SEQ_LIMIT - 1
          BY <3>1, <3>3
        <4>2. \E k \in 1 .. schedules - born[h] : seq = SeqAfter(handle[h].seq, k)
          BY <1>7, <1>9, <2>2, <4>1
        <4> QED BY <3>1, <4>2
      <3> QED BY <3>2, <3>3 DEF PairSeqInv
    <2>3. CASE h # g /\ i # g
      <3>1. Held(h) /\ Held(i) /\ handle'[h] = handle[h] /\ handle'[i] = handle[i]
        BY <1>6, <1>9, <2>3
      <3>2. PairSeqInv(h, i) /\ born'[h] = born[h] /\ born'[i] = born[i]
        BY <1>3, <1>9, <2>3, <3>1 DEF SeqInv
      <3> QED BY <3>1, <3>2 DEF PairSeqInv, SeqAfter
    <2> QED BY <2>1, <2>2, <2>3
  <1>10. schedules' \in Nat /\ born' \in [Handles -> Nat] /\ \A m \in Nodes : node'[m].seq \in 1 .. SEQ_LIMIT - 1
    BY <1>1, <1>2
  <1> QED BY <1>8, <1>9, <1>10 DEF SeqInv

LEMMA NextSeq == ASSUME IInv, SeqInv, [Next]_vars PROVE SeqInv'
  <1>1. CASE \E h \in Handles, type \in Types, delay \in Delays, r \in Repeats :
                Schedule(h, type, delay, r[1], r[2])
    BY <1>1, ScheduleSeq
  <1>2. CASE ~ \E h \in Handles, type \in Types, delay \in Delays, r \in Repeats :
                Schedule(h, type, delay, r[1], r[2])
    <2>1. TypeInv /\ node \in [Nodes -> NodeRecord] /\ handle \in [Handles -> Id \cup {INVALID_TIMER_ID}]
      BY DEF IInv, TypeInv
    <2>2. ASSUME NEW h \in Handles, handle' = [handle EXCEPT ![h] = INVALID_TIMER_ID]
          PROVE  \A i \in Handles : handle'[i] \in {handle[i], INVALID_TIMER_ID}
      BY <2>1, <2>2
    <2>3. CASE \E h \in Handles, r \in Repeats : ScheduleFail(h, r[1], r[2])
      <3>1. PICK h \in Handles : handle' = [handle EXCEPT ![h] = INVALID_TIMER_ID]
        BY <2>3 DEF ScheduleFail
      <3>2. node' = node /\ born' = born /\ schedules' = schedules + 1
        BY <2>3 DEF ScheduleFail, shm
      <3> QED BY <2>1, <2>2, <3>1, <3>2, SeqKept
    <2>4. CASE \E h \in Handles : CancelOrphan(h) \/ CancelQueued(h)
      <3>1. PICK h \in Handles : CancelOrphan(h) \/ CancelQueued(h)
        BY <2>4
      <3>2. handle' = [handle EXCEPT ![h] = INVALID_TIMER_ID] /\ born' = born /\ schedules' = schedules
        BY <3>1 DEF CancelOrphan, CancelQueued
      <3>3. handle[h].pos \in Nodes
        BY <3>1, HandleNamesNode DEF CancelOrphan, CancelQueued, Cancelling
      <3>4. node' \in {node, [node EXCEPT ![handle[h].pos].repeatCount = 0]}
        BY <3>1 DEF CancelOrphan, CancelQueued
      <3>5. \A n \in Nodes : node'[n].seq = node[n].seq
        BY <2>1, <3>3, <3>4 DEF NodeRecord
      <3> QED BY <2>1, <2>2, <3>2, <3>5, SeqKept
    <2>5. CASE TimeOut
      <3>1. /\ node' = [node EXCEPT ![tickIterator].repeatCount = Uint32(@ - 1)]
            /\ UNCHANGED <<handle, born, schedules>>
        BY <2>5 DEF TimeOut, bounds
      <3>2. \A n \in Nodes : node'[n].seq = node[n].seq
        BY <2>1, <3>1 DEF NodeRecord
      <3> QED BY <2>1, <3>1, <3>2, SeqKept
    <2>6. CASE Rearm
      <3>1. /\ node' = [node EXCEPT ![running].expire = NextExpire(running)]
            /\ UNCHANGED <<handle, born, schedules>>
        BY <2>6 DEF Rearm, bounds
      <3>2. \A n \in Nodes : node'[n].seq = node[n].seq
        BY <2>1, <3>1 DEF NodeRecord
      <3> QED BY <2>1, <3>1, <3>2, SeqKept
    <2>7. CASE UNCHANGED <<node, handle, born, schedules>>
      BY <2>1, <2>7, SeqKept
    <2>8. CASE \/ \E h \in Handles : CancelStale(h)
               \/ \E c \in Clocks : TickBegin(c) \/ SkipTickBegin(c)
               \/ WalkBegin \/ PassOver \/ Retire \/ WalkEnd \/ CrashAndResume \/ UNCHANGED vars
      <3>1. UNCHANGED <<node, handle, born, schedules>>
        BY <2>8 DEF CancelStale, TickBegin, SkipTickBegin, WalkBegin, PassOver, Retire, WalkEnd,
                    CrashAndResume, Restart, vars, shm, bounds
      <3> QED BY <2>7, <3>1
    <2> QED BY <1>2, <2>3, <2>4, <2>5, <2>6, <2>8 DEF Next, TickStep
  <1> QED BY <1>1, <1>2

\* An object that keeps the id of a timer that ended long ago cannot cancel the timer
\* of another object with it, however nodes are used again and across deaths, unless
\* it kept the id while a whole round of sequence numbers was given out.
THEOREM OldIdsHitNobody == Spec => []HandlesDiffer
  <1>1. ASSUME SeqInv, NEW h \in Handles, NEW i \in Handles, h # i,
               handle[h] = handle[i], Held(h), born[h] <= born[i],
               born[i] - born[h] < SEQ_LIMIT - 1
        PROVE  FALSE
    <2>1. Held(i) /\ PairSeqInv(h, i) /\ HandleSeqInv(h) /\ born[h] \in Nat /\ born[i] \in Nat
      BY <1>1 DEF SeqInv, Held
    <2>2. born[h] < born[i] /\ handle[h].seq \in 1 .. SEQ_LIMIT - 1
      BY <1>1, <2>1 DEF PairSeqInv, HandleSeqInv
    <2>3. PICK k \in 1 .. born[i] - born[h] : handle[h].seq = SeqAfter(handle[h].seq, k)
      BY <1>1, <2>1, <2>2 DEF PairSeqInv
    <2>4. k \in Nat /\ k # 0 /\ k < SEQ_LIMIT - 1
      BY <1>1, <2>1, TimerAssumption
    <2> QED BY <2>2, <2>3, <2>4, TimerAssumption DEF SeqAfter
  <1>2. IInv /\ SeqInv /\ [Next]_vars => SeqInv'
    BY NextSeq
  <1>3. SeqInv => HandlesDiffer
    <2> SUFFICES ASSUME SeqInv, NEW h \in Handles, NEW i \in Handles, h # i,
                        handle[h] = handle[i], Held(h)
                 PROVE  born[h] - born[i] \notin 2 - SEQ_LIMIT .. SEQ_LIMIT - 2
      BY DEF HandlesDiffer, Held
    <2>1. born[h] \in Nat /\ born[i] \in Nat /\ Held(i)
      BY DEF SeqInv, Held
    <2>2. born[h] <= born[i] => ~(born[i] - born[h] < SEQ_LIMIT - 1)
      BY <1>1
    <2>3. born[i] <= born[h] => ~(born[h] - born[i] < SEQ_LIMIT - 1)
      BY <1>1, <2>1
    <2> QED BY <2>1, <2>2, <2>3, TimerAssumption
  <1> QED BY <1>2, <1>3, InitSeq, ListDiscipline, PTL DEF Spec

-----------------------------------------------------------------------------
(* No timer is passed.  Between a walk's cursor and the end of the list are all *)
(* the timers that are due and have not run.                                    *)

\* x is at the cursor c or behind it.
AtOrBehind(s, c, x) == \E j \in DOMAIN s : s[j] = x /\ \E i \in 1 .. j : s[i] = c

LEMMA BehindBegin ==
    ASSUME NEW S, NEW s \in Seq(S), NEW x, Contains(s, x)
    PROVE  AtOrBehind(s, Begin(s), x)
  <1>1. PICK j \in 1 .. Len(s) : s[j] = x
    BY DEF Contains
  <1>2. s # << >> /\ Len(s) \in Nat /\ DOMAIN s = 1 .. Len(s) /\ 1 \in 1 .. j
    BY <1>1
  <1>3. Begin(s) = s[1]
    BY <1>2 DEF Begin
  <1> QED BY <1>1, <1>2, <1>3 DEF AtOrBehind

LEMMA BehindAppend ==
    ASSUME NEW S, NEW s \in Seq(S), NEW e \in S, NEW c, NEW x, AtOrBehind(s, c, x)
    PROVE  AtOrBehind(Append(s, e), c, x)
  <1> DEFINE t == Append(s, e)
  <1>1. PICK j \in 1 .. Len(s) : s[j] = x /\ \E i \in 1 .. j : s[i] = c
    BY DEF AtOrBehind
  <1>2. PICK i \in 1 .. j : s[i] = c
    BY <1>1
  <1>3. Len(s) \in Nat /\ DOMAIN t = 1 .. Len(s) + 1 /\ \A k \in 1 .. Len(s) : t[k] = s[k]
    BY AppendProperties
  <1> HIDE DEF t
  <1>4. i \in 1 .. Len(s) /\ j \in DOMAIN t /\ t[i] = c /\ t[j] = x
    BY <1>1, <1>2, <1>3
  <1> QED BY <1>4 DEF AtOrBehind, t

\* Another node than these two is erased.
LEMMA BehindErase ==
    ASSUME NEW S, NEW s \in Seq(S), NEW e, NEW c, NEW x, AtOrBehind(s, c, x),
           Contains(s, e), c # e, x # e
    PROVE  AtOrBehind(Erase(s, e), c, x)
  <1> DEFINE p == Position(s, e)
             n == Len(s)
             t == Erase(s, e)
  <1>1. n \in Nat /\ p \in 1 .. n /\ s[p] = e
    BY PositionOf
  <1>2. /\ t \in Seq(S) /\ Len(t) = n - 1
        /\ \A i \in 1 .. n - 1 : t[i] = IF i < p THEN s[i] ELSE s[i + 1]
    BY EraseAt
  <1>3. PICK j \in 1 .. n : s[j] = x /\ \E i \in 1 .. j : s[i] = c
    BY DEF AtOrBehind
  <1>4. PICK i \in 1 .. j : s[i] = c
    BY <1>3
  <1> HIDE DEF p, n, t
  <1> DEFINE up(k) == IF k < p THEN k ELSE k - 1
  <1>5. ASSUME NEW k \in 1 .. n, k # p
        PROVE  up(k) \in 1 .. n - 1 /\ t[up(k)] = s[k]
    <2>1. CASE k < p
      BY <1>1, <1>2, <2>1
    <2>2. CASE ~(k < p)
      <3>1. k - 1 \in 1 .. n - 1 /\ ~(k - 1 < p) /\ (k - 1) + 1 = k
        BY <1>1, <1>5, <2>2
      <3>2. t[k - 1] = s[k]
        BY <1>2, <3>1
      <3> QED BY <2>2, <3>1, <3>2
    <2> QED BY <2>1, <2>2
  <1>6. i \in 1 .. n /\ i # p /\ j # p
    BY <1>1, <1>3, <1>4
  <1>7. up(i) \in 1 .. up(j)
    BY <1>1, <1>4, <1>6
  <1>8. t[up(i)] = c /\ t[up(j)] = x /\ up(j) \in 1 .. n - 1
    BY <1>3, <1>4, <1>5, <1>6
  <1> HIDE DEF up
  <1>9. DOMAIN t = 1 .. n - 1
    BY <1>1, <1>2
  <1> QED BY <1>7, <1>8, <1>9 DEF AtOrBehind, t

LEMMA BehindContains ==
    ASSUME NEW S, NEW s \in Seq(S), NEW c, NEW x, AtOrBehind(s, c, x)
    PROVE  Contains(s, c) /\ Contains(s, x)
  <1>1. PICK j \in 1 .. Len(s) : s[j] = x /\ \E i \in 1 .. j : s[i] = c
    BY DEF AtOrBehind
  <1>2. PICK i \in 1 .. j : s[i] = c
    BY <1>1
  <1>3. i \in 1 .. Len(s)
    OBVIOUS
  <1> QED BY <1>1, <1>2, <1>3 DEF Contains

\* The cursor moves on from c.
LEMMA BehindNext ==
    ASSUME NEW S, NEW s \in Seq(S), IsInjective(s), NEW c, NEW x, AtOrBehind(s, c, x), x # c
    PROVE  AtOrBehind(s, NextOf(s, c), x)
  <1>1. PICK j \in 1 .. Len(s) : s[j] = x /\ \E i \in 1 .. j : s[i] = c
    BY DEF AtOrBehind
  <1>2. PICK i \in 1 .. j : s[i] = c
    BY <1>1
  <1>3. i \in 1 .. Len(s) /\ i # j /\ DOMAIN s = 1 .. Len(s) /\ Len(s) \in Nat
    BY <1>1, <1>2
  <1>4. Contains(s, c)
    BY <1>2, <1>3 DEF Contains
  <1>5. Position(s, c) \in 1 .. Len(s) /\ s[Position(s, c)] = c
    BY <1>4, PositionOf
  <1>6. Position(s, c) = i
    BY <1>2, <1>3, <1>5 DEF IsInjective
  <1>7. i + 1 \in 1 .. j /\ i # Len(s)
    <2>1. i \in 1 .. j /\ i # j /\ j \in 1 .. Len(s) /\ Len(s) \in Nat
      BY <1>1, <1>2, <1>3
    <2> QED BY <2>1
  <1>8. NextOf(s, c) = s[i + 1]
    BY <1>6, <1>7 DEF NextOf
  <1> QED BY <1>1, <1>3, <1>7, <1>8 DEF AtOrBehind

\* The node under the cursor is erased and the cursor moves on.
LEMMA BehindEraseNext ==
    ASSUME NEW S, NEW s \in Seq(S), IsInjective(s), NEW c, NEW x, AtOrBehind(s, c, x), x # c, c # END
    PROVE  AtOrBehind(Erase(s, c), NextOf(s, c), x)
  <1>1. Contains(s, c)
    BY BehindContains
  <1>2. NextOf(s, c) # c
    BY <1>1, NextMember
  <1> QED BY <1>1, <1>2, BehindNext, BehindErase

LEMMA NoneBehindEnd ==
    ASSUME NEW s \in Seq(Nodes), NEW x PROVE ~AtOrBehind(s, END, x)
  BY EndIsNoNode DEF AtOrBehind

-----------------------------------------------------------------------------
(* The wheel keeps the promise of TimerService as long as no tick number wraps  *)
(* and no timer is asked for zero turns.                                        *)

\* No clock reading is before the start or behind the tick last, and neither last
\* nor what is counted from it leaves the range of uint32.
LastTick(last) ==
    /\ last \in Nat /\ last + 1 < WORD
    /\ Clocks \subseteq 0 .. last
    /\ \A d \in Delays : last + d < WORD
    /\ \A r \in Repeats : last + r[1] < WORD /\ r[2] \in 1 .. WORD - 1

NothingWraps == \E last \in Nat : LastTick(last)

\* Where the server's tick, the walked tick and the tick to be reached stand.
TickInv(last) ==
    /\ currentTick \in 0 .. last /\ s_currentTick \in 0 .. last
    /\ currentTick <= s_currentTick + 1
    /\ mode \in {"tick", "skip"}
    /\ pc \in {"walk", "task"} => currentTick <= s_currentTick
    /\ pc # "idle" => /\ target \in currentTick + 1 .. last
                      /\ mode = "skip" => s_currentTick = target

\* A node fits its fields; one that waits is not overdue and has turns left.
Fits(n, last) == last + node[n].period < WORD /\ node[n].repeatCount < WORD

Waits(n) ==
    /\ node[n].expire >= currentTick
    /\ node[n].repeatCount > 0
    /\ node[n].repeatCount > 1 => node[n].period > 0

\* The task that runs is that of a timer due now.
Runs(n) ==
    /\ node[n].expire = currentTick
    /\ node[n].repeatCount > 0 => node[n].period > 0

NodesInv(last) ==
    \A n \in Nodes :
        /\ Fits(n, last)
        /\ Queued(n) => Waits(n)
        /\ pc = "task" /\ n = running => Runs(n)

Walked == bucket[HashTick(currentTick)]

\* What is due in the bucket that is walked is not behind the cursor's back.
WalkInv ==
    pc \in {"walk", "task"} =>
        \A n \in Nodes :
            Contains(Walked, n) /\ node[n].expire <= currentTick
               => AtOrBehind(Walked, tickIterator, n)

ServeInv(last) == TickInv(last) /\ NodesInv(last) /\ WalkInv

\* The number is in range and stays what it is.
LEMMA Uint32Small == ASSUME NEW i \in 0 .. WORD - 1 PROVE Uint32(i) = i
  BY TimerAssumption DEF Uint32

LEMMA QueuedAfter ==
    ASSUME TypeInv', ListsInv', NEW n \in Nodes
    PROVE  Queued(n)' <=> \E b \in Buckets : Contains(bucket'[b], n)
  <1>1. node'[n].expire \in Nat
    BY DEF TypeInv, NodeRecord
  <1>2. HashTick(node'[n].expire) \in Buckets
    BY <1>1, HashInBuckets
  <1> QED BY <1>2 DEF ListsInv, Queued, BucketOf

\* The node n, in no list before, enters a bucket.
LEMMA EntersQueued ==
    ASSUME IInv, IInv', NEW n \in Nodes, NEW e \in Nat,
           \A b \in Buckets : ~Contains(bucket[b], n),
           bucket' = [bucket EXCEPT ![HashTick(e)] = Append(@, n)]
    PROVE  /\ ~Queued(n) /\ Queued(n)'
           /\ \A m \in Nodes \ {n} : Queued(m)' <=> Queued(m)
           /\ \A b \in Buckets, m \in Nodes \ {n} : Contains(bucket'[b], m) => Contains(bucket[b], m)
           /\ \A b \in Buckets : \A c, x : AtOrBehind(bucket[b], c, x) => AtOrBehind(bucket'[b], c, x)
  <1> DEFINE k == HashTick(e)
  <1>1. k \in Buckets /\ TypeInv /\ ListsInv /\ TypeInv' /\ ListsInv'
    BY HashInBuckets DEF IInv
  <1>2. /\ bucket[k] \in Seq(Nodes) /\ IsInjective(bucket[k]) /\ ~Contains(bucket[k], n)
        /\ \A b \in Buckets : bucket'[b] = IF b = k THEN Append(bucket[k], n) ELSE bucket[b]
    BY <1>1 DEF TypeInv, ListsInv
  <1> HIDE DEF k
  <1>3. \A x : Contains(Append(bucket[k], n), x) <=> Contains(bucket[k], x) \/ x = n
    BY <1>2, AppendMembers
  <1>4. \A b \in Buckets, m \in Nodes :
            Contains(bucket'[b], m) <=> Contains(bucket[b], m) \/ (m = n /\ b = k)
    BY <1>2, <1>3
  <1>5. \A m \in Nodes : /\ Queued(m) <=> \E b \in Buckets : Contains(bucket[b], m)
                         /\ Queued(m)' <=> \E b \in Buckets : Contains(bucket'[b], m)
    BY <1>1, BucketOfNode, QueuedAfter
  <1>6. ASSUME NEW b \in Buckets, NEW c, NEW x, AtOrBehind(bucket[b], c, x)
        PROVE  AtOrBehind(bucket'[b], c, x)
    <2>1. CASE b = k
      BY <1>2, <1>6, <2>1, BehindAppend
    <2>2. CASE b # k
      BY <1>2, <1>6, <2>2
    <2> QED BY <2>1, <2>2
  <1>7. ~Queued(n) /\ Queued(n)' /\ \A m \in Nodes \ {n} : Queued(m)' <=> Queued(m)
    BY <1>1, <1>4, <1>5
  <1> QED BY <1>4, <1>6, <1>7

\* The node n leaves its bucket, and the cursor with it if it stood there.
LEMMA LeavesQueued ==
    ASSUME IInv, IInv', NEW n \in Nodes, NEW k \in Buckets, Contains(bucket[k], n),
           bucket' = [bucket EXCEPT ![k] = Erase(@, n)]
    PROVE  /\ Queued(n) /\ ~Queued(n)'
           /\ \A m \in Nodes \ {n} : Queued(m)' <=> Queued(m)
           /\ \A b \in Buckets, m \in Nodes : Contains(bucket'[b], m) => Contains(bucket[b], m) /\ m # n
           /\ \A b \in Buckets : \A c, x :
                 x # n /\ AtOrBehind(bucket[b], c, x)
                    => AtOrBehind(bucket'[b], IF c = n THEN NextOf(bucket[k], n) ELSE c, x)
  <1>1. TypeInv /\ ListsInv /\ TypeInv' /\ ListsInv' /\ n # END
    BY EndIsNoNode DEF IInv
  <1>2. /\ bucket[k] \in Seq(Nodes) /\ IsInjective(bucket[k])
        /\ \A b \in Buckets : bucket'[b] = IF b = k THEN Erase(bucket[k], n) ELSE bucket[b]
        /\ \A b \in Buckets : bucket[b] \in Seq(Nodes) /\ (Contains(bucket[b], n) => b = k)
    BY <1>1 DEF TypeInv, ListsInv
  <1>3. \A x : Contains(Erase(bucket[k], n), x) <=> Contains(bucket[k], x) /\ x # n
    BY <1>2, EraseMembers
  <1>4. \A b \in Buckets, m \in Nodes : Contains(bucket'[b], m) <=> Contains(bucket[b], m) /\ m # n
    BY <1>2, <1>3
  <1>5. \A m \in Nodes : /\ Queued(m) <=> \E b \in Buckets : Contains(bucket[b], m)
                         /\ Queued(m)' <=> \E b \in Buckets : Contains(bucket'[b], m)
    BY <1>1, BucketOfNode, QueuedAfter
  <1>6. ASSUME NEW b \in Buckets, NEW c, NEW x, x # n, AtOrBehind(bucket[b], c, x)
        PROVE  AtOrBehind(bucket'[b], IF c = n THEN NextOf(bucket[k], n) ELSE c, x)
    <2>1. CASE b = k /\ c = n
      BY <1>1, <1>2, <1>6, <2>1, BehindEraseNext
    <2>2. CASE b = k /\ c # n
      <3>1. AtOrBehind(Erase(bucket[k], n), c, x)
        BY <1>2, <1>6, <2>2, BehindErase
      <3> QED BY <1>2, <2>2, <3>1
    <2>3. CASE b # k
      <3>1. Contains(bucket[b], c)
        BY <1>2, <1>6, BehindContains
      <3>2. c # n
        BY <1>2, <2>3, <3>1
      <3> QED BY <1>2, <1>6, <2>3, <3>2
    <2> QED BY <2>1, <2>2, <2>3
  <1>7. Queued(n) /\ ~Queued(n)' /\ \A m \in Nodes \ {n} : Queued(m)' <=> Queued(m)
    BY <1>4, <1>5
  <1> QED BY <1>4, <1>6, <1>7

-----------------------------------------------------------------------------
LEMMA InitServes == ASSUME NEW last, LastTick(last), Init PROVE ServeInv(last)
  <1>1. TickInv(last)
    BY DEF LastTick, Init, TickInv
  <1>2. \A n \in Nodes : ~Queued(n)
    <2>1. \A n \in Nodes : BucketOf(n) \in Buckets
      BY InitInv, BucketOfNode DEF IInv
    <2>2. \A b \in Buckets : bucket[b] = << >>
      BY DEF Init
    <2> QED BY <2>1, <2>2 DEF Queued, Contains
  <1>3. NodesInv(last)
    <2>1. last \in Nat /\ last < WORD /\ 0 < WORD
      BY TimerAssumption DEF LastTick
    <2>2. \A n \in Nodes : node[n].period = 0 /\ node[n].repeatCount = 0
      BY DEF Init
    <2>3. pc = "idle"
      BY DEF Init
    <2> QED BY <1>2, <2>1, <2>2, <2>3 DEF NodesInv, Fits
  <1>4. WalkInv
    BY DEF Init, WalkInv
  <1> QED BY <1>1, <1>3, <1>4 DEF ServeInv

\* The tick a new timer is put down for.
LEMMA ExpireOfNew ==
    ASSUME NEW last, LastTick(last), TickInv(last), NEW delay \in Delays
    PROVE  LET e == Uint32(s_currentTick + (IF delay = 0 THEN 1 ELSE delay))
           IN  /\ e \in Nat /\ e >= currentTick
               /\ pc \in {"walk", "task"} => e > currentTick
  <1> DEFINE d == IF delay = 0 THEN 1 ELSE delay
  <1>1. /\ last \in Nat /\ last + 1 < WORD /\ last + delay < WORD /\ delay \in Nat /\ WORD \in Nat
        /\ currentTick \in Nat /\ s_currentTick \in 0 .. last /\ currentTick <= s_currentTick + 1
        /\ pc \in {"walk", "task"} => currentTick <= s_currentTick
    BY TimerAssumption DEF LastTick, TickInv
  <1>2. d \in Nat /\ d > 0 /\ last + d < WORD
    BY <1>1
  <1> HIDE DEF d
  <1>3. s_currentTick + d \in 0 .. WORD - 1
    BY <1>1, <1>2
  <1>4. Uint32(s_currentTick + d) = s_currentTick + d
    BY <1>3, Uint32Small
  <1>5. s_currentTick + d >= currentTick /\ (pc \in {"walk", "task"} => s_currentTick + d > currentTick)
    BY <1>1, <1>2
  <1> QED BY <1>1, <1>2, <1>4, <1>5 DEF d

\* The node a new timer is given, and the others.
LEMMA ScheduleFacts ==
    ASSUME IInv, IInv', NEW h \in Handles, NEW type \in Types, NEW delay \in Delays,
           NEW period \in Nat, NEW repeat \in Nat, Schedule(h, type, delay, period, repeat)
    PROVE  \E n \in Nodes, e \in Nat :
               /\ e = Uint32(s_currentTick + (IF delay = 0 THEN 1 ELSE delay))
               /\ n = Head(freeList) /\ Free(n)
               /\ \A b \in Buckets : ~Contains(bucket[b], n)
               /\ bucket' = [bucket EXCEPT ![HashTick(e)] = Append(@, n)]
               /\ node'[n] = [expire |-> e, period |-> period, repeatCount |-> repeat,
                              type |-> type, seq |-> StepUpTimerSeq(node[n].seq)]
               /\ \A m \in Nodes \ {n} : node'[m] = node[m]
  <1>1. /\ TypeInv /\ ListsInv /\ freeList # << >> /\ freeList \in Seq(Nodes) /\ IsInjective(freeList)
    BY DEF IInv, TypeInv, ListsInv, Schedule
  <1>2. PICK n \in Nodes : n = Head(freeList) /\ Contains(freeList, n)
    BY <1>1, TailMembers
  <1>3. PICK e \in Nat : e = Uint32(s_currentTick + (IF delay = 0 THEN 1 ELSE delay))
    <2>1. s_currentTick + (IF delay = 0 THEN 1 ELSE delay) \in Int
      BY <1>1, TimerAssumption DEF TypeInv
    <2> QED BY <2>1, Uint32IsNat
  <1>4. Free(n) /\ \A b \in Buckets : ~Contains(bucket[b], n)
    BY <1>1, <1>2 DEF ListsInv, Free
  <1> QED BY <1>1, <1>2, <1>3, <1>4 DEF Schedule, TypeInv

LEMMA ScheduleServes ==
    ASSUME IInv, IInv', NEW last, LastTick(last), ServeInv(last),
           NEW h \in Handles, NEW type \in Types, NEW delay \in Delays,
           NEW r \in Repeats, Schedule(h, type, delay, r[1], r[2])
    PROVE  ServeInv(last)'
  <1>1. /\ r[1] \in Nat /\ r[2] \in Nat /\ last + r[1] < WORD /\ r[2] < WORD /\ r[2] > 0
        /\ r[2] > 1 => r[1] > 0
    BY TimerAssumption DEF LastTick, Schedule
  <1>2. PICK n \in Nodes, e \in Nat :
        /\ e = Uint32(s_currentTick + (IF delay = 0 THEN 1 ELSE delay))
        /\ Free(n)
        /\ \A b \in Buckets : ~Contains(bucket[b], n)
        /\ bucket' = [bucket EXCEPT ![HashTick(e)] = Append(@, n)]
        /\ node'[n] = [expire |-> e, period |-> r[1], repeatCount |-> r[2],
                       type |-> type, seq |-> StepUpTimerSeq(node[n].seq)]
        /\ \A m \in Nodes \ {n} : node'[m] = node[m]
    BY <1>1, ScheduleFacts
  <1>3. e >= currentTick /\ (pc \in {"walk", "task"} => e > currentTick)
    BY <1>2, ExpireOfNew DEF ServeInv
  <1>4. UNCHANGED <<tickIterator, currentTick, s_currentTick, pc, mode, target, running>>
    BY DEF Schedule
  <1>5. /\ ~Queued(n) /\ \A m \in Nodes \ {n} : Queued(m)' <=> Queued(m)
        /\ \A b \in Buckets, m \in Nodes \ {n} : Contains(bucket'[b], m) => Contains(bucket[b], m)
        /\ \A b \in Buckets : \A c, x : AtOrBehind(bucket[b], c, x) => AtOrBehind(bucket'[b], c, x)
    BY <1>2, EntersQueued
  <1>6. pc = "task" => n # running
    BY <1>2 DEF IInv, OrphansInv, Orphans, Orphan
  <1>7. TickInv(last)'
    BY <1>4 DEF ServeInv, TickInv
  <1>8. NodesInv(last)'
    <2>1. Fits(n, last)' /\ Waits(n)'
      BY <1>1, <1>2, <1>3, <1>4 DEF Fits, Waits
    <2>2. ASSUME NEW m \in Nodes \ {n}
          PROVE  Fits(m, last)' /\ (Queued(m)' => Waits(m)') /\ (pc' = "task" /\ m = running' => Runs(m)')
      BY <1>2, <1>4, <1>5 DEF ServeInv, NodesInv, Fits, Waits, Runs
    <2> QED BY <1>4, <1>6, <2>1, <2>2 DEF NodesInv
  <1>9. WalkInv'
    <2>1. PICK k \in Buckets : k = HashTick(currentTick)
      BY HashInBuckets DEF IInv, TypeInv
    <2>2. ASSUME pc \in {"walk", "task"}, NEW m \in Nodes,
                 Contains(bucket'[k], m), node'[m].expire <= currentTick
          PROVE  AtOrBehind(bucket'[k], tickIterator, m)
      <3>1. currentTick \in Nat /\ node'[n].expire = e /\ e > currentTick
        BY <1>2, <1>3, <2>2 DEF IInv, TypeInv
      <3>2. m # n
        BY <2>2, <3>1
      <3>3. Contains(bucket[k], m) /\ node[m].expire <= currentTick
        BY <1>2, <1>5, <2>2, <3>2
      <3>4. AtOrBehind(bucket[k], tickIterator, m)
        BY <2>1, <2>2, <3>3 DEF ServeInv, WalkInv, Walked
      <3> QED BY <1>5, <3>4
    <2> QED BY <1>4, <2>1, <2>2 DEF WalkInv, Walked
  <1> QED BY <1>7, <1>8, <1>9 DEF ServeInv

LEMMA CancelOrphanServes ==
    ASSUME IInv, IInv', NEW last, LastTick(last), ServeInv(last), NEW h \in Handles, CancelOrphan(h)
    PROVE  ServeInv(last)'
  <1>1. PICK n \in Nodes :
        /\ node' = [node EXCEPT ![n].repeatCount = 0] /\ ~Queued(n)
        /\ UNCHANGED <<bucket, tickIterator, currentTick, s_currentTick, pc, mode, target, running>>
    BY HandleNamesNode DEF CancelOrphan, Cancelling, Orphan
  <1>2. /\ \A m \in Nodes : /\ node'[m].expire = node[m].expire /\ node'[m].period = node[m].period
                            /\ node'[m].repeatCount = IF m = n THEN 0 ELSE node[m].repeatCount
    BY <1>1 DEF IInv, TypeInv, NodeRecord
  <1>3. \A m \in Nodes : Queued(m)' <=> Queued(m)
    BY <1>1, <1>2 DEF Queued, BucketOf
  <1>4. TickInv(last)' /\ WalkInv'
    BY <1>1, <1>2 DEF ServeInv, TickInv, WalkInv, Walked
  <1>5. NodesInv(last)'
    <2> SUFFICES ASSUME NEW m \in Nodes
                 PROVE  /\ Fits(m, last)' /\ (Queued(m)' => Waits(m)')
                        /\ pc' = "task" /\ m = running' => Runs(m)'
      BY DEF NodesInv
    <2>1. /\ Fits(m, last) /\ (Queued(m) => Waits(m)) /\ (pc = "task" /\ m = running => Runs(m))
      BY DEF ServeInv, NodesInv
    <2>2. WORD \in Nat \ {0}
      BY TimerAssumption
    <2>3. Fits(m, last)'
      BY <1>2, <2>1, <2>2 DEF Fits
    <2>4. Queued(m)' => Waits(m)'
      BY <1>1, <1>2, <1>3, <2>1 DEF Waits
    <2>5. pc' = "task" /\ m = running' => Runs(m)'
      BY <1>1, <1>2, <2>1 DEF Runs
    <2> QED BY <2>3, <2>4, <2>5
  <1> QED BY <1>4, <1>5 DEF ServeInv

\* What a queued node that is cancelled leaves behind.
LEMMA CancelQueuedFacts ==
    ASSUME IInv, NEW h \in Handles, CancelQueued(h)
    PROVE  \E n \in Nodes, k \in Buckets :
               /\ n = handle[h].pos /\ Contains(bucket[k], n)
               /\ bucket' = [bucket EXCEPT ![k] = Erase(@, n)]
               /\ tickIterator' = IF tickIterator = n THEN NextOf(bucket[k], n) ELSE tickIterator
               /\ UNCHANGED <<node, currentTick, s_currentTick, pc, mode, target, running>>
  <1>1. handle[h].pos \in Nodes /\ TypeInv /\ ListsInv
    BY HandleNamesNode DEF CancelQueued, Cancelling, IInv
  <1>2. BucketOf(handle[h].pos) \in Buckets
    BY <1>1, BucketOfNode
  <1> QED BY <1>1, <1>2 DEF CancelQueued, Queued

LEMMA CancelQueuedServes ==
    ASSUME IInv, IInv', NEW last, LastTick(last), ServeInv(last), NEW h \in Handles, CancelQueued(h)
    PROVE  ServeInv(last)'
  <1>1. PICK n \in Nodes, k \in Buckets :
        /\ Contains(bucket[k], n)
        /\ bucket' = [bucket EXCEPT ![k] = Erase(@, n)]
        /\ tickIterator' = IF tickIterator = n THEN NextOf(bucket[k], n) ELSE tickIterator
        /\ UNCHANGED <<node, currentTick, s_currentTick, pc, mode, target, running>>
    BY CancelQueuedFacts
  <1>2. /\ ~Queued(n)' /\ \A m \in Nodes \ {n} : Queued(m)' <=> Queued(m)
        /\ \A b \in Buckets, m \in Nodes : Contains(bucket'[b], m) => Contains(bucket[b], m) /\ m # n
        /\ \A b \in Buckets : \A c, x :
              x # n /\ AtOrBehind(bucket[b], c, x)
                 => AtOrBehind(bucket'[b], IF c = n THEN NextOf(bucket[k], n) ELSE c, x)
    BY <1>1, LeavesQueued
  <1>3. TickInv(last)'
    BY <1>1 DEF ServeInv, TickInv
  <1>4. NodesInv(last)'
    BY <1>1, <1>2 DEF ServeInv, NodesInv, Fits, Waits, Runs
  <1>5. WalkInv'
    <2>1. HashTick(currentTick) \in Buckets
      BY HashInBuckets DEF IInv, TypeInv
    <2> QED BY <1>1, <1>2, <2>1 DEF ServeInv, WalkInv, Walked
  <1> QED BY <1>3, <1>4, <1>5 DEF ServeInv

\* The node whose task begins.
LEMMA TimeOutFacts ==
    ASSUME IInv, NEW last, LastTick(last), ServeInv(last), TimeOut
    PROVE  \E n \in Nodes, k \in Buckets :
               /\ n = tickIterator /\ k = HashTick(currentTick) /\ Contains(bucket[k], n)
               /\ pc = "walk" /\ pc' = "task" /\ running' = n
               /\ bucket' = [bucket EXCEPT ![k] = Erase(@, n)]
               /\ tickIterator' = NextOf(bucket[k], n)
               /\ node[n].expire = currentTick /\ Queued(n) /\ Fits(n, last) /\ Waits(n)
               /\ node' = [node EXCEPT ![n].repeatCount = @ - 1]
               /\ UNCHANGED <<currentTick, s_currentTick, mode, target>>
  <1>1. PICK n \in Nodes, k \in Buckets :
            n = tickIterator /\ k = HashTick(currentTick) /\ Contains(bucket[k], n) /\ Due(n)
    <2>1. tickIterator \in Nodes /\ HashTick(currentTick) \in Buckets
      BY HashInBuckets DEF TimeOut, IInv, TypeInv
    <2>2. Contains(bucket[HashTick(currentTick)], tickIterator) /\ Due(tickIterator)
      BY DEF TimeOut, IInv, CursorInBucket
    <2> QED BY <2>1, <2>2
  <1>2. Queued(n)
    BY <1>1, BucketOfNode DEF IInv
  <1>3. Fits(n, last) /\ Waits(n)
    BY <1>1, <1>2 DEF ServeInv, NodesInv
  <1>4. node[n].expire \in Nat /\ node[n].repeatCount \in Nat /\ currentTick \in Nat
    BY DEF IInv, TypeInv, NodeRecord
  <1>5. node[n].expire = currentTick
    BY <1>1, <1>3, <1>4 DEF Due, Waits
  <1>6. Uint32(node[n].repeatCount - 1) = node[n].repeatCount - 1
    <2>1. node[n].repeatCount - 1 \in 0 .. WORD - 1
      BY <1>3, <1>4, TimerAssumption DEF Waits, Fits
    <2> QED BY <2>1, Uint32Small
  <1> QED BY <1>1, <1>2, <1>3, <1>5, <1>6 DEF TimeOut

LEMMA TimeOutServes ==
    ASSUME IInv, IInv', NEW last, LastTick(last), ServeInv(last), TimeOut
    PROVE  ServeInv(last)'
  <1>1. PICK n \in Nodes, k \in Buckets :
            /\ n = tickIterator /\ k = HashTick(currentTick) /\ Contains(bucket[k], n)
            /\ pc = "walk" /\ pc' = "task" /\ running' = n
            /\ bucket' = [bucket EXCEPT ![k] = Erase(@, n)]
            /\ tickIterator' = NextOf(bucket[k], n)
            /\ node[n].expire = currentTick /\ Queued(n) /\ Fits(n, last) /\ Waits(n)
            /\ node' = [node EXCEPT ![n].repeatCount = @ - 1]
            /\ UNCHANGED <<currentTick, s_currentTick, mode, target>>
    BY TimeOutFacts
  <1>2. /\ ~Queued(n)' /\ \A m \in Nodes \ {n} : Queued(m)' <=> Queued(m)
        /\ \A b \in Buckets, m \in Nodes : Contains(bucket'[b], m) => Contains(bucket[b], m) /\ m # n
        /\ \A b \in Buckets : \A c, x :
              x # n /\ AtOrBehind(bucket[b], c, x)
                 => AtOrBehind(bucket'[b], IF c = n THEN NextOf(bucket[k], n) ELSE c, x)
    BY <1>1, LeavesQueued
  <1>3. /\ node'[n].expire = node[n].expire /\ node'[n].period = node[n].period
        /\ node'[n].repeatCount = node[n].repeatCount - 1 /\ node[n].repeatCount \in Nat
        /\ \A m \in Nodes \ {n} : node'[m] = node[m]
    BY <1>1 DEF IInv, TypeInv, NodeRecord
  <1>4. TickInv(last)'
    BY <1>1 DEF ServeInv, TickInv
  <1>5. NodesInv(last)'
    <2>1. Fits(n, last)'
      BY <1>1, <1>3, TimerAssumption DEF Fits
    <2>2. Runs(n)'
      BY <1>1, <1>3 DEF Waits, Runs
    <2>3. ASSUME NEW m \in Nodes \ {n} PROVE Fits(m, last)' /\ (Queued(m)' => Waits(m)')
      BY <1>1, <1>2, <1>3 DEF ServeInv, NodesInv, Fits, Waits
    <2> QED BY <1>1, <1>2, <2>1, <2>2, <2>3 DEF NodesInv
  <1>6. WalkInv'
    <2>1. ASSUME NEW m \in Nodes, Contains(bucket'[k], m), node'[m].expire <= currentTick
          PROVE  AtOrBehind(bucket'[k], tickIterator', m)
      <3>1. m # n /\ Contains(bucket[k], m) /\ node[m].expire <= currentTick
        BY <1>2, <1>3, <2>1
      <3>2. AtOrBehind(bucket[k], n, m)
        BY <1>1, <3>1 DEF ServeInv, WalkInv, Walked
      <3> QED BY <1>1, <1>2, <3>1, <3>2
    <2> QED BY <1>1, <2>1 DEF WalkInv, Walked
  <1> QED BY <1>4, <1>5, <1>6 DEF ServeInv

\* The node whose task is done goes on to a tick that is not yet walked.
LEMMA RearmFacts ==
    ASSUME IInv, NEW last, LastTick(last), ServeInv(last), Rearm
    PROVE  \E n \in Nodes, e \in Nat :
               /\ n = running /\ pc = "task" /\ pc' = "walk"
               /\ e > currentTick /\ e >= currentTick + node[n].period
               /\ \A b \in Buckets : ~Contains(bucket[b], n)
               /\ bucket' = [bucket EXCEPT ![HashTick(e)] = Append(@, n)]
               /\ node[n].expire = currentTick /\ node[n].repeatCount > 0 /\ node[n].period > 0
               /\ Fits(n, last)
               /\ node' = [node EXCEPT ![n].expire = e]
               /\ UNCHANGED <<tickIterator, currentTick, s_currentTick, mode, target>>
  <1>1. PICK n \in Nodes : n = running /\ n \in Orphans
    BY DEF Rearm, IInv, TypeInv, OrphansInv
  <1>2. /\ node[n].expire \in Nat /\ node[n].repeatCount \in Nat /\ node[n].period \in Nat
        /\ currentTick \in Nat /\ s_currentTick \in Nat
    BY DEF IInv, TypeInv, NodeRecord
  <1>3. node[n].expire = currentTick /\ node[n].repeatCount > 0 /\ node[n].period > 0 /\ Fits(n, last)
    <2>1. Fits(n, last) /\ Runs(n) /\ node[n].repeatCount # 0
      BY <1>1 DEF ServeInv, NodesInv, Rearm
    <2> QED BY <1>2, <2>1 DEF Runs
  <1>4. PICK s \in Nat : s = IF mode = "tick" THEN node[n].expire ELSE s_currentTick
    BY <1>2
  <1>5. s \in currentTick .. last /\ last \in Nat
    BY <1>2, <1>3, <1>4 DEF ServeInv, TickInv, Rearm, LastTick
  <1>6. s + node[n].period \in 0 .. WORD - 1
    BY <1>2, <1>3, <1>5, TimerAssumption DEF Fits
  <1>7. NextExpire(n) = s + node[n].period
    BY <1>4, <1>6, Uint32Small DEF NextExpire
  <1>8. PICK e \in Nat : e = NextExpire(n)
    BY <1>6, <1>7
  <1>9. e > currentTick /\ e >= currentTick + node[n].period
    BY <1>2, <1>3, <1>5, <1>7, <1>8
  <1>10. \A b \in Buckets : ~Contains(bucket[b], n)
    BY <1>1, BucketOfNode DEF IInv, Orphans, Orphan
  <1> QED BY <1>1, <1>3, <1>8, <1>9, <1>10 DEF Rearm

LEMMA RearmServes ==
    ASSUME IInv, IInv', NEW last, LastTick(last), ServeInv(last), Rearm
    PROVE  ServeInv(last)'
  <1>1. PICK n \in Nodes, e \in Nat :
            /\ n = running /\ pc = "task" /\ pc' = "walk"
            /\ e > currentTick /\ e >= currentTick + node[n].period
            /\ \A b \in Buckets : ~Contains(bucket[b], n)
            /\ bucket' = [bucket EXCEPT ![HashTick(e)] = Append(@, n)]
            /\ node[n].expire = currentTick /\ node[n].repeatCount > 0 /\ node[n].period > 0
            /\ Fits(n, last)
            /\ node' = [node EXCEPT ![n].expire = e]
            /\ UNCHANGED <<tickIterator, currentTick, s_currentTick, mode, target>>
    BY RearmFacts
  <1>2. /\ ~Queued(n) /\ \A m \in Nodes \ {n} : Queued(m)' <=> Queued(m)
        /\ \A b \in Buckets, m \in Nodes \ {n} : Contains(bucket'[b], m) => Contains(bucket[b], m)
        /\ \A b \in Buckets : \A c, x : AtOrBehind(bucket[b], c, x) => AtOrBehind(bucket'[b], c, x)
    BY <1>1, EntersQueued
  <1>3. /\ node'[n].expire = e /\ node'[n].period = node[n].period
        /\ node'[n].repeatCount = node[n].repeatCount
        /\ \A m \in Nodes \ {n} : node'[m] = node[m]
    BY <1>1 DEF IInv, TypeInv, NodeRecord
  <1>4. TickInv(last)'
    BY <1>1 DEF ServeInv, TickInv
  <1>5. currentTick \in Nat
    BY DEF IInv, TypeInv
  <1>6. NodesInv(last)'
    <2>1. Fits(n, last)' /\ Waits(n)'
      BY <1>1, <1>3, <1>5 DEF Fits, Waits
    <2>2. ASSUME NEW m \in Nodes \ {n} PROVE Fits(m, last)' /\ (Queued(m)' => Waits(m)')
      BY <1>1, <1>2, <1>3 DEF ServeInv, NodesInv, Fits, Waits
    <2> QED BY <1>1, <2>1, <2>2 DEF NodesInv
  <1>7. WalkInv'
    <2>1. PICK k \in Buckets : k = HashTick(currentTick)
      BY HashInBuckets DEF IInv, TypeInv
    <2>2. ASSUME NEW m \in Nodes, Contains(bucket'[k], m), node'[m].expire <= currentTick
          PROVE  AtOrBehind(bucket'[k], tickIterator, m)
      <3>1. m # n
        BY <1>1, <1>3, <1>5, <2>2
      <3>2. Contains(bucket[k], m) /\ node[m].expire <= currentTick
        BY <1>2, <1>3, <2>2, <3>1
      <3>3. AtOrBehind(bucket[k], tickIterator, m)
        BY <1>1, <2>1, <3>2 DEF ServeInv, WalkInv, Walked
      <3> QED BY <1>2, <3>3
    <2> QED BY <1>1, <2>1, <2>2 DEF WalkInv, Walked
  <1> QED BY <1>4, <1>6, <1>7 DEF ServeInv

\* The walk is over when everything that was due has run.
LEMMA NothingIsDue ==
    ASSUME IInv, NEW last, ServeInv(last), pc = "walk", tickIterator = END,
           NEW n \in Nodes, Queued(n)
    PROVE  node[n].expire > currentTick
  <1>1. /\ node[n].expire \in Nat /\ currentTick \in Nat /\ node[n].expire >= currentTick
        /\ BucketOf(n) \in Buckets /\ bucket[BucketOf(n)] \in Seq(Nodes)
    BY BucketOfNode DEF IInv, TypeInv, NodeRecord, ServeInv, NodesInv, Waits
  <1>2. CASE node[n].expire = currentTick
    <2>1. Contains(Walked, n) /\ Walked = bucket[BucketOf(n)] /\ node[n].expire <= currentTick
      BY <1>1, <1>2 DEF Queued, BucketOf, Walked
    <2>2. AtOrBehind(bucket[BucketOf(n)], END, n)
      BY <2>1 DEF ServeInv, WalkInv
    <2> QED BY <1>1, <2>2, NoneBehindEnd
  <1> QED BY <1>1, <1>2

LEMMA WalkEndServes ==
    ASSUME IInv, NEW last, LastTick(last), ServeInv(last), WalkEnd
    PROVE  ServeInv(last)'
  <1>1. /\ pc = "walk" /\ tickIterator = END /\ currentTick' = currentTick + 1
        /\ pc' = IF currentTick + 1 < target THEN "tick" ELSE "idle"
        /\ UNCHANGED <<node, bucket, s_currentTick, mode, target>>
    BY DEF WalkEnd
  <1>2. TickInv(last)'
    BY <1>1 DEF ServeInv, TickInv, LastTick
  <1>3. NodesInv(last)'
    <2> SUFFICES ASSUME NEW n \in Nodes PROVE Fits(n, last)' /\ (Queued(n)' => Waits(n)')
      BY <1>1 DEF NodesInv
    <2>1. Fits(n, last) /\ (Queued(n) => Waits(n)) /\ (Queued(n)' <=> Queued(n))
      BY <1>1 DEF ServeInv, NodesInv, Queued, BucketOf
    <2>2. Queued(n) => node[n].expire > currentTick
      BY <1>1, NothingIsDue
    <2>3. currentTick \in Nat /\ node[n].expire \in Nat
      BY DEF IInv, TypeInv, NodeRecord
    <2> QED BY <1>1, <2>1, <2>2, <2>3 DEF Fits, Waits
  <1>4. WalkInv'
    BY <1>1 DEF WalkInv
  <1> QED BY <1>2, <1>3, <1>4 DEF ServeInv

LEMMA PassOverServes ==
    ASSUME IInv, NEW last, LastTick(last), ServeInv(last), PassOver
    PROVE  ServeInv(last)'
  <1>1. /\ pc = "walk" /\ tickIterator # END /\ ~Due(tickIterator)
        /\ tickIterator' = NextOf(Walked, tickIterator)
        /\ UNCHANGED <<node, bucket, currentTick, s_currentTick, pc, mode, target>>
    BY DEF PassOver, Walked
  <1>2. TickInv(last)'
    BY <1>1 DEF ServeInv, TickInv
  <1>3. NodesInv(last)'
    BY <1>1 DEF ServeInv, NodesInv, Fits, Queued, BucketOf, Waits
  <1>4. WalkInv'
    <2>1. PICK s \in Seq(Nodes) : s = Walked /\ IsInjective(s)
      BY HashInBuckets DEF IInv, TypeInv, ListsInv, Walked
    <2>2. ASSUME NEW m \in Nodes, Contains(s, m), node[m].expire <= currentTick
          PROVE  AtOrBehind(s, NextOf(s, tickIterator), m)
      <3>1. AtOrBehind(s, tickIterator, m)
        BY <1>1, <2>1, <2>2 DEF ServeInv, WalkInv
      <3>2. currentTick \in Nat /\ node[m].expire \in Nat
        BY DEF IInv, TypeInv, NodeRecord
      <3>3. m # tickIterator
        BY <1>1, <2>2, <3>2 DEF Due
      <3> QED BY <2>1, <3>1, <3>3, BehindNext
    <2>3. Walked' = Walked
      BY <1>1 DEF Walked
    <2> QED BY <1>1, <2>1, <2>2, <2>3 DEF WalkInv
  <1> QED BY <1>2, <1>3, <1>4 DEF ServeInv

LEMMA WalkBeginServes ==
    ASSUME IInv, NEW last, LastTick(last), ServeInv(last), WalkBegin
    PROVE  ServeInv(last)'
  <1>1. /\ pc = "tick" /\ pc' = "walk" /\ tickIterator' = Begin(Walked)
        /\ s_currentTick' = IF mode = "tick" THEN currentTick ELSE s_currentTick
        /\ UNCHANGED <<node, bucket, currentTick, mode, target>>
    BY DEF WalkBegin, Walked
  <1>2. TickInv(last)'
    BY <1>1 DEF ServeInv, TickInv, LastTick
  <1>3. NodesInv(last)'
    BY <1>1 DEF ServeInv, NodesInv, Fits, Queued, BucketOf, Waits
  <1>4. WalkInv'
    <2>1. PICK s \in Seq(Nodes) : s = Walked
      BY HashInBuckets DEF IInv, TypeInv, Walked
    <2>2. \A m \in Nodes : Contains(s, m) => AtOrBehind(s, Begin(s), m)
      BY BehindBegin
    <2>3. Walked' = Walked
      BY <1>1 DEF Walked
    <2> QED BY <1>1, <2>1, <2>2, <2>3 DEF WalkInv
  <1> QED BY <1>2, <1>3, <1>4 DEF ServeInv

\* Time may pass and tasks may end where no node and no list changes.
LEMMA TicksServe ==
    ASSUME NEW last, ServeInv(last), UNCHANGED <<node, bucket>>, TickInv(last)',
           \/ UNCHANGED <<pc, running, tickIterator, currentTick>>
           \/ pc' \in {"idle", "tick"} /\ currentTick' = currentTick
           \/ pc = "task" /\ pc' = "walk" /\ UNCHANGED <<tickIterator, currentTick>>
    PROVE  ServeInv(last)'
  <1>1. \A n \in Nodes : Queued(n)' <=> Queued(n)
    BY DEF Queued, BucketOf
  <1>2. currentTick' = currentTick
    OBVIOUS
  <1>3. NodesInv(last)'
    BY <1>1, <1>2 DEF ServeInv, NodesInv, Fits, Waits, Runs
  <1>4. WalkInv'
    BY <1>2 DEF ServeInv, WalkInv, Walked
  <1> QED BY <1>3, <1>4 DEF ServeInv

LEMMA QuietServes ==
    ASSUME IInv, NEW last, LastTick(last), ServeInv(last),
           \/ \E h \in Handles, r \in Repeats : ScheduleFail(h, r[1], r[2])
           \/ \E h \in Handles : CancelStale(h)
           \/ \E c \in Clocks : TickBegin(c) \/ SkipTickBegin(c)
           \/ Retire \/ CrashAndResume \/ UNCHANGED vars
    PROVE  ServeInv(last)'
  <1>1. TickInv(last)
    BY DEF ServeInv
  <1>2. CASE \/ \E h \in Handles, r \in Repeats : ScheduleFail(h, r[1], r[2])
             \/ \E h \in Handles : CancelStale(h)
             \/ UNCHANGED vars
    <2>1. UNCHANGED <<node, bucket, pc, mode, target, running, tickIterator, currentTick, s_currentTick>>
      BY <1>2 DEF ScheduleFail, CancelStale, vars, shm
    <2>2. TickInv(last)'
      BY <1>1, <2>1 DEF TickInv
    <2> QED BY <2>1, <2>2, TicksServe
  <1>3. CASE \E c \in Clocks : TickBegin(c) \/ SkipTickBegin(c)
    <2>1. PICK c \in Clocks : TickBegin(c) \/ SkipTickBegin(c)
      BY <1>3
    <2>2. c \in 0 .. last /\ last \in Nat /\ last + 1 < WORD
      BY DEF LastTick
    <2>3. Uint32(c) = c
      <3>1. c \in 0 .. WORD - 1
        BY <2>2, TimerAssumption
      <3> QED BY <3>1, Uint32Small
    <2>4. /\ pc = "idle" /\ UNCHANGED <<node, bucket, running, tickIterator, currentTick>>
          /\ \/ UNCHANGED <<pc, mode, target>>
             \/ pc' = "tick" /\ mode' = "tick" /\ target' = c /\ c > currentTick
                /\ s_currentTick' = s_currentTick
             \/ pc' = "tick" /\ mode' = "skip" /\ target' = c /\ c > currentTick
                /\ s_currentTick' = c
          /\ s_currentTick' = s_currentTick \/ (c >= currentTick /\ s_currentTick' = c)
      BY <2>1, <2>3 DEF TickBegin, SkipTickBegin, shm
    <2>5. TickInv(last)'
      BY <1>1, <2>2, <2>4 DEF TickInv
    <2> QED BY <2>4, <2>5, TicksServe
  <1>4. CASE Retire
    <2>1. /\ pc = "task" /\ pc' = "walk"
          /\ UNCHANGED <<node, bucket, mode, target, tickIterator, currentTick, s_currentTick>>
      BY <1>4 DEF Retire
    <2>2. TickInv(last)'
      BY <1>1, <2>1 DEF TickInv
    <2> QED BY <2>1, <2>2, TicksServe
  <1>5. CASE CrashAndResume
    <2>1. /\ pc' = "idle" /\ mode' = "tick" /\ s_currentTick' = currentTick
          /\ UNCHANGED <<node, bucket, currentTick>>
      BY <1>5 DEF CrashAndResume, Restart
    <2>2. TickInv(last)'
      BY <1>1, <2>1 DEF TickInv
    <2> QED BY <2>1, <2>2, TicksServe
  <1> QED BY <1>2, <1>3, <1>4, <1>5

LEMMA NextServes ==
    ASSUME IInv, IInv', NEW last, LastTick(last), ServeInv(last), [Next]_vars
    PROVE  ServeInv(last)'
  <1>1. CASE \E h \in Handles, type \in Types, delay \in Delays, r \in Repeats :
                Schedule(h, type, delay, r[1], r[2])
    BY <1>1, ScheduleServes
  <1>2. CASE \E h \in Handles : CancelOrphan(h) \/ CancelQueued(h)
    BY <1>2, CancelOrphanServes, CancelQueuedServes
  <1>3. CASE TickStep /\ ~Retire
    BY <1>3, WalkBeginServes, TimeOutServes, PassOverServes, RearmServes, WalkEndServes DEF TickStep
  <1>4. CASE \/ \E h \in Handles, r \in Repeats : ScheduleFail(h, r[1], r[2])
             \/ \E h \in Handles : CancelStale(h)
             \/ \E c \in Clocks : TickBegin(c) \/ SkipTickBegin(c)
             \/ Retire \/ CrashAndResume \/ UNCHANGED vars
    BY <1>4, QuietServes
  <1> QED BY <1>1, <1>2, <1>3, <1>4 DEF Next

-----------------------------------------------------------------------------
(* The timers that wait, as TimerService has them. *)

\* An id names one node.
LEMMA PendingAt ==
    /\ DOMAIN Pending = {TimerIdOf(n) : n \in {m \in Nodes : Queued(m)}}
    /\ \A n \in Nodes : Queued(n) => TimerIdOf(n) \in DOMAIN Pending /\ Pending[TimerIdOf(n)] = TurnOf(n)
    /\ \A n \in Nodes : ~Queued(n) => TimerIdOf(n) \notin DOMAIN Pending
    /\ \A n \in Nodes : TimerIdOf(n).pos = n
  <1>1. \A n \in Nodes : TimerIdOf(n).pos = n
    BY DEF TimerIdOf
  <1> QED BY <1>1 DEF Pending

LEMMA PendingKept ==
    ASSUME \A n \in Nodes : (Queued(n)' <=> Queued(n)) /\ (Queued(n) => node'[n] = node[n])
    PROVE  Pending' = Pending
  <1>1. \A n \in Nodes : Queued(n) => TimerIdOf(n)' = TimerIdOf(n) /\ TurnOf(n)' = TurnOf(n)
    BY DEF TimerIdOf, TurnOf
  <1>2. {TimerIdOf(n) : n \in {m \in Nodes : Queued(m)}}' = {TimerIdOf(n) : n \in {m \in Nodes : Queued(m)}}
    BY <1>1
  <1>3. \A id \in DOMAIN Pending : TurnOf(id.pos)' = TurnOf(id.pos)
    BY <1>1, PendingAt
  <1> QED BY <1>2, <1>3, PendingAt DEF Pending

\* The timer of the node n leaves, and nothing else changes.
LEMMA PendingDropped ==
    ASSUME NEW n \in Nodes, Queued(n), ~Queued(n)',
           \A m \in Nodes \ {n} : (Queued(m)' <=> Queued(m)) /\ (Queued(m) => node'[m] = node[m])
    PROVE  Promise!Dropped(TimerIdOf(n))
  <1>1. \A m \in Nodes \ {n} : Queued(m) => TimerIdOf(m)' = TimerIdOf(m) /\ TurnOf(m)' = TurnOf(m)
    BY DEF TimerIdOf, TurnOf
  <1>2. \A m \in Nodes \ {n} : TimerIdOf(m) # TimerIdOf(n)
    BY PendingAt
  <1>3. {TimerIdOf(m) : m \in {k \in Nodes : Queued(k)}}' = DOMAIN Pending \ {TimerIdOf(n)}
    BY <1>1, <1>2, PendingAt
  <1>4. \A id \in DOMAIN Pending \ {TimerIdOf(n)} : TurnOf(id.pos)' = Pending[id]
    BY <1>1, PendingAt
  <1>5. Pending' = [id \in DOMAIN Pending \ {TimerIdOf(n)} |-> Pending[id]]
    BY <1>3, <1>4 DEF Pending
  <1> QED BY <1>5, PendingAt DEF Promise!Dropped

\* The timer of the node n enters, and nothing else changes.
LEMMA PendingAdded ==
    ASSUME TypeInv', NEW n \in Nodes, NEW id, id = TimerIdOf(n)', ~Queued(n), Queued(n)',
           \A m \in Nodes \ {n} : (Queued(m)' <=> Queued(m)) /\ (Queued(m) => node'[m] = node[m])
    PROVE  Promise!Added(id) /\ Pending'[id] = TurnOf(n)'
  <1>1. \A m \in Nodes \ {n} : Queued(m) => TimerIdOf(m)' = TimerIdOf(m) /\ TurnOf(m)' = TurnOf(m)
    BY DEF TimerIdOf, TurnOf
  <1>2. id.pos = n /\ id \notin DOMAIN Pending
    <2>1. id.pos = n
      BY DEF TimerIdOf
    <2> QED BY <2>1, PendingAt
  <1>3. DOMAIN Pending' = DOMAIN Pending \cup {id}
    <2>1. DOMAIN Pending' = {TimerIdOf(m) : m \in {k \in Nodes : Queued(k)}}'
      BY DEF Pending
    <2> QED BY <1>1, <2>1, PendingAt
  <1>4. \A i \in DOMAIN Pending : Pending'[i] = Pending[i]
    <2> SUFFICES ASSUME NEW i \in DOMAIN Pending PROVE Pending'[i] = Pending[i]
      OBVIOUS
    <2>1. PICK m \in Nodes : Queued(m) /\ i = TimerIdOf(m)
      BY PendingAt
    <2>2. m # n /\ i.pos = m /\ Pending[i] = TurnOf(m)
      BY <2>1, PendingAt
    <2>3. i \in DOMAIN Pending'
      BY <1>3
    <2>4. Pending'[i] = TurnOf(i.pos)'
      BY <2>3 DEF Pending
    <2> QED BY <1>1, <2>1, <2>2, <2>4
  <1>5. Pending'[id] = TurnOf(n)'
    <2>1. id \in DOMAIN Pending'
      BY <1>3
    <2>2. Pending'[id] = TurnOf(id.pos)'
      BY <2>1 DEF Pending
    <2> QED BY <1>2, <2>2
  <1>6. TurnOf(n)' \in Promise!Timer
    BY DEF TypeInv, NodeRecord, TurnOf, Promise!Timer
  <1> QED BY <1>2, <1>3, <1>4, <1>5, <1>6 DEF Promise!Added

\* Whether a task runs, and which, as TimerService has it.
RunningId == IF pc = "task" THEN TimerIdOf(running) ELSE INVALID_TIMER_ID
RunningTurn == IF pc = "task" THEN TurnOf(running) ELSE INVALID_TIMER_ID

LEMMA RunningIsATimer ==
    ASSUME IInv PROVE (pc = "task") <=> (RunningId # INVALID_TIMER_ID)
  BY DEF IInv, TypeInv, RunningId, TimerIdOf, INVALID_TIMER_ID, Nodes

LEMMA RunningKept ==
    ASSUME pc' = pc, running' = running, pc = "task" => node'[running] = node[running]
    PROVE  RunningId' = RunningId /\ RunningTurn' = RunningTurn
  BY DEF RunningId, RunningTurn, TimerIdOf, TurnOf

LEMMA InitPromised == ASSUME Init PROVE Promise!Init
  <1>1. \A n \in Nodes : ~Queued(n)
    <2>1. \A n \in Nodes : BucketOf(n) \in Buckets
      BY InitInv, BucketOfNode DEF IInv
    <2>2. \A b \in Buckets : bucket[b] = << >>
      BY DEF Init
    <2> QED BY <2>1, <2>2 DEF Queued, Contains
  <1>2. Pending = [id \in {} |-> 0]
    BY <1>1 DEF Pending
  <1> QED BY <1>2 DEF Init, Promise!Init

LEMMA SchedulePromised ==
    ASSUME IInv, IInv', NEW last, LastTick(last), ServeInv(last),
           NEW h \in Handles, NEW type \in Types, NEW delay \in Delays,
           NEW r \in Repeats, Schedule(h, type, delay, r[1], r[2])
    PROVE  Promise!Next
  <1>1. r[1] \in Nat /\ r[2] \in Nat
    BY TimerAssumption
  <1>2. PICK n \in Nodes, e \in Nat :
        /\ e = Uint32(s_currentTick + (IF delay = 0 THEN 1 ELSE delay))
        /\ Free(n)
        /\ \A b \in Buckets : ~Contains(bucket[b], n)
        /\ bucket' = [bucket EXCEPT ![HashTick(e)] = Append(@, n)]
        /\ node'[n] = [expire |-> e, period |-> r[1], repeatCount |-> r[2],
                       type |-> type, seq |-> StepUpTimerSeq(node[n].seq)]
        /\ \A m \in Nodes \ {n} : node'[m] = node[m]
    BY <1>1, ScheduleFacts
  <1>3. e >= currentTick
    BY <1>2, ExpireOfNew DEF ServeInv
  <1>4. UNCHANGED <<currentTick, pc, running>>
    BY DEF Schedule
  <1>5. ~Queued(n) /\ Queued(n)' /\ \A m \in Nodes \ {n} : Queued(m)' <=> Queued(m)
    BY <1>2, EntersQueued
  <1>6. pc = "task" => n # running /\ running \in Nodes
    BY <1>2 DEF IInv, TypeInv, OrphansInv, Orphans, Orphan
  <1>7. PICK id : id = TimerIdOf(n)'
    OBVIOUS
  <1>8. Promise!Added(id) /\ Pending'[id] = TurnOf(n)'
    BY <1>2, <1>5, <1>7, PendingAdded DEF IInv
  <1>9. RunningId' = RunningId /\ RunningTurn' = RunningTurn
    BY <1>2, <1>4, <1>6, RunningKept
  <1>10. id # RunningId
    BY <1>6, <1>7 DEF RunningId, TimerIdOf, INVALID_TIMER_ID, Nodes
  <1>11. Pending'[id].due >= currentTick
    BY <1>2, <1>3, <1>8 DEF TurnOf
  <1>12. id \in DOMAIN Pending'
    BY <1>8 DEF Promise!Added
  <1>13. Promise!Schedule(id)
    BY <1>4, <1>8, <1>9, <1>10, <1>11 DEF Promise!Schedule, RunningId, RunningTurn
  <1> QED BY <1>12, <1>13 DEF Promise!Next

LEMMA CancelQueuedPromised ==
    ASSUME IInv, IInv', NEW h \in Handles, CancelQueued(h) PROVE Promise!Next
  <1>1. PICK n \in Nodes, k \in Buckets :
            /\ Contains(bucket[k], n)
            /\ bucket' = [bucket EXCEPT ![k] = Erase(@, n)]
            /\ UNCHANGED <<node, currentTick, pc, running>>
    BY CancelQueuedFacts
  <1>2. Queued(n) /\ ~Queued(n)' /\ \A m \in Nodes \ {n} : Queued(m)' <=> Queued(m)
    BY <1>1, LeavesQueued
  <1>3. Promise!Dropped(TimerIdOf(n))
    BY <1>1, <1>2, PendingDropped
  <1>4. RunningId' = RunningId /\ RunningTurn' = RunningTurn
    BY <1>1, RunningKept
  <1>5. Promise!CancelPending(TimerIdOf(n)) /\ TimerIdOf(n) \in DOMAIN Pending
    BY <1>1, <1>3, <1>4 DEF Promise!CancelPending, Promise!Dropped, RunningId, RunningTurn
  <1> QED BY <1>5 DEF Promise!Next

\* A node in no list is the one whose task runs, or one a death left behind.
LEMMA CancelOrphanPromised ==
    ASSUME IInv, NEW h \in Handles, CancelOrphan(h)
    PROVE  Promise!Next \/ UNCHANGED Promise!vars
  <1>1. PICK n \in Nodes :
            /\ node' = [node EXCEPT ![n].repeatCount = 0] /\ ~Queued(n)
            /\ UNCHANGED <<bucket, currentTick, pc, running>>
    BY HandleNamesNode DEF CancelOrphan, Cancelling, Orphan
  <1>2. /\ \A m \in Nodes \ {n} : node'[m] = node[m]
        /\ node'[n].expire = node[n].expire /\ node'[n].period = node[n].period
        /\ node'[n].type = node[n].type /\ node'[n].seq = node[n].seq /\ node'[n].repeatCount = 0
    BY <1>1 DEF IInv, TypeInv, NodeRecord
  <1>3. \A m \in Nodes : Queued(m)' <=> Queued(m)
    BY <1>1, <1>2 DEF Queued, BucketOf
  <1>4. Pending' = Pending
    BY <1>1, <1>2, <1>3, PendingKept
  <1>5. CASE pc = "task" /\ n = running
    <2>1. RunningId' = RunningId /\ RunningId # INVALID_TIMER_ID
      BY <1>1, <1>2, <1>5, RunningIsATimer DEF RunningId, TimerIdOf
    <2>2. RunningTurn' = [RunningTurn EXCEPT !.left = 0]
      BY <1>1, <1>2, <1>5 DEF RunningTurn, TurnOf
    <2>3. Promise!CancelRunning
      BY <1>1, <1>4, <2>1, <2>2 DEF Promise!CancelRunning, RunningId, RunningTurn
    <2> QED BY <2>3 DEF Promise!Next
  <1>6. CASE ~(pc = "task" /\ n = running)
    <2>1. pc = "task" => running \in Nodes
      BY DEF IInv, TypeInv
    <2>2. RunningId' = RunningId /\ RunningTurn' = RunningTurn
      BY <1>1, <1>2, <1>6, <2>1, RunningKept
    <2> QED BY <1>1, <1>4, <2>2 DEF Promise!vars, RunningId, RunningTurn
  <1> QED BY <1>5, <1>6

LEMMA TimeOutPromised ==
    ASSUME IInv, IInv', NEW last, LastTick(last), ServeInv(last), TimeOut
    PROVE  Promise!Next
  <1>1. PICK n \in Nodes, k \in Buckets :
            /\ Contains(bucket[k], n)
            /\ pc = "walk" /\ pc' = "task" /\ running' = n
            /\ bucket' = [bucket EXCEPT ![k] = Erase(@, n)]
            /\ node[n].expire = currentTick /\ Queued(n) /\ Waits(n)
            /\ node' = [node EXCEPT ![n].repeatCount = @ - 1]
            /\ UNCHANGED currentTick
    BY TimeOutFacts
  <1>2. ~Queued(n)' /\ \A m \in Nodes \ {n} : Queued(m)' <=> Queued(m)
    BY <1>1, LeavesQueued
  <1>3. /\ \A m \in Nodes \ {n} : node'[m] = node[m]
        /\ node'[n].expire = node[n].expire /\ node'[n].period = node[n].period
        /\ node'[n].type = node[n].type /\ node'[n].seq = node[n].seq
        /\ node'[n].repeatCount = node[n].repeatCount - 1
    BY <1>1 DEF IInv, TypeInv, NodeRecord
  <1>4. Promise!Dropped(TimerIdOf(n))
    BY <1>1, <1>2, <1>3, PendingDropped
  <1>5. TimerIdOf(n) \in DOMAIN Pending /\ Pending[TimerIdOf(n)] = TurnOf(n)
    BY <1>1, PendingAt
  <1>6. RunningId = INVALID_TIMER_ID /\ RunningId' = TimerIdOf(n)
    BY <1>1, <1>3 DEF RunningId, TimerIdOf
  <1>7. RunningTurn' = [TurnOf(n) EXCEPT !.left = @ - 1]
    BY <1>1, <1>3 DEF RunningTurn, TurnOf
  <1>8. TurnOf(n).due = currentTick /\ TurnOf(n).left > 0
    BY <1>1 DEF TurnOf, Waits
  <1>9. Promise!Run(TimerIdOf(n))
    BY <1>1, <1>4, <1>5, <1>6, <1>7, <1>8 DEF Promise!Run, RunningId, RunningTurn
  <1> QED BY <1>5, <1>9 DEF Promise!Next

LEMMA RearmPromised ==
    ASSUME IInv, IInv', NEW last, LastTick(last), ServeInv(last), Rearm
    PROVE  Promise!Next
  <1>1. PICK n \in Nodes, e \in Nat :
            /\ n = running /\ pc = "task" /\ pc' = "walk"
            /\ e > currentTick /\ e >= currentTick + node[n].period
            /\ \A b \in Buckets : ~Contains(bucket[b], n)
            /\ bucket' = [bucket EXCEPT ![HashTick(e)] = Append(@, n)]
            /\ node[n].expire = currentTick /\ node[n].repeatCount > 0
            /\ node' = [node EXCEPT ![n].expire = e]
            /\ UNCHANGED currentTick
    BY RearmFacts
  <1>2. ~Queued(n) /\ Queued(n)' /\ \A m \in Nodes \ {n} : Queued(m)' <=> Queued(m)
    BY <1>1, EntersQueued
  <1>3. /\ \A m \in Nodes \ {n} : node'[m] = node[m]
        /\ node'[n].expire = e /\ node'[n].period = node[n].period
        /\ node'[n].type = node[n].type /\ node'[n].seq = node[n].seq
        /\ node'[n].repeatCount = node[n].repeatCount
    BY <1>1 DEF IInv, TypeInv, NodeRecord
  <1>4. PICK id : id = TimerIdOf(n)' /\ id = RunningId
    BY <1>1, <1>3 DEF RunningId, TimerIdOf
  <1>5. Promise!Added(id) /\ Pending'[id] = TurnOf(n)'
    BY <1>2, <1>3, <1>4, PendingAdded DEF IInv
  <1>6. /\ Pending'[id].due = e /\ Pending'[id].period = node[n].period
        /\ Pending'[id].left = node[n].repeatCount
    BY <1>3, <1>5 DEF TurnOf
  <1>7. /\ RunningTurn.due = currentTick /\ RunningTurn.period = node[n].period
        /\ RunningTurn.left = node[n].repeatCount
    BY <1>1 DEF RunningTurn, TurnOf
  <1>8. RunningId # INVALID_TIMER_ID /\ RunningId' = INVALID_TIMER_ID /\ RunningTurn' = INVALID_TIMER_ID
    BY <1>1, RunningIsATimer DEF RunningId, RunningTurn
  <1>9. Promise!Again
    BY <1>1, <1>4, <1>5, <1>6, <1>7, <1>8 DEF Promise!Again, RunningId, RunningTurn
  <1> QED BY <1>9 DEF Promise!Next

LEMMA RetirePromised == ASSUME IInv, Retire PROVE Promise!Next
  <1>1. /\ pc = "task" /\ pc' = "walk" /\ node[running].repeatCount = 0
        /\ UNCHANGED <<node, bucket, currentTick>>
    BY DEF Retire
  <1>2. Pending' = Pending
    BY <1>1, PendingKept DEF Queued, BucketOf
  <1>3. RunningTurn.left = 0
    BY <1>1 DEF RunningTurn, TurnOf
  <1>4. RunningId # INVALID_TIMER_ID /\ RunningId' = INVALID_TIMER_ID /\ RunningTurn' = INVALID_TIMER_ID
    BY <1>1, RunningIsATimer DEF RunningId, RunningTurn
  <1>5. Promise!Retire
    BY <1>1, <1>2, <1>3, <1>4 DEF Promise!Retire, RunningId, RunningTurn
  <1> QED BY <1>5 DEF Promise!Next

LEMMA WalkEndPromised ==
    ASSUME IInv, NEW last, ServeInv(last), WalkEnd PROVE Promise!Next
  <1>1. /\ pc = "walk" /\ pc' # "task" /\ tickIterator = END /\ currentTick' = currentTick + 1
        /\ UNCHANGED <<node, bucket>>
    BY DEF WalkEnd
  <1>2. Pending' = Pending
    BY <1>1, PendingKept DEF Queued, BucketOf
  <1>3. ASSUME NEW id \in DOMAIN Pending PROVE Pending[id].due > currentTick
    <2>1. PICK n \in Nodes : Queued(n) /\ id = TimerIdOf(n)
      BY PendingAt
    <2>2. node[n].expire > currentTick
      BY <1>1, <2>1, NothingIsDue
    <2>3. Pending[id] = TurnOf(n)
      BY <2>1, PendingAt
    <2>4. Pending[id].due = node[n].expire
      BY <2>3 DEF TurnOf
    <2> QED BY <2>2, <2>4
  <1>4. /\ RunningId = INVALID_TIMER_ID /\ RunningId' = INVALID_TIMER_ID
        /\ RunningTurn = INVALID_TIMER_ID /\ RunningTurn' = INVALID_TIMER_ID
    BY <1>1 DEF RunningId, RunningTurn
  <1>5. Promise!Advance
    BY <1>1, <1>2, <1>3, <1>4 DEF Promise!Advance, RunningId, RunningTurn
  <1> QED BY <1>5 DEF Promise!Next

LEMMA CrashPromised == ASSUME CrashAndResume PROVE Promise!Next
  <1>1. pc' = "idle" /\ UNCHANGED <<node, bucket, currentTick>>
    BY DEF CrashAndResume, Restart
  <1>2. Pending' = Pending
    BY <1>1, PendingKept DEF Queued, BucketOf
  <1>3. Promise!Crash
    BY <1>1, <1>2 DEF Promise!Crash
  <1> QED BY <1>3 DEF Promise!Next

\* The calls that find nothing to do, and the steps of a tick that touch no timer.
LEMMA OthersPromised ==
    ASSUME \/ \E h \in Handles, r \in Repeats : ScheduleFail(h, r[1], r[2])
           \/ \E h \in Handles : CancelStale(h)
           \/ \E c \in Clocks : TickBegin(c) \/ SkipTickBegin(c)
           \/ WalkBegin \/ PassOver \/ UNCHANGED vars
    PROVE  UNCHANGED Promise!vars
  <1>1. /\ UNCHANGED <<node, bucket, currentTick>>
        /\ \/ UNCHANGED <<pc, running>>
           \/ pc # "task" /\ pc' # "task"
    BY DEF ScheduleFail, CancelStale, TickBegin, SkipTickBegin, WalkBegin, PassOver, vars, shm
  <1>2. Pending' = Pending
    BY <1>1, PendingKept DEF Queued, BucketOf
  <1>3. RunningId' = RunningId /\ RunningTurn' = RunningTurn
    BY <1>1 DEF RunningId, RunningTurn, TimerIdOf, TurnOf
  <1> QED BY <1>1, <1>2, <1>3 DEF Promise!vars, RunningId, RunningTurn

LEMMA NextPromised ==
    ASSUME IInv, IInv', NEW last, LastTick(last), ServeInv(last), [Next]_vars
    PROVE  [Promise!Next]_Promise!vars
  <1>1. CASE \E h \in Handles, type \in Types, delay \in Delays, r \in Repeats :
                Schedule(h, type, delay, r[1], r[2])
    BY <1>1, SchedulePromised
  <1>2. CASE \E h \in Handles : CancelOrphan(h) \/ CancelQueued(h)
    BY <1>2, CancelOrphanPromised, CancelQueuedPromised
  <1>3. CASE TimeOut \/ Rearm \/ Retire \/ WalkEnd \/ CrashAndResume
    BY <1>3, TimeOutPromised, RearmPromised, RetirePromised, WalkEndPromised, CrashPromised
  <1>4. CASE \/ \E h \in Handles, r \in Repeats : ScheduleFail(h, r[1], r[2])
             \/ \E h \in Handles : CancelStale(h)
             \/ \E c \in Clocks : TickBegin(c) \/ SkipTickBegin(c)
             \/ WalkBegin \/ PassOver \/ UNCHANGED vars
    BY <1>4, OthersPromised
  <1> QED BY <1>1, <1>2, <1>3, <1>4 DEF Next, TickStep

\* As long as no tick number wraps and no timer is asked for zero turns, the wheel
\* is a timer service: a timer runs when currentTick is its tick, as often as it
\* was asked to and not after its cancellation, and currentTick moves on only when
\* nothing is due any more - whatever the tasks schedule and cancel in the middle
\* of a walk, and across any number of deaths.
THEOREM KeepsThePromise ==
    ASSUME NothingWraps PROVE Spec => ImplementsTimerService
  <1>1. PICK last \in Nat : LastTick(last)
    BY DEF NothingWraps
  <1>2. Init => IInv /\ ServeInv(last) /\ Promise!Init
    BY <1>1, InitInv, InitServes, InitPromised
  <1>3. IInv /\ IInv' /\ ServeInv(last) /\ [Next]_vars => ServeInv(last)' /\ [Promise!Next]_Promise!vars
    BY <1>1, NextServes, NextPromised
  <1> QED BY <1>2, <1>3, ListDiscipline, PTL DEF Spec, ImplementsTimerService, Promise!Spec
=============================================================================
