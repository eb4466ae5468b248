------------------------ MODULE AsyncMemPoolProofs -------------------------
(***************************************************************************)
(* AsyncMemPool for every default size, every set of requests, any number  *)
(* of chunks and any number of rounds to a decision: the blocks share no   *)
(* byte, and free() drops a last chunk that no round used.  The first      *)
(* invariant says where pos stands: behind every block of its chunk, and   *)
(* inside the chunk; the second what the two counters know of the rounds;  *)
(* the third that what was used without the last chunk fits in the others. *)
(***************************************************************************)
EXTENDS AsyncMemPool, SequenceTheorems, WellFoundedInduction, TLAPS

Chunk == [size : Nat, pos : Nat]
Block == [chunk : Nat, from : Nat, size : Nat]

\* pos has passed every block of its chunk and has not passed its end.
PosBehindBlocks ==
    /\ \A k \in DOMAIN chunks : chunks[k].pos <= chunks[k].size
    /\ \A b \in blocks : b.chunk \in DOMAIN chunks /\ b.from + b.size <= chunks[b.chunk].pos

AllApart == \A a, b \in blocks : a # b => Apart(a, b)

IInv ==
    /\ chunks \in Seq(Chunk) /\ Len(chunks) > 0
    /\ blocks \subseteq Block
    /\ PosBehindBlocks
    /\ AllApart

LEMMA InitInv == ASSUME Init PROVE IInv
  BY PoolAssumption DEF Init, IInv, Chunk, PosBehindBlocks, AllApart

\* A block that begins at pos lies behind all others of its chunk.
LEMMA NewBlockApart ==
    ASSUME IInv, NEW c \in Block, c.chunk \in DOMAIN chunks => c.from = chunks[c.chunk].pos
    PROVE  \A b \in blocks : Apart(b, c) /\ Apart(c, b)
  BY DEF IInv, PosBehindBlocks, Apart, Block, Chunk

LEMMA AllocInv == ASSUME IInv, NEW n \in Sizes, Alloc(n) PROVE IInv'
  <1> n \in Nat
    BY PoolAssumption
  <1>1. PICK k \in DOMAIN chunks :
            /\ Room(k, n)
            /\ chunks' = [chunks EXCEPT ![k].pos = PosAfter(@, n)]
            /\ blocks' = blocks \cup {[chunk |-> k, from |-> chunks[k].pos, size |-> n]}
    BY DEF Alloc
  <1> DEFINE c == [chunk |-> k, from |-> chunks[k].pos, size |-> n]
  <1>2. chunks[k] \in Chunk /\ k \in Nat
    BY DEF IInv
  <1>3. c \in Block
    BY <1>2 DEF Block, Chunk
  <1>4. /\ chunks' \in Seq(Chunk) /\ Len(chunks') = Len(chunks)
        /\ DOMAIN chunks' = DOMAIN chunks
        /\ chunks'[k] = [size |-> chunks[k].size, pos |-> chunks[k].pos + n]
        /\ \A j \in DOMAIN chunks : j # k => chunks'[j] = chunks[j]
    <2> DEFINE new == [size |-> chunks[k].size, pos |-> chunks[k].pos + n]
    <2>1. new \in Chunk /\ chunks \in Seq(Chunk)
      BY <1>2 DEF IInv, Chunk
    <2>2. chunks' = [chunks EXCEPT ![k] = new]
      <3>1. [chunks[k] EXCEPT !.pos = chunks[k].pos + n] = new
        BY <1>2 DEF Chunk
      <3>2. chunks' = [chunks EXCEPT ![k] = [chunks[k] EXCEPT !.pos = chunks[k].pos + n]]
        BY <1>1 DEF PosAfter
      <3> QED BY <3>1, <3>2, Zenon
    <2> HIDE DEF new
    <2>3. /\ chunks' \in Seq(Chunk) /\ Len(chunks') = Len(chunks)
          /\ DOMAIN chunks' = DOMAIN chunks
          /\ chunks'[k] = new
          /\ \A j \in DOMAIN chunks : j # k => chunks'[j] = chunks[j]
      <3>1. chunks' \in Seq(Chunk) /\ Len(chunks') = Len(chunks)
        BY <2>1, <2>2, ExceptSeq
      <3> QED BY <2>2, <3>1
    <2> QED BY <2>3 DEF new
  <1>5. PosBehindBlocks'
    <2>1. \A j \in DOMAIN chunks : chunks'[j].size = chunks[j].size /\ chunks[j].pos <= chunks'[j].pos
      <3>1. ASSUME NEW j \in DOMAIN chunks PROVE chunks[j].pos \in Nat
        <4>1. chunks[j] \in Chunk
          BY DEF IInv
        <4> QED BY <4>1 DEF Chunk
      <3>2. chunks'[k].size = chunks[k].size /\ chunks'[k].pos = chunks[k].pos + n
        BY <1>4
      <3>3. chunks[k].pos <= chunks'[k].pos
        BY <3>1, <3>2
      <3> QED BY <1>4, <3>1, <3>2, <3>3
    <2>2. ASSUME NEW j \in DOMAIN chunks' PROVE chunks'[j].pos <= chunks'[j].size
      <3>1. CASE j = k
        BY <1>1, <1>2, <1>4, <3>1 DEF Room, Chunk
      <3>2. CASE j # k
        BY <1>4, <3>2 DEF IInv, PosBehindBlocks
      <3> QED BY <3>1, <3>2
    <2>3. c.from + c.size = chunks'[k].pos
      BY <1>4
    <2>4. ASSUME NEW b \in blocks
          PROVE  b.chunk \in DOMAIN chunks' /\ b.from + b.size <= chunks'[b.chunk].pos
      <3>1. b.chunk \in DOMAIN chunks /\ b.from + b.size <= chunks[b.chunk].pos
        BY DEF IInv, PosBehindBlocks
      <3>2. b.from + b.size \in Nat
        BY DEF IInv, Block
      <3>3. chunks[b.chunk].pos \in Nat /\ chunks'[b.chunk].pos \in Nat
        <4>1. chunks[b.chunk] \in Chunk /\ chunks'[b.chunk] \in Chunk
          BY <1>4, <3>1 DEF IInv
        <4> QED BY <4>1 DEF Chunk
      <3> QED BY <1>4, <2>1, <3>1, <3>2, <3>3
    <2>5. c.from + c.size \in Nat
      BY <1>3 DEF Block
    <2>6. \A b \in blocks' : b \in blocks \/ b = c
      BY <1>1
    <2>7. c.chunk = k /\ k \in DOMAIN chunks' /\ c.from + c.size <= chunks'[k].pos
      BY <1>4, <2>3, <2>5
    <2> HIDE DEF c
    <2>8. ASSUME NEW b \in blocks'
          PROVE  b.chunk \in DOMAIN chunks' /\ b.from + b.size <= chunks'[b.chunk].pos
      <3>1. CASE b \in blocks
        BY <2>4, <3>1
      <3>2. CASE b = c
        BY <2>7, <3>2, Zenon
      <3> QED BY <2>6, <3>1, <3>2
    <2> QED BY <2>2, <2>8 DEF PosBehindBlocks
  <1>6. AllApart'
    <2>1. \A b \in blocks : Apart(b, c) /\ Apart(c, b)
      BY <1>3, NewBlockApart
    <2> QED BY <1>1, <2>1 DEF IInv, AllApart
  <1> QED BY <1>1, <1>3, <1>4, <1>5, <1>6 DEF IInv

LEMMA AllocNewChunkInv == ASSUME IInv, NEW n \in Sizes, AllocNewChunk(n) PROVE IInv'
  <1> n \in Nat /\ DefaultSize \in Nat
    BY PoolAssumption
  <1> DEFINE k == Len(chunks) + 1
             c == [chunk |-> k, from |-> 0, size |-> n]
             new == [size |-> Max2(n, DefaultSize), pos |-> n]
  <1>1. chunks' = Append(chunks, new) /\ blocks' = blocks \cup {c}
    BY DEF AllocNewChunk
  <1>2. new \in Chunk /\ new.pos <= new.size
    BY DEF Chunk, Max2
  <1>3. c \in Block /\ k \notin DOMAIN chunks
    BY DEF IInv, Block
  <1> HIDE DEF new
  <1>4. /\ chunks' \in Seq(Chunk) /\ Len(chunks') = k
        /\ chunks'[k] = new
        /\ \A j \in DOMAIN chunks : j \in DOMAIN chunks' /\ chunks'[j] = chunks[j]
        /\ DOMAIN chunks' = DOMAIN chunks \cup {k}
    BY <1>1, <1>2 DEF IInv
  <1>5. PosBehindBlocks'
    <2>1. new.pos = n
      BY DEF new
    <2> QED BY <1>1, <1>2, <1>3, <1>4, <2>1 DEF IInv, PosBehindBlocks, Chunk, Block
  <1>6. AllApart'
    <2>1. \A b \in blocks : Apart(b, c) /\ Apart(c, b)
      BY <1>3, NewBlockApart
    <2> QED BY <1>1, <2>1 DEF IInv, AllApart
  <1> QED BY <1>1, <1>3, <1>4, <1>5, <1>6 DEF IInv

\* No block outlives free(), so it does not matter which chunk is dropped.
LEMMA FreeInv == ASSUME IInv, Free PROVE IInv'
  <1> DEFINE rest == IF Drops THEN SubSeq(chunks, 1, Len(chunks) - 1) ELSE chunks
  <1>1. rest \in Seq(Chunk) /\ Len(rest) > 0
    <2>1. CASE Drops
      BY <2>1 DEF IInv, Drops, Decides
    <2>2. CASE ~Drops
      BY <2>2 DEF IInv
    <2> QED BY <2>1, <2>2
  <1> HIDE DEF rest
  <1>2. chunks' = [j \in DOMAIN rest |-> [rest[j] EXCEPT !.pos = 0]] /\ blocks' = {}
    BY DEF Free, Emptied, rest
  <1>3. ASSUME NEW j \in DOMAIN rest
        PROVE  [rest[j] EXCEPT !.pos = 0] \in Chunk /\ [rest[j] EXCEPT !.pos = 0].pos = 0
    <2>1. rest[j] \in Chunk
      BY <1>1
    <2> QED BY <2>1 DEF Chunk
  <1>4. /\ chunks' \in Seq(Chunk) /\ Len(chunks') > 0
        /\ \A j \in DOMAIN chunks' : chunks'[j].pos <= chunks'[j].size
    <2>1. DOMAIN rest = 1 .. Len(rest) /\ Len(rest) \in Nat
      BY <1>1
    <2>2. chunks' \in [1 .. Len(rest) -> Chunk]
      BY <1>2, <1>3, <2>1
    <2>3. \A j \in DOMAIN chunks' : chunks'[j] \in Chunk /\ chunks'[j].pos = 0
      BY <1>2, <1>3
    <2>4. chunks' \in Seq(Chunk) /\ Len(chunks') = Len(rest)
      BY <2>1, <2>2, SeqDef, LenProperties
    <2> QED BY <1>1, <2>3, <2>4 DEF Chunk
  <1> QED BY <1>2, <1>4 DEF IInv, PosBehindBlocks, AllApart

LEMMA StepInv == ASSUME IInv, [Next]_vars PROVE IInv'
  <1>1. CASE UNCHANGED vars
    BY <1>1 DEF IInv, vars, PosBehindBlocks, AllApart
  <1> QED BY <1>1, AllocInv, AllocNewChunkInv, FreeInv DEF Next

LEMMA InvSuffices == ASSUME IInv PROVE BlocksApart
  <1>1. ASSUME NEW b \in blocks
        PROVE  b.chunk \in DOMAIN chunks /\ b.from + b.size <= chunks[b.chunk].size
    <2>1. chunks[b.chunk] \in Chunk /\ b \in Block
      BY DEF IInv, PosBehindBlocks
    <2> QED BY <2>1 DEF IInv, PosBehindBlocks, Chunk, Block
  <1> QED BY <1>1 DEF IInv, AllApart, BlocksApart

LEMMA IInvHolds == Spec => []IInv
  <1>1. Init => IInv
    BY InitInv
  <1>2. IInv /\ [Next]_vars => IInv'
    BY StepInv
  <1> QED BY <1>1, <1>2, PTL DEF Spec

\* async_mempool.cc:63-76: as long as free() is not called, no word that alloc
\* or strdup handed out is overwritten by a later one.
THEOREM BlocksAreApart == Spec => []BlocksApart
  BY InvSuffices, IInvHolds, PTL
-----------------------------------------------------------------------------
(* Sums over the chunks. *)

LEMMA HasLeast ==
    ASSUME NEW S \in SUBSET Nat, S # {}
    PROVE  \E m \in S : \A k \in S : m <= k
  <1> DEFINE R == OpToRel(<, Nat)
  <1>1. IsWellFoundedOn(R, Nat)
    BY NatLessThanWellFounded, Zenon
  <1>2. PICK m \in S : \A k \in S : <<k, m>> \notin R
    <2> HIDE DEF R
    <2> QED BY <1>1, WFMin
  <1>3. \A k \in S : ~(k < m)
    BY <1>2 DEF OpToRel
  <1> QED BY <1>3

\* s[i] is the sum of the first i members of f.
Sums(s, f, N) == s = [i \in 0 .. N |-> IF i = 0 THEN 0 ELSE s[i - 1] + f[i]]

LEMMA SumsRule ==
    ASSUME NEW N \in Nat, NEW f, NEW s, Sums(s, f, N)
    PROVE  s[0] = 0 /\ \A i \in 0 .. N : i # 0 => s[i] = s[i - 1] + f[i]
  <1>1. s = [i \in 0 .. N |-> IF i = 0 THEN 0 ELSE s[i - 1] + f[i]]
    BY DEF Sums
  <1>2. \A i \in 0 .. N : s[i] = IF i = 0 THEN 0 ELSE s[i - 1] + f[i]
    BY <1>1
  <1> QED BY <1>2

LEMMA SumsExist ==
    ASSUME NEW N \in Nat, NEW f
    PROVE  \E s : Sums(s, f, N)
  <1> DEFINE S == {i \in Nat : ~ \E s : Sums(s, f, i)}
  <1>1. SUFFICES ASSUME S # {} PROVE FALSE
    OBVIOUS
  <1>2. PICK n \in S : \A k \in S : n <= k
    BY <1>1, HasLeast
  <1>3. n # 0
    <2>1. ASSUME n = 0 PROVE FALSE
      <3> DEFINE s == [i \in 0 .. 0 |-> 0]
      <3>1. s = [i \in 0 .. 0 |-> IF i = 0 THEN 0 ELSE s[i - 1] + f[i]]
        OBVIOUS
      <3>2. Sums(s, f, 0)
        BY <3>1 DEF Sums
      <3> QED BY <1>2, <2>1, <3>2
    <2> QED BY <2>1
  <1>4. n - 1 \in Nat /\ n \in Nat
    BY <1>3
  <1>5. \E s : Sums(s, f, n - 1)
    BY <1>2, <1>4
  <1>6. PICK s : Sums(s, f, n - 1)
    BY <1>5
  <1>7. s[0] = 0 /\ \A i \in 0 .. n - 1 : i # 0 => s[i] = s[i - 1] + f[i]
    BY <1>4, <1>6, SumsRule
  <1> DEFINE t == [i \in 0 .. n |-> IF i = n THEN s[n - 1] + f[n] ELSE s[i]]
  <1>8. \A i \in 0 .. n : t[i] = IF i = 0 THEN 0 ELSE t[i - 1] + f[i]
    BY <1>3, <1>4, <1>7
  <1>9. t = [i \in 0 .. n |-> t[i]]
    OBVIOUS
  <1> HIDE DEF t
  <1>10. Sums(t, f, n)
    BY <1>8, <1>9 DEF Sums
  <1> QED BY <1>2, <1>10

\* What SumTo returns is a number, and no less than any member it begins with.
LEMMA SumToRange ==
    ASSUME Len(chunks) \in Nat, NEW f, \A i \in 1 .. Len(chunks) : f[i] \in Nat
    PROVE  \A i \in 0 .. Len(chunks) : SumTo(f)[i] \in Nat /\ (i # 0 => f[1] <= SumTo(f)[i])
  <1> DEFINE N == Len(chunks)
             s == SumTo(f)
             Good(i) == s[i] \in Nat /\ (i # 0 => f[1] <= s[i])
             S == {i \in 0 .. N : ~Good(i)}
  <1>1. Sums(s, f, N)
    BY SumsExist DEF SumTo, Sums
  <1> HIDE DEF s
  <1>2. s[0] = 0 /\ \A i \in 0 .. N : i # 0 => s[i] = s[i - 1] + f[i]
    BY <1>1, SumsRule
  <1>3. SUFFICES ASSUME S # {} PROVE FALSE
    BY DEF s
  <1>4. PICK i \in S : \A k \in S : i <= k
    <2>1. S \in SUBSET Nat
      OBVIOUS
    <2> QED BY <1>3, <2>1, HasLeast
  <1>5. i # 0 /\ i \in 1 .. N /\ i - 1 \in 0 .. N /\ ~(i <= i - 1)
    BY <1>2, <1>4
  <1>6. Good(i - 1)
    BY <1>4, <1>5
  <1>7. s[i] = s[i - 1] + f[i] /\ f[i] \in Nat /\ f[1] \in Nat /\ s[i - 1] \in Nat
    BY <1>2, <1>5, <1>6
  <1>8. i = 1 => s[i] = f[1]
    BY <1>2, <1>7
  <1>9. Good(i)
    BY <1>5, <1>6, <1>7, <1>8
  <1> QED BY <1>4, <1>9

LEMMA SumsOfChunks ==
    ASSUME IInv
    PROVE  /\ Used \in Nat
           /\ \A n \in 0 .. Len(chunks) :
                 TotalTo(n) \in Nat /\ (n # 0 => chunks[1].size <= TotalTo(n))
  <1>1. /\ DOMAIN chunks = 1 .. Len(chunks) /\ Len(chunks) \in Nat
        /\ \A i \in DOMAIN chunks : chunks[i].pos \in Nat /\ chunks[i].size \in Nat
    <2>1. \A i \in DOMAIN chunks : chunks[i] \in Chunk
      BY DEF IInv
    <2> QED BY <2>1 DEF IInv, Chunk
  <1> DEFINE p == [i \in DOMAIN chunks |-> chunks[i].pos]
             z == [i \in DOMAIN chunks |-> chunks[i].size]
  <1>2. \A i \in 1 .. Len(chunks) : p[i] \in Nat /\ z[i] \in Nat /\ z[i] = chunks[i].size
    BY <1>1
  <1>3. Used = SumTo(p)[Len(chunks)] /\ \A n : TotalTo(n) = SumTo(z)[n]
    BY DEF Used, TotalTo
  <1> HIDE DEF p, z
  <1>4. Used \in Nat
    BY <1>1, <1>2, <1>3, SumToRange
  <1>5. \A n \in 0 .. Len(chunks) : TotalTo(n) \in Nat /\ (n # 0 => z[1] <= TotalTo(n))
    BY <1>1, <1>2, <1>3, SumToRange
  <1>6. \A n \in 0 .. Len(chunks) : n # 0 => z[1] = chunks[1].size
    BY <1>1, <1>2
  <1> QED BY <1>4, <1>5, <1>6

-----------------------------------------------------------------------------
(* What free() keeps of the chunks. *)

\* No chunk is below the default size.  poolUsage is no less than any round since
\* the last decision used.
UsageInv ==
    /\ chunks[1].size >= DefaultSize
    /\ poolUsage \in Nat /\ poolUsageCounter \in Nat /\ quiet \in Nat
    /\ window \subseteq Nat /\ \A u \in window : u <= poolUsage

\* A quiet time begins before a decision is due, or with one that forgets what was
\* used before; the decision after that one drops a chunk.
QuietInv ==
    Len(chunks) > 1 /\ quiet # 0 =>
        /\ poolUsageCounter < ROUNDS
        /\ \/ quiet <= poolUsageCounter
           \/ quiet <= poolUsageCounter + ROUNDS /\ poolUsage < DefaultSize

ShrinkInv == UsageInv /\ QuietInv

LEMMA InitShrink == Init => ShrinkInv
  BY PoolAssumption DEF Init, ShrinkInv, UsageInv, QuietInv

\* Cutting a block changes no size.
LEMMA AllocKeepsSizes ==
    ASSUME IInv, NEW n \in Sizes, Alloc(n)
    PROVE  Len(chunks') = Len(chunks) /\ chunks'[1].size = chunks[1].size
  <1>1. PICK k \in DOMAIN chunks : chunks' = [chunks EXCEPT ![k].pos = PosAfter(@, n)]
    BY DEF Alloc
  <1>2. chunks[k] \in Chunk /\ chunks[1] \in Chunk /\ 1 \in DOMAIN chunks
    BY DEF IInv
  <1> DEFINE new == [chunks[k] EXCEPT !.pos = PosAfter(chunks[k].pos, n)]
  <1>3. new.size = chunks[k].size
    BY <1>2 DEF Chunk
  <1>4. chunks' = [chunks EXCEPT ![k] = new]
    BY <1>1
  <1> HIDE DEF new
  <1>5. DOMAIN chunks' = DOMAIN chunks /\ chunks'[1].size = chunks[1].size
    BY <1>2, <1>3, <1>4
  <1>6. Len(chunks') = Len(chunks)
    BY <1>4 DEF IInv
  <1> QED BY <1>5, <1>6

LEMMA FreeKeepsSizes ==
    ASSUME IInv, Free
    PROVE  /\ Len(chunks') = (IF Drops THEN Len(chunks) - 1 ELSE Len(chunks))
           /\ Len(chunks') > 0 /\ chunks'[1].size = chunks[1].size
  <1> DEFINE rest == IF Drops THEN SubSeq(chunks, 1, Len(chunks) - 1) ELSE chunks
  <1>1. chunks \in Seq(Chunk) /\ Len(chunks) \in Nat /\ Len(chunks) > 0 /\ (Drops => Len(chunks) > 1)
    BY DEF IInv, Drops, Decides
  <1>2. /\ rest \in Seq(Chunk) /\ rest[1] = chunks[1]
        /\ Len(rest) = (IF Drops THEN Len(chunks) - 1 ELSE Len(chunks))
    BY <1>1
  <1> HIDE DEF rest
  <1>3. Len(rest) \in Nat /\ Len(rest) > 0 /\ DOMAIN rest = 1 .. Len(rest)
    BY <1>1, <1>2
  <1>4. chunks' = [j \in 1 .. Len(rest) |-> [rest[j] EXCEPT !.pos = 0]]
    BY <1>3 DEF Free, Emptied, rest
  <1>5. chunks[1] \in Chunk
    BY <1>1
  <1>6. chunks'[1].size = chunks[1].size
    BY <1>2, <1>3, <1>4, <1>5 DEF Chunk
  <1>7. Len(chunks') = Len(rest)
    BY <1>3, <1>4
  <1> QED BY <1>2, <1>3, <1>6, <1>7

LEMMA FreeShrink == ASSUME IInv, ShrinkInv, Free PROVE ShrinkInv'
  <1>1. /\ poolUsage \in Nat /\ poolUsageCounter \in Nat /\ quiet \in Nat /\ Used \in Nat
        /\ DefaultSize \in Nat /\ ROUNDS \in Nat /\ ROUNDS > 0 /\ Len(chunks) \in Nat
        /\ chunks[1].size \in Nat /\ chunks[1].size >= DefaultSize
    <2>1. chunks[1] \in Chunk
      BY DEF IInv
    <2> QED BY <2>1, SumsOfChunks, PoolAssumption DEF ShrinkInv, UsageInv, IInv, Chunk
  <1>2. /\ poolUsage' = IF Decides THEN 0 ELSE Peak
        /\ poolUsageCounter' = IF Decides THEN 0 ELSE poolUsageCounter + 1
        /\ window' = IF Decides THEN {} ELSE window \cup {Used}
        /\ quiet' = IF Used < DefaultSize /\ ~Drops THEN quiet + 1 ELSE 0
    BY DEF Free, UsageAfter
  <1>3. Peak \in Nat /\ Peak >= poolUsage /\ Peak >= Used /\ (Peak = poolUsage \/ Peak = Used)
    BY <1>1 DEF Peak, Max2
  <1>4. UsageInv'
    <2>1. \A u \in window : u \in Nat /\ u <= poolUsage
      BY DEF ShrinkInv, UsageInv
    <2>2. window' \subseteq Nat /\ \A u \in window' : u <= poolUsage'
      BY <1>1, <1>2, <1>3, <2>1
    <2> QED BY <1>1, <1>2, <1>3, <2>2, FreeKeepsSizes DEF UsageInv
  <1>5. QuietInv'
    <2> SUFFICES ASSUME Len(chunks') > 1, quiet' # 0
                 PROVE  /\ poolUsageCounter' < ROUNDS
                        /\ \/ quiet' <= poolUsageCounter'
                           \/ quiet' <= poolUsageCounter' + ROUNDS /\ poolUsage' < DefaultSize
      BY DEF QuietInv
    <2>1. Used < DefaultSize /\ ~Drops /\ quiet' = quiet + 1 /\ Len(chunks) > 1
      BY <1>2, FreeKeepsSizes
    <2>2. quiet # 0 => /\ poolUsageCounter < ROUNDS
                       /\ \/ quiet <= poolUsageCounter
                          \/ quiet <= poolUsageCounter + ROUNDS /\ poolUsage < DefaultSize
      BY <2>1 DEF ShrinkInv, QuietInv
    <2>3. CASE ~Decides
      <3>1. poolUsageCounter + 1 < ROUNDS
        BY <1>1, <2>1, <2>3 DEF Decides
      <3> QED BY <1>1, <1>2, <1>3, <2>1, <2>2, <2>3, <3>1
    <2>4. CASE Decides
      <3>1. ~(Peak < DefaultSize)
        <4>1. PICK n \in Nat : n = Len(chunks) /\ n > 1
          BY <1>1, <2>1
        <4>2. n - 1 \in 0 .. n /\ n - 1 # 0
          BY <4>1
        <4>3. TotalTo(n - 1) \in Nat /\ chunks[1].size <= TotalTo(n - 1)
          BY <4>1, <4>2, SumsOfChunks
        <4> QED BY <1>1, <1>3, <2>1, <2>4, <4>1, <4>3 DEF Drops
      <3>2. quiet # 0 => quiet <= poolUsageCounter /\ poolUsageCounter < ROUNDS
        BY <1>1, <1>3, <2>1, <2>2, <3>1
      <3>3. quiet' <= ROUNDS
        BY <1>1, <2>1, <3>2
      <3> QED BY <1>1, <1>2, <2>1, <2>4, <3>3
    <2> QED BY <2>3, <2>4
  <1> QED BY <1>4, <1>5 DEF ShrinkInv

LEMMA StepShrink == IInv /\ ShrinkInv /\ [Next]_vars => ShrinkInv'
  <1> SUFFICES ASSUME IInv, ShrinkInv, [Next]_vars PROVE ShrinkInv'
    OBVIOUS
  <1>1. ASSUME NEW n \in Sizes, Alloc(n) PROVE ShrinkInv'
    <2>1. UNCHANGED <<poolUsage, poolUsageCounter, window, quiet>>
      BY <1>1 DEF Alloc
    <2> QED BY <1>1, <2>1, AllocKeepsSizes DEF ShrinkInv, UsageInv, QuietInv
  <1>2. ASSUME NEW n \in Sizes, AllocNewChunk(n) PROVE ShrinkInv'
    <2>1. UNCHANGED <<poolUsage, poolUsageCounter, window>> /\ quiet' = 0
      BY <1>2 DEF AllocNewChunk
    <2>2. chunks'[1] = chunks[1]
      BY <1>2 DEF AllocNewChunk, IInv
    <2> QED BY <2>1, <2>2 DEF ShrinkInv, UsageInv, QuietInv
  <1>3. CASE Free
    BY <1>3, FreeShrink
  <1>4. CASE UNCHANGED vars
    BY <1>4 DEF vars, ShrinkInv, UsageInv, QuietInv
  <1> QED BY <1>1, <1>2, <1>3, <1>4 DEF Next

\* async_mempool.cc:85-99: for any number of rounds to a decision, a pool that
\* keeps more than one chunk has not been hardly used for two decisions on end.
THEOREM QuietPoolsShrink == Spec => []QuietPoolShrinks
  <1>1. ShrinkInv => QuietPoolShrinks
    BY PoolAssumption DEF ShrinkInv, UsageInv, QuietInv, QuietPoolShrinks
  <1> QED BY <1>1, InitShrink, StepShrink, IInvHolds, PTL DEF Spec

-----------------------------------------------------------------------------
(* What free() knows of a chunk that was not used. *)

LEMMA SumToSteps ==
    ASSUME Len(chunks) \in Nat, NEW f
    PROVE  /\ SumTo(f)[0] = 0
           /\ \A i \in 1 .. Len(chunks) : SumTo(f)[i] = SumTo(f)[i - 1] + f[i]
  <1> DEFINE s == SumTo(f)
  <1>1. Sums(s, f, Len(chunks))
    BY SumsExist DEF SumTo, Sums
  <1> HIDE DEF s
  <1>2. s[0] = 0 /\ \A i \in 0 .. Len(chunks) : i # 0 => s[i] = s[i - 1] + f[i]
    BY <1>1, SumsRule
  <1> QED BY <1>2 DEF s

\* Smaller members have the smaller sum.
LEMMA SumToGrows ==
    ASSUME Len(chunks) \in Nat, NEW f, NEW g,
           \A i \in 1 .. Len(chunks) : f[i] \in Nat /\ g[i] \in Nat /\ f[i] <= g[i]
    PROVE  \A i \in 0 .. Len(chunks) : SumTo(f)[i] <= SumTo(g)[i]
  <1> DEFINE N == Len(chunks)
             s == SumTo(f)
             t == SumTo(g)
             S == {i \in 0 .. N : ~(s[i] <= t[i])}
  <1>1. /\ s[0] = 0 /\ t[0] = 0
        /\ \A i \in 1 .. N : s[i] = s[i - 1] + f[i] /\ t[i] = t[i - 1] + g[i]
    BY SumToSteps
  <1>2. \A i \in 0 .. N : s[i] \in Nat /\ t[i] \in Nat
    BY SumToRange
  <1>3. SUFFICES ASSUME S # {} PROVE FALSE
    OBVIOUS
  <1> HIDE DEF s, t
  <1>4. PICK i \in S : \A k \in S : i <= k
    <2>1. S \in SUBSET Nat
      OBVIOUS
    <2> QED BY <1>3, <2>1, HasLeast
  <1>5. i \in 1 .. N /\ i - 1 \in 0 .. N /\ ~(i <= i - 1)
    BY <1>1, <1>4
  <1>6. s[i - 1] <= t[i - 1]
    BY <1>4, <1>5
  <1>7. s[i] = s[i - 1] + f[i] /\ t[i] = t[i - 1] + g[i]
    BY <1>1, <1>5
  <1>8. s[i - 1] \in Nat /\ t[i - 1] \in Nat
    BY <1>2, <1>5
  <1>9. f[i] \in Nat /\ g[i] \in Nat /\ f[i] <= g[i]
    BY <1>5
  <1>10. s[i] <= t[i]
    BY <1>6, <1>7, <1>8, <1>9
  <1> QED BY <1>4, <1>10

\* What is used lies in the chunks before the last, if that one is empty.
LEMMA UsedOfOthers ==
    ASSUME IInv, Len(chunks) > 1, chunks[Len(chunks)].pos = 0
    PROVE  Used <= TotalTo(Len(chunks) - 1)
  <1>1. /\ DOMAIN chunks = 1 .. Len(chunks) /\ Len(chunks) \in Nat
        /\ \A i \in DOMAIN chunks : /\ chunks[i].pos \in Nat /\ chunks[i].size \in Nat
                                    /\ chunks[i].pos <= chunks[i].size
    <2>1. \A i \in DOMAIN chunks : chunks[i] \in Chunk
      BY DEF IInv
    <2> QED BY <2>1 DEF IInv, Chunk, PosBehindBlocks
  <1> DEFINE p == [i \in DOMAIN chunks |-> chunks[i].pos]
             z == [i \in DOMAIN chunks |-> chunks[i].size]
  <1>2. /\ \A i \in 1 .. Len(chunks) : p[i] \in Nat /\ z[i] \in Nat /\ p[i] <= z[i]
        /\ p[Len(chunks)] = 0
    BY <1>1
  <1>3. Used = SumTo(p)[Len(chunks)] /\ TotalTo(Len(chunks) - 1) = SumTo(z)[Len(chunks) - 1]
    BY DEF Used, TotalTo
  <1> HIDE DEF p, z
  <1>4. PICK n \in Nat : n = Len(chunks) /\ n > 1
    BY <1>1
  <1>5. n \in 1 .. n /\ n - 1 \in 0 .. n
    BY <1>4
  <1>6. SumTo(p)[n] = SumTo(p)[n - 1] + p[n] /\ SumTo(p)[n - 1] \in Nat
    BY <1>1, <1>2, <1>4, <1>5, SumToSteps, SumToRange
  <1>7. SumTo(p)[n - 1] <= SumTo(z)[n - 1]
    BY <1>1, <1>2, <1>4, <1>5, SumToGrows
  <1> QED BY <1>2, <1>3, <1>4, <1>6, <1>7

SumOver(N, f) ==
    LET sum[i \in 0 .. N] == IF i = 0 THEN 0 ELSE sum[i - 1] + f[i] IN sum

\* The sums are those of the sizes.
LEMMA TotalOfSizes ==
    ASSUME DOMAIN chunks' = DOMAIN chunks, Len(chunks') = Len(chunks),
           \A i \in DOMAIN chunks : chunks'[i].size = chunks[i].size
    PROVE  \A n : TotalTo(n)' = TotalTo(n)
  <1>1. [i \in DOMAIN chunks' |-> chunks'[i].size] = [i \in DOMAIN chunks |-> chunks[i].size]
    OBVIOUS
  <1> DEFINE z == [i \in DOMAIN chunks |-> chunks[i].size]
             y == [i \in DOMAIN chunks' |-> chunks'[i].size]
  <1>2. ASSUME NEW n
        PROVE  /\ TotalTo(n) = SumOver(Len(chunks), z)[n]
               /\ TotalTo(n)' = SumOver(Len(chunks'), y)[n]
    BY DEF TotalTo, SumTo, SumOver
  <1> QED BY <1>1, <1>2

\* The chunk nobody used is empty, and all that was used fits in the others.
IdleInv ==
    /\ poolUsage \in window \cup {0}
    /\ idle /\ Len(chunks) > 1 =>
          /\ chunks[Len(chunks)].pos = 0
          /\ \A u \in window : u <= TotalTo(Len(chunks) - 1)

LEMMA AllocIdle == ASSUME IInv, IdleInv, NEW n \in Sizes, Alloc(n) PROVE IdleInv'
  <1>1. PICK k \in DOMAIN chunks : /\ chunks' = [chunks EXCEPT ![k].pos = PosAfter(@, n)]
                                  /\ idle' = (idle /\ k # Len(chunks))
    BY DEF Alloc
  <1>2. UNCHANGED <<poolUsage, window>>
    BY DEF Alloc
  <1>3. \A j \in DOMAIN chunks : chunks[j] \in Chunk
    BY DEF IInv
  <1> DEFINE new == [chunks[k] EXCEPT !.pos = PosAfter(chunks[k].pos, n)]
  <1>4. new.size = chunks[k].size
    BY <1>3 DEF Chunk
  <1>5. chunks' = [chunks EXCEPT ![k] = new]
    BY <1>1
  <1> HIDE DEF new
  <1>6. /\ DOMAIN chunks' = DOMAIN chunks /\ Len(chunks') = Len(chunks)
        /\ \A j \in DOMAIN chunks : chunks'[j].size = chunks[j].size
        /\ \A j \in DOMAIN chunks : j # k => chunks'[j] = chunks[j]
    BY <1>4, <1>5 DEF IInv
  <1>7. \A j : TotalTo(j)' = TotalTo(j)
    BY <1>6, TotalOfSizes
  <1>8. ASSUME idle', Len(chunks') > 1
        PROVE  /\ chunks'[Len(chunks')].pos = 0
               /\ \A u \in window' : u <= TotalTo(Len(chunks) - 1)'
    <2>1. idle /\ k # Len(chunks) /\ Len(chunks) > 1
      BY <1>1, <1>6, <1>8
    <2>3. Len(chunks) \in DOMAIN chunks
      BY DEF IInv
    <2>2. chunks'[Len(chunks')] = chunks[Len(chunks)]
      BY <1>6, <2>1, <2>3
    <2> QED BY <1>2, <1>6, <1>7, <2>1, <2>2 DEF IdleInv
  <1> QED BY <1>2, <1>6, <1>8 DEF IdleInv

LEMMA FreeIdle == ASSUME IInv, ShrinkInv, IdleInv, Free PROVE IdleInv'
  <1>1. /\ poolUsage' = IF Decides THEN 0 ELSE Peak
        /\ window' = IF Decides THEN {} ELSE window \cup {Used}
        /\ idle' = (idle \/ Decides)
    BY DEF Free, UsageAfter
  <1>2. poolUsage \in Nat /\ Used \in Nat /\ Len(chunks) \in Nat
    BY SumsOfChunks DEF ShrinkInv, UsageInv, IInv
  <1>3. poolUsage' \in window' \cup {0}
    BY <1>1, <1>2 DEF IdleInv, Peak, Max2
  <1> DEFINE rest == IF Drops THEN SubSeq(chunks, 1, Len(chunks) - 1) ELSE chunks
  <1>4. rest \in Seq(Chunk) /\ Len(rest) \in Nat /\ DOMAIN rest = 1 .. Len(rest)
        /\ (~Drops => rest = chunks)
    <2>1. chunks \in Seq(Chunk) /\ (Drops => Len(chunks) > 1)
      BY DEF IInv, Drops, Decides
    <2> QED BY <2>1
  <1>5. chunks' = [j \in 1 .. Len(rest) |-> [rest[j] EXCEPT !.pos = 0]]
    <2>1. chunks' = Emptied(rest)
      BY DEF Free
    <2> HIDE DEF rest
    <2> QED BY <1>4, <2>1 DEF Emptied
  <1> HIDE DEF rest
  <1>6. /\ DOMAIN chunks' = 1 .. Len(rest) /\ Len(chunks') = Len(rest)
        /\ \A j \in 1 .. Len(rest) : chunks'[j].pos = 0 /\ chunks'[j].size = rest[j].size
    <2>1. \A j \in 1 .. Len(rest) : rest[j] \in Chunk
      BY <1>4
    <2> QED BY <1>4, <1>5, <2>1 DEF Chunk
  <1>7. ASSUME idle', Len(chunks') > 1
        PROVE  /\ chunks'[Len(chunks')].pos = 0
               /\ \A u \in window' : u <= TotalTo(Len(chunks) - 1)'
    <2>1. chunks'[Len(chunks')].pos = 0
      BY <1>4, <1>6, <1>7
    <2>2. CASE Decides
      BY <1>1, <2>1, <2>2
    <2>3. CASE ~Decides
      <3>1. ~Drops /\ rest = chunks /\ idle
        BY <1>1, <1>4, <1>7, <2>3 DEF Drops
      <3>2. \A j : TotalTo(j)' = TotalTo(j)
        BY <1>4, <1>6, <3>1, TotalOfSizes
      <3>3. Len(chunks') = Len(chunks)
        BY <1>6, <3>1
      <3>4. chunks[Len(chunks)].pos = 0 /\ \A u \in window : u <= TotalTo(Len(chunks) - 1)
        BY <1>7, <3>1, <3>3 DEF IdleInv
      <3>5. Used <= TotalTo(Len(chunks) - 1)
        BY <1>7, <3>3, <3>4, UsedOfOthers
      <3> QED BY <1>1, <2>1, <2>3, <3>2, <3>3, <3>4, <3>5
    <2> QED BY <2>2, <2>3
  <1> QED BY <1>3, <1>7 DEF IdleInv

LEMMA StepIdle == IInv /\ ShrinkInv /\ IdleInv /\ [Next]_vars => IdleInv'
  <1> SUFFICES ASSUME IInv, ShrinkInv, IdleInv, [Next]_vars PROVE IdleInv'
    OBVIOUS
  <1>1. ASSUME NEW n \in Sizes, Alloc(n) PROVE IdleInv'
    BY <1>1, AllocIdle
  <1>2. ASSUME NEW n \in Sizes, AllocNewChunk(n) PROVE IdleInv'
    BY <1>2 DEF AllocNewChunk, IdleInv
  <1>3. CASE Free
    BY <1>3, FreeIdle
  <1>4. CASE UNCHANGED vars
    <2>1. \A n : TotalTo(n)' = TotalTo(n)
      BY <1>4, TotalOfSizes DEF vars
    <2> QED BY <1>4, <2>1 DEF vars, IdleInv
  <1> QED BY <1>1, <1>2, <1>3, <1>4 DEF Next

\* async_mempool.cc:84-99: the peak free() keeps is the use of one of the rounds since
\* its last decision, so a last chunk that none of them needed goes at the next one,
\* unless one of them filled the other chunks to the last byte.
THEOREM IdleChunksAreDropped == Spec => IdleChunkIsDropped
  <1> DEFINE Given == Free /\ Decides /\ idle =>
                        \/ Len(chunks') < Len(chunks)
                        \/ TotalTo(Len(chunks) - 1) \in window \cup {Used}
  <1>1. Init => IdleInv
    BY DEF Init, IdleInv
  <1>2. IInv /\ ShrinkInv /\ IdleInv => [Given]_vars
    <2> SUFFICES ASSUME IInv, ShrinkInv, IdleInv, Free, Decides, idle, ~(Len(chunks') < Len(chunks))
                 PROVE  TotalTo(Len(chunks) - 1) \in window \cup {Used}
      OBVIOUS
    <2>1. Len(chunks) \in Nat /\ Len(chunks) > 1
      BY DEF IInv, Decides
    <2>2. ~Drops
      BY <2>1, FreeKeepsSizes
    <2>3. PICK t \in Nat : t = TotalTo(Len(chunks) - 1)
      <3>1. Len(chunks) - 1 \in 0 .. Len(chunks)
        BY <2>1
      <3> QED BY <3>1, SumsOfChunks
    <2>4. ~(Peak < t)
      BY <2>2, <2>3 DEF Drops
    <2>5. Used \in Nat /\ poolUsage \in Nat /\ Used <= t
      BY <2>1, <2>3, SumsOfChunks, UsedOfOthers DEF ShrinkInv, UsageInv, IdleInv
    <2>6. poolUsage \in window \/ poolUsage = 0
      BY DEF IdleInv
    <2>7. poolUsage \in window => poolUsage <= t
      BY <2>1, <2>3 DEF IdleInv
    <2>8. Peak = t /\ (Peak = poolUsage \/ Peak = Used)
      BY <2>4, <2>5, <2>6, <2>7 DEF Peak, Max2
    <2> QED BY <2>3, <2>5, <2>6, <2>8 DEF Peak, Max2
  <1>3. [][Given]_vars => IdleChunkIsDropped
    BY PTL DEF IdleChunkIsDropped
  <1> QED BY <1>1, <1>2, <1>3, InitShrink, StepShrink, StepIdle, IInvHolds, PTL DEF Spec
=============================================================================
