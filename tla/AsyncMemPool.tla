---------------------------- MODULE AsyncMemPool ----------------------------
(***************************************************************************)
(* AsyncMemPool (common/config/async_mempool.{h,cc}): the configuration    *)
(* parser's scratch memory.  Blocks are cut from the front of the first    *)
(* chunk with room and are never returned one by one: free() takes all of  *)
(* them back.  Every ROUNDS-th free() may drop the last chunk, if what was *)
(* used since the last such decision fits without it.                      *)
(*                                                                         *)
(* calloc and strdup are alloc followed by writes into the block.  malloc  *)
(* does not fail.                                                          *)
(***************************************************************************)
EXTENDS Integers, Sequences, FiniteSets

CONSTANTS DefaultSize,  \* defaultSize
          ROUNDS,       \* the 10 of free()
          Sizes,        \* the sizes asked for
          MaxChunks,    \* bound: chunks
          MaxFrees      \* bound: calls of free()

ASSUME PoolAssumption ==
    /\ DefaultSize \in Nat /\ ROUNDS \in Nat \ {0} /\ Sizes \subseteq Nat
    /\ MaxChunks \in Nat \ {0} /\ MaxFrees \in Nat

VARIABLES
    chunks,             \* chunks: their size and pos
    poolUsage,          \* the most used in a round since the last decision
    poolUsageCounter,   \* rounds since then
    blocks,     \* history: the blocks handed out since the last free()
    window,     \* history: what each round used since the last decision
    quiet,      \* history: rounds below DefaultSize on end, the chunks the same
    idle,       \* history: no block of the last chunk since the last decision
    frees       \* counter for the bound

vars == <<chunks, poolUsage, poolUsageCounter, blocks, window, quiet, idle, frees>>

Max2(i, j) == IF i > j THEN i ELSE j

\* Sums over the chunks.
SumTo(f) ==
    LET sum[i \in 0 .. Len(chunks)] == IF i = 0 THEN 0 ELSE sum[i - 1] + f[i] IN sum
Used == SumTo([i \in DOMAIN chunks |-> chunks[i].pos])[Len(chunks)]
TotalTo(n) == SumTo([i \in DOMAIN chunks |-> chunks[i].size])[n]

-----------------------------------------------------------------------------
Room(i, n) == chunks[i].size - chunks[i].pos >= n

\* Mutant: pos is where the last block begins.
PosOfLast(pos, n) == pos

PosAfter(pos, n) == pos + n

\* alloc: the block is cut from the first chunk with room ...
Alloc(n) ==
    /\ \E i \in DOMAIN chunks :
          /\ Room(i, n)
          /\ \A j \in 1 .. i - 1 : ~Room(j, n)
          /\ chunks' = [chunks EXCEPT ![i].pos = PosAfter(@, n)]
          /\ blocks' = blocks \cup {[chunk |-> i, from |-> chunks[i].pos, size |-> n]}
          /\ idle' = (idle /\ i # Len(chunks))
    /\ UNCHANGED <<poolUsage, poolUsageCounter, window, quiet, frees>>

\* ... or from a new one.
AllocNewChunk(n) ==
    /\ \A i \in DOMAIN chunks : ~Room(i, n)
    /\ Len(chunks) < MaxChunks
    /\ chunks' = Append(chunks, [size |-> Max2(n, DefaultSize), pos |-> n])
    /\ blocks' = blocks \cup {[chunk |-> Len(chunks) + 1, from |-> 0, size |-> n]}
    /\ quiet' = 0 /\ idle' = FALSE
    /\ UNCHANGED <<poolUsage, poolUsageCounter, window, frees>>

-----------------------------------------------------------------------------
\* Mutant: what the rounds used is added up.
PeakSum == poolUsage + Used

Peak == Max2(poolUsage, Used)

\* A decision about the last chunk is due.
Decides == poolUsageCounter + 1 >= ROUNDS /\ Len(chunks) > 1

Drops == Decides /\ Peak < TotalTo(Len(chunks) - 1)

\* Mutant: poolUsage is kept over a decision.
UsageKept == Peak

UsageAfter == IF Decides THEN 0 ELSE Peak

Emptied(s) == [i \in DOMAIN s |-> [s[i] EXCEPT !.pos = 0]]

Free ==
    /\ frees < MaxFrees
    /\ chunks' = Emptied(IF Drops THEN SubSeq(chunks, 1, Len(chunks) - 1) ELSE chunks)
    /\ poolUsage' = UsageAfter
    /\ poolUsageCounter' = IF Decides THEN 0 ELSE poolUsageCounter + 1
    /\ blocks' = {}
    /\ window' = IF Decides THEN {} ELSE window \cup {Used}
    /\ quiet' = IF Used < DefaultSize /\ ~Drops THEN quiet + 1 ELSE 0
    /\ idle' = (idle \/ Decides)
    /\ frees' = frees + 1

\* initialize.
Init ==
    /\ chunks = << [size |-> DefaultSize, pos |-> 0] >>
    /\ poolUsage = 0 /\ poolUsageCounter = 0
    /\ blocks = {} /\ window = {} /\ quiet = 0 /\ idle = TRUE /\ frees = 0

Next == Free \/ \E n \in Sizes : Alloc(n) \/ AllocNewChunk(n)

Spec == Init /\ [][Next]_vars

-----------------------------------------------------------------------------
(* Properties. *)

Apart(a, b) ==
    \/ a.chunk # b.chunk
    \/ a.from + a.size <= b.from
    \/ b.from + b.size <= a.from

\* The blocks in use lie inside their chunks and share no byte, over chunks that
\* come and go (async_mempool.cc:68): a word of the line being parsed is never
\* overwritten by the next one.
BlocksApart ==
    /\ \A b \in blocks :
          b.chunk \in DOMAIN chunks /\ b.from + b.size <= chunks[b.chunk].size
    /\ \A a, b \in blocks : a # b => Apart(a, b)

\* A chunk that no round since the last decision took a block from is given back
\* at the next one (async_mempool.cc:91-99), however much the other chunks were
\* used, unless a round filled them to the last byte.  A chunk that rounds do use
\* may be given back as well: free() counts bytes, and does not ask whether a
\* block of that chunk would have fitted into what the others had left.
IdleChunkIsDropped ==
    [][Free /\ Decides /\ idle =>
          \/ Len(chunks') < Len(chunks)
          \/ TotalTo(Len(chunks) - 1) \in window \cup {Used}]_vars

\* A burst is forgotten: a pool of several chunks that is hardly used gives the
\* last one back within two decisions.
QuietPoolShrinks == Len(chunks) > 1 => quiet < 2 * ROUNDS
=============================================================================
