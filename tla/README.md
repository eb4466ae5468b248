# A TLA+ verification of jserver

jserver is a C++ game-server skeleton. `ConnSvr` owns the client sockets,
`Zone` runs the world; the two processes exchange messages through queues in
shared memory, and `Zone` keeps its timers and objects in shared memory so that
a restarted process can resume them.

## 1. The system

| part | source | state | operations | what makes it correct |
|---|---|---|---|---|
| MessageQueue | `common/container/message_queue` | `head_idx`, `tail_idx`, `size` and the bytes, in shared memory | `Attach`, `SendMsg`, `RecvMsg` | messages come out whole, in order, at most once, with no lock and whoever dies |
| MessageChannel, GetShmEx | `common/container/message_channel`, `common/platform/os_shm` | two segments, which process created each | `Create`, `SendMsg`, `RecvMsg` | a segment is initialised once, by its creator, before it is used |
| CTimerQueue | `common/jybase/timer_queue`, `array_list.h`, `timer_data.h`, `sys_time.h` | wheel of buckets, node pool, free stack, running iterator, current tick, run flag, counts per type | `CreateTimerQueue`, `Schedule`, `Cancel`, `Tick`, `SkipTick`, `DoBadTimeList` | a timer fires at its tick, once per period, never after its cancellation; a restart loses none |
| CObjPoolBase, TObjPool, tagObjID | `common/jybase/obj_pool`, `obj_desc`, `buffer_array.h` | nodes, free list, bit map of busy slots, allocation counts, id sequence | `CreatePool`, `Allocate`, `Deallocate`, `GetBySeq`, `ForeachObj`, `ResumeNode` | an id names the object it was made for or nothing; a restart rebuilds the pool |
| CRunFlag, CWorld | `common/base/run_flags`, `Zone/src/system/world`, `Zone/src/main.cc` | one flag word in two groups | `SetFlag`, `ClearFlag`, `IsFlagSet`, the main loop | a request to stop stops the loop |
| SocketManager, TcpSocket, EpollSocketManager | `common/network` | connection map, cached writes, epoll set | connect, accept, send, close, event dispatch | what is sent arrives once and in order; a closed socket is gone |
| CConnMgr, CConnClientMgr, CConnSvr | `ConnSvr/src` | clients, channel to Zone | `InitConnMgr`, `Update`, package handlers | start-up stops at the first failure |
| AsyncMemPool | `common/config/async_mempool.cc` | chunks, used bytes | `alloc`, `free` | live blocks are disjoint |
| DOTCONFDocument, CConfigReader | `common/config` | node tree, open files | `setContent`, `findNode` | each file read once, every node closed |
| pb_config, file_reader, global_buff, os_* wrappers, `Proto`, CAsynQueue | `common`, `Proto`, `Zone/src/framework` | - | - | - |

The parts interact as follows. ConnSvr's main loop calls
`CConnMgr::Update`, which polls up to 100 messages from its MessageChannel and
then the sockets. Zone's main loop (`CWorld::Loop`) reads the CRunFlag word,
ticks the CTimerQueue and sleeps. A timer holds a `tagObjID`; when it
fires, the id is resolved in the object pool and nothing is run if the object
has gone. The callback runs inside `CheckTickArray` and may schedule and cancel
timers while the bucket is being walked. `DoBadTimeList` reports a damaged
wheel through CRunFlag.

The behaviours that are hard: two processes on one ring with stale copies of
each other's index; the order in which two processes create and initialise a
segment; death between any two stores; callbacks that change the list that is
being walked; a wall clock that jumps either way; ids that outlive
their object; state that survives the process and must be taken up by the next.

## 2. The modules

| module | what it is |
|---|---|
| `Fifo` | the promise of a queue: what is accepted comes out, once, in order |
| `MessageQueue` | the ring of `message_queue.cc`, store by store |
| `MCMessageQueue` | the run, and the refinement of `Fifo` |
| `MessageQueueProofs` | type correctness, room, no overwriting; what is sent is what is received; no needless refusal; the steps of `Fifo`; for every size |
| `MessageChannel` | the two segments of `message_channel.cc`: who creates, who stores the header, who sends before that |
| `MessageChannelProofs` | a late header wipes no message, only a full queue loses one, a segment without header is accounted for, for every capacity |
| `TimerService` | the promise of a timer queue: at its tick, once per turn |
| `TimerQueue` | the wheel of `timer_queue.cc`, its tasks, a restart, and how it stands for `TimerService` |
| `MCTimerQueue` | the runs |
| `TimerQueueProofs` | the lists, the cursor, the ids, and that every step is one of `TimerService`, for every wheel |
| `ArrayList` | one bucket and the free stack of `array_list.h`, store by store, with deaths between stores and the repair of `DoBadTimeList` |
| `ArrayListProofs` | the two chains, what a death between two stores costs, what the repair finds, for every number of nodes |
| `World` | `CRunFlag`, the main loop of Zone, start-up, signals |
| `WorldProofs` | one start mode, one quit mode, one group per call, for every set of flags |
| `ObjPool` | `TObjPool` and `tagObjID`, step by step where a death shows |
| `MCObjPool` | its runs |
| `ObjPoolProofs` | what an id is worth; the free list; the sizes; what a death costs; the loop; for every size |
| `AsyncMemPool`, `AsyncMemPoolProofs` | the parser's scratch memory; its blocks share no byte, a last chunk that is not used is dropped at the next decision |
| `DotConf`, `MCDotConf` | `setContent` of `dotconfpp.cc`: lines, tags, macros, includes; the documents of its run |
| `DotConfProofs` | what is accepted is complete, every included file with it, the links are the text, the words stay allocated, for every set of documents |

Definitions keep the names of the source. A definition named in a comment as a
*mutant* is not part of any specification: it is a version of the definition
after it with a bug somebody could have written, and there to show that a
property notices it.

### MessageQueue

`head_idx`, `tail_idx` and `queue_buff` are the shared segment; `sPc, sTail,
sMsg` and `rPc, rHead, rTail, rLength, rBuf` are where `SendMsg` and `RecvMsg`
are and what they hold in locals. `SendMsgBegin` reads both indices,
`SendMsgLength` stores the four bytes of the prefix, `SendMsgPayload` or
`SendMsgPayloadToEnd; SendMsgPayloadRest` are the one or two `memcpy`s,
`SendMsgPublish` is `SetTailIdx`. `RecvMsg` is cut in the same way. A byte is
abstracted to which byte of which message it is. The receiver runs between any
two steps of the sender and the other way round, each with the index it read
earlier. `SenderCrash` and `ReceiverCrash` lose the locals and leave the segment,
as `Attach` without `init_head` does. Assumed: stores become visible in program
order (x86), and the compiler keeps them in that order. The indices are plain ints
without a barrier, so the source does not demand it; the stores before them
are calls of `memcpy` and byte accesses that may alias them.

### TimerQueue

`bucket` holds the lists of `array_list.h` as sequences; `freeList` is the free
stack; a node in neither is the one whose task runs. `TickBegin`, `WalkBegin`,
`PassOver`, `TimeOut`, `Rearm`, `Retire`, `WalkEnd` are `Tick` and
`CheckTickArray`; `mode` tells `SkipTick` apart. Between `TimeOut` and `Rearm` or
`Retire` the task runs, and every action of the main loop on timers is open to
it, cancelling itself or the node under `tickIterator` included. A death may fall
between any two of these steps; `CrashAndResume` is `CreateTimerQueue` with
`resume`. Schedule and Cancel are single steps: they are calls within one thread;
a death in their middle is the subject of `ArrayList`. `SkipTick` is called with a clock that
went forward, as timer_queue.h:98 says.

### ArrayList

The module below `TimerQueue`: `next`, `prev` and `below` are the words `m_next` and
`m_prev` of each node, `top` is `m_top`. A call is the sequence of its stores
(`PushBack`, `Erase`, `PushFree`), which `Store` makes one at a time from `todo`; the
guards are the asserts of `array_list.h`, and an assert that fails or a pointer
that leads nowhere is `pc = "fault"`. The walk is `CheckTickArray` on one bucket
with the set `due` of timers whose time has come. `Die` may fall between any two
stores, `StartAgain` follows an abort; the lists are taken up as they are, as
`resume()` does. `DoBadTimeList` looks for the bad node on the chain of `m_prev`
and links it again. The run flag is taken as handed over, as in `World`.

What the run shows: up to a death, the two chains agree between calls and no
assert fails (`ChainsAgree`); the chain of `m_prev` is whole after every single
store (`PrevChainStaysWhole`), and a death loses only the nodes on the move
(`DeathCostsMovedNodes`). After a death in the middle of an append `m_next` of the
last node may be the node itself; the comment at timer_queue.cc:367 wants to repair
that from the chain of `m_prev`, but the node is not on that chain yet, so the
repair never finds it and the server is told to quit (`RepairFindsNothing`).
The walk still comes to an end (`WalkEnds`). These hold until a torn list is
used again (`list = "used"`): after further calls `m_next` can form a circle
of several nodes, which `CheckTickArray` follows for ever, and a death in the
erasure of a last node can make timers appended later unreachable.

### MessageChannel

Each segment is its header, `head`, `tail` and `size`, and the count of messages; inside
a queue is `MessageQueue`'s subject, so that a message is one cell and the indices do not wrap.
`GetShmEx` is one step, because `shmget` with `IPC_EXCL` is; the stores of `Attach` are
one step each and come after both segments were found (message_channel.cc:44-45).
Two processes that swap the keys run it against each other. The peer of ConnSvr,
the game process, is not in the repository; it is taken to use the same class.
A process dies at any step, of a zero divisor in `SendMsg` (`SendMsgFault`), or
after a failed `Create`, whose result ConnSvr does not look at. Stores are
visible in program order, as in `MessageQueue`.

### AsyncMemPool and DotConf

`AsyncMemPool` has the chunks with their `pos`, and the blocks handed out since the
last `free()`. `DotConf` runs `setContent` on a document chosen at the start: a file is
a sequence of lines, a line its words and how it ends. Each action is the
treatment of a line, a word, a node or an included file. The pool shows in `round`,
the calls of `free()` so far, which each unparsed word remembers. Inputs: words
stand for themselves, quotes that span lines are taken as joined, a closing tag
ends in `>` (without it `tagNode` of line 256 may be null), a macro is a whole
value, and the value it is replaced by is not itself looked at again. The tree has
no bound; the documents are bounded.

### World

`flag_` is the word as a set of bits. `SetFlag` and `ClearFlag` are functions
from word to word; the actions call them while the loop serves. The failure
path of `DoBadTimeList` sits here because its effect is on the flags. It takes
the run flag as handed over, which no caller in the repository does yet
(timer_queue.cc:604).

### ObjPool

`bit_map_`, `free_node_`, `max_used_node_` and the two counts are the members of
the pool. `typed` and `m_seq` are the header of each object. `Allocate` is
`TakeFreeNode; MarkBusy; CountAllocate; [Rebase;] NumberObject; NameObject`,
`Deallocate` is `Deallocate; SetFreeNode; Destroy`: a step for each store after
which a death would show. `dying` is the stack of destructors that run, so that one
object can delete another. `ForeachObj` is a loop with its own place, so that
the function it calls can use the pool in between. `CrashAndResume` is
`CreateObjpool` with `resume`; `Linked` says what list `ResumeNode` builds.
`uses`, `alive`, `of`, `there` and `seen` are history and no step reads them.
The two templates call `SetObjType` and `destroy`, which exist nowhere
(`_SetObjType`, obj_desc.h:41, and `Destroy`, obj_pool.h:36, do); nothing
instantiates them yet. The model takes the existing functions. Also assumed:
constructors leave `m_type` and `m_seq` as they find them (obj_desc.h:57-60 wants
that), a fresh segment is zero, and destructors do not allocate.

## 3. The runs

| run | question | size | result |
|---|---|---|---|
| `message_queue` | do frames come out whole, once and in order, with both sides dying? | ring of 20 bytes, payloads of 0, 3, 7, 9, four sends, one death | holds |
| `timer_queue` | does a task's scheduling and cancelling damage the walk? | 2 nodes, 2 buckets, 3 schedules, 2 cancels, ids repeat after 2 | holds |
| `timer_restart` | is a timer lost or late when the process dies? | the same with 2 schedules, 1 cancel, one death | holds |
| `array_list` | what do deaths between two stores do to the lists, and what can the repair do? | 3 nodes, one death | holds |
| `message_channel` | what if the header comes late, or never? | one message per segment, 3 sends each, 2 deaths, 1 failing call | holds |
| `async_mem_pool` | do blocks overlap; does the pool shrink, and does a chunk nobody uses go? | chunks of 3, requests 0, 1, 2, 4, 3 chunks, 6 rounds, a decision every 2 | holds |
| `dot_conf` | is an accepted document complete, the tree right, the reading finite? | main files of up to 4 lines over 9; pairs of included files | holds |
| `world` | can calls of SetFlag and ClearFlag break the modes; does a request to quit end the loop, whatever is called behind it? | all flags, two of run control | holds |
| `world_quit_modes` | does every way of quitting stop the server once it was asked for? | same | violated |
| `obj_pool` | do ids, counts and loops agree with the objects? | 3 nodes, 2 ids, numbers 1..2, rebase at 4, 5 allocations | holds |
| `obj_pool_restart` | what does a death cost? | 3 nodes, 2 ids, 4 allocations, 2 deaths | holds |
| `pool_foreach_range` | does a loop stay in its range? | 2 nodes | violated |

Why these sizes are enough. A ring of 20 bytes with 8 vacuum slots holds one or two
frames; frames of 4, 7 and 11 bytes make prefix and payload each begin, end and
break at the end of the ring, one of 13 never fits; four sends go round the ring. Two
buckets and delays up to 2 give timers of this turn and the next one in the same
bucket; two nodes give a walked one and its neighbour, and are also the smallest
pool that runs out. Three nodes are needed to have a free list whose middle can
go missing. Two sequence numbers make the round short enough to come
round within the bounds. On a list of three nodes a store can touch the first, a
middle and the last node, and the header; the fourth node would again be a middle one.
One cell makes a segment full after one message; two deaths let a creator die, its
successor meet the bare segment and die of it. Three chunks are the fewest in
which a middle one exists when the last is dropped. Four lines open two tags and
close them in either order, which is what moves `curParent` and `curPrev`; two
files besides the main one include each other, themselves and the main file. What does not depend on the bounds is proved (below).

Deadlock is checked in `array_list` and `async_mem_pool`. The other models stop when
their bounds on calls are used up, `World` and `DotConf` when the process or the
reading is over.

Fairness. `MessageQueue`: the receiver keeps polling, as
`ConnMgr::HandlerPkgFromZone` does in every round of its loop; nothing is assumed
about the sender, which may stop in the middle of a call for ever.
`TimerQueue`: a tick in progress goes on, tasks return, and Tick is called again
after the clock moved; `CWorld::Loop` is where that call belongs ("time update",
world.cc:109), today the line is empty. `ArrayList`: a tick in progress goes on, weakly;
that the task returns is strongly fair, because a task that calls `Schedule` and
`Cancel` over and over disables its own end during each call, and a task
makes finitely many calls. `MessageChannel`: a process that is down is started
again, one that is up polls its queue; nothing makes it send. `World`, `DotConf`: the one
thread runs.
Nothing is assumed about who calls Schedule, Cancel, SendMsg, SetFlag or the pool, nor
about deaths. The runs of ObjPool check safety only.

## 4. What the violated runs show

- **`world_quit_modes`**: run_flags.h:19-23 lists four ways of quitting, and the
  loop obeys two (`CheckRunFlags`, world.cc:84-102). With one of the others set it goes
  on for ever. `DoBadTimeList` runs into it: timer_queue.cc:416-417 asks to kick the users
  and for a core dump, `SetFlag` (run_flags.cc:53) keeps the second, and the server
  with the damaged list runs on. `QuitStops` states what does hold: a request for one
  of the two modes the loop knows stops it, whatever is set or cleared behind it in
  the same iteration, unless a call names another quit mode or clears this one.
- **`pool_foreach_range`**: obj_pool.h:226 lowers `last` below `first`, and the
  loop tests `first != last`.

Seen while modelling, without a run of their own. Timers: repeat count 0 is
accepted and decremented before it is looked at, so the timer fires with 2^32 - 1 turns
left (timer_queue.cc:438, against timer_queue.h:45); the counts per type are cleared on a
resume although timers stay queued (timer_queue.cc:603, against timer_queue.h:207); a
clock before `m_systemStart` becomes a tick number near 2^32, where the comment at
timer_queue.cc:259-260 wants to wait; the repair of `DoBadTimeList` cannot succeed on
a freshly torn list (above). Pool: a death between obj_pool.h:283 and the destructor
leaves a free node with a type, and the old id leads to it (against obj_desc.h:31).
Channel: a segment whose creator was lost stays without a header for good.
Scratch memory: `free()` compares sums of bytes, so it can drop the only chunk that has
room for a block the others cannot hold in one piece (async_mempool.cc:93: chunks of
3, 3 and 4 and rounds that ask for one block of 4; the next round allocates the
chunk again). `IdleChunkIsDropped` is about chunks that are not used.
Configuration: a main file whose last line ends in a backslash is not refused, and is
not checked (dotconfpp.cc:356; 1 is returned instead of 0); the values after an already included
file are passed over (386); after an included file that ends in a backslash its
last words are read from freed memory when the next file begins (318). Others: `ClearFlag` tests the word instead of
its argument (run_flags.cc:30), so that with a run control flag set it does clear
modes its comment says it leaves alone; SIGTERM and SIGQUIT have an empty handler (main.cc:53-56); `Cancel` leaves an id
that is out of date in the caller's variable (timer_queue.cc:203, against
timer_queue.h:92); a death between obj_pool.h:306 and 307 makes `Size()`
negative, a death between 299 and 302 makes it one too small; Zone's main.cc:101
assigns `is_resume` the wrong way round, so that no resume is ever asked for.

## 5. The proofs

TLAPS checks these for every value of the constants that the named assumptions allow.

`MessageQueueProofs` (assumes that the ring is at least the vacuum slot, and that
lengths and bounds are numbers). Type correctness alone is not inductive: whether
`Advance` stays in the ring and `GetSize` counts what it should depends on
frames that fit. `IInv` adds three parts. `IndexInv`: the bytes in use and the vacuum slot
never exceed the ring. `SenderInv`: the frame being stored, granted from a
`head_idx` that may be stale, still has its room, because the receiver
only gives bytes back; and the sender's local index is where its place says.
`ReceiverInv`: the frame being read lies within the bytes that were in use when the
receiver looked, because the sender only adds bytes after them. Each step of
either process keeps all three, and a death only forgets locals.
From it follow `TypeCorrect`, `LeftSizeIsNonNegative` (so the unsigned comparison
is harmless) and `SenderAvoidsUnread` (the sender stores only into bytes that the
receiver does not read, which also justifies taking a `memcpy` as one step).

The second half of the module goes on from there to the bytes. `ContentInv` adds what they
are: the bytes in use are, from the head on, the frames of the accepted messages
that were not returned, one after the other with nothing between (`Layout`); behind
the tail is the part of its frame that a running `SendMsg` has stored (`SenderFrame`);
the receiver's locals are the first unread frame, as far as it was read
(`ReceiverFrame`). The steps of the sender need only that they write behind the bytes in
use, which the first invariant gives. From it follow `ReturnsAccepted`;
`RefusesOnlyWhenFull`, since the bytes the sender takes for used at a refusal are the
unread frames and the vacuum slot (their sum is compared with the layout by
a least counterexample, `WellFoundedInduction`); and `ImplementsFifoSteps`, the
refinement of `Fifo` without its fairness: `SendMsgPublish` is the abstract Send, the
last store of `RecvMsg` the abstract Recv, any other step stutters.

`TimerQueueProofs` (assumes `TimerAssumption`). `NodesAreOnce` and `CursorStays` are
inductive together with the types: a node leaves a list only for another or for its
task, what a task calls takes nodes off the walked bucket but moves the cursor with them
(`CancelQueued`), and `Enters` and `Leaves` say for any list what appending and erasing
do to who is on which list. `OldIdsHitNobody` strengthens to `SeqInv`: the number of a
node is as many steps after the one in an id as the node was used since, and it was used
at most once per call of Schedule; the same holds between the ids of two objects. Two
equal ids are thus a multiple of a round apart, and a round takes SEQ_LIMIT - 1 calls.

`KeepsThePromise` is the refinement of `TimerService`, for every wheel, set of calls and
number of deaths. Its hypothesis `NothingWraps` names what the code relies on without a
check: some last tick below 2^32 - 1 is not passed by any clock reading, no reading is
before the start, a delay or period counted from it stays below 2^32, and no timer is
asked for zero turns. These are the two hazards at timer_queue.cc:262 and 438; without
the hypothesis the statement is false, and the runs' constants satisfy it (last tick
4, `WORD` 1000). The invariant `ServeInv` says where the three ticks stand
(`TickInv`: `m_currentTick` is at most one ahead of what `GetCurrentTick` returns, and not
ahead of it during a walk, so that a task never schedules into the tick that is
walked), that a waiting node is never overdue and has turns left, and with a period if
it has several (`NodesInv`), and that every due node of the walked bucket is at the
cursor or behind it (`WalkInv`). The last is the heart: appending, erasing any node, the one under the
cursor too, and moving the cursor all keep a due node from falling behind it
(`BehindAppend`, `BehindErase`, `BehindEraseNext`, `BehindNext`), and behind the end there
is none, so `WalkEnd` is the abstract Advance. `TimeOut` is Run, `Rearm` Again,
`CancelOrphan` CancelRunning if the node is the running one; a node that a death left in no
list can still be cancelled, which stutters.

`ArrayListProofs` (assumes `ArrayListAssumption`). The invariant names what the offsets lead
to: a *row* of different nodes is the list, linked both ways (`Ring`), another row the
free stack (`Stack`). Between two calls that is all; within a call `Phases` says, for each
set of stores that is still to be made, which of the links of the two rows are already
those of the row after the call. With `Accounted` (each node is on the list, on the stack, running, on the move, or taken
by a death) and `Cursor` (the walk's place is on the row) that is inductive: each `Store` takes one phase to the
next. A death leaves the phase it fell into as a torn list (`TornAs`): the chain of `m_prev`
is still a row, that of `m_next` goes through different nodes to the header, to an
orphan or to a node linked to itself, and whoever is on neither it nor the stack was
taken by a death.
`SoundListsAgree`, `PrevChainIsWhole`, `OnlyMovedNodesAreLost` and
`NothingIsRepaired` follow. As in the run, nothing is said about a torn list once it
was used again. The invariant was checked by TLC first, with the rows computed from
the links, on three nodes and two deaths.

`ObjPoolProofs` (assumes `PoolAssumption`). `LivingResolves` and
`NeverAnotherObject` speak of ids that were made long ago; the strengthening
`OwnersInStep` says that the number of a node is exactly as many steps after the
number in an id as the node was used since, modulo the round. With
`AliveIsTyped` (an object in use has its type; its destructor does not run) and
`NumberedBeforeNamed` that is inductive, and death needs no case of its own: a
dead allocation has used a number or it has not. `FixFreeListIsNotNeeded` uses
`Chain`: the head and the links of the list are distinct and stay on it.
So GetFreeNode never meets the busy node that `FixFreeList`
is there for; its body, which decrements its index twice (obj_pool.h:139-142),
is dead code. `DeathLeaksOneNode` counts the nodes that are busy without an object: each
step of an allocation leaves one at most, the last step takes it away again, and a
death keeps it for good. `ForeachMissesNone` needs that `max_used_node_` is beyond every
object, that an object is on a busy node (so the loop passes over none), and that the
place of a deleted object is taken by another use of the node (`ThereInv`).
`SizesAreExact` and `DeathsMakeSizesSmaller` count the busy nodes step by step (`CountInv`);
the first is about pools that met no death, the second about counts that were not
rebased (`allocates < MAX_ALLOCATE_COUNT`), because a death between the two stores of the
rebase makes the size negative (obj_pool.h:306, a hazard no property covers).
`FreeListIsSound` needs that the list has an end: `RankInv` gives each free node a rank that
grows along the links, and has each node but the head come after another. That the recursive walk
of the property reaches the end within the size of the pool is a least-element
argument over the set of nodes it has seen.

`MessageChannelProofs` (assumes `ChannelAssumption`). That a header stored late wipes
nothing is inductive once one knows who may still store it: `HeadersToCome` says that
a header to come is in one process's `todo` only, that its segment has no size yet,
and that the size is the last store of each header; `BareIsUnused` that a segment
without a size has seen no message (who sends into it dies); `SenderHoldsTail` that
the tail in a sender's hand is the tail of its segment. `OnlyAFullQueueLoses` and
`BareSegmentsAreAccounted` follow from the same facts and who created which segment.

`AsyncMemPoolProofs` (assumes `PoolAssumption`): `BlocksApart` with `PosBehindBlocks`, that
`pos` has passed every block of its chunk and not its end. `IdleChunksAreDropped` and
`QuietPoolsShrink` are about the two counters of `free()`. `IdleInv`: the recorded peak
is what one of the rounds since the last decision used, and a round that took no block of the
last chunk used no more than the others hold, so that the comparison finds
that chunk spare. `QuietInv`: a time of
little use began after the last decision, or with one that forgot what was used before, so that the
next drops a chunk. The sums over the chunks are recursive functions; that they exist and are
numbers is shown by least counterexamples. `ROUNDS`, 10 in the code, is any positive number.

`WorldProofs`: `OneModeAlways`, with the fact that every flag lies in one of the three
groups, `OneGroupPerCallAlways`, that no step changes flags of two of them, and
`RequestsStand`, the safety half of `QuitStops`: a quit mode that was asked for is in the
word until a call that names a quit mode takes it back, so that the loop sees it.

`DotConfProofs` (assumes `DocumentsAssumption`): the texts are any sequences of lines, of any
length, and include each other in any way. All three theorems come from one invariant: where the
reader stands and how the line before ended (`ReadInv`), how far `checkConfig` came and that the
nodes before it are closed (`CheckInv`), that every value of an include node which `setContent` has
passed was looked into or stands behind one named before, and that no file was looked into
that no node names (`IncludeInv`), that waiting words are of the file that is read and of the
present round of the pool, or of a file that was cut short and is not read again
(`WordsInv`), and the tree (`TreeInv`): the links of each node are the least that the
parents of the others allow, the open tags stand in each other, and `curParent` and
`curPrev` are the innermost open tag and the last node in it, across the jump into the next
file. `AcceptedConfigIsComplete`, `LinksAreTheText` and `WordsAreAllocated` have the
exceptions their properties name: a main file whose last line is continued and for which 1 is
returned, tags closed out of turn, the last words of an included file that is cut short, from the
end of that file on.

Only model-checked: everything about liveness (`AcceptedIsReturned` of the ring and of
the channel, `QueuedTimerEnds`, `WalkEnds`, `QuitStops`, `SetContentEnds`), the fair half of the
refinement of `Fifo` included: fairness is about ENABLED, which the prover does not
reason about. Every other property of a passing run is a theorem.

## 6. What is not modelled

The network layer (`SocketManager`, `TcpSocket`, `EpollSocketManager`): as it stands no
socket ever comes into being. `SocketManager`'s maps are never inserted into, `Listen` and
the event handlers are stubs, `CheckSocketEvents` tests the wrong way round, `Accept`
always returns NULL and `Connect` always fails (inverted tests of `Create`,
tcp_socket.cc:208 and 324), `Close` is empty and `AddCache` has no caller. A faithful
model has a single state. ConnSvr beyond its channel: its start-up tests its results
the wrong way round and ignores them, its handlers are empty. `CAsynQueue` and
`pb_config` are stubs. `CObjPoolMgr` lays out memory. Wrappers of system calls and the
message definitions have no behaviour of their own.

About 250,000 of the repository's 257,500 lines are the vendored copy of protobuf under
`src/thirdparty`; the code of jserver itself is about 8,400 lines, and the modules cover
its parts that keep state.

Within the modelled parts: `CreateObjpool`'s check of sizes, the MD5 audit,
`tagObjIDRannge`, `findNode` and the conversions of configuration values, quoting
inside a line, defaults of macros, `previousNode` (set at dotconfpp.cc:243), log
messages. `SkipTickArray` (timer_queue.cc:520-523) walks like `CheckTickArray`, without the
check of a node linked to itself; `ArrayList` has the walk of `CheckTickArray` only, so that
`WalkEnds` says nothing about skipping through a torn list. `SkipTick` with a clock that went
back is outside the model (timer_queue.h:98 leaves that to the caller). In `MessageChannel`
a message is one cell, so that lengths play no part there: under a header of zeros
`left_size` is -8 and as an unsigned lets any length pass (message_queue.cc:104), and every
message comes to the same modulo by zero.
No property forbids that `ClearFlag` clears a mode (run_flags.cc:30): the code does.

## 7. The plan

All modules of the first plan that the code supports are written. Left, in this order:

1. Proofs: the walk of a bucket by `CheckTickArray` is the walk of `TimerQueue` store by store, that
   is, ArrayList up to its first torn list refines one bucket of TimerQueue.
2. TimerQueue with ObjPool: a timer holds an id, its object may be gone when it fires.
3. The network layer, once it can open a socket.
