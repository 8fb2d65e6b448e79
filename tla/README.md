# Verification of the TCPFighter servers and their libraries

This repository is a collection of Windows C++ projects: libraries
(`src/Library/`: ring buffer, memory pools, lists, trees, loggers, locks, an
IOCP network library) and programs (`src/project/`: four generations of an MMO
"fighter" server, a star server with its clients, path finding, console games,
UDP and select samples).  The program with most system logic, and the most
finished one, is
`project/TCPFighter_with_RPC_for_7000/TCPFighter_with_RPC_for_7000` (below:
"the server"; file names without a path are files of that directory).  It
serves some thousands of sessions from one thread with `select`, divides a map
into sectors and tells each client about the players in the 3x3 block of
sectors around it.

This project models that server, the first of its predecessors, the star
server with its clients, one session of the IOCP library, and those libraries
and algorithms that keep state; checks them with TLC; and proves the main
invariants of most of them with TLAPS.

## 1. Inventory

| Component | State | Operations | Modules |
|---|---|---|---|
| sector grid (`Field.cpp/.h`) | none (constants of `Define.h`) | `GetSectorAround`, `GetUpdateSectorAround` (eight hand-written branches), `GetAttackSectorAround` | `Sector`, `SectorWalk` |
| sector lists and broadcasts (`Field.cpp`) | `g_Sector_CList`, `_CurSector` | `Sector_UpdateCharacter`, `CharacterSectorUpdatePacket`, `SendPacket_Around` | `FighterServer` |
| sessions, select loop (`Session.cpp`) | `g_Session_Arr`, `g_SessionID_Q`, `SendQ`, `RecvQ` | `netIOProcess`, `netProc_Accept/Recv/Send`, `SendPacket_Unicast` | `FighterServer`; byte by byte `Session` |
| packet handlers (`Session.cpp`) | players | `netPacketProc_Movestart`, `_MoveStop`, `_Attack1..3`, `_Echo` | `FighterServer` |
| disconnect list (`Disconnect.cpp`) | list, flags | `enqueueForDeletion`, `Disconnect` | `FighterServer` |
| players, frame update (`Player.cpp`, `Contents.cpp`) | `g_CharacterArr` | `CreateNewPlayer`, `DeleteCharacter`, `Update` | `FighterServer` |
| main loop, heartbeat (`main.cpp`, `Session.cpp`) | clocks, `_HP` as `char` | frame check, `netHeartbeat` | `FighterServer`, `Frames` |
| first server (`project/TCPFighter_Server`) | map of sessions, set of listed ones | `NetWork.cpp`, `PacketDefine.cpp`, `Update` | `EarlyServer` |
| OnlineStar server and client | players, delete set; what a client shows | `main.cpp` of both | `OnlineStar` |
| IOCP library, echo server (`project/NetLib_MMO`, `Library/NetWork`) | I/O count, send flag, two queues | `SendPacket`, `SendPost`, `RecvPost`, `WorkerThread`, `AcceptThread` | `LanSession` |
| `Library/Ring_Buffer`, two-thread programs | two indexes, cells | `Enqueue`, `Dequeue`, `MoveIn/Out`, the direct sizes | `RingIndex`, `RingThreads`, `Pipe` |
| `Library/CMemoryPool` | free list, lock, counts | `Alloc`, `Free`, destructor | `MemoryPool` |
| `Library/MemPoolList`, `List_Project` | nodes, iterator | `push_*`, `pop_*`, `erase`, `remove`, `begin`, `end`; the iterator's `++`, `--`, `+=` | `LinkedList`, `ListPromise` |
| `Library/SerializeBuffer` | positions | put, get, `MoveWritePos`, `MoveReadPos`, resize | `SerializeBuffer` |
| `Library/Logger-main` | number, level, file, buffers | `LOG`, `LOG_BINARY` | `Logger`, `BinaryLog` |
| `Library/Synchronization_Object` | forks on `WaitOnAddress` | `TryLock`, `Lock`, `UnLock` | `Philosophers` |
| `Library/SpinLock` | flag, fork | `SpinLock`, `Fork::get/put` | `SpinTable` |
| `Library/Tree`, `Red_Black_Tree` | nodes | `insert`, `erase`; `RBInsertFixup` | `SearchTree`, `KeySet`, `RedBlackTree` |
| `project/PathFinder` | two lists, map, markers | A*, jump point search, caves, window | `TileMap`, `PathSearch`, `AStar`, `JumpPoint`, `Cellular`, `PathWindow` |
| CMMOServer and its sectors (`NetLib_MMO`) | | never started | not modelled |
| samples, games, tools, crash dump, console logs | | | not modelled (section 6) |

**How the parts interact.**  In the server `main` calls `netIOProcess` for
ever.  It registers the sessions in batches of 64 for `select`, and scans each
batch in the order of the ids: a readable listening socket leads to
`netProc_Accept`, a readable session to `netProc_Recv` (one `recv`, then every
complete message through `PacketProc` to a handler), a writable one to
`netProc_Send`.  Handlers change players, move them between sector lists, and
put messages in the send queues of *other* sessions; a queue that is full makes
`SendPacket_Unicast` call `enqueueForDeletion` for the receiver, in the middle
of the broadcast.  After the last batch `Disconnect` removes the listed
sessions, and tells their neighbours, which may fill further queues and lengthen
the list it is going through.  When a frame is due, `netHeartbeat` lists the
silent sessions and `Update` moves every player one step, or lists it when it is
dead or has an unknown direction.

The first server works the same way without sectors.  The star server sends at
once instead of queueing, and only to sockets a second `select` calls writable.
In the IOCP library any worker thread takes any completion, and the threads meet
in four places of a session: `IOCount`, `SendFlags`, `SendBuffNum` and `SendQ`.
The libraries between threads (pool, ring buffer, logger, locks) meet their
callers through one lock, two indexes or one flag.

**What is hard here.**  In the servers, which have one thread, it is
*sequences*: a session given up by one handler keeps its player, its place in
the lists and its unread messages until `Disconnect` reaches it; ids are reused
at once; the clients' picture is built from differences (CREATE/DELETE/MOVE/
DAMAGE), so that one missing message leaves a ghost for ever; positions come
from three sources; clocks and counters run over.  In the rest it is
*interleaving*: indexes read at different times, a flag given back just after
another thread looked at it, a wake-up between a failed exchange and the wait,
a number taken long before the lock under which it is written.  The complete
list, line by line, is `hazards` in `PROJECT.json`.

**What makes each component correct.**

- *grid*: the listed differences are the set differences of the two blocks in
  every direction and at every rim; an attack searches every sector it can hit.
- *sector lists*: a live player is in exactly one list, the one of its position.
- *sessions*: an id is in use or free, once; a lost connection ends; the bytes
  of a client are handled as the messages it sent, and it hears those queued.
- *disconnect list*: agrees with the flags; nobody twice; only live sessions;
  nobody is taken off it but by being deleted.
- *broadcasts*: a client knows exactly the players around it, their movement
  and their hit points; a client of the star server shows exactly the others.
- *frames*: one per 40 ms cell of the clock (`TICK_PER_FRAME`), over its wrap; the silent and the
  dead are given up, the others are not.
- *IOCP session*: echoes in order; no packet freed before it is sent; none left
  in the queue when everybody has gone to wait.
- *ring buffer*: with one producer and one consumer and no lock, a bounded FIFO.
- *pool, list, trees, buffer*: a set of blocks of which each is in one place; a
  sequence; a set of keys; the values in the order they were put.
- *locks*: one holder; nobody sleeps beside a free fork; sleepers are woken.
- *logger*: numbers tell the order per thread; one thread has the file; every
  call returns.
- *path finding*: a path exactly when there is one, on every map.

## 2. Modules

| Module | What it is |
|---|---|
| `Sector`, `SectorWalk` | the grid as constant operators; a walk that compares them with their definitions by distance |
| `FighterServer` | the server: state, one action per handler, properties |
| `Session` | one session of it byte by byte: framing and both ring buffers |
| `Frames` | its clocks and counters with their widths |
| `EarlyServer` | the first server |
| `Servers` | `Session`, `Frames` and `EarlyServer` beside one another, with the properties that are both run and proved |
| `OnlineStar` | the star server together with its clients |
| `LanSession` | one session of the IOCP library under the echo server |
| `RingIndex`, `RingThreads`, `Pipe` | the ring buffer's index arithmetic; two threads without a lock; the bounded pipe they implement |
| `MemoryPool` | the pool between threads, with the library's `Free` or the later one |
| `LinkedList` / `ListPromise` | the list over a pool of nodes / the sequence with a cursor it implements |
| `SearchTree` / `KeySet` | the binary search tree / the set it implements |
| `RedBlackTree` | insertion and its repair, a turn of the loop per step |
| `SerializeBuffer` | the message buffer |
| `Logger`, `BinaryLog` | the logger between threads; the layout of a dump |
| `Philosophers`, `SpinTable` | the lock on `WaitOnAddress`; the spin lock |
| `TileMap` | the grid and the exact costs of the searches |
| `AStar` / `PathSearch` | A* / what a search promises |
| `JumpPoint`, `Cellular`, `PathWindow` | the jump point search; the caves; mouse and keys |
| `PathFinder` | search and window beside one another |
| `Parts` | the walk, the pool, the spin lock, the dump, the message buffer, the logger, the jump point search, the list and both trees beside one another, with the properties that are both run and proved |
| `Population` | `LanSession` and `OnlineStar` beside one another, likewise |
| `SectorProofs`, `FighterServerProofs`, `ServersProofs`, `PhilosophersProofs`, `AStarProofs`, `PopulationProofs`, `PartsProofs`, `LibraryProofs` (the ring buffer and the red-black tree) | invariants and theorems |
| `MCFighterServer`, `MCPopulation`, `MCSession`, `MCProgress`, `MCLibrary`, `MCPathFinder` | instances for TLC |

The refinements are `RingThreads` => `Pipe`, `AStar` => `PathSearch`,
`LinkedList` => `ListPromise` and `SearchTree` => `KeySet`.  The window takes
`find` for what `PathSearch` promises, and the list takes `Alloc` for what
`MemoryPool` shows; `Session` and `RingThreads` share `RingIndex`, and
`FighterServer` EXTENDS `Sector`.  A property that a theorem states is defined
where the theorem's module finds it: `MCFighterServer`, `MCSession`,
`MCPopulation` and `MCLibrary` EXTEND the modules whose properties they check and
have the rest as instances.

### 2.1 Sector

A sector is a pair `<<x, y>>`; the arrays `st_SECTOR_AROUND` become sets, so
that the order in which sectors are listed is not kept.  `Quotient` is C++ int
division (towards zero), because `GetAttackSectorAround` divides positions that
can be negative.  The eight branches of `GetUpdateSectorAround` are eight
operators `UpdateLeft`, `UpdateLeftDown`, ..., each with the offsets the branch
writes down, filtered by `CheckSectorCoordinateRange`.

### 2.2 FighterServer: correspondence with the code

The thread's program counter is

| Variable | Code |
|---|---|
| `phase` | which of `netIOProcess` ("io"), `Disconnect` ("disconnect"), the frame check of `main` ("loop"), `Update` ("update") is running |
| `cursor` | where the loop over `g_Session_Arr` / `g_CharacterArr` stands |
| `readSet`, `writeSet` | the `FD_SET`s `select` returned, less what the scan has passed |
| `burst` | messages handled in the receive in progress |

| Variable | Code |
|---|---|
| `live` | ids with an entry in `g_Session_Arr` and `g_CharacterArr` |
| `freeIds` | `g_SessionID_Q` |
| `sendQ` | `SendQ`, counted in messages |
| `idle` | frames since `dwLastRecvTime` |
| `marked`, `discList` | `g_bCheckDisconnectSessionIds`, `g_Disconnect_List` |
| `x`, `y`, `act`, `hp`, `cur` | `_X`, `_Y`, `_dwAction`, `_HP`, `_CurSector` |
| `sector` | `g_Sector_CList`, a set per sector |
| `closed` | environment: the client of the session has gone |
| `view` | history: what the messages put so far in r's queue tell about p |

`view[r][p].copies` is the number of CREATEs less the number of DELETEs;
`act` and `hp` are the last ones told.  It is followed until r is given up,
because what is sent to a session on the disconnect list reaches nobody that
matters.  No action reads it.

| Action | Code |
|---|---|
| `Select`, `EndOfIO` | `netIOProcess` / `netSelectSocket`: one batch; the result of `select` is any set that contains the ended connections |
| `Accept`, `AcceptNone` | `netProc_Accept`, with `CreateNewPlayer` and all its broadcasts; without a free id, or WSAEWOULDBLOCK |
| `RecvNothing`, `RecvClosed` | `netProc_Recv` that returns WSAEWOULDBLOCK; 0 or an error |
| `MoveStart`, `MoveStop`, `AttackMiss`, `AttackHit`, `Echo` | one turn of the loop in `netProc_Recv`: `PacketProc`, the stub and the whole handler |
| `Send`, `SendError` | `netProc_Send`: any part of the queue is taken; an error |
| `DisconnectOne`, `EndOfDisconnect` | one turn of the loop of `Disconnect`; its end |
| `NoFrame`, `NetHeartbeat` | the frame check of `main`: not due; due, then `netHeartbeat` |
| `UpdateDead`, `UpdateMove`, `UpdateInvalid`, `EndOfUpdate` | one player of `Update`, by case; its end |
| `CloseConnection` | environment |

What is abstracted, and why that is sound for the properties:

- *Order in a sector list.*  It decides in which order several sessions that
  overflow in one broadcast are listed, and which of several players in range
  is hit.  Both are left open: `EnqueueForDeletion` yields every order,
  `AttackHit` takes any target.
- *A queue's fill level in messages.*  All messages have similar sizes of a few
  bytes; whether one fits is decided by the number already there.  The boundary
  is `SendQCap`.
- *Time.*  Frames stand for time: `idle` counts frames since the last receive,
  `TimeoutFrames` stands for the 32 seconds.  Heartbeat runs once per frame.
- *Free slots* carry canonical values: `st_SESSION::Init` and `CreateNewPlayer`
  overwrite them on reuse, and nothing reads them before.
- *After an error of `WSASend`* the code passes `MoveOut` a size that was never
  set: `SendError` leaves any fill level behind.

Named bounds: `MinHP` (hits that would take `_HP` below it are left out;
between two frames the code lets it fall without limit, and `Frames` has its
width), `ClientPositions`
(positions clients report; they lie on the map, see section 6), `Directions` /
`BadDirections` (direction values clients use), `SpawnPositions` (a Debug build
uses one point, a Release build a random one), `MaxBurst`, `SendQCap`,
`TimeoutFrames`, `MaxSession`, `FdSetSize`.

### 2.3 RingThreads: correspondence with the code

One module for two programs of `Library/Ring_Buffer/main.cpp`: `DirectTest` is
true for `QueueDirectPush` / `QueueDirectPop` (`VERSION` 4, the one set), which
copy to and from the buffer themselves, false for `QueuePush` / `QueuePop`,
which use `Enqueue` and `Dequeue`.  A step is one read of the other thread's
index, one `memcpy` or one write of an index.

| Action | Code |
|---|---|
| `PushSize` | the loop up to `Enqueue` or `DirectEnqueueSize`: a number of bytes that `GetFreeSize` allows |
| `PushDirect` | `DirectEnqueueSize()` and `MinDataSize` |
| `Enqueue`, `CopyIn`, `CopyInRest`, `MoveIn` | `C_RING_BUFFER::Enqueue`: the refusal, the first and the second `memcpy`, the write of `_In`; `CopyIn` and `MoveIn` are also the `memcpy` and `MoveIn` of `QueueDirectPush` |
| `UseSize`, `UseSize2` | the two lines of `GetUseSize()`, and the number `QueuePop` draws |
| `PopDirect` | the number `QueueDirectPop` draws from `DirectDequeueSize()` |
| `DequeueIn`, `DequeueUse`, `CopyOut`, `CopyOutRest`, `MoveOut` | `C_RING_BUFFER::Dequeue`; the last and `CopyOut` are also those of `QueueDirectPop` |

`GetUseSize()` names `_In` twice, and the members are neither atomic nor
volatile.  A build without optimisation reads it twice, an optimised one may
read it once; two steps stand for both, since nothing need happen in between.
The functions that take the indexes as parameters (`GetFreeSize`, `Enqueue`,
the direct sizes) read each once, and since the other thread only ever moves its
index in the direction that leaves more room, one step stands for both reads.
That `memcpy` and the index writes become visible in program order is assumed
(x86, no compiler reordering across `memcpy`).  Bytes are numbers: the n-th
byte taken from `Q` is n.  Named bound: `MaxBytes`; `SizeT` stands for 2^64.

### 2.4 The other modules: correspondence with the code

`PROJECT.json` maps every definition to its lines.  What a step is:

| Module | A step | Left out or chosen |
|---|---|---|
| `Session` | one `recv`, one message taken out of `RecvQ`, one broadcast into `SendQ`, one `send`, one reuse of the slot | a handler answers its client with up to two messages; a byte is `<< m, k >>`, the k-th of message m; TCP delivers any number of bytes at a time |
| `Frames` | one millisecond, one message, one hit, one frame | `Word` for 2^32, `Half` for 128; one session and the listening one |
| `EarlyServer` | one handler, as in `FighterServer`; `Disconnect` per session told and erased | unknown directions stop the process; MOVE_START carries the direction only, so that a client works out itself which way the other faces (`Started`) |
| `OnlineStar` | one `recv` of a player, one packet of it (`RecvPacket`), one accept, one deletion, one action of a client | one coordinate; messages in TCP's buffers are counted; `PacketSize` for `sizeof(st_PACKET)`, by which the loop counts up while it compares with the number of packets |
| `LanSession` | one access to `IOCount`, `SendFlags`, `SendBuffNum` or an index of a queue | packets are numbers; the client cuts its stream anywhere; `stopped` is a `__debugbreak` |
| `MemoryPool` | what a thread does between two points at which another could interfere | debug marks, construction of the blocks |
| `LinkedList`, `SearchTree` | one call, moves of the iterator included (`+=` goes on by two whatever it is given) | `malloc` and `Alloc` give any free node; the abstract `KeySet` keeps the call and its key in its state (`asked`), so that the change and the answer belong to that key |
| `SerializeBuffer` | one call | whoever calls `MoveWritePos` has written so much itself and keeps to the room there is; `MoveReadPos` moves like `GetData`; `ReWrite` and `ReturnPos`, which nobody calls, are left out |
| `BinaryLog` | one piece of text | lengths from 0: of an empty block nothing is written, and no NUL; what is printed then is left out.  `dwAlign` is not 0, by which the code divides |
| `RedBlackTree` | one turn of `RBInsertFixup` | `find`, `erase`, `traverse` have no body |
| `Logger` | a step of `LOG` up to the next access to what threads share | sizes in characters; text left out |
| `Philosophers` | one interlocked operation, write of the owner, or call of the kernel; the kernel may wake for nothing | `Rounds` bounds the number of meals |
| `SpinTable` | the same for the spin lock | |
| `AStar` | one turn of the loop of `find`; one `GetNextPosition` | equal costs may compare either way (rounding of `double`) |
| `JumpPoint` | one turn of `find` or of a jump | colours; what a read off the grid gives is not known, and one value for all of them (`beyond`) stands for it.  No program creates a `CJumpPointSearch`: the caller is the model's |
| `Cellular` | one generation, or `searchHole` | the map is the set of its road cells |
| `PathWindow` | one window message | drawing, scrolling, zooming; the pointer may be right of the map, where `st_GRID[y][x]` is a cell of the next row, or below it, where a write changes other globals or ends the process |

`LanSession` holds for any thread that has the right to go on: `SendPacket`,
`SendPost` and `SendProc` are cut where another thread may come between, which
is at each interlocked operation and each read or write of an index.

## 3. Runs

A run puts several programs side by side where one question is asked of them
all: the variable `part` says which one a behaviour is about, the others stay
in one initial state, so that the state spaces add up and do not multiply.

| Run | Instance | Checks |
|---|---|---|
| `visibility` | 2 sessions on a strip of 3 sectors, enter at one end, report either, walk, hit, send direction 9, time out; queues of 3 (1 million states) | `TypeOK`, `SectorListsExact`, `IdsConserved`, `DisconnectListExact`; `ClientsInformed`: `ViewExact` and `HitPointsKnown` |
| `population` | 3 sessions in one sector, `select` in batches of 2; 2 players on 3x3 sectors, diagonal moves and direction 9; the star server with 2 sockets, 3 players ever, and with 2 players whose moves may be received two at once, or with one of whom three at once are one too many; an echo session with 3 workers (1.2 million states) | `ClientsInformed`: `DisconnectListExact`, `ViewExact` and, on the plane, `MotionKnown`; `StarsShown`: `DeletedArePlayers` and `OthersShown`; `EchoInOrder`, `SentBeforeFreed`, `NothingStranded` |
| `progress` | 3 philosophers, 2 loggers, the ring buffer, 2 sessions of each server, with fairness | `ForksHeldOnce`, `NoLostWakeup`, `SleeperWakes`; `EveryCallEnds`; `EveryByteTaken`; `GoneAreRemoved`: `ClosedIsEnded`, `DeadIsRemoved` and `DeadIsErased` |
| `session` | rings of 7 bytes, messages of 2 and 3, two connections; clocks modulo 13; the first server with 3 ids, whose players walk to the right (2 million states) | `HandledAsSent`; `HeardAsQueued`, with `NothingSkipped`; `OneFramePerCell`; `GivenUpRightly`: `HeardIsKept`, `SilentIsListed` and `DeadIsListed`; `EarlyAgrees`: `ListedOnce`, `ViewExact`, `MotionKnown` and `HitPointsKnown` of the first server |
| `library` | both ring buffer programs with 5 cells and 13 bytes; a walk over 5x4 sectors; every map of 5x5 for the caves, 4x4 with up to 3 walls for the jumps; pool, list, trees, spin lock, dump, message buffer, 2 loggers | `NoOverrun`, `PipeSpec`, `QueueNothingRefused`; `SectorsExact`: `AroundIsBlock`, `UpdateIsDifference` and `AttackSectorsSuffice`; `CaveKept`: `CaveInOnePiece` and `BiggestKept`; `JumpsAgree`: `ListsAgree` and `NodesInLine`; `PoolExact`: `BlocksInOnePlace` and `CountsExact`; `ListKeepsPromise`, with `EndsAgree`; `TreeKeepsPromise`; `TreeBalanced`: `Linked` and `Balanced`; `EatsAlone`, `TextFits`, `TakenAsPut`; `LinesInOrder`: `NumbersTellOrder` and `FileTaken` |
| `pathfinder` | A* on every map of 3x3 cells, from three starts to every goal; the window, with clicks at two cells, right of the map and below it | `ListsAgree`, `ParentsLead`, `PromiseKept`, `SearchEnds`, `MarkersMatch` |
| `attack_seen` | 2 sessions, 4 sectors | violation of `AttackSeenByAll` |
| `update_return` | 2 sessions, direction 9: one of them is behind the other in `Update` | violation of `EveryPlayerUpdated` |
| `ring_loss` | `QueuePush` / `QueuePop` | violation of `ReadPosFollows` |
| `pool_lock` | the library's `Free` | violation of `LockGivenBack` |
| `framing` | messages in parts | violation of `IncompleteWaits` |
| `star` | 2 sockets | violation of `OwnMovesNotSent` |

Deadlock is not checked where programs have only so much to do (a bound is
reached, a process has stopped, a search has failed); in `visibility`, the
server alone, it is.

Why these bounds are enough.

- *Three sectors in a strip*, over which players jump as well as walk, are the
  least with a pair of sectors out of sight of one another; `plane` (3x3) adds
  the corners, the walk over 5x4 sectors every direction at every rim, and
  `UpdateIsDifference` is proved for all maps.  Two players give every pair of
  roles; the rules for three are pairwise, since a broadcast treats receivers
  independently but for the disconnect list.
- *Three sessions in one sector* are the least in which a removal makes a second
  session overflow while a third is already listed; with `FdSetSize` 2 the
  sessions and the listening socket need two batches, so that a session is
  accepted in the first and read in the second.
- *`SendQCap` 3* is what a newcomer beside one walking player is sent at once;
  queues fill and drain partly in all runs.
- *`MaxBurst` 1*: a client may still send any number of messages, one per
  receive; the loop of `netProc_Recv` with more than one is covered by the
  proofs, which hold for every `MaxBurst`, and by `Session`.
- *`TimeoutFrames` 0* for the three sessions in one sector: a frame, which any
  number of rounds may precede, gives everybody up.  That some are silent and
  others are not is in `visibility` and on the 3x3 sectors, where it is 1.
- *Rings of 5 to 8 cells*: both indexes go round more than once or twice, and
  every relative position of `In`, `Out` and the end of the buffer occurs, with
  a header and a payload cut by it; `RandMax` 5 is above every true size, as
  `RAND_MAX` (32767) is above 237, and below the huge size a torn read gives.
- *Clocks modulo 13 with 16 ticks*: the clock wraps within every behaviour, from
  every phase of the frame grid.
- *Three workers and two messages*: one worker handles, one completes a send,
  one finds the flag taken; with `MaxBuffers` 2 and `Capacity` 4 a send takes
  less than the queue holds.  The proofs hold for any numbers.
- *Three philosophers* are the least with a fork that is nobody's neighbour;
  `Rounds` 1 bounds the meals, not the attempts.  Two loggers suffice for two
  numbers taken in one order and written in the other.
- *Maps of 3x3* contain every local situation of A* (a cell and its eight
  neighbours) and paths around walls; jumps get 4x4 because they stop at corners
  two cells ahead.

Each property has a mutant: a plausible slip in a mapped definition
(`Mut...`, directly before the definition it changes) with which the property
is violated in that run.

**Fairness.**  In `progress`: `WF(Thread(k))` for each thread of the program,
because none of them blocks but in the kernel, and there it is the kernel's
promise to run a thread that can run: servers poll (non-blocking sockets,
`select` without a timeout), the ring buffer's threads poll, loggers wait for a
lock that is given back, philosophers sleep in `WaitOnAddress`.  The conjunction
has one condition per thread number and not per program; a behaviour is about
one program, so fairness of the disjunction is fairness of that program's
thread.  `SF(Frame)`: the frame check is passed again and again and real time
goes on, so some of those passes are frames.  `SleeperWakes` does not use that
the kernel may wake for nothing: `WakeForNothing` is a step without fairness.
Nothing is assumed about clients; `ClosedIsEnded` needs in addition only that
`select` reports an ended connection as readable, which is what `Select` says.
`DeadIsRemoved` holds when no client sends an unknown direction; with one it
fails, by finding 2 below.  In `pathfinder` the window draws on a timer and
`find` is a loop without a wait: `WF` of their steps.

## 4. Findings

1. `Session.cpp:1604`: an attack's motion "must be sent to every session that
   sees the player"; it is sent around the position the *client* reports, which
   is not compared with the server's (`attack_seen`).
2. `Contents.cpp:141`: the default of the switch in `Update` *returns*; the
   comments speak of that player alone.  One client with an unknown direction
   keeps the players with larger ids from moving, and from dying, in that frame
   (`update_return`: `Update` ends with a second player neither visited nor
   listed).
3. `Library/Ring_Buffer/.../C_Ring_Buffer.cpp:181`: when more is asked for than
   there was, `Dequeue` returns what there was and sets `_Out = _In`; bytes
   enqueued during the copy are lost, although the function "takes data and
   moves ReadPos" by "the size taken" (`ring_loss`).  `QueuePop` gets there when
   `GetUseSize()` reads `_In` before and after the producer goes round the end.
   The direct program (`VERSION` 4) is not affected: it only compares that size
   with 0.
4. `Library/CMemoryPool/.../CMemoryPool.h:297`: `Free` returns before the line
   that gives the lock back, so the second call of any thread waits for ever
   (`pool_lock`).  The copy in `NetLib_MMO` has the lines in the right order.
5. `Session.cpp:1094`: the comment says that an incomplete message is left for
   the next frame; the code stops the process (`framing`).
6. `OnlineStar_Server/main.cpp:511`: the client's comment says that it is not
   sent its own moves; the broadcast goes to the sender as well (`star`).

Differences between comments and code that were met, and that no run is about
because they change nothing a property speaks of: `Disconnect.cpp:53` describes
"delete only what is there, the rest next time", the loop goes to the end of the
live list, which `DisconnectListExact` tolerates; in the first server's
`NetWork.cpp:673` `clPacket` is filled once per session and never cleared, so
that several DELETEs go out together, which clients count once;
`JumpPointSearch.cpp:768` and `:772` name different corners for the same
direction; `Logic.cpp:61` says that the rim is wall.

## 5. Proofs

All theorems hold for every value of the constants that satisfies the named
assumptions: `GridAssumption` (sizes are positive), `ServerAssumption`
(capacities are positive), `PlayerAssumption` (a step and an accepted
displacement are at most one sector, positions of clients and spawns are on the
map), `CombatAssumption`, `FullSizeAssumption` (at least two cells),
`TableAssumption` (two philosophers or more), the assumptions on the map in
`TileMap` and `AStar`, `SessionAssumption` (a header and an answer have bytes),
those of `Parts`, `Servers` and `PathFinder` (the user points at the map, right of
it or below it; its corner is never right of the window's or below it), and,
as a hypothesis of the theorems of `PopulationProofs`, `LanAssumption` (the accept thread is no worker; a `WSASend`
takes at least one buffer; the number of messages is a number).  Of `Parts`:
`WalkAssumption` (what an attack reaches is at most a sector, as in
`ContentsDefine.h`), `PoolAssumption` (finitely many addresses, and NULL is none
of them), `SpinAssumption`, `DumpAssumption`, `MessageAssumption` and
`LogAssumption`, which say that numbers are numbers, a field fits in a fresh
buffer and a DWORD has two values, `JumpAssumption` (the map has a cell, and start
and goal are on it), `ListAssumption` and `TreeAssumption` (finitely many nodes,
and NULL and the sentinels are none of them; the keys are integers),
`RedBlackAssumption` (the keys are integers), and `SizeAssumption`: a dump is of at most
214748364 bytes.  Above it the DWORD that counts its characters would come round,
which `BinaryLog` leaves out.  Of `Servers`: `ClockAssumption` (the limit of
silence fits the clock, the hit points of a new player fit a `char` and attacks
only take some) and `EarlyAssumption` (the bounds on ids and queues are numbers).  Of
`Population`: `StarAssumption` (sockets are finitely many numbers, which is the
order of the server's map, a socket takes a message, the screen is two
columns wide or more, and a packet has bytes).

| Theorem | Says |
|---|---|
| `AroundIsBlock` | `GetSectorAround` is the 3x3 block cut off at the map |
| `UpdateIsDifference` | in each of the eight directions the two lists are the differences of the blocks |
| `Invariance`, `TypesKept`, `IdsAreConserved`, `DisconnectListIsExact`, `SectorListsAreExact`, `GivenUpIsForGood` | the server: `IInv`, `TypeOK`, `IdsConserved`, `DisconnectListExact`, `SectorListsExact`, `GivenUpForGood` |
| `ClientsAreInformed` | the server: `ClientsInformed`, what clients show is what is |
| `AttackSectorsSuffice` | the sectors an attack looks at hold all whom it reaches |
| `HandledIsAsSent`, `HeardIsAsQueued` | a session byte by byte: `HandledAsSent`, `HeardAsQueued` |
| `FramesLieApart`, `GivingUpIsRight` | the clocks: `OneFramePerCell`, `GivenUpRightly` |
| `EarlyInvariance`, `EarlyClientsAgree` | the first server: `EarlyInv`, `EarlyAgrees` |
| `NeitherOverruns`, `EnqueueAccepts` | both ring buffer programs: `NoOverrun`, `NothingRefused` |
| `DirectIsFifo`, `DirectImplementsPipe` | the direct program: `FifoOrder`, `PipeSpec` |
| `EchoesInOrder`, `FreedWhenSent`, `NoneIsStranded` | the IOCP session: `EchoInOrder`, `SentBeforeFreed`, `NothingStranded` |
| `ForksAreHeldOnce`, `NoWakeupIsLost` | the philosophers: `ForksHeldOnce`, `NoLostWakeup` |
| `StarsAreShown` | the star server and its clients: `StarsShown` |
| `SpinnersEatAlone` | the spin lock: `EatsAlone` |
| `LinesAreInOrder` | the logger, until `g_dwLogCount` comes round: `LinesInOrder` |
| `DumpsFit`, `MessagesAreTakenAsPut`, `PoolIsExact`, `SectorsAreExact` | dump, message buffer, pool, walk: `TextFits`, `TakenAsPut`, `PoolExact`, `SectorsExact` |
| `TypesKept`, `TheListsAgree`, `TheParentsLead`, `PromiseIsKept` | A*: `TypeOK`, `ListsAgree`, `ParentsLead`, `PromiseKept` |
| `TheMarkersMatch` | the window: `MarkersMatch` |
| `TheJumpsAgree` | the jump point search: `JumpsAgree` |
| `TheListKeepsItsPromise` | the list: `ListKeepsPromise`, that is `EndsAgree` and the refinement of `ListPromise` |
| `TheTreeKeepsItsPromise` | the search tree: `TreeKeepsPromise`, the refinement of `KeySet` |
| `TheTreeStaysBalanced` | the red-black tree at every step of `RBInsertFixup`: `TreeBalanced` |

**The inductive invariant** `IInv` is `LoopOK /\ SessionsOK /\ OutOK /\
PlayersOK`.  The invariants of the runs are not inductive one by one:

- that the session `DisconnectOne` deletes is live, so that the id it appends
  was not free, needs `marked \subseteq live`;
- that a message is only sent to a live session, so that only live sessions are
  ever given up for a full queue, needs that the sector lists hold live players
  only;
- that the id `Accept` takes is neither live nor in a list nor marked needs
  `freeIds` to be the complement of `live` without repetition, and
  `marked \subseteq live` again;
- that the scan reads live sessions needs `readSet` and `writeSet` to be empty
  whenever `Disconnect` runs (`Quiet`): without it `Disconnect` could delete a
  session the scan would still look up.

There is one lemma per action (`AcceptInv`, `MoveStartInv`, ...), over lemmas
for what several actions share: `Delivered` (sending keeps `OutOK`), `Placed`
(a new position and sector keep `PlayersOK`), `SectorNewsTypes`,
`MovedListsExact`.  The file begins with the facts on sequences without
repetitions that the queue and the list rest on.

**What clients show.**  `ViewsOK` is `ClientsInformed` and two facts about ids:
who has no session, or is given up, shows nobody, and a free id does not move.
With `IInv` it is inductive.  `AroundIs` and `MovedAudience` turn the lists into
positions: a message goes to those whose `cur` lies in the block.  Then a
crossing (`PlacedViews`) is a matter of four sets, old block and new block,
player and observer, which is where `UpdateIsDifference` is needed: a client
that had the player and keeps him must get neither a CREATE nor a DELETE.
`AcceptViews` and `DisconnectOneViews` do the same for one who comes or goes.
`DeliveredViews` handles the full queue: whoever misses a message is given up by
the same step, and no claim is made about him.

**A session byte by byte.**  `HandledAsSent` and `HeardAsQueued` speak of the
ends of two pipes; the invariants say what lies between.  For `RecvQ`, `InInv`
takes ring and way together as one sequence of bytes (`Coming`) and says that
there is a place `pos[a]` in it for each message not handled yet, from which on
its bytes lie, and that these places follow one another without a gap (`Lies`).
A `recv` moves the seam between ring and way and no byte (`ReceivedBehind`), so
that nothing else changes; a handled message is the one at place 0, and the
others move up by its size (`NextFirst`); a reuse leaves old bytes in the cells
but none between `Out` and `In` (`NothingCome`).  For `SendQ`, `OutInv` says that
what was heard followed by what waits (`Line`) runs from the first message of
the connection to the last (`Whole`): a message is put behind it
(`WholeGrows`), or refused, and then nothing of it is there; a `send` moves the
seam (`SendSomeOut`), the two buffers of `WSASend` being the waiting bytes in
order (`BuffersOf`).  A failed `send` moves `Out` by any number; from there on
only what has been heard is still claimed, and nothing more is sent.  Both rest
on `PutBehind` and `TakenInFront`: what `Enqueue` writes follows what was there
and overwrites none of it, also around the end of the ring, and on `DirectCut`:
the direct size at which `netProc_Recv` cuts its two buffers is the end of the
ring.  No bound on messages, connections or sizes plays a part.

**The clocks.**  Nothing the server compares is a time: `start`, `last` and
`timeGetTime()` are remainders modulo `Word`.  `ClockOK` says which instant each
of them shows: `last` the last receive, and `start` the beginning of the cell of
the grid in which the last frame was, as long as that frame was in the first
round of the clock.  The rest is arithmetic, from one lemma on remainders of
sums (`RemainderOfSum`): `Elapsed` (the difference of two shown instants less
than a round apart is their distance, wherever the wrap lies), `NextOnGrid`
(`NextStart` is the beginning of the present cell) and, for `_HP`, `HitsOK` (the
`char` is what is left of the hit points, whatever has wrapped).  `SilentStep` is where `netHeartbeat` would fail: it compares without a
difference, so the theorem claims nothing across the wrap.

**The first server.**  `EarlyInv` adds three things to `EarlyAgrees`.  That the id
of a newcomer was nobody's, and that the scan reads sessions that are there, needs
`EarlyScan`.  That who is told of the end of a session is told before it is
erased needs the last clause of `Agrees`: nobody that `Disconnect`'s first loop
has passed is known any more; when that loop is at the end of the list, which may
grow on the way, the clients know only who stays, and the second loop may erase
the others.  And `ListOK` and `GoesOn` say that the list only ever grows behind
(`Pushed`), so that what the first loop has passed stays passed.  What
`PushDisconnectList` appends is a set in the order of the map, of which
`OrderedLists` shows that each session is in it once.  Which way
a walking session faces is worked out by the server and by each client for itself,
so `SessionShape` says that it faces the way it walks (`TurnedOnce`).  `UnicastGives` and
`BroadcastGives` reduce a broadcast to what matters: who is not given up by it has
got the message.

**The ring buffer.**  `SizesInv` holds in both programs: the sizes each thread
carries from an earlier read stay valid, because the other thread only adds
room.  It needs no more than the index arithmetic (`UseAfterMove`: moving an
index changes the used size by exactly the amount moved).  `FifoInv` adds, for
the direct program, where the bytes are: the k-th unread byte is `got + k` and
lies at `Moved(Out, k)`, what the producer has copied but not published follows
it, and what the consumer has copied is what it found.  The crucial step is
that `CopyIn` writes no unread cell (`UnreadCells`).  From `FifoInv` follows
`next = got + GetUseSize(In, Out)`, and with it the refinement: `MoveIn` is
`Put`, `MoveOut` is `Take`.  The bound `MaxBytes` plays no part.
`FullSizeAssumption` (at least two cells) is all that is assumed.

**The IOCP session.**  What makes `NothingStranded` true is not in any one
action.  `IInv` of `PopulationProofs` says that at most one thread is in the
part of `SendPost` and `SendProc` that `SendFlags` guards, and none while a send
is pending (`OneSender`); that at most one thread has received bytes in hand and
no receive is pending then (`OneHandler`), which is why packets are queued one
at a time although any worker may do it; where `out` stands while the sender is
at each line (`Freed`); and that as long as the connection stands either the
flag is set and somebody will give it back, or a packet in the queue has a
thread on its way to look at it (`LookedAt`).  The last clause needs the order
"queue, then exchange" of `SendPacket` and "give back, then look" of
`SendProc`.  `InUse` counts `IOCount` far enough to show that only the login of
a connection that is already reset can remove the session.

**The star server.**  `StarsShown` says something only of a client that has
handled everything.  `StarInv` says, of each client that no message was kept from
and each star but its own, what the messages lead to that are still in TCP's
buffer: there is at most one creation among them, before everything else about
the star and only when the client does not show it, and nothing follows the end
(`Aligned`).  If the star is there, the last of the messages about it has its
position, or there is none and the client shows it there (`Shows`); if it is
gone, its end is among them, or the client has never heard of it (`Forgets`).  A
broadcast appends one message (`AppendNews`, `AppendCreated`, `AppendOther`), and
the client takes the first (`HandledNews`, `HandledOther`); one more clause,
`Greeted`, has a client know its own id before anything else, without which it
would take its own star for another's.  Whoever a broadcast does not reach is
among the missed from then on (`Reached`), and nothing is claimed about him.  That
the client never gets a move of a star it does not know, which would crash it, is
`HandledNews` too: a move is always behind the creation.  The packets of one `recv`
are broadcast one after the other (`RecvPacketKeeps`), each of which may give up
further players, the sender included; `recv` itself only takes them out
(`RecvKeeps`).  A newcomer is told of
everybody there in the order of the map, each once (`ToldExisting`, `Welcomed`).
The bounds on players and moves play no part.

**The philosophers.**  A fork is in the hand of the philosopher whose line of
code says so (`IInv`), never of both neighbours.  For `NoLostWakeup` a sleeper
must have seen the fork taken, and whoever cleared it since has still to call
`WakeByAddressSingle`.

**Spin lock, logger, pool, dump, message buffer.**  `SpinInv`: whoever is past the
exchange is the one `mMutex` was set for.  The logger has two invariants:
`FileInv` (the file is open for the one thread inside, and the line before a dump
is its own) holds always, `NumberInv` (numbers drawn and not yet written are
different from each other and from those in the file) as long as the counter
does not come round, which is the hypothesis of `LinesAreInOrder`:
`g_dwLogCount` never falls.  After 2^32 lines it does, and the numbers start
again.  `PoolInv` says that some order `s` of blocks is the free list
(`Chained`), and that every block is in it, with one caller, or on its way
(`Placed`); that the list which `PoolExact` finds by following the pointers is
this one is shown at the least place where the two would differ
(`LeastNumber`).  `DumpInv` counts the characters written: 17 for a line that is
closed, three for a byte; of an empty block none is written, and no NUL.  `MessageInv` has the bytes between the two positions.

**A\*.**  The inductive invariant relates the two lists: an open cell has one
entry with the same cost and parent, closed cells never come back with a higher
cost, parents are cells that were closed before.  Replacing a node may leave
either of two equal costs (`double`), and the proof covers both.  Refinement of
`PathSearch` needs that the cells reached are closed under neighbours when the
open list is empty (`EmptyIsUnreachable`) and that parents lead to the start by
falling costs.

**The jump point search.**  `JumpInv` adds three things to `JumpsAgree`: where
nodes and jumps are (`JumpTypes`), that the start is closed before the first jump
(`StartFirst`), and that the jump under way comes from a closed node over free
cells (`InFlight`).  Only open nodes are replaced, so the node a jump started from
does not change while the jump is on its way.  The branch that looks a node up in
the open list under its old cost finds it because the two lists agree
(`EnterKeeps`); that a jump ends, because a line of free cells is not longer than
the map (`LineEnds`).

**The linked list.**  `ListInv` says that some row `b` of nodes, with the sentinels
at its ends, is the list in both directions and has exactly the nodes in use
(`Linked`), and that the iterator is on one of them, on the end, or nowhere
(`Spot`).  The row is what `Forward`, `Items` and `Place`, which follow the
pointers, find (`ListShows`), and the same row read backwards is why `EndsAgree`.
A call puts a node into the row or cuts one out (`RowPut`, `RowCut`, `LinkedPut`,
`LinkedCut`), whatever its place; what that does to the sequence and to the
iterator is `PutStep` and `CutStep`, and each call of `ListPromise` is one of
the two or moves the iterator only.  The two
nodes that a cut joins are those beside the node in the row (`Neighbours`), the
sentinels included.  `remove` takes out every node with a value at once, which `LinksAre`
and `OrdersAre` do by the order that the kept nodes have.

**The search tree.**  `TreeInv` says that there are a set `R` of nodes in use and a
function `sub` with the nodes of every subtree, such that the keys are all
different and unused nodes blank (`Tame`), subtrees lie in one another
(`Nested`), the left child of a node has exactly the part of its subtree with
smaller keys, the right one that with greater keys (`Sorted`), and whoever has a
child in its subtree has the parent there too (`Climbs`).  With `sub` no depth
occurs: a walk down (`Place`, `Largest`) ends because the subtrees shrink
(`Shrinks`, `PlaceWalks`, `LargestWalks`), and it ends where the key belongs
(`PlaceIs`) or at the greatest smaller key (`LargestIs`).  Each case of `erase` is
one of two changes of shape, a node with at most one child cut out (`CutShape`)
or a key written over by the greatest one below it (`RekeyShape`), and `insert`
hangs a leaf (`GrowShape`).  The case with two children does both, and needs that
the greatest node of the left subtree has no right child (`LargestFits`).

**The red-black tree.**  `RedBlackInv` says that for some `sub`, as above, and some
`bh` the nodes make one tree whose parents match its children (`Forked`), with its
keys in order (`KeysOrdered`; equal keys may be on either side once a rotation
has come over them), that `bh` is the black height of every node by either side
(`Heights`), and that red follows red at `z` only (`Coloured`).  All of these
take the children of one side and of the other as two functions.  So the
mirror image of every case is the same lemma with the sides exchanged and the
keys negated (`FineMirrored`, `GoodMirrored`), as the code has each branch
twice.  A rotation is `Spun`, whatever its side: it keeps the tree, the order and,
for a red parent and a painted grandparent, the heights (`SpunForked`, `SpunOrdered`,
`SpunHeights`).  Case 2 is then `InnerGood`, which leads to case 3, `OuterGood`;
case 1 `PaintedGood`; the black root at the end `FinishGood`; and a new leaf
`HungGood`.  That red parents have parents (no rotation about `_Nil`) is part of
`Relatives`: the root is red only when `z` is there.  `BelowIs` and `HeightIs`
show that what the property computes by walking is `sub` and `bh`.

**The window.**  A double click takes the end marker away by what `_b_Ending_Erase`
says, not by looking for it, so `WindowInv` adds that there is none when the flag
is down; the start is always erased, whether there is one or not.  Markers and
coordinates are compared through `StGrid`, the cell that an index means in memory:
a point right of the map and the cell of the next row are one cell under two names,
and both the marker and the search go by the cell.

`TypesKept` of A*, `DirectIsFifo` and `GivenUpIsForGood` state what no run checks
by itself: the first two are contained in what `PromiseKept` and `PipeSpec` need.

Only model-checked: `CaveKept`, and liveness.  What is left of a cave is a
transitive closure over the map, computed by `searchHole` through recursive
functions.  Liveness under fairness and `ENABLED` are out of the prover's reach,
hence `SleeperWakes`, `EveryCallEnds`, `EveryByteTaken`, `GoneAreRemoved` and
`SearchEnds`.  Two more properties of the runs are instances of proved ones:
`QueueNothingRefused` is `NothingRefused` of the queueing program, which
`EnqueueAccepts` states, and `ClientsInformed` of `population` is that of
`FighterServer`, with other constants.  The six violations are counterexamples,
about which there is nothing to prove.

How the proofs get around two limits of the prover.  The induction theorems of
the library cannot be used, because they take an operator as parameter: what
follows a pointer again and again is therefore compared with what it should be at
the least place where the two would differ (`LeastNumber`, from which `UpTo`), and
the functions that the models define by recursion are shown to exist, and to be
the only ones, by `Iterates`.  And what a CHOOSE denotes is not left to the SMT
encoding: it is shown that there is such a value and only one, and Zenon draws the
conclusion.

## 6. What is not modelled

Of about 60,000 lines of code in the repository some 25,000 are blank,
comments or code that is commented out, and 15,000 more repeat other files (the
first server with RPC, and a copy of every library in each program that uses
it).  Of a piece of code that exists several times one copy is modelled and
mapped: the one named in `PROJECT.json`.

- Client positions off the map: `Movestart` and `MoveStop` take over any
  position within 50 of the server's without a range check.  The model assumes
  there are none; with them `_CurSector` leaves the arrays.
- Start-up, `netCleanUp`, keyboard control, monitoring: they run once, at the
  end, or only print.  The listening session has an entry with id 0;
  `netHeartbeat` passes over it (`Frames` has the arithmetic).
- `Proxy.cpp`, `Stub.cpp` and the IDL makers that write them: layout of
  messages.
- `CMMOServer` and `Sector.cpp` of `NetLib_MMO`: `main.cpp` starts the echo
  server, `g_MMOServer` is defined nowhere, and nobody is ever put in a sector.
  `DirLock` would wait for itself on the first move: it takes the new block
  shared, and then its middle, which is in it, exclusively.
- In the IOCP library: start-up, and the array of sessions (`_sessionArray` is
  never allocated, `CStack.h` is missing).  No completion decrements `IOCount`,
  so a session that has worked is never removed; the model does the same.  Two
  producers on one session, which the echo server never has, are not modelled.
- `project/TCPFighter_Server_With_RPC`: the first server again, but for an error
  path of `ioctlsocket` and a `return` in place of a `__debugbreak`;
  `MMO_TCPFighter_7000` is an unfinished step to the server.  The copies of
  libraries under `Library/NetWork`, `NetLib_MMO` and the servers differ from
  the modelled ones only where a module says so.
- `CStack`, `MyNew.cpp`, `Profiling`, crash dump, console logs, text parsing:
  no state to go wrong, or output only.
- UDP samples and the drawing client: one call each of the socket functions.
- Console games: one thread, one loop, no protocol.
