----------------------------- MODULE MCProgress ------------------------------
(* What must happen in the end, in five programs; a behaviour is of one of  *)
(* them, the others stay in their initial state.                            *)
(*   "table": three dining philosophers (the constants of the .cfg).        *)
(*   "log": two threads log a line that is longer than their buffer.        *)
(*   "ring": the two threads of QueueDirectPush and QueueDirectPop.         *)
(*   "fight": two players in one sector of the later fighter server.        *)
(*   "early": two sessions of the first fighter server.                     *)
EXTENDS Philosophers

VARIABLES
  part,
  g_logLevel, changes, g_dwLogCount, holding, opened, file, at, left, call,
  size, number, report,                                                 \* Logger
  phase, cursor, readSet, writeSet, burst, live, freeIds, sendQ, idle, marked,
  discList, x, y, act, hp, cur, sector, closed, view,            \* FighterServer
  ePhase, lastId, alive, ses, socketless, eSendQ, listed, eReadSet, eWriteSet,
  eBurst, told, eView,                                             \* EarlyServer
  In, Out, buf, ppc, pn, pDirect, next, cpc, cGe, cIn, cUse, cn, chunk, got \* RingThreads

Log == INSTANCE Logger WITH
  Threads <- {1, 2}, Word <- 32, Initial <- 4, Header <- 3, Notice <- 2,
  Calls <- { [ length |-> 5, dump |-> FALSE ] },
  MaxCalls <- 1, MaxChanges <- 0

Fight == INSTANCE FighterServer WITH
  MoveRight <- 0, MoveBottom <- 0, GridX <- 1, GridY <- 1,
  MaxSession <- 2, FdSetSize <- 2, MaxBurst <- 1, SendQCap <- 2,
  SpeedX <- 1, SpeedY <- 1, ErrorRange <- 1, MaxHP <- 1, MinHP <- 0,
  AttackRangeX <- << 1 >>, AttackRangeY <- << 1 >>, AttackDamage <- << 1 >>,
  TimeoutFrames <- 1, SpawnPositions <- { << 0, 0 >> }, ClientPositions <- { << 0, 0 >> },
  Directions <- {}, BadDirections <- {}

Ring == INSTANCE RingThreads WITH
  FullSize <- 5, DirectTest <- TRUE, RandMax <- 5, SizeT <- 16, MaxBytes <- 13

Early == INSTANCE EarlyServer WITH
  MaxId <- 2, Limit <- 1, Capacity <- 3, MaxBurst <- 1,
  MoveLeft <- 0, MoveRight <- 1, MoveTop <- 0, MoveBottom <- 0,
  MovementX <- 1, MovementY <- 1, ErrorRange <- 0, RangeX <- 2, HalfRangeY <- 1,
  MaxHP <- 1, Damages <- << 1 >>, MinHP <- 0, Directions <- {0},
  Claims <- { << 0, 0 >> },
  phase <- ePhase, sendQ <- eSendQ, readSet <- eReadSet, writeSet <- eWriteSet,
  burst <- eBurst, view <- eView

logVars   == << g_logLevel, changes, g_dwLogCount, holding, opened, file, at, left,
                call, size, number, report >>
fightVars == << phase, cursor, readSet, writeSet, burst, live, freeIds, sendQ, idle,
                marked, discList, x, y, act, hp, cur, sector, closed, view >>
earlyVars == << ePhase, lastId, alive, ses, socketless, eSendQ, listed, eReadSet,
                eWriteSet, eBurst, told, eView >>
ringVars  == << In, Out, buf, ppc, pn, pDirect, next, cpc, cGe, cIn, cUse, cn, chunk, got >>
all == << part, vars, logVars, fightVars, earlyVars, ringVars >>

MCInit ==
  /\ part \in {"table", "log", "fight", "early", "ring"}
  /\ Init /\ Log!Init /\ Fight!Init /\ Early!Init /\ Ring!Init

Table(A)   == part = "table" /\ A /\ UNCHANGED << part, logVars, fightVars, earlyVars, ringVars >>
Logs(A)    == part = "log" /\ A /\ UNCHANGED << part, vars, fightVars, earlyVars, ringVars >>
Fights(A)  == part = "fight" /\ A /\ UNCHANGED << part, vars, logVars, earlyVars, ringVars >>
Earlier(A) == part = "early" /\ A /\ UNCHANGED << part, vars, logVars, fightVars, ringVars >>
Rings(A)   == part = "ring" /\ A /\ UNCHANGED << part, vars, logVars, fightVars, earlyVars >>

MCNext == \/ Table(Next) \/ Logs(Log!Next) \/ Fights(Fight!Next) \/ Earlier(Early!Next)
          \/ Rings(Ring!Next)

(* The threads of the program: philosophers 0 to 2, loggers 1 and 2, the    *)
(* producer and the consumer; the servers have one.  Programs do not mix,   *)
(* so fairness for the disjunction is fairness for the one there is.        *)
Thread(k) ==
  \/ Table(Step(k - 1))
  \/ k \in {1, 2} /\ Logs(Log!Step(k))
  \/ k = 1 /\ Rings(Ring!Producer)
  \/ k = 2 /\ Rings(Ring!Consumer)
  \/ k = 1 /\ (Fights(Fight!Server) \/ Earlier(Early!Next))

(* Of the many turns of a server's main loop some are frames.               *)
Frame == Fights(Fight!NetHeartbeat) \/ Earlier(Early!Update)

MCFairness == (\A k \in {1, 2, 3} : WF_all(Thread(k))) /\ SF_all(Frame)

MCSpec == MCInit /\ [][MCNext]_all /\ MCFairness
-----------------------------------------------------------------------------
(* Logger: every call comes to its end.                                     *)
EveryCallEnds == Log!EveryCallEnds

(* RingThreads: every byte that was written is read.                        *)
EveryByteTaken == Ring!EveryByteTaken

(* Who has to go goes.  FighterServer: a session whose client has gone is   *)
(* ended, and a player without hit points removed; EarlyServer: a session   *)
(* without hit points is erased.                                            *)
GoneAreRemoved == Fight!ClosedIsEnded /\ Fight!DeadIsRemoved /\ Early!DeadIsErased
==============================================================================
