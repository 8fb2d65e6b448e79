---------------------------- MODULE MCPopulation -----------------------------
(* Several that come, go and serve one another, in six settings; a          *)
(* behaviour is in one of them.                                             *)
(*   "crowd": three sessions of the fighter server in one sector, two per   *)
(*   call of select: ids run out and are used again, full queues give up    *)
(*   further sessions inside Disconnect.  A frame, which may be long in     *)
(*   coming, finds everybody silent.                                        *)
(*   "plane": two players of the fighter server cross a 3 x 3 grid of       *)
(*   sectors, also diagonally; clients also send a direction there is not.  *)
(* Of module Population, with the constants of the .cfg:                    *)
(*   "star": two sockets of the star server, of which three players come.   *)
(*   "batch": two players of it and two moves, which may be received at     *)
(*   once.                                                                  *)
(*   "drop": one player of it and three moves, of which one is then dropped.*)
(*   "lan": an echo session of the IOCP library and its workers.            *)
EXTENDS Population

VARIABLES
  part,
  phase, cursor, readSet, writeSet, burst, live, freeIds, sendQ, idle, marked,
  discList, x, y, act, hp, cur, sector, closed, view            \* FighterServer

Crowd == INSTANCE FighterServer WITH
  MoveRight <- 0, MoveBottom <- 0, GridX <- 1, GridY <- 1,
  MaxSession <- 3, FdSetSize <- 2, MaxBurst <- 1, SendQCap <- 3,
  SpeedX <- 1, SpeedY <- 1, ErrorRange <- 1, MaxHP <- 1, MinHP <- 0,
  AttackRangeX <- << >>, AttackRangeY <- << >>, AttackDamage <- << >>,
  TimeoutFrames <- 0, SpawnPositions <- { << 0, 0 >> }, ClientPositions <- { << 0, 0 >> },
  Directions <- {}, BadDirections <- {}

Plane == INSTANCE FighterServer WITH
  MoveRight <- 2, MoveBottom <- 2, GridX <- 1, GridY <- 1,
  MaxSession <- 2, FdSetSize <- 2, MaxBurst <- 1, SendQCap <- 3,
  SpeedX <- 1, SpeedY <- 1, ErrorRange <- 1, MaxHP <- 1, MinHP <- 0,
  AttackRangeX <- << >>, AttackRangeY <- << >>, AttackDamage <- << >>,
  TimeoutFrames <- 1, SpawnPositions <- { << 0, 0 >> }, ClientPositions <- { << 0, 0 >> },
  Directions <- {5}, BadDirections <- {9}

Batch == INSTANCE OnlineStar WITH phase <- star, MaxId <- 2, MaxMoves <- 2, PacketSize <- 1
Drop  == INSTANCE OnlineStar WITH phase <- star, Sockets <- {1}, MaxId <- 2, MaxMoves <- 3

fighterVars == << phase, cursor, readSet, writeSet, burst, live, freeIds, sendQ, idle,
                  marked, discList, x, y, act, hp, cur, sector, closed, view >>
starVars == << star, isSet, batch, g_ID, Player_List, set_Delete_List,
               conn, inbox, outbox, me, others, missed, moves >>

MCInit ==
  /\ part \in {"crowd", "plane", "star", "batch", "drop", "lan"}
  /\ IF part = "plane" THEN Plane!Init ELSE Crowd!Init
  /\ Star!Init /\ Init

MCNext ==
  /\ UNCHANGED part
  /\ \/ part = "crowd" /\ Crowd!Next /\ UNCHANGED << starVars, vars >>
     \/ part = "plane" /\ Plane!Next /\ UNCHANGED << starVars, vars >>
     \/ part = "star" /\ Star!Next /\ UNCHANGED << fighterVars, vars >>
     \/ part = "batch" /\ Batch!Next /\ UNCHANGED << fighterVars, vars >>
     \/ part = "drop" /\ Drop!Next /\ UNCHANGED << fighterVars, vars >>
     \/ part = "lan" /\ Next /\ UNCHANGED << fighterVars, starVars >>

MCSpec == MCInit /\ [][MCNext]_<< part, fighterVars, starVars, vars >>
-----------------------------------------------------------------------------
(* FighterServer: the disconnect list is exact, a client has been told of   *)
(* exactly the players it sees, and, on the plane, it knows how they move.  *)
ClientsInformed ==
  IF part = "plane" THEN Plane!DisconnectListExact /\ Plane!ViewExact /\ Plane!MotionKnown
                    ELSE Crowd!DisconnectListExact /\ Crowd!ViewExact
==============================================================================
