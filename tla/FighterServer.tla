--------------------------- MODULE FighterServer ----------------------------
(***************************************************************************)
(* The TCPFighter server (project/TCPFighter_with_RPC_for_7000): one       *)
(* thread that repeats netIOProcess (select, accept, receive, send, then   *)
(* Disconnect) and, once per frame, netHeartbeat and Update.               *)
(*                                                                         *)
(* A step of the specification is one handler run to its end: one client   *)
(* message, one accept, one send, one removal from the disconnect list,    *)
(* one player of Update.  Between two steps the program counter is         *)
(* `phase', with `cursor', `readSet', `writeSet' and `burst' for the       *)
(* positions of the loops; the environment moves at any time.              *)
(*                                                                         *)
(* The lists of players per sector are kept as sets: their order decides   *)
(* only in which order several sessions are put on the disconnect list and *)
(* which of several players in range an attack hits, and both are left     *)
(* open.  Sizes of send queues are counted in messages.                    *)
(***************************************************************************)
EXTENDS Sector, FiniteSets, Sequences, SequencesExt

CONSTANTS
  MaxSession,      \* sessions besides the listening one (dfMAX_SESSION - 1)
  FdSetSize,       \* sockets registered in one call of select (64)
  MaxBurst,        \* messages one receive can complete (24 bytes: 3)
  SendQCap,        \* messages a send queue holds
  SpeedX, SpeedY,  \* dfSPEED_PLAYER_X, dfSPEED_PLAYER_Y
  ErrorRange,      \* dfERROR_RANGE
  MaxHP,           \* _HP of a new player (100)
  MinHP,           \* bound: hits that would take _HP below it are left out
  AttackRangeX, AttackRangeY, AttackDamage,  \* per kind of attack, 1 to 3
  TimeoutFrames,   \* frames without a receive that netHeartbeat tolerates
  SpawnPositions,  \* where CreateNewPlayer puts a player: one point in a
                   \* Debug build, anywhere in a Release build
  ClientPositions, \* bound: the positions clients report
  Directions,      \* bound: the directions clients use, of 0 to 7
  BadDirections    \* bound: the other values clients send as a direction

Ids        == 1 .. MaxSession
MoveDirs   == 0 .. 7                 \* dfPACKET_MOVE_DIR_LL to _LD
Stop       == 12                     \* dfPACKET_CS_MOVE_STOP
Actions    == Directions \cup BadDirections \cup {Stop}
AttackKinds == DOMAIN AttackDamage
Positions  == (0 .. MoveRight) \X (0 .. MoveBottom)

ASSUME ServerAssumption ==
  /\ MaxSession \in Nat \ {0}
  /\ FdSetSize \in Nat \ {0}
  /\ MaxBurst \in Nat \ {0}
  /\ SendQCap \in Nat \ {0}
  /\ TimeoutFrames \in Nat

ASSUME PlayerAssumption ==
  /\ SpeedX \in 1 .. GridX
  /\ SpeedY \in 1 .. GridY
  /\ ErrorRange \in Nat
  /\ ErrorRange <= GridX
  /\ ErrorRange <= GridY
  /\ SpawnPositions \subseteq Positions
  /\ ClientPositions \subseteq Positions
  /\ Directions \subseteq MoveDirs
  /\ BadDirections \subseteq Int \ (MoveDirs \cup {Stop})

ASSUME CombatAssumption ==
  /\ MaxHP \in Nat \ {0}
  /\ MinHP \in Int
  /\ MinHP <= 0
  /\ AttackDamage \in Seq(Nat \ {0})
  /\ AttackRangeX \in [AttackKinds -> 0 .. GridX]
  /\ AttackRangeY \in [AttackKinds -> 0 .. GridY]

VARIABLES
  \* the program counter
  phase,     \* "io", "disconnect", "loop" or "update"
  cursor,    \* next id of the loop over all sessions
  readSet, writeSet,  \* ids select reported and the scan has not reached
  burst,     \* messages handled of the receive in progress
  \* sessions
  live,      \* ids with an entry in g_Session_Arr and g_CharacterArr
  freeIds,   \* g_SessionID_Q
  sendQ,     \* messages in SendQ
  idle,      \* frames since dwLastRecvTime
  marked,    \* g_bCheckDisconnectSessionIds
  discList,  \* g_Disconnect_List
  \* players
  x, y,      \* _X, _Y
  act,       \* _dwAction (_byMoveDirection is always the same)
  hp,        \* _HP
  cur,       \* _CurSector
  sector,    \* g_Sector_CList
  \* the clients
  closed,    \* sessions whose client has gone
  view       \* view[r][p]: what the messages put in r's queue say of p

loopVars   == << phase, cursor, readSet, writeSet, burst >>
playerVars == << x, y, act, hp, cur, sector >>
outVars    == << sendQ, marked, discList, view >>
vars == << loopVars, playerVars, outVars, live, freeIds, idle, closed >>

(* What a client knows of a player: how many CREATEs it got for it less    *)
(* the DELETEs, and the action and the hit points it was last told.        *)
Unknown == [ copies |-> 0, act |-> Stop, hp |-> MaxHP ]
Nobody  == [ p \in Ids |-> Unknown ]
Origin == << 0, 0 >>            \* the sector of a slot that is not in use

(* A free id carries these values, so that states do not differ in what    *)
(* nothing reads: st_SESSION::Init and CreateNewPlayer set them on reuse.  *)
Init ==
  /\ phase = "io"
  /\ cursor = 0
  /\ readSet = {} /\ writeSet = {}
  /\ burst = 0
  /\ live = {}
  /\ freeIds = [ i \in 1 .. MaxSession |-> i ]
  /\ sendQ = [ s \in Ids |-> 0 ]
  /\ idle = [ s \in Ids |-> 0 ]
  /\ marked = {}
  /\ discList = << >>
  /\ x = [ s \in Ids |-> 0 ]
  /\ y = [ s \in Ids |-> 0 ]
  /\ act = [ s \in Ids |-> Stop ]
  /\ hp = [ s \in Ids |-> MaxHP ]
  /\ cur = [ s \in Ids |-> Origin ]
  /\ sector = [ t \in Sectors |-> {} ]
  /\ closed = {}
  /\ view = [ s \in Ids |-> Nobody ]

-----------------------------------------------------------------------------
(* Sending.  n[r] is the number of messages a handler puts in the queue of *)
(* r, bad the sessions it gives up for another reason than a full queue.   *)

(* The players in the lists of the given sectors. *)
Audience(lists, sectors) == UNION { lists[t] : t \in sectors }

One(S) == [ r \in Ids |-> IF r \in S THEN 1 ELSE 0 ]
Plus(m, n) == [ r \in Ids |-> m[r] + n[r] ]

(* What CREATE, followed by MOVE_START when the action is a movement, and  *)
(* DELETE, MOVE_START or MOVE_STOP, and DAMAGE do to a client's knowledge. *)
Created(e, a, h) == [ copies |-> e.copies + 1,
                      act    |-> IF a \in MoveDirs THEN a ELSE Stop,
                      hp     |-> h ]
Deleted(e)    == IF e.copies = 1 THEN Unknown ELSE [ e EXCEPT !.copies = @ - 1 ]
Heard(e, a)   == IF e.copies = 0 THEN e ELSE [ e EXCEPT !.act = a ]
Damaged(e, h) == IF e.copies = 0 THEN e ELSE [ e EXCEPT !.hp = h ]

(* Mutant: the flag is not looked at, so that an id is listed twice. *)
MutEnqueueForDeletion(S) == { discList \o o : o \in SetToSeqs(S) }

(* The lists that can result when the sessions S are given up, in any      *)
(* order: one that is marked already is not listed again.                  *)
EnqueueForDeletion(S) == { discList \o o : o \in SetToSeqs(S \ marked) }

(* SendPacket_Unicast refuses a message that does not fit. *)
Overflowing(n) == { r \in Ids : sendQ[r] + n[r] > SendQCap }

(* Mutant: a full queue loses the message and nothing else happens. *)
MutDeliver(n, seen, bad) ==
  /\ sendQ' = [ r \in Ids |-> IF r \in Overflowing(n) THEN SendQCap
                              ELSE sendQ[r] + n[r] ]
  /\ marked' = marked \cup bad
  /\ discList' \in EnqueueForDeletion(bad)
  /\ view' = [ r \in Ids |-> IF r \in marked' THEN Nobody
                             ELSE IF r \in Overflowing(n) THEN view[r]
                             ELSE seen[r] ]

(* The view of a client is followed until its session is given up. *)
Deliver(n, seen, bad) ==
  LET lost == Overflowing(n) \cup bad
  IN  /\ sendQ' = [ r \in Ids |-> IF r \in Overflowing(n) THEN SendQCap
                                  ELSE sendQ[r] + n[r] ]
      /\ marked' = marked \cup lost
      /\ discList' \in EnqueueForDeletion(lost)
      /\ view' = [ r \in Ids |-> IF r \in marked' THEN Nobody ELSE seen[r] ]

-----------------------------------------------------------------------------
(* Crossing a sector border: Sector_UpdateCharacter followed, when the     *)
(* sector has changed, by CharacterSectorUpdatePacket.                     *)

Moving(a)  == a \in MoveDirs

(* Mutant: the default of the switch does nothing. *)
MutInvalid(a) == FALSE

Invalid(a) == a \notin MoveDirs \cup {Stop}

(* Mutant: the player stays in the list of the sector it has left. *)
MutMovedLists(p, t) == [ sector EXCEPT ![t] = @ \cup {p} ]

MovedLists(p, t) ==
  IF t = cur[p] THEN sector
  ELSE [ sector EXCEPT ![cur[p]] = @ \ {p}, ![t] = @ \cup {p} ]

(* Mutant: the movement in progress is not passed on to those who come to  *)
(* see the player.                                                         *)
MutCharacterSectorUpdatePacket(p, t, a) ==
  LET upd     == GetUpdateSectorAround(cur[p], t)
      losers  == Audience(MovedLists(p, t), upd.remove) \ {p}
      gainers == Audience(MovedLists(p, t), upd.add) \ {p}
  IN  [ n    |-> Plus(One(losers), One(gainers)),
        seen |-> [ r \in Ids |-> [ q \in Ids |->
                     IF (q = p /\ r \in losers) \/ (r = p /\ q \in losers)
                     THEN Deleted(view[r][q])
                     ELSE IF q = p /\ r \in gainers
                     THEN Created(view[r][q], Stop, hp[p])
                     ELSE IF r = p /\ q \in gainers
                     THEN Created(view[r][q], act[q], hp[q])
                     ELSE view[r][q] ] ],
        bad  |-> {} ]

(* Player p has moved to sector t, its action being a.  The players of the *)
(* sectors that fell out of its block and p are withdrawn from one another,*)
(* those of the new sectors and p announced to one another, with the       *)
(* movement in progress; whoever has an invalid action is given up.        *)
CharacterSectorUpdatePacket(p, t, a) ==
  LET upd     == GetUpdateSectorAround(cur[p], t)
      lost    == Audience(MovedLists(p, t), upd.remove)
      losers  == lost \ {p}
      gainers == Audience(MovedLists(p, t), upd.add) \ {p}
      walking == { q \in gainers : Moving(act[q]) }
  IN  [ n    |-> [ r \in Ids |->
                     IF r = p
                     THEN Cardinality(lost) + Cardinality(gainers) + Cardinality(walking)
                     ELSE One(losers)[r] + (IF Moving(a) THEN 2 ELSE 1) * One(gainers)[r] ],
        seen |-> [ r \in Ids |-> [ q \in Ids |->
                     IF (q = p /\ r \in losers) \/ (r = p /\ q \in lost)
                     THEN Deleted(view[r][q])
                     ELSE IF q = p /\ r \in gainers
                     THEN Created(view[r][q], a, hp[p])
                     ELSE IF r = p /\ q \in gainers
                     THEN Created(view[r][q], act[q], hp[q])
                     ELSE view[r][q] ] ],
        bad  |-> { q \in gainers : Invalid(act[q]) }
                   \cup { q \in {p} : Invalid(a) } ]

SectorNews(p, t, a) ==
  IF t = cur[p] THEN [ n |-> One({}), seen |-> view, bad |-> {} ]
  ELSE CharacterSectorUpdatePacket(p, t, a)

(* Player p gets position (nx, ny) and action a.  SYNC goes to sync before *)
(* that, MOVE_START or MOVE_STOP to others after it.                       *)
Place(p, nx, ny, a, sync, others) ==
  LET t    == SectorOf(nx, ny)
      news == SectorNews(p, t, a)
      seen == [ r \in Ids |-> [ q \in Ids |->
                  IF q = p /\ r \in others THEN Heard(news.seen[r][q], a)
                  ELSE news.seen[r][q] ] ]
  IN  /\ x' = [x EXCEPT ![p] = nx]
      /\ y' = [y EXCEPT ![p] = ny]
      /\ act' = [act EXCEPT ![p] = a]
      /\ cur' = [cur EXCEPT ![p] = t]
      /\ sector' = MovedLists(p, t)
      /\ Deliver(Plus(news.n, Plus(One(sync), One(others))), seen, news.bad)

-----------------------------------------------------------------------------
(* The environment: a client closes its connection, or loses it.  From     *)
(* then on a receive on the socket returns 0 bytes or an error; what the   *)
(* client had sent before is received before this step.                    *)
CloseConnection(s) ==
  /\ s \in live \ closed
  /\ closed' = closed \cup {s}
  /\ UNCHANGED << loopVars, playerVars, outVars, live, freeIds, idle >>

-----------------------------------------------------------------------------
(* netIOProcess: sessions are registered in batches of FdSetSize, id 0     *)
(* being the listening socket, and each batch is scanned in the order of   *)
(* the ids.                                                                *)

Registrable == { i \in {0} \cup live : i >= cursor }
Batch == { i \in Registrable : Cardinality({ j \in Registrable : j < i }) < FdSetSize }
Scanned == readSet = {} /\ writeSet = {}

(* select: a socket whose connection has ended is always readable.  The    *)
(* frame check that holds sends back is part of the choice of writeSet.    *)
Select ==
  /\ phase = "io" /\ Scanned
  /\ Registrable # {}
  /\ \/ /\ Cardinality(Batch) < FdSetSize
        /\ cursor' = MaxSession + 1
     \/ /\ Cardinality(Batch) = FdSetSize
        /\ \E last \in Batch : /\ \A i \in Batch : i <= last
                               /\ cursor' = last + 1
  /\ readSet' \in { R \in SUBSET Batch : Batch \cap closed \subseteq R }
  /\ writeSet' \in SUBSET { i \in Batch \ {0} : sendQ[i] > 0 }
  /\ UNCHANGED << phase, burst, playerVars, outVars, live, freeIds, idle, closed >>

EndOfIO ==
  /\ phase = "io" /\ Scanned
  /\ Registrable = {}
  /\ phase' = "disconnect"
  /\ UNCHANGED << cursor, readSet, writeSet, burst, playerVars, outVars,
                  live, freeIds, idle, closed >>

(* It is the turn of session s in the scan; it is read before written.     *)
Turn(s) == \A i \in readSet \cup writeSet : s <= i

Reading(s) == phase = "io" /\ s \in readSet /\ Turn(s)

(* netProc_Accept when the queue of ids is empty (the new socket is closed *)
(* at once), or when accept has nothing to give (WSAEWOULDBLOCK).          *)
AcceptNone ==
  /\ Reading(0)
  /\ readSet' = readSet \ {0}
  /\ UNCHANGED << phase, cursor, writeSet, burst, playerVars, outVars,
                  live, freeIds, idle, closed >>

(* Mutant: the id stays in the queue. *)
MutTakenIds == freeIds

TakenIds == Tail(freeIds)

(* netProc_Accept: the new player is put in its sector first, then told of *)
(* itself; the others around it are told of it and it of them.             *)
Accept(px, py) ==
  LET s      == Head(freeIds)
      t      == SectorOf(px, py)
      others == Audience(sector, GetSectorAround(t))
      walking == { q \in others : Moving(act[q]) }
      n      == [ r \in Ids |->
                    IF r = s THEN 1 + Cardinality(others) + Cardinality(walking)
                    ELSE One(others)[r] ]
      seen   == [ r \in Ids |-> [ q \in Ids |->
                    IF \/ r = s /\ q \in others \cup {s}
                       \/ q = s /\ r \in others
                    THEN Created(view[r][q], act[q], hp[q])
                    ELSE view[r][q] ] ]
  IN  /\ Reading(0)
      /\ freeIds # << >>
      /\ freeIds' = TakenIds
      /\ live' = live \cup {s}
      /\ x' = [x EXCEPT ![s] = px]
      /\ y' = [y EXCEPT ![s] = py]
      /\ cur' = [cur EXCEPT ![s] = t]
      /\ sector' = [sector EXCEPT ![t] = @ \cup {s}]
      /\ Deliver(n, seen, { q \in others : Invalid(act[q]) })
      /\ readSet' = readSet \ {0}
      /\ UNCHANGED << phase, cursor, writeSet, burst, act, hp, idle, closed >>

(* netProc_Recv ends: dwLastRecvTime is set whatever its result was.       *)
EndOfRecv(s) ==
  /\ burst' = 0
  /\ readSet' = readSet \ {s}
  /\ idle' = [idle EXCEPT ![s] = 0]

(* netProc_Recv with WSAEWOULDBLOCK. *)
RecvNothing(s) ==
  /\ Reading(s) /\ s # 0
  /\ burst = 0
  /\ s \notin closed
  /\ EndOfRecv(s)
  /\ UNCHANGED << phase, cursor, writeSet, playerVars, outVars, live, freeIds, closed >>

(* Mutant: an ended connection is left to the heartbeat. *)
MutRecvClosed(s) ==
  /\ Reading(s) /\ s # 0
  /\ burst = 0
  /\ s \in closed
  /\ EndOfRecv(s)
  /\ UNCHANGED << phase, cursor, writeSet, playerVars, outVars, live, freeIds, closed >>

(* netProc_Recv with 0 bytes, or with error 10053 or 10054.                *)
RecvClosed(s) ==
  /\ Reading(s) /\ s # 0
  /\ burst = 0
  /\ s \in closed
  /\ Deliver(One({}), view, {s})
  /\ EndOfRecv(s)
  /\ UNCHANGED << phase, cursor, writeSet, playerVars, live, freeIds, closed >>

(* One turn of the loop of netProc_Recv: PacketProc handles a message of   *)
(* session s, and the receive may have completed more of them.             *)
Message(s) ==
  /\ Reading(s) /\ s # 0
  /\ burst > 0 \/ s \notin closed
  /\ \/ EndOfRecv(s)
     \/ /\ burst + 1 < MaxBurst
        /\ burst' = burst + 1
        /\ UNCHANGED << readSet, idle >>
  /\ UNCHANGED << phase, cursor, writeSet, live, freeIds, closed >>

TooFar(s, px, py) ==
  \/ px < x[s] - ErrorRange \/ x[s] + ErrorRange < px
  \/ py < y[s] - ErrorRange \/ y[s] + ErrorRange < py


(* netPacketProc_Movestart: a position too far from the server's is        *)
(* answered with SYNC to everybody around, and not taken over; any         *)
(* direction is.                                                           *)
MoveStart(s, d, px, py) ==
  LET far    == TooFar(s, px, py)
      nx     == IF far THEN x[s] ELSE px
      ny     == IF far THEN y[s] ELSE py
      sync   == IF far THEN Audience(sector, GetSectorAround(cur[s])) ELSE {}
      others == Audience(sector, GetSectorAround(SectorOf(nx, ny))) \ {s}
  IN  /\ Message(s)
      /\ Place(s, nx, ny, d, sync, others)
      /\ UNCHANGED hp

(* netPacketProc_MoveStop: SYNC goes to the sender alone. *)
MoveStop(s, px, py) ==
  LET far    == TooFar(s, px, py)
      nx     == IF far THEN x[s] ELSE px
      ny     == IF far THEN y[s] ELSE py
      others == Audience(sector, GetSectorAround(SectorOf(nx, ny))) \ {s}
  IN  /\ Message(s)
      /\ Place(s, nx, ny, Stop, IF far THEN {s} ELSE {}, others)
      /\ UNCHANGED hp

(* netPacketProc_Attack1, 2 and 3.  The position is the client's own; the  *)
(* motion is sent around that position (Attack1 leaves the attacker out),  *)
(* the damage around the player hit.                                       *)
MotionAudience(s, k, px, py) ==
  Audience(sector, GetSectorAround(SectorOf(px, py))) \ (IF k = 1 THEN {s} ELSE {})

(* Mutant: the damage is sent to the sector of the player hit alone. *)
MutDamageAudience(v) == sector[cur[v]]

DamageAudience(v) == Audience(sector, GetSectorAround(cur[v]))

Targets(s, k, left, px, py) ==
  { v \in Audience(sector, GetAttackSectorAround(px, py, left,
                             AttackRangeX[k], AttackRangeY[k])) \ {s} :
      InAttackRange(px, py, left, AttackRangeX[k], AttackRangeY[k], x[v], y[v]) }

AttackMiss(s, k, left, px, py) ==
  /\ Message(s)
  /\ Targets(s, k, left, px, py) = {}
  /\ Deliver(One(MotionAudience(s, k, px, py)), view, {})
  /\ UNCHANGED playerVars

AttackHit(s, k, left, px, py, v) ==
  LET h         == hp[v] - AttackDamage[k]
      witnesses == DamageAudience(v)
      seen      == [ r \in Ids |-> [ q \in Ids |->
                       IF q = v /\ r \in witnesses THEN Damaged(view[r][q], h)
                       ELSE view[r][q] ] ]
  IN  /\ Message(s)
      /\ v \in Targets(s, k, left, px, py)
      /\ h >= MinHP
      /\ hp' = [hp EXCEPT ![v] = h]
      /\ Deliver(Plus(One(MotionAudience(s, k, px, py)), One(witnesses)), seen, {})
      /\ UNCHANGED << x, y, act, cur, sector >>

(* netPacketProc_Echo *)
Echo(s) ==
  /\ Message(s)
  /\ Deliver(One({s}), view, {})
  /\ UNCHANGED playerVars

(* netProc_Send: the socket takes all, some or (WSAEWOULDBLOCK) nothing of *)
(* the queue.                                                              *)
Writing(s) == phase = "io" /\ s \in writeSet \ readSet /\ Turn(s)

Send(s) ==
  /\ Writing(s)
  /\ sendQ' \in { [sendQ EXCEPT ![s] = m] : m \in 0 .. sendQ[s] }
  /\ writeSet' = writeSet \ {s}
  /\ UNCHANGED << phase, cursor, readSet, burst, playerVars, live, freeIds,
                  idle, marked, discList, closed, view >>

(* netProc_Send after an error: MoveOut is called with a size that was     *)
(* never set, which leaves any fill level.                                 *)
SendError(s) ==
  /\ Writing(s)
  /\ s \in closed
  /\ sendQ' \in { [sendQ EXCEPT ![s] = m] : m \in 0 .. SendQCap }
  /\ marked' = marked \cup {s}
  /\ discList' \in EnqueueForDeletion({s})
  /\ view' = [view EXCEPT ![s] = Nobody]
  /\ writeSet' = writeSet \ {s}
  /\ UNCHANGED << phase, cursor, readSet, burst, playerVars, live, freeIds, idle, closed >>

-----------------------------------------------------------------------------
(* Disconnect *)

(* Mutant: the player stays in its sector. *)
MutRemoveUserFromSector(v) == sector

RemoveUserFromSector(v) == [ sector EXCEPT ![cur[v]] = @ \ {v} ]

(* Mutant: the id is not given back. *)
MutDeleteSession(v) ==
  /\ live' = live \ {v}
  /\ closed' = closed \ {v}
  /\ idle' = [idle EXCEPT ![v] = 0]
  /\ UNCHANGED freeIds

(* DeleteSession: the id becomes free for the next accept. *)
DeleteSession(v) ==
  /\ live' = live \ {v}
  /\ closed' = closed \ {v}
  /\ idle' = [idle EXCEPT ![v] = 0]
  /\ freeIds' = Append(freeIds, v)

DeleteCharacter(v) ==
  /\ x' = [x EXCEPT ![v] = 0]
  /\ y' = [y EXCEPT ![v] = 0]
  /\ act' = [act EXCEPT ![v] = Stop]
  /\ hp' = [hp EXCEPT ![v] = MaxHP]
  /\ cur' = [cur EXCEPT ![v] = Origin]

(* Mutant: the others are not told. *)
MutBereaved(v) == {}

(* The players DELETE is sent to. *)
Bereaved(v) == Audience(sector, GetSectorAround(cur[v])) \ {v}

(* Mutant: all flags are reset at once. *)
MutFlagsWithout(v, lost) == {}

(* The flags when v is gone and the sessions in lost were given up. *)
FlagsWithout(v, lost) == (marked \cup lost) \ {v}

(* One turn of the loop of Disconnect.  A queue that is full now puts      *)
(* another session on the list the loop is going through.                  *)
DisconnectOne ==
  LET v    == Head(discList)
      n    == One(Bereaved(v))
      lost == Overflowing(n)
  IN  /\ phase = "disconnect"
      /\ discList # << >>
      /\ sendQ' = [ r \in Ids |-> IF r = v THEN 0
                                  ELSE IF r \in lost THEN SendQCap
                                  ELSE sendQ[r] + n[r] ]
      /\ view' = [ r \in Ids |->
                     IF r = v \/ r \in marked \cup lost THEN Nobody
                     ELSE IF r \in Bereaved(v) THEN [view[r] EXCEPT ![v] = Deleted(@)]
                     ELSE view[r] ]
      /\ sector' = RemoveUserFromSector(v)
      /\ DeleteCharacter(v)
      /\ DeleteSession(v)
      /\ discList' \in { Tail(l) : l \in EnqueueForDeletion(lost) }
      /\ marked' = FlagsWithout(v, lost)
      /\ UNCHANGED loopVars

EndOfDisconnect ==
  /\ phase = "disconnect"
  /\ discList = << >>
  /\ phase' = "loop"
  /\ UNCHANGED << cursor, readSet, writeSet, burst, playerVars, outVars,
                  live, freeIds, idle, closed >>

-----------------------------------------------------------------------------
(* The main loop and the frame *)

(* Less than TICK_PER_FRAME ms have passed: netIOProcess again. *)
NoFrame ==
  /\ phase = "loop"
  /\ phase' = "io"
  /\ cursor' = 0
  /\ UNCHANGED << readSet, writeSet, burst, playerVars, outVars,
                  live, freeIds, idle, closed >>

(* netHeartbeat: frames stand for the time since the last receive. *)
NetHeartbeat ==
  LET silent == { s \in live : idle[s] >= TimeoutFrames }
  IN  /\ phase = "loop"
      /\ idle' = [ s \in Ids |-> IF s \in live \ silent THEN idle[s] + 1 ELSE idle[s] ]
      /\ Deliver(One({}), view, silent)
      /\ phase' = "update"
      /\ cursor' = 1
      /\ UNCHANGED << readSet, writeSet, burst, playerVars, live, freeIds, closed >>

(* The players Update has still to visit; it skips marked sessions. *)
Unvisited == { s \in live \ marked : s >= cursor }
Visiting(s) == phase = "update" /\ s \in Unvisited /\ (\A i \in Unvisited : s <= i)

(* Mutant: no death. *)
MutUpdateDead(s) ==
  /\ Visiting(s)
  /\ hp[s] <= 0
  /\ Deliver(One({}), view, {})
  /\ cursor' = s + 1
  /\ UNCHANGED << phase, readSet, writeSet, burst, playerVars, live, freeIds, idle, closed >>

UpdateDead(s) ==
  /\ Visiting(s)
  /\ hp[s] <= 0
  /\ Deliver(One({}), view, {s})
  /\ cursor' = s + 1
  /\ UNCHANGED << phase, readSet, writeSet, burst, playerVars, live, freeIds, idle, closed >>

StepX(d) == IF d \in {0, 1, 7} THEN -SpeedX ELSE IF d \in {3, 4, 5} THEN SpeedX ELSE 0
StepY(d) == IF d \in {1, 2, 3} THEN -SpeedY ELSE IF d \in {5, 6, 7} THEN SpeedY ELSE 0

(* Mutant: the right border is one further. *)
MutCharacterMoveCheck(px, py) ==
  /\ 0 <= px /\ px <= MoveRight + 1
  /\ 0 <= py /\ py <= MoveBottom

CharacterMoveCheck(px, py) ==
  /\ 0 <= px /\ px <= MoveRight
  /\ 0 <= py /\ py <= MoveBottom

(* A diagonal step that would leave the map on one axis is not taken at all. *)
UpdateMove(s) ==
  LET px == x[s] + StepX(act[s])
      py == y[s] + StepY(act[s])
      ok == CharacterMoveCheck(px, py)
  IN  /\ Visiting(s)
      /\ hp[s] > 0
      /\ ~ Invalid(act[s])
      /\ Place(s, IF ok THEN px ELSE x[s], IF ok THEN py ELSE y[s], act[s], {}, {})
      /\ cursor' = s + 1
      /\ UNCHANGED << phase, readSet, writeSet, burst, hp, live, freeIds, idle, closed >>

(* The default of the switch returns: nobody after s is visited. *)
UpdateInvalid(s) ==
  /\ Visiting(s)
  /\ hp[s] > 0
  /\ Invalid(act[s])
  /\ Deliver(One({}), view, {s})
  /\ phase' = "io"
  /\ cursor' = 0
  /\ UNCHANGED << readSet, writeSet, burst, playerVars, live, freeIds, idle, closed >>

EndOfUpdate ==
  /\ phase = "update"
  /\ Unvisited = {}
  /\ phase' = "io"
  /\ cursor' = 0
  /\ UNCHANGED << readSet, writeSet, burst, playerVars, outVars,
                  live, freeIds, idle, closed >>

-----------------------------------------------------------------------------
PacketProc(s) ==
  \/ \E p \in ClientPositions : \/ \E d \in Actions : MoveStart(s, d, p[1], p[2])
                          \/ MoveStop(s, p[1], p[2])
                          \/ \E k \in AttackKinds, left \in BOOLEAN :
                               \/ AttackMiss(s, k, left, p[1], p[2])
                               \/ \E v \in Ids : AttackHit(s, k, left, p[1], p[2], v)
  \/ Echo(s)

NetIOProcess ==
  \/ Select
  \/ EndOfIO
  \/ AcceptNone
  \/ \E p \in SpawnPositions : Accept(p[1], p[2])
  \/ \E s \in Ids : \/ RecvNothing(s)
                    \/ RecvClosed(s)
                    \/ PacketProc(s)
                    \/ Send(s)
                    \/ SendError(s)

Disconnect == DisconnectOne \/ EndOfDisconnect

Update ==
  \/ \E s \in Ids : UpdateDead(s) \/ UpdateMove(s) \/ UpdateInvalid(s)
  \/ EndOfUpdate

Server == NetIOProcess \/ Disconnect \/ NoFrame \/ NetHeartbeat \/ Update

Next == Server \/ \E s \in Ids : CloseConnection(s)

Spec == Init /\ [][Next]_vars

(* The thread never blocks, so it keeps taking steps; and time passes, so  *)
(* of the many turns of the main loop some are frames.                     *)
Fairness == WF_vars(Server) /\ SF_vars(NetHeartbeat)

FairSpec == Spec /\ Fairness

-----------------------------------------------------------------------------
(* Every variable has its type; a sequence of ids is what the two queues   *)
(* hold, and every sector number in use is one the field has a list for.   *)
TypeOK ==
  /\ phase \in {"io", "disconnect", "loop", "update"}
  /\ cursor \in 0 .. MaxSession + 1
  /\ readSet \in SUBSET ({0} \cup live)
  /\ writeSet \in SUBSET live
  /\ burst \in 0 .. MaxBurst - 1
  /\ live \in SUBSET Ids
  /\ freeIds \in Seq(Ids)
  /\ sendQ \in [Ids -> 0 .. SendQCap]
  /\ idle \in [Ids -> 0 .. TimeoutFrames]
  /\ marked \in SUBSET Ids
  /\ discList \in Seq(Ids)
  /\ x \in [Ids -> 0 .. MoveRight]
  /\ y \in [Ids -> 0 .. MoveBottom]
  /\ act \in [Ids -> Actions]
  /\ hp \in [Ids -> MinHP .. MaxHP]
  /\ cur \in [Ids -> Sectors]
  /\ sector \in [Sectors -> SUBSET Ids]
  /\ closed \in SUBSET live
  /\ view \in [Ids -> [Ids -> [copies : Int, act : Actions, hp : Int]]]

(* Session.cpp's g_SessionID_Q: whatever sessions were given up, and in    *)
(* whatever order, an id is either in use or waiting in the queue, once.   *)
IdsConserved ==
  /\ ToSet(freeIds) = Ids \ live
  /\ IsInjective(freeIds)

(* Disconnect.cpp: the list and the flags say the same, nobody is listed   *)
(* twice, and only sessions that still exist are listed: so Disconnect     *)
(* always finds the session and the player it dereferences.                *)
DisconnectListExact ==
  /\ ToSet(discList) = marked
  /\ IsInjective(discList)
  /\ marked \subseteq live

(* Field.cpp: between two handlers the player of every session is in the   *)
(* list of exactly the sector its position lies in, and _CurSector names   *)
(* it; nobody else is in a list.                                           *)
SectorListsExact ==
  /\ \A t \in Sectors : sector[t] = { s \in live : cur[s] = t }
  /\ \A s \in live : cur[s] = SectorOf(x[s], y[s])

Sees(r, p) == p \in live /\ cur[p] \in Block(cur[r])

(* What a client was told agrees with the field: the CREATEs and DELETEs   *)
(* sent so far to a session that was not given up leave it exactly the     *)
(* players in the nine sectors around its own, each of them once.          *)
ViewExact ==
  \A r \in live \ marked, p \in Ids :
    view[r][p].copies = IF Sees(r, p) THEN 1 ELSE 0

(* Who sees a player knows how it moves, whether it was told by MOVE_START *)
(* or MOVE_STOP, or by the MOVE_START that follows CREATE when the player  *)
(* came into sight while walking.                                          *)
MotionKnown ==
  \A r, p \in live \ marked :
    Sees(r, p) /\ r # p => view[r][p].act = act[p]

(* Who sees a player, the player itself included, knows its hit points:    *)
(* by DAMAGE, or by CREATE when it came into sight later.                  *)
HitPointsKnown ==
  \A r \in live \ marked, p \in live : Sees(r, p) => view[r][p].hp = hp[p]

(* Every client has been told of exactly the players it sees, and knows    *)
(* how they move, their hit points and its own.                            *)
ClientsInformed == ViewExact /\ MotionKnown /\ HitPointsKnown

(* A session given up stays given up: its flag is reset only by the step   *)
(* of Disconnect that ends it.                                             *)
GivenUpForGood ==
  [][\A s \in marked : s \in marked' \/ s \notin live']_vars

(* A session whose client has gone is ended, whatever the other sessions   *)
(* do and however the frames fall.                                         *)
ClosedIsEnded ==
  \A s \in Ids : s \in closed ~> s \notin closed

(* A player without hit points is removed by some later frame, provided no *)
(* client sends a direction Update does not know.                          *)
DeadIsRemoved ==
  \A s \in Ids : s \in live /\ hp[s] <= 0 ~> hp[s] > 0

(* Contents.cpp:54 says that Update skips the players about to be          *)
(* disconnected: when a frame ends, whoever it has not visited before is   *)
(* one of these, also the player it has visited last and given up.  It     *)
(* takes another player behind that one to break this.                     *)
EveryPlayerUpdated ==
  [][phase = "update" /\ phase' # "update" => Unvisited \subseteq marked']_vars

(* Session.cpp:1602 says that the packet of an attack motion must go to    *)
(* all sessions that see the player that attacks.  (An attack that nobody  *)
(* at all is told of is left aside.)                                       *)
AttackSeenByAll ==
  [][\A s \in live, k \in AttackKinds, left \in BOOLEAN, p \in ClientPositions :
       /\ MotionAudience(s, k, p[1], p[2]) # {}
       /\ \/ AttackMiss(s, k, left, p[1], p[2])
          \/ \E v \in Ids : AttackHit(s, k, left, p[1], p[2], v)
       => \A r \in live \ {s} :
            Sees(r, s) => sendQ'[r] > sendQ[r] \/ r \in marked']_vars
=============================================================================
