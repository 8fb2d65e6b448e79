----------------------------- MODULE EarlyServer ----------------------------
(***************************************************************************)
(* The first TCPFighter server (project/TCPFighter_Server; its copy        *)
(* project/TCPFighter_Server_With_RPC differs only in one error path): one *)
(* thread, one map of sessions without sectors, everybody sees everybody.  *)
(*                                                                         *)
(* A step is one handler run to its end, as in FighterServer.  A session's *)
(* flag Disconnect is set exactly when it is put on g_Disconnect_List, so  *)
(* the list stands for both.  Sizes of send queues are counted in          *)
(* messages.  A direction that Update does not know, and a broken select,  *)
(* end the process (__debugbreak); clients use the directions 0 to 7.      *)
(***************************************************************************)
EXTENDS Integers, FiniteSets, Sequences, SequencesExt

CONSTANTS
  MaxId,          \* bound: sessions ever accepted
  Limit,          \* accept refuses when there are more sessions (30)
  Capacity,       \* messages SendQ holds
  MaxBurst,       \* bound: messages one recv completes
  MoveLeft, MoveRight, MoveTop, MoveBottom,  \* dfRANGE_MOVE_LEFT ...
  MovementX, MovementY,  \* FRAME_X_MOVEMENT, FRAME_Y_MOVEMENT
  ErrorRange,     \* dfERROR_RANGE
  RangeX, HalfRangeY,  \* dfATTACK1_RANGE_X and half of dfATTACK1_RANGE_Y
  MaxHP,          \* chHP of a new session (100)
  Damages,        \* dfATTACK1_DAMAGE, dfATTACK2_DAMAGE, dfATTACK3_DAMAGE
  MinHP,          \* bound: hits that would take chHP below it are left out
  Directions,     \* bound: the directions clients use, of 0 to 7
  Claims          \* bound: the positions clients report

Ids    == 1 .. MaxId
Stop   == 12                 \* dfPACKET_CS_MOVE_STOP
LL     == 0
RR     == 4
Points == (MoveLeft .. MoveRight) \X (MoveTop .. MoveBottom)

VARIABLES
  phase,       \* "io", "scan", "tell" and "erase" in Disconnect, "update"
  lastId,      \* g_Session_ID
  alive,       \* ids in g_Session_List
  ses,         \* st_SESSION of each: [ at, action, facing, hp ]
  socketless,  \* ids whose Socket is INVALID_SOCKET
  sendQ,       \* messages in SendQ
  listed,      \* g_Disconnect_List
  readSet, writeSet,  \* what select reported and the scan has not reached
  burst,       \* messages handled of the recv in progress
  told,        \* entries of the list that Disconnect's first loop has passed
  view         \* view[r][p]: what the messages put in r's SendQ say of p

posVars  == << phase, readSet, writeSet, burst, told >>
listVars == << lastId, alive, socketless >>
outVars  == << sendQ, listed, view >>
vars     == << posVars, listVars, ses, outVars >>

Fresh   == [ at |-> << MoveLeft, MoveTop >>, action |-> Stop, facing |-> LL, hp |-> MaxHP ]
Unknown == [ known |-> FALSE, action |-> Stop, facing |-> LL, hp |-> MaxHP ]
Nobody  == [ p \in Ids |-> Unknown ]

Init ==
  /\ phase = "io"
  /\ lastId = 0 /\ alive = {} /\ socketless = {}
  /\ ses = [ i \in Ids |-> Fresh ]
  /\ sendQ = [ i \in Ids |-> 0 ]
  /\ listed = << >>
  /\ readSet = {} /\ writeSet = {} /\ burst = 0 /\ told = 0
  /\ view = [ i \in Ids |-> Nobody ]

Given == ToSet(listed)
-----------------------------------------------------------------------------
(* Sending.  out is the queues and the list on the way through a handler.  *)

Now == [ q |-> sendQ, list |-> listed ]

(* The ids of S in the order of the map.                                   *)
Ordered(S) ==
  [ k \in 1 .. Cardinality(S) |->
      CHOOSE i \in S : Cardinality({ j \in S : j <= i }) = k ]

(* Mutant: a session is listed although it is already. *)
MutPushDisconnectList(list, S) == list \o Ordered(S)

PushDisconnectList(list, S) == list \o Ordered(S \ ToSet(list))

(* netSendUnicast of n messages in one packet, all of them or none, to     *)
(* each session of S; who has no room for them is given up.                *)
Unicast(out, S, n) ==
  LET full == { r \in S : out.q[r] + n > Capacity }
  IN  [ q    |-> [ r \in Ids |-> IF r \in S \ full THEN out.q[r] + n ELSE out.q[r] ],
        list |-> PushDisconnectList(out.list, full) ]

(* netSendBroadcast, to all that are not given up yet. *)
Broadcast(out, except, n) == Unicast(out, alive \ (ToSet(out.list) \cup except), n)

(* The view of a client is followed until its session is given up.         *)
Settle(out, seen) ==
  /\ sendQ' = out.q
  /\ listed' = out.list
  /\ view' = [ r \in Ids |-> IF r \in ToSet(out.list) THEN Nobody ELSE seen[r] ]

(* Where one faces that faced facing and moves in direction d. *)
Turned(facing, d) == IF d \in {3, 4, 5} THEN RR ELSE IF d \in {0, 1, 7} THEN LL ELSE facing

(* What a client makes of CREATE_OTHER of i, of MOVE_START, which carries   *)
(* the direction of the move only, and of MOVE_STOP, which carries the way  *)
(* its sender faces.                                                        *)
Created(i) == [ known |-> TRUE, action |-> Stop, facing |-> ses[i].facing, hp |-> ses[i].hp ]
Started(entry, d) == [ entry EXCEPT !.action = d, !.facing = Turned(@, d) ]
Stopped(entry, facing) == [ entry EXCEPT !.action = Stop, !.facing = facing ]

(* All clients but those of S that know of i learn the news about it, each *)
(* for what it knew.                                                       *)
Learn(S, i, news) ==
  [ r \in Ids |-> IF r \in S \/ ~ view[r][i].known THEN view[r]
                  ELSE [ view[r] EXCEPT ![i] = news[r] ] ]
-----------------------------------------------------------------------------
(* netIOProcess.  A session whose socket is INVALID_SOCKET makes select    *)
(* fail, which ends the process.                                           *)
Select ==
  /\ phase = "io" /\ socketless \subseteq Given
  /\ phase' = "scan"
  /\ readSet' \in SUBSET ((alive \ Given) \cup (IF lastId < MaxId THEN {0} ELSE {}))
  /\ writeSet' \in SUBSET { i \in alive \ Given : sendQ[i] > 0 }
  /\ UNCHANGED << burst, told, listVars, ses, outVars >>

Turn(i)    == \A j \in readSet \cup writeSet : i <= j
Reading(i) == phase = "scan" /\ i \in readSet /\ Turn(i)
Writing(i) == phase = "scan" /\ i \in writeSet \ readSet /\ Turn(i)

AcceptRefused ==
  /\ Reading(0)
  /\ Cardinality(alive) > Limit
  /\ readSet' = readSet \ {0}
  /\ UNCHANGED << phase, writeSet, burst, told, listVars, ses, outVars >>

(* Mutant: the movement in progress is not passed on. *)
MutCreatedForMe(p) == Created(p)

(* CREATE_OTHER, and MOVE_START when p is moving. *)
CreatedForMe(p) ==
  IF ses[p].action = Stop THEN Created(p) ELSE Started(Created(p), ses[p].action)

(* netProc_Accept: the new session is told of itself, the others of it,    *)
(* and it of the others that are not given up.  When accept has nothing    *)
(* (WSAEWOULDBLOCK) a session is made all the same, for INVALID_SOCKET.    *)
Accept(p, ok) ==
  LET i       == lastId + 1
      first   == Unicast(Now, {i}, 1)
      second  == Unicast(first, alive \ ToSet(first.list), 1)
      others  == alive \ ToSet(second.list)
      moving  == { r \in others : ses[r].action # Stop }
      out     == Unicast(second, {i}, Cardinality(others) + Cardinality(moving))
      new     == [ Fresh EXCEPT !.at = p ]
      me      == [ Unknown EXCEPT !.known = TRUE ]
  IN  /\ Reading(0)
      /\ Cardinality(alive) <= Limit
      /\ lastId' = i /\ alive' = alive \cup {i}
      /\ socketless' = IF ok THEN socketless ELSE socketless \cup {i}
      /\ ses' = [ ses EXCEPT ![i] = new ]
      /\ Settle(out, [ r \in Ids |->
                         IF r = i THEN [ q \in Ids |-> IF q = i THEN me
                                                       ELSE IF q \in others THEN CreatedForMe(q)
                                                       ELSE Unknown ]
                         ELSE IF r \in alive THEN [ view[r] EXCEPT ![i] = me ]
                         ELSE view[r] ])
      /\ readSet' = readSet \ {0}
      /\ UNCHANGED << phase, writeSet, burst, told >>

(* recv returns 0, 10054 or 10053; or the code of a header is wrong, and   *)
(* the rest is left in RecvQ.                                              *)
RecvEnd(i) ==
  /\ Reading(i) /\ i # 0
  /\ readSet' = readSet \ {i} /\ burst' = 0
  /\ Settle([ Now EXCEPT !.list = PushDisconnectList(@, {i}) ], view)
  /\ UNCHANGED << phase, writeSet, told, listVars, ses >>

(* netProc_Recv's loop, one message at a time; a session that is given up  *)
(* meanwhile goes on being handled.  The last one may still be incomplete. *)
Message(i) ==
  /\ Reading(i) /\ i # 0
  /\ \/ readSet' = readSet \ {i} /\ burst' = 0
     \/ burst + 1 < MaxBurst /\ burst' = burst + 1 /\ UNCHANGED readSet
  /\ UNCHANGED << phase, writeSet, told, listVars >>

RecvNothing(i) ==
  /\ Reading(i) /\ i # 0
  /\ readSet' = readSet \ {i} /\ burst' = 0
  /\ UNCHANGED << phase, writeSet, told, listVars, ses, outVars >>

Apart(a, b) == IF a < b THEN b - a ELSE a - b

TooFar(i, p) == \/ Apart(ses[i].at[1], p[1]) > ErrorRange
                \/ Apart(ses[i].at[2], p[2]) > ErrorRange

(* netPacketProc_CS_MOVE_START and, for which the action is Stop,          *)
(* netPacketProc_CS_MOVE_STOP, from a client that faces d.                 *)
Move(i, action, d, p) ==
  LET facing == Turned(ses[i].facing, d)
  IN  /\ Message(i)
      /\ \/ /\ TooFar(i, p)
            /\ Settle([ Now EXCEPT !.list = PushDisconnectList(@, {i}) ], view)
            /\ UNCHANGED ses
         \/ /\ ~ TooFar(i, p)
            /\ ses' = [ ses EXCEPT ![i].at = p, ![i].action = action, ![i].facing = facing ]
            /\ Settle(Broadcast(Now, {i}, 1),
                      Learn({i}, i, [ r \in Ids |->
                        IF action = Stop THEN Stopped(view[r][i], facing)
                        ELSE Started(view[r][i], d) ]))

(* Who an attack may hit: in front of i, each within the range of attack 1 *)
(* whatever the attack.                                                    *)
InFront(i, d, r) ==
  LET dx == IF d \in {3, 4, 5} THEN ses[r].at[1] - ses[i].at[1]
                               ELSE ses[i].at[1] - ses[r].at[1]
  IN  /\ d \in {0, 1, 3, 4, 5, 7}
      /\ 0 < dx /\ dx < RangeX
      /\ Apart(ses[r].at[2], ses[i].at[2]) < HalfRangeY

Targets(i, d) == { r \in alive \ {i} : InFront(i, d, r) }

(* Mutant: the one that is hit is not told. *)
MutWitnesses(out, r) == Broadcast(out, {r}, 1)

Witnesses(out, r) == Broadcast(out, {}, 1)

(* netPacketProc_CS_ATTACK1, 2 and 3: of all in front the one that comes   *)
(* first in the map is hit.                                                *)
Attack(i, k, d) ==
  LET shown == Broadcast(Now, {i}, 1)
  IN  /\ Message(i)
      /\ \/ /\ Targets(i, d) = {}
            /\ Settle(shown, view)
            /\ UNCHANGED ses
         \/ \E r \in Targets(i, d) :
              LET left == ses[r].hp - Damages[k]
                  out  == Witnesses(shown, r)
              IN  /\ \A q \in Targets(i, d) : r <= q
                  /\ left >= MinHP
                  /\ ses' = [ ses EXCEPT ![r].hp = left ]
                  /\ Settle(out, Learn({ q \in Ids : out.q[q] = shown.q[q] }, r,
                                       [ q \in Ids |-> [ view[q][r] EXCEPT !.hp = left ] ]))

(* netProc_Send: until SendQ is empty or the socket takes no more.         *)
Send(i) ==
  /\ Writing(i)
  /\ writeSet' = writeSet \ {i}
  /\ \E n \in 0 .. sendQ[i] : sendQ' = [ sendQ EXCEPT ![i] = n ]
  /\ UNCHANGED << phase, readSet, burst, told, listVars, ses, listed, view >>

SendFails(i) ==
  /\ Writing(i)
  /\ writeSet' = writeSet \ {i}
  /\ Settle([ Now EXCEPT !.list = PushDisconnectList(@, {i}) ], view)
  /\ UNCHANGED << phase, readSet, burst, told, listVars, ses >>

ScanEnds ==
  /\ phase = "scan" /\ readSet \cup writeSet = {}
  /\ phase' = "tell"
  /\ UNCHANGED << readSet, writeSet, burst, told, listVars, ses, outVars >>
-----------------------------------------------------------------------------
(* Mutant: one turn late. *)
MutDeletePacket == SubSeq(listed, 1, told)

(* The packet of one turn of Disconnect's first loop: it is never emptied, *)
(* so that it holds the DELETEs of all the turns before.                   *)
DeletePacket == SubSeq(listed, 1, told + 1)

(* One turn of the first loop.  The list may grow on the way.              *)
Tell ==
  /\ phase = "tell" /\ told < Len(listed)
  /\ told' = told + 1
  /\ Settle(Broadcast(Now, {}, Len(DeletePacket)),
            [ r \in Ids |-> [ p \in Ids |->
                IF r \in alive /\ p \in ToSet(DeletePacket) THEN Unknown ELSE view[r][p] ] ])
  /\ UNCHANGED << phase, readSet, writeSet, burst, listVars, ses >>

(* The second loop. *)
Erase ==
  /\ phase = "tell" /\ told = Len(listed)
  /\ phase' = "update" /\ told' = 0
  /\ alive' = alive \ Given
  /\ socketless' = socketless \ Given
  /\ ses' = [ i \in Ids |-> IF i \in Given THEN Fresh ELSE ses[i] ]
  /\ sendQ' = [ i \in Ids |-> IF i \in Given THEN 0 ELSE sendQ[i] ]
  /\ listed' = << >>
  /\ UNCHANGED << lastId, readSet, writeSet, burst, view >>
-----------------------------------------------------------------------------
(* Update *)

StepX(d) == IF d \in {0, 1, 7} THEN -MovementX ELSE IF d \in {3, 4, 5} THEN MovementX ELSE 0
StepY(d) == IF d \in {1, 2, 3} THEN -MovementY ELSE IF d \in {5, 6, 7} THEN MovementY ELSE 0

(* isNoX, isNoY: within one movement of the rim, whichever way one goes.   *)
NoX(x) == x - MovementX < MoveLeft \/ x + MovementX > MoveRight
NoY(y) == y - MovementY < MoveTop  \/ y + MovementY > MoveBottom

Within(v, lo, hi) == IF v < lo THEN lo ELSE IF v > hi THEN hi ELSE v

(* Where Update leaves a session that it moves. *)
Moved(s) ==
  LET dx   == StepX(s.action)
      dy   == StepY(s.action)
      free == ~ (dx # 0 /\ NoX(s.at[1])) /\ ~ (dy # 0 /\ NoY(s.at[2]))
  IN  << Within(s.at[1] + (IF free THEN dx ELSE 0), MoveLeft, MoveRight),
         Within(s.at[2] + (IF free THEN dy ELSE 0), MoveTop, MoveBottom) >>

(* Mutant: the dead go on. *)
MutDead(i) == FALSE

Dead(i) == ses[i].hp <= 0

Update ==
  LET todo == alive \ Given
  IN  /\ phase = "update"
      /\ phase' = "io"
      /\ ses' = [ i \in Ids |-> IF i \in todo /\ ~ Dead(i) THEN [ ses[i] EXCEPT !.at = Moved(ses[i]) ]
                                ELSE ses[i] ]
      /\ Settle([ Now EXCEPT !.list = PushDisconnectList(@, { i \in todo : Dead(i) }) ],
                view)
      /\ UNCHANGED << readSet, writeSet, burst, told, listVars >>

(* Less than 20 ms have passed. *)
NoFrame ==
  /\ phase = "update"
  /\ phase' = "io"
  /\ UNCHANGED << readSet, writeSet, burst, told, listVars, ses, outVars >>
-----------------------------------------------------------------------------
PacketProc(i) ==
  \E d \in Directions :
    \/ \E p \in Claims : Move(i, d, d, p) \/ Move(i, Stop, d, p)
    \/ \E k \in DOMAIN Damages : Attack(i, k, d)

Next ==
  \/ Select \/ AcceptRefused
  \/ \E p \in Points, ok \in BOOLEAN : Accept(p, ok)
  \/ \E i \in Ids : \/ RecvEnd(i) \/ RecvNothing(i) \/ PacketProc(i)
                   \/ Send(i) \/ SendFails(i)
  \/ ScanEnds \/ Tell \/ Erase \/ Update \/ NoFrame

Spec == Init /\ [][Next]_vars

(* The thread never blocks; time passes, so some turns make a frame.       *)
Fairness == WF_vars(Next) /\ SF_vars(Update)
-----------------------------------------------------------------------------
TypeOK ==
  /\ phase \in {"io", "scan", "tell", "update"}
  /\ lastId \in 0 .. MaxId /\ alive \subseteq Ids /\ socketless \subseteq Ids
  /\ \A i \in Ids :
       /\ ses[i].at \in Points /\ ses[i].action \in Directions \cup {Stop}
       /\ ses[i].facing \in {LL, RR} /\ ses[i].hp \in MinHP .. MaxHP
       /\ sendQ[i] \in 0 .. Capacity
  /\ listed \in Seq(Ids) /\ told \in 0 .. Len(listed)
  /\ readSet \subseteq {0} \cup alive /\ writeSet \subseteq alive

(* What is on the disconnect list is a session, and is on it once, although *)
(* a session goes on being handled when it is given up and may be given up  *)
(* in the middle of Disconnect: so none is deleted twice (NetWork.cpp:660,  *)
(* 694-723).                                                                *)
ListedOnce == Given \subseteq alive /\ IsInjective(listed)

(* Every client knows exactly the sessions there are; it may have been told *)
(* of the end of one that is about to be erased, and a newcomer is told     *)
(* nothing of those (NetWork.cpp:252-396, 676-681).                         *)
ViewExact ==
  \A r \in alive \ Given :
    LET known == { p \in Ids : view[r][p].known }
    IN  known \subseteq alive /\ alive \ Given \subseteq known

(* A client knows how every other moves, also when it comes while the other *)
(* is on its way (NetWork.cpp:375-380).                                     *)
MotionKnown ==
  \A r, p \in alive \ Given :
    r # p => /\ view[r][p].action = ses[p].action
             /\ view[r][p].facing = ses[p].facing

(* A client knows everybody's hit points, its own included.                 *)
HitPointsKnown ==
  \A r \in alive \ Given, p \in alive \ Given : view[r][p].hp = ses[p].hp

(* The process is about to end: select fails.                               *)
Broken == phase = "io" /\ ~ socketless \subseteq Given

(* Who has lost all hit points is deleted in the end, however the frames    *)
(* fall (Logic.cpp:52-59).                                                  *)
DeadIsErased ==
  \A i \in Ids : i \in alive /\ ses[i].hp <= 0 ~> i \notin alive \/ Broken
==============================================================================
