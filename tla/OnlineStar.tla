----------------------------- MODULE OnlineStar -----------------------------
(***************************************************************************)
(* The star server and its clients (project/OnlineStar_Server and          *)
(* project/OnlineStar_Client, main.cpp of each).  The server is one thread *)
(* around select: it accepts, receives from every socket that select has   *)
(* reported, in the order of Player_List, and deletes the players that     *)
(* were put on set_Delete_List meanwhile.  It sends at once, only to       *)
(* sockets that a second select reports as writable.                       *)
(*                                                                         *)
(* A socket stands for the client at its other end.  What TCP holds for a  *)
(* client is counted in messages; the row of a star is left out.           *)
(***************************************************************************)
EXTENDS Integers, Sequences, FiniteSets, Functions

CONSTANTS
  Sockets,     \* sockets accept returns, numbers as in Windows
  Room,        \* messages a socket takes before it is not writable
  Width,       \* dfSCREEN_WIDTH
  PacketSize,  \* sizeof(st_PACKET): 16
  MaxId,       \* bound: players ever
  MaxMoves     \* bound: moves of all clients

VARIABLES
  phase,       \* of the server: "select", "recv", "delete", "stopped"
  isSet,       \* sockets in Read_Set that recv_Procedure is not over for
  batch,       \* what it has still to look at of the recv in progress
  g_ID, Player_List, set_Delete_List,
  conn,        \* of each socket: "none", "waiting", "open", "closed", "reset"
  inbox,       \* messages for the client that it has not handled
  outbox,      \* positions the client has sent that the server has not received
  me,          \* g_st_Player: [ id, x ], x = NoStar before it is created
  others,      \* g_Other_Player: x of each id
  missed,      \* sockets that were not sent something they should have been
  moves

server  == << phase, isSet, batch, g_ID, Player_List, set_Delete_List >>
network == << conn, inbox, outbox, missed >>
client  == << me, others, moves >>
vars    == << server, network, client >>

NoStar  == -1
Nothing == [ id \in {} |-> 0 ]
Center  == Width \div 2
Players == DOMAIN Player_List

Assigned(id)  == [ type |-> 0, id |-> id, x |-> 0 ]
Created(id, x) == [ type |-> 1, id |-> id, x |-> x ]
Deleted(id)   == [ type |-> 2, id |-> id, x |-> 0 ]
Moved(id, x)  == [ type |-> 3, id |-> id, x |-> x ]

Init ==
  /\ phase = "select" /\ isSet = {} /\ batch = << >>
  /\ g_ID = 0 /\ Player_List = Nothing /\ set_Delete_List = {}
  /\ conn = [ s \in Sockets |-> "none" ]
  /\ inbox = [ s \in Sockets |-> << >> ] /\ outbox = [ s \in Sockets |-> << >> ]
  /\ me = [ s \in Sockets |-> [ id |-> 0, x |-> NoStar ] ]
  /\ others = [ s \in Sockets |-> Nothing ]
  /\ missed = {} /\ moves = 0
-----------------------------------------------------------------------------
(* send_Broadcast of m to the players P, when box is what TCP holds: who is *)
(* not writable, or broken, is put on set_Delete_List, but only if select   *)
(* has found some socket writable.                                          *)
Writable(s, box) == Len(box[s]) < Room \/ conn[s] = "reset"

After(m, P, box) ==
  LET writable == { s \in P : Writable(s, box) }
      reached  == { s \in writable : conn[s] # "reset" }
  IN  [ box    |-> [ s \in Sockets |-> IF s \in reached THEN Append(box[s], m) ELSE box[s] ],
        missed |-> P \ reached,
        listed |-> IF writable = {} THEN {} ELSE P \ reached ]

Broadcast(m, P, box, lost) ==
  LET after == After(m, P, box)
  IN  /\ inbox' = after.box
      /\ missed' = missed \cup after.missed \cup lost
      /\ set_Delete_List' = set_Delete_List \cup after.listed

(* select, once for the whole round: a socket is reported when it has bytes *)
(* or the connection has ended.                                             *)
Ready(s) == outbox[s] # << >> \/ conn[s] \in {"closed", "reset"}
Waiting  == { s \in Sockets : conn[s] \in {"waiting", "aborted"} }

Select ==
  /\ phase = "select" /\ phase' = "accept"
  /\ isSet' = { s \in Players : Ready(s) }
  /\ isSet' # {} \/ Waiting # {}
  /\ UNCHANGED << batch, g_ID, Player_List, set_Delete_List, network, client >>

(* The order of a map and of a set: the first of S, and all of S.           *)
First(s, S) == s \in S /\ \A q \in S : s <= q

Orders(S) ==
  { order \in [ 1 .. Cardinality(S) -> S ] :
      /\ Range(order) = S
      /\ \A k, l \in DOMAIN order : k < l => order[k] < order[l] }

(* Mutant: their stars are drawn where a new star is.                       *)
MutExisting(order) ==
  [ k \in DOMAIN order |-> Created(Player_List[order[k]].id, Center) ]

(* new_Player_Connect: the players there are are told to the new one, then  *)
(* it is put on the list and told to everybody.  What the new socket cannot *)
(* take is lost; a broken one ends the process (throw).                     *)
Existing(order) ==
  [ k \in DOMAIN order |-> Created(Player_List[order[k]].id, Player_List[order[k]].x) ]

NewPlayer(s) ==
  /\ phase = "accept" /\ g_ID < MaxId
  /\ conn[s] = "waiting"
  /\ \E order \in Orders(Players) :
       LET told == << Assigned(g_ID + 1) >> \o Existing(order)
           sent == IF Len(told) <= Room THEN told ELSE SubSeq(told, 1, Room)
       IN  Broadcast(Created(g_ID + 1, Center), Players \cup {s}, [ inbox EXCEPT ![s] = sent ],
                     IF Len(told) <= Room THEN {} ELSE {s})
  /\ g_ID' = g_ID + 1
  /\ Player_List' = [ p \in Players \cup {s} |->
                        IF p = s THEN [ id |-> g_ID + 1, x |-> Center ] ELSE Player_List[p] ]
  /\ conn' = [ conn EXCEPT ![s] = "open" ]
  /\ phase' = "recv"
  /\ UNCHANGED << isSet, batch, outbox, client >>

(* Mutant: the error is handled as send_Broadcast handles it.                *)
MutAbort(s) ==
  /\ phase = "accept" /\ conn[s] = "aborted"
  /\ set_Delete_List' = set_Delete_List \cup {s}
  /\ phase' = "recv"
  /\ UNCHANGED << isSet, batch, g_ID, Player_List, network, client >>

(* ... the new connection is gone before its player has been told its id.   *)
Abort(s) ==
  /\ phase = "accept" /\ conn[s] = "aborted"
  /\ phase' = "stopped"
  /\ UNCHANGED << isSet, batch, g_ID, Player_List, set_Delete_List, network, client >>

(* Nobody was waiting when select looked.                                   *)
NobodyNew ==
  /\ phase = "accept" /\ phase' = "recv"
  /\ UNCHANGED << isSet, batch, g_ID, Player_List, set_Delete_List, network, client >>

(* recv_Procedure.  The loop counts i_Cnt up by the size of a packet but    *)
(* compares it with the number k of packets received: so many are looked    *)
(* at, the first ones, and the others are dropped.                          *)
LookedAt(k) == (k - 1) \div PacketSize + 1

Recv ==
  /\ phase = "recv" /\ batch = << >>
  /\ \E s \in isSet :
     /\ First(s, isSet)
     /\ IF outbox[s] # << >> /\ conn[s] # "reset"
        THEN /\ \E k \in 1 .. Len(outbox[s]) :
                  /\ batch' = SubSeq(outbox[s], 1, LookedAt(k))
                  /\ outbox' = [ outbox EXCEPT ![s] = SubSeq(@, k + 1, Len(@)) ]
             /\ UNCHANGED << isSet, set_Delete_List >>
        ELSE /\ set_Delete_List' = set_Delete_List \cup {s}
             /\ isSet' = isSet \ {s}
             /\ UNCHANGED << batch, outbox >>
  /\ UNCHANGED << phase, g_ID, Player_List, conn, inbox, missed, client >>

(* One turn of it.  The packets are well-formed, as the clients make them.  *)
RecvPacket ==
  /\ batch # << >> /\ batch' = Tail(batch)
  /\ \E s \in isSet :
     /\ First(s, isSet)
     /\ Player_List' = [ Player_List EXCEPT ![s].x = Head(batch) ]
     /\ Broadcast(Moved(Player_List[s].id, Head(batch)), Players, inbox, {})
     /\ isSet' = IF batch' = << >> THEN isSet \ {s} ELSE isSet
  /\ UNCHANGED << phase, g_ID, conn, outbox, client >>

RecvEnd ==
  /\ phase = "recv" /\ isSet = {}
  /\ phase' = "delete"
  /\ UNCHANGED << isSet, batch, g_ID, Player_List, set_Delete_List, network, client >>

(* DisConnect: the first of the list is taken off Player_List, told to the  *)
(* others, who may come onto the list by that, and closed.  One that is not *)
(* in Player_List is never taken off: the loop does not end then.           *)
DisConnect ==
  /\ phase = "delete"
  /\ \E s \in set_Delete_List \cap Players :
       LET P == Players \ {s}
       IN
         /\ First(s, set_Delete_List)
         /\ Player_List' = Restrict(Player_List, P)
         /\ LET b == After(Deleted(Player_List[s].id), P, inbox)
            IN  /\ inbox' = [ b.box EXCEPT ![s] = << >> ]
                /\ set_Delete_List' = (set_Delete_List \cup b.listed) \ {s}
                /\ missed' = (missed \cup b.missed) \ {s}
         /\ conn' = [ conn EXCEPT ![s] = "none" ]
         /\ outbox' = [ outbox EXCEPT ![s] = << >> ]
  /\ UNCHANGED << phase, isSet, batch, g_ID, client >>

DisConnectEnd ==
  /\ phase = "delete" /\ set_Delete_List = {}
  /\ phase' = "select"
  /\ UNCHANGED << isSet, batch, g_ID, Player_List, set_Delete_List, network, client >>
-----------------------------------------------------------------------------
(* The clients.                                                             *)
Connect(s) ==
  /\ conn[s] = "none"
  /\ conn' = [ conn EXCEPT ![s] = "waiting" ]
  /\ me' = [ me EXCEPT ![s] = [ id |-> 0, x |-> NoStar ] ]
  /\ others' = [ others EXCEPT ![s] = Nothing ]
  /\ UNCHANGED << server, inbox, outbox, missed, moves >>

(* The switch of main.  A move of a star the client does not know goes to   *)
(* what end() points at: nothing is seen of that, or the client crashes.    *)
Handle(s) ==
  /\ conn[s] = "open" /\ inbox[s] # << >>
  /\ LET m == Head(inbox[s]) IN
     /\ me' = CASE m.type = 0 -> [ me EXCEPT ![s].id = m.id ]
                [] m.type = 1 /\ m.id = me[s].id -> [ me EXCEPT ![s].x = m.x ]
                [] OTHER -> me
     /\ others' = [ others EXCEPT ![s] =
                      CASE m.type = 1 /\ m.id # me[s].id ->
                             [ id \in DOMAIN @ \cup {m.id} |-> IF id \in DOMAIN @ THEN @[id] ELSE m.x ]
                        [] m.type = 2 -> Restrict(@, DOMAIN @ \ {m.id})
                        [] m.type = 3 /\ m.id \in DOMAIN @ -> [ @ EXCEPT ![m.id] = m.x ]
                        [] OTHER -> @ ]
     /\ \/ conn' = conn
        \/ m.type = 3 /\ m.id \notin DOMAIN others[s] /\ conn' = [ conn EXCEPT ![s] = "reset" ]
  /\ inbox' = [ inbox EXCEPT ![s] = Tail(@) ]
  /\ UNCHANGED << server, outbox, missed, moves >>

OnScreen(x) == IF x < 0 THEN 0 ELSE IF x >= Width - 1 THEN Width - 2 ELSE x

(* A key moves the star, which is drawn there at once, and the server told. *)
Move(s) ==
  /\ conn[s] = "open" /\ me[s].x # NoStar
  /\ moves < MaxMoves /\ moves' = moves + 1
  /\ \E dx \in {-1, 1} :
       LET x == OnScreen(me[s].x + dx)
       IN  /\ me' = [ me EXCEPT ![s].x = x ]
           /\ outbox' = [ outbox EXCEPT ![s] = Append(@, x) ]
  /\ UNCHANGED << server, conn, inbox, missed, others >>

(* The client ends, or its connection breaks.                               *)
End(s) ==
  /\ \/ conn[s] = "open" /\ \E c \in {"closed", "reset"} : conn' = [ conn EXCEPT ![s] = c ]
     \/ conn[s] = "waiting" /\ conn' = [ conn EXCEPT ![s] = "aborted" ]
  /\ UNCHANGED << server, inbox, outbox, missed, client >>

Next ==
  /\ phase # "stopped"
  /\ \/ Select \/ NobodyNew \/ Recv \/ RecvPacket \/ RecvEnd \/ DisConnect \/ DisConnectEnd
     \/ \E s \in Sockets :
          NewPlayer(s) \/ Abort(s) \/ Connect(s) \/ Handle(s) \/ Move(s) \/ End(s)

Spec == Init /\ [][Next]_vars
-----------------------------------------------------------------------------
(* DisConnect comes to its end: only players are on set_Delete_List.        *)
DeletedArePlayers == set_Delete_List \subseteq Players

(* A client that has handled everything, and that no message was kept from, *)
(* shows exactly the other players, each where the server has it.           *)
OthersShown ==
  \A s \in Players :
    conn[s] = "open" /\ inbox[s] = << >> /\ s \notin missed =>
      LET P == Players \ {s} IN
      /\ me[s].id = Player_List[s].id
      /\ DOMAIN others[s] = { Player_List[p].id : p \in P }
      /\ \A p \in P : others[s][Player_List[p].id] = Player_List[p].x

(* OnlineStar_Client/main.cpp:279 says that the move of one's own star is   *)
(* not sent to oneself.                                                     *)
OwnMovesNotSent ==
  \A s \in Players, k \in 1 .. Room :
    k <= Len(inbox[s]) /\ inbox[s][k].type = 3 => inbox[s][k].id # Player_List[s].id
=============================================================================
