------------------------------- MODULE Session -------------------------------
(***************************************************************************)
(* The two ring buffers of a session of the TCPFighter server              *)
(* (C_Ring_Buffer.cpp, and netProc_Recv, SendPacket_Unicast, netProc_Send  *)
(* of Session.cpp): how a stream of bytes is cut into messages, and        *)
(* messages become a stream again.                                         *)
(*                                                                         *)
(* A byte is a pair << m, k >>: the k-th byte, from 0, of the m-th message *)
(* that the client, or the server, has ever sent.  TCP keeps their order   *)
(* and delivers any number of them at a time.                              *)
(***************************************************************************)
EXTENDS RingIndex, Sequences

CONSTANTS
  Header,       \* sizeof(st_PACKET_HEADER) (3)
  Payloads,     \* bound: payloads of the client's messages, in bytes
  Replies,      \* bound: sizes of the server's messages, in bytes
  MaxReceived,  \* netProc_Recv stops the process above this many bytes (24)
  MaxSent,      \* bound: messages of the client
  MaxReplies,   \* bound: messages of the server
  MaxConnections \* bound: connections that use the session one after another

(* A header and an answer have bytes; a payload may be empty.               *)
ASSUME SessionAssumption ==
  /\ Header \in Nat \ {0}
  /\ Payloads \subseteq Nat
  /\ Replies \subseteq Nat \ {0}

VARIABLES
  connection,  \* connections so far
  state,       \* "io", "proc" in netProc_Recv's loop, "stopped" by __debugbreak
  reason,      \* what it was stopped for
  listed,      \* the session is on the disconnect list
  failed,      \* a send has failed: the socket is not used again
  sent,        \* sizes of all messages of the client ...
  first,       \* ... of which this one was the first of the connection
  transit,     \* bytes on their way to the server
  recvQ, sendQ,  \* RecvQ, SendQ: [ buf, in, out ]
  handled,     \* payloads given to PacketProc on this connection
  queued,      \* sizes of all messages put in SendQ ...
  firstOut,    \* ... of which this one was the first of the connection
  heard        \* bytes the client has received on this connection

clientVars == << sent, first, transit >>
outVars    == << sendQ, queued, firstOut, heard >>
vars == << connection, state, reason, listed, failed, clientVars, recvQ, handled, outVars >>

Blank == << 0, 0 >>        \* what new char[] left in a cell

Empty == [ buf |-> [ c \in Index |-> Blank ], in |-> 0, out |-> 0 ]

Init ==
  /\ connection = 1
  /\ state = "io" /\ reason = "none" /\ listed = FALSE /\ failed = FALSE
  /\ sent = << >> /\ first = 1 /\ transit = << >>
  /\ recvQ = Empty /\ sendQ = Empty
  /\ handled = << >>
  /\ queued = << >> /\ firstOut = 1 /\ heard = << >>
-----------------------------------------------------------------------------
(* C_RING_BUFFER *)

Use(q)  == GetUseSize(q.in, q.out)
Free(q) == GetFreeSize(q.in, q.out)

(* Mutant: what does not fit at the end is not put at the beginning. *)
MutPut(q, s, n) ==
  [ c \in Index |-> IF c \in q.in .. q.in + Len(s) - 1 THEN s[c - q.in + 1] ELSE q.buf[c] ]

(* The cells after s is written from In on, n bytes of it up to the end     *)
(* and the rest from cell 0 on.                                             *)
Put(q, s, n) ==
  [ c \in Index |->
      IF c - q.in \in 0 .. Len(s) - 1 /\ c - q.in < n THEN s[c - q.in + 1]
      ELSE IF c < Len(s) - n THEN s[n + c + 1]
      ELSE q.buf[c] ]

Least(a, b) == IF a < b THEN a ELSE b

(* n bytes from Out on. *)
Taken(q, n) == [ k \in 1 .. n |-> q.buf[Moved(q.out, k - 1)] ]

(* Enqueue writes all of s, or nothing when there is not more room. *)
Fits(q, s) == FullSize - Use(q) > Len(s)
Enqueue(q, s) ==
  [ buf |-> Put(q, s, Least(Len(s), FullSize - q.in)),
    in  |-> Moved(q.in, Len(s)),
    out |-> q.out ]

Peek(q, n) == Taken(q, Least(n, Use(q)))

(* Mutant: the end of the ring is not a border. *)
MutMoveOut(q, n) == [ q EXCEPT !.out = q.out + n ]

MoveOut(q, n) == [ q EXCEPT !.out = Moved(q.out, n) ]

(* Dequeue: what it returns, and the buffer afterwards. *)
Dequeued(q, n) == Taken(q, Least(n, Use(q)))
Dequeue(q, n)  == IF n <= Use(q) THEN MoveOut(q, n) ELSE [ q EXCEPT !.out = q.in ]
-----------------------------------------------------------------------------
(* Outside of the server *)

Bytes(m, size) == [ k \in 1 .. size |-> << m, k - 1 >> ]

ClientSends(size) ==
  /\ Len(sent) < MaxSent
  /\ sent' = Append(sent, Header + size)
  /\ transit' = transit \o Bytes(Len(sent) + 1, Header + size)
  /\ UNCHANGED << connection, state, reason, listed, failed, first, recvQ, handled, outVars >>
-----------------------------------------------------------------------------
(* netProc_Recv: the first buffer of WSARecv begins at In, the second at    *)
(* cell 0.                                                                  *)
Receive(n) ==
  /\ state = "io" /\ ~ failed
  /\ recvQ' = [ buf |-> Put(recvQ, SubSeq(transit, 1, n),
                            Least(n, DirectEnqueueSize(recvQ.in, recvQ.out))),
                in  |-> Moved(recvQ.in, n),
                out |-> recvQ.out ]
  /\ transit' = SubSeq(transit, n + 1, Len(transit))
  /\ state' = "proc"
  /\ UNCHANGED << connection, reason, listed, failed, sent, first, handled, outVars >>

(* The client has closed the connection, or it is lost (recv returns 0,     *)
(* 10054 or 10053).                                                         *)
ReceiveEnd ==
  /\ state = "io" /\ ~ failed
  /\ listed' = TRUE
  /\ UNCHANGED << connection, state, reason, failed, clientVars, recvQ, handled, outVars >>

Stop(why) ==
  /\ state' = "stopped" /\ reason' = why
  /\ UNCHANGED << connection, failed, clientVars, recvQ, handled, outVars >>

(* The message at the front of RecvQ, if its header is one. *)
Ahead     == Peek(recvQ, Header)
IsHeader  == \A k \in DOMAIN Ahead : Ahead[k] = << Ahead[1][1], k - 1 >>
Size      == sent[Ahead[1][1]]

ProcEnd ==
  /\ state = "proc" /\ Use(recvQ) = 0
  /\ state' = "io"
  /\ UNCHANGED << connection, reason, listed, failed, clientVars, recvQ, handled, outVars >>

ProcStop ==
  /\ state = "proc" /\ Use(recvQ) > 0
  /\ \/ Use(recvQ) < Header /\ Stop("header incomplete") /\ UNCHANGED listed
     \/ Use(recvQ) > MaxReceived /\ Stop("more than three messages") /\ UNCHANGED listed
     \/ /\ Use(recvQ) \in Header .. MaxReceived
        /\ \/ ~ IsHeader /\ Stop("header code") /\ listed' = TRUE
           \/ IsHeader /\ Use(recvQ) < Size /\ Stop("incomplete") /\ UNCHANGED listed

(* SendPacket_Unicast, once the messages put so far have made the queue and *)
(* the list what before says.  A message that does not fit puts the session *)
(* on the list; the next one may fit.                                       *)
Now == [ q |-> sendQ, queued |-> queued, full |-> FALSE ]

Unicast(before, size) ==
  LET s == Bytes(Len(before.queued) + 1, size)
  IN  IF Fits(before.q, s)
      THEN [ q |-> Enqueue(before.q, s), queued |-> Append(before.queued, size),
             full |-> before.full ]
      ELSE [ before EXCEPT !.full = TRUE ]

Queue(done) ==
  /\ sendQ' = done.q /\ queued' = done.queued
  /\ Len(queued') <= MaxReplies

(* A complete message: PacketProc is given its payload, and its handler     *)
(* sends up to two messages to this client.  It fails when the type of the  *)
(* message is unknown or the player is not found, and no more is handled.   *)
Proc(done, ok) ==
  /\ state = "proc"
  /\ Use(recvQ) \in Header .. MaxReceived
  /\ IsHeader /\ Use(recvQ) >= Size
  /\ LET body == MoveOut(recvQ, Header)
     IN  /\ recvQ' = Dequeue(body, Size - Header)
         /\ handled' = Append(handled, Dequeued(body, Size - Header))
  /\ Queue(done)
  /\ listed' = (listed \/ done.full \/ ~ ok)
  /\ state' = IF ok THEN "proc" ELSE "io"
  /\ UNCHANGED << connection, reason, failed, clientVars, firstOut, heard >>
-----------------------------------------------------------------------------
(* Another session's message, or Update, has something for this client. *)
Broadcast(done) ==
  /\ state = "io"
  /\ Queue(done)
  /\ listed' = (listed \/ done.full)
  /\ UNCHANGED << connection, state, reason, failed, clientVars, recvQ, handled, firstOut, heard >>

(* The bytes of the two buffers of WSASend: from Out on, and from cell 0    *)
(* on.                                                                      *)
Buffers ==
  LET direct == DirectDequeueSize(sendQ.in, sendQ.out)
  IN  [ k \in 1 .. direct |-> sendQ.buf[sendQ.out + k - 1] ] \o
      [ k \in 1 .. Use(sendQ) - direct |-> sendQ.buf[k - 1] ]

(* Mutant: the whole queue counts as sent. *)
MutAfterSend(n) == MoveOut(sendQ, Use(sendQ))

AfterSend(n) == MoveOut(sendQ, n)

(* netProc_Send: the socket takes n bytes, and also none (WSAEWOULDBLOCK).  *)
SendSome(n) ==
  /\ state = "io" /\ Use(sendQ) > 0 /\ ~ failed
  /\ heard' = heard \o SubSeq(Buffers, 1, n)
  /\ sendQ' = AfterSend(n)
  /\ UNCHANGED << connection, state, reason, listed, failed, clientVars, recvQ, handled,
                  queued, firstOut >>

(* The send fails.  MoveOut is called all the same, with a number of bytes  *)
(* that WSASend has not set.                                                *)
SendFails ==
  /\ state = "io" /\ Use(sendQ) > 0 /\ ~ failed
  /\ listed' = TRUE /\ failed' = TRUE
  /\ \E n \in Index : sendQ' = MoveOut(sendQ, n)
  /\ UNCHANGED << connection, state, reason, clientVars, recvQ, handled, queued,
                  firstOut, heard >>
-----------------------------------------------------------------------------
(* Mutant: the buffers are not cleared. *)
MutCleared(q) == q

Cleared(q) == [ buf |-> q.buf, in |-> 0, out |-> 0 ]

(* Disconnect, and the next connection that gets the session (Init).        *)
Reuse ==
  /\ state = "io" /\ listed /\ connection < MaxConnections
  /\ connection' = connection + 1
  /\ listed' = FALSE /\ failed' = FALSE
  /\ first' = Len(sent) + 1 /\ transit' = << >> /\ handled' = << >>
  /\ firstOut' = Len(queued) + 1 /\ heard' = << >>
  /\ recvQ' = Cleared(recvQ) /\ sendQ' = Cleared(sendQ)
  /\ UNCHANGED << state, reason, sent, queued >>

Next ==
  \/ \E size \in Payloads : ClientSends(size)
  \/ \E n \in 1 .. Least(Len(transit), Free(recvQ)) : Receive(n)
  \/ ReceiveEnd \/ ProcEnd \/ ProcStop
  \/ \E size, size2 \in Replies, ok \in BOOLEAN :
       LET once == Unicast(Now, size)
       IN  \E done \in { Now, once, Unicast(once, size2) } : Proc(done, ok)
  \/ \E size \in Replies : Broadcast(Unicast(Now, size))
  \/ \E n \in 1 .. Use(sendQ) : SendSome(n)
  \/ SendFails \/ Reuse

Spec == Init /\ [][Next]_vars
-----------------------------------------------------------------------------
(* The messages handled on a connection are those its client has sent, in   *)
(* order, each with its own payload: however TCP cuts the stream, wherever  *)
(* in the ring a message comes to lie (C_Ring_Buffer.cpp:83, 122), and      *)
(* whatever an earlier connection has left behind.                          *)
HandledAsSent ==
  \A i \in DOMAIN handled :
    LET m == first + i - 1
    IN  /\ m <= Len(sent)
        /\ handled[i] = SubSeq(Bytes(m, sent[m]), Header + 1, sent[m])

(* The byte that comes after b in the stream of the messages queued.        *)
After(b) == IF b[2] + 1 < queued[b[1]] THEN << b[1], b[2] + 1 >> ELSE << b[1] + 1, 0 >>

(* The bytes s are a beginning of what was queued on this connection.       *)
InStream(s) ==
  /\ s # << >> => s[1] = << firstOut, 0 >>
  /\ \A k \in DOMAIN s : s[k][1] \in DOMAIN queued
  /\ \A k \in 1 .. Len(s) - 1 : s[k + 1] = After(s[k])

(* While all goes well nothing is lost: what was queued was heard or waits, *)
(* up to the last byte of the last message.                                 *)
NothingSkipped ==
  LET s == heard \o Taken(sendQ, Use(sendQ)) IN
  /\ InStream(s)
  /\ IF s = << >> THEN firstOut = Len(queued) + 1
                  ELSE After(s[Len(s)]) = << Len(queued) + 1, 0 >>

(* What the client receives is the stream of the messages queued for it,    *)
(* each from its first byte to its last and none skipped, although the      *)
(* socket takes what it likes, messages are refused, sends fail and the     *)
(* session is used again (Session.cpp:1133-1168).  When a send has failed,  *)
(* MoveOut has skipped something, but the session is given up and its       *)
(* socket not used again.                                                   *)
HeardAsQueued == InStream(heard) /\ (failed \/ NothingSkipped)

(* netProc_Recv says of a message whose end has not arrived yet that it     *)
(* just returns and goes on in the next frame (Session.cpp:1092).           *)
IncompleteWaits == reason # "incomplete"
==============================================================================
