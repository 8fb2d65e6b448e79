----------------------------- MODULE LanSession -----------------------------
(***************************************************************************)
(* One session of the IOCP library (NetLib_MMO/CLanServer.cpp) under its   *)
(* echo server (EchoServer.cpp): the accept thread sends a login packet    *)
(* and posts the first receive; after that any worker thread takes any     *)
(* completion.  At most one send is posted at a time: SendFlags says who   *)
(* may post it, and the thread that completes it posts the next.  A step   *)
(* is one access to what the threads share.                                *)
(*                                                                         *)
(* The stream of the client is cut in units: a header, then a payload.     *)
(* Packets are numbered: the login packet is 0, the k-th echo is k.  SendQ *)
(* holds pointers to packets; queue keeps all that were ever put in it.    *)
(***************************************************************************)
EXTENDS Integers, Sequences

CONSTANTS
  Workers,       \* the worker threads
  MaxBuffers,    \* packets in one WSASend (50)
  Capacity,      \* packets SendQ holds
  MaxMessages    \* bound: messages of the client

VARIABLES
  ioCount, flag, buffNum,   \* IOCount, SendFlags, SendBuffNum
  queue, out,               \* packets put in SendQ so far; those taken out
  received, handled,        \* units in RecvQ so far; messages taken out
  receiving, sending,       \* a WSARecv is pending; the packets of a pending WSASend
  wire, arrived,            \* packets given to WSASend; those whose send is complete
  ended,                    \* the client has reset the connection
  removed, stopped,         \* RemoveSession has run; a __debugbreak has
  at, by, n                 \* of each thread: where it is, SendPost's caller, its iCnt

io == << receiving, sending, wire, arrived, ended >>
vars == << ioCount, flag, buffNum, queue, out, received, handled, io,
           removed, stopped, at, by, n >>

Accept  == "accept"        \* the accept thread
Threads == Workers \cup { Accept }

Init ==
  /\ ioCount = 0 /\ flag = FALSE /\ buffNum = 0
  /\ queue = << >> /\ out = 0
  /\ received = 0 /\ handled = 0
  /\ receiving = FALSE /\ sending = 0 /\ wire = << >> /\ arrived = 0 /\ ended = FALSE
  /\ removed = FALSE /\ stopped = FALSE
  /\ at = [ t \in Threads |-> IF t = Accept THEN "packet" ELSE "idle" ]
  /\ by = [ t \in Threads |-> "SendPacket" ]
  /\ n  = [ t \in Threads |-> 0 ]

Goto(t, where) == at' = [ at EXCEPT ![t] = where ]
Count(t, k)    == n' = [ n EXCEPT ![t] = k ]
Used           == Len(queue) - out                         \* SendQ.GetUseSize()

(* InterlockedDecrement(&IOCount), and RemoveSession when nothing is left:  *)
(* the packets in SendQ are freed and the session is free for another.      *)
Release ==
  /\ ioCount' = ioCount - 1
  /\ removed' = (removed \/ ioCount = 1)
  /\ out' = IF ioCount = 1 THEN Len(queue) ELSE out

(* Mutant: SendProc gives up at once.                                       *)
MutAfterPost(t, foundEmpty) ==
  IF by[t] = "SendPacket" THEN "release" ELSE "idle"

(* Where SendPost's caller goes on: SendPacket releases the session;        *)
(* SendProc tries again when the queue was empty.                           *)
AfterPost(t, foundEmpty) ==
  CASE by[t] = "SendPacket" -> "release"
    [] by[t] = "SendProc"   -> IF foundEmpty THEN "more" ELSE "idle"
-----------------------------------------------------------------------------
(* SendPacket, from OnAccept or OnMessage: AcquireSession, SendQ.Enqueue.   *)
(* A full queue stops the process.                                          *)
SendPacket(t) ==
  /\ at[t] = "packet"
  /\ ioCount' = ioCount + 1
  /\ IF Used < Capacity
     THEN /\ queue' = Append(queue, handled)
          /\ by' = [ by EXCEPT ![t] = "SendPacket" ]
          /\ Goto(t, "post") /\ UNCHANGED stopped
     ELSE stopped' = TRUE /\ UNCHANGED << queue, by, at >>
  /\ UNCHANGED << flag, buffNum, out, received, handled, io, removed, n >>

(* SendPost: whoever sets SendFlags goes on.                                *)
TakeFlag(t) ==
  /\ at[t] = "post"
  /\ flag' = TRUE
  /\ Goto(t, IF flag THEN AfterPost(t, FALSE) ELSE "look")
  /\ UNCHANGED << ioCount, buffNum, queue, out, received, handled, io, removed, stopped, by, n >>

LeastOf(a, b) == IF a < b THEN a ELSE b

(* Mutant: the position is not moved.                                       *)
MutPeeked(k) == [ j \in 1 .. k |-> queue[out + 1] ]

(* The first k packets in SendQ, read with PeekAt and MoveInOrOutPos        *)
Peeked(k) == SubSeq(queue, out + 1, out + k)

(* ... it looks how much there is to send, and peeks at the first packets   *)
Look(t) ==
  /\ at[t] = "look"
  /\ IF Used = 0 THEN Goto(t, "nothing") /\ UNCHANGED n
                 ELSE Goto(t, "send") /\ Count(t, LeastOf(Used, MaxBuffers))
  /\ UNCHANGED << ioCount, flag, buffNum, queue, out, received, handled, io, removed, stopped, by >>

(* ... there was nothing: SendFlags is given back                           *)
NothingToSend(t) ==
  /\ at[t] = "nothing"
  /\ flag' = FALSE
  /\ Goto(t, AfterPost(t, TRUE))
  /\ UNCHANGED << ioCount, buffNum, queue, out, received, handled, io, removed, stopped, by, n >>

(* ... or the packets go to WSASend, which is pending until it completes    *)
(* unless the connection is gone: then SendFlags stays set, and IOCount is  *)
(* as before, which is not 0 while the session is in use.                   *)
Send(t) ==
  /\ at[t] = "send"
  /\ buffNum' = n[t]
  /\ IF buffNum # 0
     THEN stopped' = TRUE /\ UNCHANGED << ioCount, out, removed, sending, wire, at >>
     ELSE /\ Goto(t, AfterPost(t, FALSE)) /\ UNCHANGED stopped
          /\ \/ /\ ~ended
                /\ ioCount' = ioCount + 1
                /\ sending' = n[t]
                /\ wire' = wire \o Peeked(n[t])
                /\ UNCHANGED << out, removed >>
             \/ /\ ended
                /\ UNCHANGED << ioCount, out, removed, sending, wire >>
  /\ UNCHANGED << flag, queue, received, handled, receiving, arrived, ended, by, n >>

(* SendPacket: ReleaseSession.  OnMessage returns to RecvProc, OnAccept to  *)
(* the accept thread, which posts the first receive.                        *)
ReleaseSession(t) ==
  /\ at[t] = "release"
  /\ Release
  /\ Goto(t, IF t = Accept THEN "receive" ELSE "messages")
  /\ UNCHANGED << flag, buffNum, queue, received, handled, io, stopped, by, n >>
-----------------------------------------------------------------------------
(* RecvPost.  On a session that is gone WSARecv fails with an error that    *)
(* stops the process.                                                       *)
RecvPost(t) ==
  /\ at[t] = "receive"
  /\ IF removed
     THEN stopped' = TRUE /\ UNCHANGED << receiving, ioCount, at >>
     ELSE /\ Goto(t, "idle") /\ UNCHANGED stopped
          /\ IF ended THEN UNCHANGED << receiving, ioCount >>
                      ELSE receiving' = TRUE /\ ioCount' = ioCount + 1
  /\ UNCHANGED << flag, buffNum, queue, out, received, handled, sending, wire, arrived, ended, removed, by, n >>

(* A worker is given some bytes that the client has sent: RecvQ.MoveIn      *)
RecvDone(t) ==
  /\ t \in Workers /\ at[t] = "idle" /\ receiving
  /\ \E k \in 1 .. 2 * MaxMessages - received : received' = received + k
  /\ receiving' = FALSE
  /\ Goto(t, "messages")
  /\ UNCHANGED << ioCount, flag, buffNum, queue, out, handled, sending, wire, arrived, ended, removed, stopped, by, n >>

(* RecvProc's loop: GetPacket takes a message that is complete, OnMessage   *)
(* echoes it; otherwise the next receive is posted.                         *)
GetPacket(t) ==
  /\ at[t] = "messages"
  /\ IF received - 2 * handled >= 2
     THEN handled' = handled + 1 /\ Goto(t, "packet")
     ELSE Goto(t, "receive") /\ UNCHANGED handled
  /\ UNCHANGED << ioCount, flag, buffNum, queue, out, received, io, removed, stopped, by, n >>
-----------------------------------------------------------------------------
(* A worker is told that the pending send is complete.                      *)
SendDone(t) ==
  /\ t \in Workers /\ at[t] = "idle" /\ sending > 0
  /\ sending' = 0 /\ arrived' = arrived + sending
  /\ Goto(t, "clear")
  /\ UNCHANGED << ioCount, flag, buffNum, queue, out, received, handled, receiving, wire, ended, removed, stopped, by, n >>

(* Mutant: all there are are freed.                                         *)
MutToFree == Used

(* What ClearPacket takes out: as many packets as were sent                 *)
ToFree == buffNum

(* SendProc: ClearPacket learns how many packets were sent                  *)
ClearPacket(t) ==
  /\ at[t] = "clear"
  /\ buffNum' = 0 /\ Count(t, ToFree)
  /\ Goto(t, "free")
  /\ UNCHANGED << ioCount, flag, queue, out, received, handled, io, removed, stopped, by >>

(* ... and takes them out of SendQ and frees them, one by one               *)
FreePacket(t) ==
  /\ at[t] = "free" /\ n[t] > 0
  /\ out' = out + 1 /\ Count(t, n[t] - 1)
  /\ UNCHANGED << ioCount, flag, buffNum, queue, received, handled, io, removed, stopped, at, by >>

(* ... then SendFlags is given back                                         *)
GiveFlag(t) ==
  /\ at[t] = "free" /\ n[t] = 0
  /\ flag' = FALSE
  /\ Goto(t, "more")
  /\ UNCHANGED << ioCount, buffNum, queue, out, received, handled, io, removed, stopped, by, n >>

(* ... and while the queue is not empty SendPost is called again.           *)
SendMore(t) ==
  /\ at[t] = "more"
  /\ by' = [ by EXCEPT ![t] = "SendProc" ]
  /\ Goto(t, IF Used > 0 THEN "post" ELSE "idle")
  /\ UNCHANGED << ioCount, flag, buffNum, queue, out, received, handled, io, removed, stopped, n >>
-----------------------------------------------------------------------------
(* The client resets the connection.  What is pending completes without a   *)
(* byte, and WorkerThread ignores that.                                     *)
Reset ==
  /\ ~ended /\ ended' = TRUE
  /\ receiving' = FALSE /\ sending' = 0
  /\ UNCHANGED << ioCount, flag, buffNum, queue, out, received, handled, wire, arrived, removed, stopped, at, by, n >>

Step(t) ==
  \/ SendPacket(t) \/ TakeFlag(t) \/ Look(t) \/ NothingToSend(t) \/ Send(t) \/ ReleaseSession(t)
  \/ RecvPost(t) \/ RecvDone(t) \/ GetPacket(t)
  \/ SendDone(t) \/ ClearPacket(t) \/ FreePacket(t) \/ GiveFlag(t) \/ SendMore(t)

Next == ~stopped /\ (Reset \/ \E t \in Threads : Step(t))

Spec == Init /\ [][Next]_vars
-----------------------------------------------------------------------------
(* The login packet, then the echo of every message in order, and nothing   *)
(* twice: what reaches the socket, whichever threads posted it.             *)
EchoInOrder == \A k \in 1 .. Len(wire) : wire[k] = k - 1

(* SendProc frees a packet only when the send it was part of is complete:   *)
(* WSASend reads from the packet itself.                                    *)
SentBeforeFreed == removed \/ out <= arrived

(* When no thread has anything left to do, no packet waits in SendQ while   *)
(* nobody is sending: the last thread to look has seen the last packet.     *)
NothingStranded ==
  (\A t \in Threads : at[t] = "idle") /\ sending = 0 /\ ~ended => Used = 0
==============================================================================
