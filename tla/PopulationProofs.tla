--------------------------- MODULE PopulationProofs ---------------------------
(***************************************************************************)
(* LanSession for any number of worker threads, any capacity of SendQ, any *)
(* number of buffers in one WSASend and any number of messages: the echo   *)
(* is sent in order, freed after it was sent, and none is left behind.     *)
(***************************************************************************)
EXTENDS Population, SequenceTheorems, FiniteSetTheorems, TLAPS

LanAssumption ==
  /\ Accept \notin Workers
  /\ MaxBuffers \in Nat \ {0} /\ MaxMessages \in Nat

Inside   == {"post", "look", "nothing", "send"}     \* of SendPost
Sending  == {"look", "nothing", "send", "clear", "free"}
Places   == Inside \cup Sending \cup {"packet", "release", "messages", "receive", "more", "idle"}

TypeInv ==
  /\ ioCount \in Int /\ flag \in BOOLEAN /\ buffNum \in Nat
  /\ queue \in Seq(Nat) /\ out \in Nat
  /\ received \in Nat /\ handled \in Nat
  /\ receiving \in BOOLEAN /\ sending \in Nat /\ wire \in Seq(Nat) /\ arrived \in Nat
  /\ ended \in BOOLEAN /\ removed \in BOOLEAN /\ stopped \in BOOLEAN
  /\ at \in [ Threads -> Places ]
  /\ by \in [ Threads -> {"SendPacket", "SendProc"} ]
  /\ n \in [ Threads -> Nat ]

(* The thread that has a receive's bytes in hand. *)
Handles(t) ==
  \/ at[t] \in {"packet", "release", "messages", "receive"}
  \/ at[t] \in Inside /\ by[t] = "SendPacket"

OneHandler ==
  /\ \A t, u \in Threads : Handles(t) /\ Handles(u) => t = u
  /\ receiving => \A t \in Threads : ~ Handles(t)

(* The thread that has set SendFlags, unless a send is pending. *)
OneSender ==
  /\ \A t, u \in Threads : at[t] \in Sending /\ at[u] \in Sending => t = u
  /\ \A t \in Threads : at[t] \in Sending => flag /\ sending = 0
  /\ sending > 0 => flag

(* The packets in the order in which they were queued. *)
Numbered ==
  /\ \A k \in 1 .. Len(queue) : queue[k] = k - 1
  /\ \A t \in Threads : at[t] = "packet" => Len(queue) = handled
  /\ (\A t \in Threads : at[t] # "packet") => Len(queue) = handled + 1

Sent ==
  /\ \A k \in 1 .. Len(wire) : wire[k] = k - 1
  /\ Len(wire) <= Len(queue) /\ arrived + sending <= Len(wire)
  /\ ~ ended => Len(wire) = arrived + sending

(* What has been taken out of SendQ has been sent. *)
Freed ==
  ~ removed =>
    /\ out <= arrived
    /\ sending > 0 => out = arrived /\ buffNum = sending
    /\ ~ flag => out = arrived
    /\ \A t \in Threads :
         /\ at[t] \in {"look", "nothing", "send"} => out = arrived
         /\ at[t] = "send" => n[t] > 0 /\ out + n[t] <= Len(queue)
         /\ at[t] = "nothing" /\ by[t] = "SendPacket" => out = Len(queue)
         /\ at[t] = "clear" => out + buffNum = arrived
         /\ at[t] = "free" => out + n[t] = arrived

(* No worker is busy with the session, and none is going to be. *)
Quiet == ~ receiving /\ sending = 0 /\ \A w \in Workers : at[w] = "idle"

(* The accept thread is alone until it has given the login packet to       *)
(* WSASend; that and the receive it posts keep the session in use.         *)
Started ==
  /\ by[Accept] = "SendPacket"
  /\ at[Accept] \in {"packet", "post", "look", "send", "release", "receive", "idle"}
  /\ at[Accept] \in {"packet", "post", "look", "send"} =>
       /\ Quiet /\ out = 0
       /\ Len(queue) = IF at[Accept] = "packet" THEN 0 ELSE 1
       /\ stopped \/ ioCount = IF at[Accept] = "packet" THEN 0 ELSE 1
       /\ at[Accept] \in {"packet", "post"} => ~ flag

(* The session is in use while somebody is busy with it: it is removed only *)
(* when the login packet could not be sent.                                 *)
InUse ==
  /\ at[Accept] = "release" => ioCount >= 2 \/ (ioCount = 1 /\ ended /\ Quiet)
  /\ at[Accept] \in {"receive", "idle"} /\ ~ removed => ioCount >= 1
  /\ \A w \in Workers :
       at[w] = "release" \/ (at[w] \in Inside /\ by[w] = "SendPacket") => ioCount >= 2
  /\ removed => at[Accept] = "receive" /\ ended /\ Quiet /\ out = Len(queue)

(* Whatever waits in SendQ will be looked at. *)
LookedAt ==
  ~ ended =>
    /\ flag => sending > 0 \/ \E t \in Threads : at[t] \in Sending
    /\ ~ flag /\ out < Len(queue) => \E t \in Threads : at[t] \in {"post", "more"}

IInv ==
  /\ TypeInv /\ OneHandler /\ OneSender /\ Numbered /\ Sent /\ Freed /\ Started /\ InUse
  /\ LookedAt

-----------------------------------------------------------------------------
(* What Append adds and keeps. *)
LEMMA AppendFacts ==
  ASSUME NEW s \in Seq(Nat), NEW e \in Nat
  PROVE  /\ Append(s, e) \in Seq(Nat)
         /\ Len(Append(s, e)) = Len(s) + 1
         /\ Append(s, e)[Len(s) + 1] = e
         /\ \A k \in 1 .. Len(s) : Append(s, e)[k] = s[k]
  OBVIOUS

(* What WSASend is given follows in queue what it was given before. *)
LEMMA WireFacts ==
  ASSUME NEW q \in Seq(Nat), NEW w \in Seq(Nat), NEW k \in Nat,
         Len(w) + k <= Len(q),
         \A j \in 1 .. Len(q) : q[j] = j - 1,
         \A j \in 1 .. Len(w) : w[j] = j - 1
  PROVE  LET x == w \o SubSeq(q, Len(w) + 1, Len(w) + k)
         IN  /\ x \in Seq(Nat) /\ Len(x) = Len(w) + k
             /\ \A j \in 1 .. Len(x) : x[j] = j - 1
<1> DEFINE y == SubSeq(q, Len(w) + 1, Len(w) + k)
           x == w \o y
<1>1. y \in Seq(Nat) /\ Len(y) = k /\ \A j \in 1 .. k : y[j] = q[Len(w) + j]
  OBVIOUS
<1> HIDE DEF y
<1>2. x \in Seq(Nat) /\ Len(x) = Len(w) + k
  BY <1>1, ConcatProperties
<1>3. ASSUME NEW j \in 1 .. Len(x) PROVE x[j] = j - 1
  <2>1. CASE j <= Len(w)
    BY <1>1, <1>2, <2>1
  <2>2. CASE j > Len(w)
    <3>1. x[j] = y[j - Len(w)] /\ j - Len(w) \in 1 .. k
      BY <1>1, <1>2, <2>2
    <3>2. y[j - Len(w)] = q[j] /\ j \in 1 .. Len(q)
      BY <1>1, <1>2, <2>2, <3>1
    <3>3. QED
      BY <3>1, <3>2
  <2>3. QED
    BY <2>1, <2>2, <1>2
<1>4. QED
  BY <1>2, <1>3 DEF y

(* The invariant holds at the start. *)
LEMMA InitInv ==
  ASSUME LanAssumption, Init
  PROVE  IInv
<1>1. /\ ioCount = 0 /\ flag = FALSE /\ buffNum = 0 /\ out = 0 /\ received = 0 /\ handled = 0
      /\ queue \in Seq(Nat) /\ Len(queue) = 0 /\ wire \in Seq(Nat) /\ Len(wire) = 0
      /\ receiving = FALSE /\ sending = 0 /\ arrived = 0 /\ ended = FALSE
      /\ removed = FALSE /\ stopped = FALSE
  BY DEF Init
<1>2. /\ at \in [ Threads -> {"packet", "idle"} ]
      /\ \A t \in Threads : at[t] = "packet" <=> t = Accept
      /\ by \in [ Threads -> {"SendPacket"} ] /\ n \in [ Threads -> {0} ]
      /\ Accept \in Threads /\ Workers \subseteq Threads /\ Accept \notin Workers
  BY DEF Init, Threads, LanAssumption
<1>3. TypeInv
  <2>1. at \in [ Threads -> Places ]
    BY <1>2 DEF Places
  <2>2. by \in [ Threads -> {"SendPacket", "SendProc"} ]
    BY <1>2
  <2>3. n \in [ Threads -> Nat ]
    BY <1>2
  <2>4. /\ flag \in BOOLEAN /\ receiving \in BOOLEAN /\ ended \in BOOLEAN
        /\ removed \in BOOLEAN /\ stopped \in BOOLEAN
    BY <1>1
  <2>5. /\ ioCount \in Int /\ buffNum \in Nat /\ out \in Nat /\ received \in Nat
        /\ handled \in Nat /\ sending \in Nat /\ arrived \in Nat
    BY <1>1
  <2>6. QED
    BY <1>1, <2>1, <2>2, <2>3, <2>4, <2>5 DEF TypeInv
<1>4. OneHandler /\ OneSender
  BY <1>1, <1>2 DEF OneHandler, OneSender, Handles, Inside, Sending
<1>5. Numbered /\ Sent /\ Freed
  BY <1>1, <1>2 DEF Numbered, Sent, Freed
<1>6. Started /\ InUse
  BY <1>1, <1>2 DEF Started, InUse, Quiet, Inside
<1>7. LookedAt
  BY <1>1, <1>2 DEF LookedAt
<1>8. QED
  BY <1>3, <1>4, <1>5, <1>6, <1>7 DEF IInv

(* SendPacket keeps the invariant. *)
LEMMA SendPacketInv ==
  ASSUME LanAssumption, IInv, ~ stopped, NEW t \in Threads, SendPacket(t)
  PROVE  IInv'
<1>1. TypeInv /\ OneHandler /\ OneSender /\ Numbered /\ Sent /\ Freed /\ Started /\ InUse
     /\ LookedAt
  BY DEF IInv
<1>0. /\ queue' \in Seq(Nat) /\ queue \in Seq(Nat) /\ handled \in Nat
      /\ Used < Capacity => Len(queue') = Len(queue) + 1
      /\ Used < Capacity => queue'[Len(queue) + 1] = handled
      /\ Used < Capacity => \A k \in 1 .. Len(queue) : queue'[k] = queue[k]
      /\ ~ (Used < Capacity) => queue' = queue
  <2>1. queue \in Seq(Nat) /\ handled \in Nat
    BY <1>1 DEF TypeInv
  <2>2. CASE Used < Capacity
    <3>1. queue' = Append(queue, handled)
      BY <2>2 DEF SendPacket
    <3>2. QED
      BY <2>1, <2>2, <3>1, AppendFacts
  <2>3. CASE ~ (Used < Capacity)
    <3>1. queue' = queue
      BY <2>3 DEF SendPacket
    <3>2. QED
      BY <2>1, <2>3, <3>1
  <2>4. QED
    BY <2>2, <2>3
<1>2. TypeInv'
  <2>1. /\ ioCount' \in Int /\ buffNum' \in Nat /\ out' \in Nat
        /\ received' \in Nat /\ handled' \in Nat /\ sending' \in Nat /\ arrived' \in Nat
        /\ queue' \in Seq(Nat) /\ wire' \in Seq(Nat)
    BY <1>1, <1>0 DEF SendPacket, Goto, io, TypeInv
  <2>2. /\ flag' \in BOOLEAN /\ receiving' \in BOOLEAN /\ ended' \in BOOLEAN
        /\ removed' \in BOOLEAN /\ stopped' \in BOOLEAN
    BY <1>1, <1>0 DEF SendPacket, Goto, io, TypeInv
  <2>3. at' \in [ Threads -> Places ]
    BY <1>1, <1>0 DEF SendPacket, Goto, TypeInv, Places, Inside, Sending
  <2>4. by' \in [ Threads -> {"SendPacket", "SendProc"} ] /\ n' \in [ Threads -> Nat ]
    BY <1>1, <1>0 DEF SendPacket, Goto, TypeInv
  <2>5. QED
    BY <2>1, <2>2, <2>3, <2>4 DEF TypeInv
<1>3. OneHandler'
  <2>1. \A u \in Threads : Handles(u)' => Handles(u)
    BY <1>1, <1>0 DEF SendPacket, Goto, TypeInv, Handles, Inside
  <2>2. receiving' = receiving
    BY DEF SendPacket, Goto, io
  <2>3. QED
    BY <1>1, <1>0, <2>1, <2>2 DEF OneHandler
<1>4. OneSender'
  <2>1. \A u \in Threads : at'[u] \in Sending => at[u] \in Sending
    BY <1>1, <1>0 DEF SendPacket, Goto, TypeInv, Sending
  <2>2. flag' = flag /\ sending' = sending
    BY DEF SendPacket, io
  <2>3. QED
    BY <1>1, <2>1, <2>2 DEF OneSender
<1>5. Numbered'
  <2>1. CASE Used < Capacity
    <3>1. Len(queue) = handled /\ \A u \in Threads : u # t => at[u] # "packet"
      BY <1>1, <1>0 DEF SendPacket, Numbered, OneHandler, Handles
    <3>2. handled' = handled /\ \A u \in Threads : at'[u] # "packet"
      BY <1>1, <1>0, <2>1, <3>1 DEF SendPacket, Goto, TypeInv
    <3>3. QED
      BY <1>1, <1>0, <2>1, <3>1, <3>2 DEF Numbered, TypeInv
  <2>2. CASE ~ (Used < Capacity)
    BY <1>1, <1>0, <2>2 DEF SendPacket, Numbered
  <2>3. QED
    BY <2>1, <2>2
<1>6. Sent'
  BY <1>1, <1>0 DEF SendPacket, Goto, io, TypeInv, Places, Inside, Sending, OneSender, Sent,
     Freed, Numbered
<1>7. Freed'
  BY <1>1, <1>0 DEF SendPacket, Goto, io, TypeInv, Places, Inside, Sending, OneSender, Sent,
     Freed, Numbered, OneHandler, Handles
<1>8. Started'
  <2>1. CASE t = Accept
    BY <1>1, <1>0, <2>1 DEF SendPacket, Goto, io, TypeInv, Places, Inside, Sending,
       OneHandler, OneSender, Started, Quiet, Handles, Threads, LanAssumption
  <2>2. CASE t \in Workers
    BY <1>1, <1>0, <2>2 DEF SendPacket, Goto, io, TypeInv, Places, Inside, Sending,
       OneHandler, OneSender, Started, Quiet, Handles, Threads, LanAssumption
  <2>3. QED
    BY <1>1, <1>0, <2>1, <2>2 DEF TypeInv, Places, Inside, Sending, Threads, SendPacket
<1>9. InUse'
  <2>1. CASE t = Accept
    BY <1>1, <1>0, <2>1 DEF SendPacket, Goto, io, TypeInv, Places, Inside, Sending,
       OneHandler, OneSender, Started, InUse, Quiet, Handles, Threads, LanAssumption
  <2>2. CASE t \in Workers
    BY <1>1, <1>0, <2>2 DEF SendPacket, Goto, io, TypeInv, Places, Inside, Sending,
       OneHandler, OneSender, Started, InUse, Quiet, Handles, Threads, LanAssumption
  <2>3. QED
    BY <1>1, <1>0, <2>1, <2>2 DEF TypeInv, Places, Inside, Sending, Threads, SendPacket
<1>10. LookedAt'
  BY <1>1, <1>0 DEF SendPacket, Goto, io, TypeInv, Places, Inside, Sending, OneSender,
     LookedAt, Freed, Sent, InUse
<1>11. QED
  BY <1>2, <1>3, <1>4, <1>5, <1>6, <1>7, <1>8, <1>9, <1>10 DEF IInv

(* TakeFlag keeps the invariant. *)
LEMMA TakeFlagInv ==
  ASSUME LanAssumption, IInv, ~ stopped, NEW t \in Threads, TakeFlag(t)
  PROVE  IInv'
<1>1. TypeInv /\ OneHandler /\ OneSender /\ Numbered /\ Sent /\ Freed /\ Started /\ InUse
     /\ LookedAt
  BY DEF IInv
<1>2. TypeInv'
  BY <1>1 DEF TakeFlag, Goto, AfterPost, io, TypeInv, Places, Inside, Sending
<1>3. OneHandler'
  BY <1>1 DEF TakeFlag, Goto, AfterPost, io, TypeInv, Places, Inside, Sending, OneHandler,
     Handles
<1>4. OneSender'
  BY <1>1 DEF TakeFlag, Goto, AfterPost, io, TypeInv, Places, Inside, Sending, OneSender
<1>5. Numbered'
  BY <1>1 DEF TakeFlag, Goto, AfterPost, io, TypeInv, Places, Inside, Sending, OneHandler,
     Numbered, Handles
<1>6. Sent'
  BY <1>1 DEF TakeFlag, Goto, AfterPost, io, TypeInv, Places, Inside, Sending, OneSender,
     Sent, Freed, Numbered
<1>7. Freed'
  BY <1>1 DEF TakeFlag, Goto, AfterPost, io, TypeInv, Places, Inside, Sending, OneSender,
     Sent, Freed, Numbered, OneHandler, Handles
<1>8. Started'
  BY <1>1 DEF TakeFlag, Goto, AfterPost, io, TypeInv, Places, Inside, Sending, OneHandler,
     OneSender, Started, Quiet, Handles, Threads, LanAssumption
<1>9. InUse'
  BY <1>1 DEF TakeFlag, Goto, AfterPost, io, TypeInv, Places, Inside, Sending, OneHandler,
     OneSender, Started, InUse, Quiet, Handles, Threads, LanAssumption
<1>10. LookedAt'
  BY <1>1 DEF TakeFlag, Goto, AfterPost, io, TypeInv, Places, Inside, Sending, OneSender,
     LookedAt, Freed, Sent, InUse
<1>11. QED
  BY <1>2, <1>3, <1>4, <1>5, <1>6, <1>7, <1>8, <1>9, <1>10 DEF IInv

(* Look keeps the invariant. *)
LEMMA LookInv ==
  ASSUME LanAssumption, IInv, ~ stopped, NEW t \in Threads, Look(t)
  PROVE  IInv'
<1>1. TypeInv /\ OneHandler /\ OneSender /\ Numbered /\ Sent /\ Freed /\ Started /\ InUse
     /\ LookedAt
  BY DEF IInv
<1>a. /\ Used \in Nat /\ Used = Len(queue) - out /\ Len(queue) \in Nat /\ MaxBuffers \in Nat \ {0}
      /\ LeastOf(Used, MaxBuffers) \in Nat /\ LeastOf(Used, MaxBuffers) <= Used
      /\ Used # 0 => LeastOf(Used, MaxBuffers) > 0
  <2>1. ~ removed
    BY <1>1 DEF Look, InUse, Quiet, Threads
  <2>2. Used \in Nat /\ Used = Len(queue) - out /\ Len(queue) \in Nat
    BY <1>1, <2>1 DEF Used, Freed, Sent, TypeInv
  <2>3. QED
    BY <2>2 DEF LeastOf, LanAssumption
<1>0. PICK k \in Nat :
        /\ Used # 0 => k > 0 /\ out + k <= Len(queue)
        /\ Used # 0 => n' = [ n EXCEPT ![t] = k ]
        /\ Used = 0 => n' = n
        /\ Used = 0 => out = Len(queue)
  <2>1. CASE Used = 0
    <3>1. n' = n /\ out = Len(queue)
      BY <1>1, <1>a, <2>1 DEF Look, TypeInv
    <3>2. QED
      BY <2>1, <3>1
  <2>2. CASE Used # 0
    <3>1. n' = [ n EXCEPT ![t] = LeastOf(Used, MaxBuffers) ]
      BY <2>2 DEF Look, Count
    <3>2. out + LeastOf(Used, MaxBuffers) <= Len(queue)
      BY <1>1, <1>a DEF TypeInv
    <3>3. QED
      BY <1>a, <2>2, <3>1, <3>2
  <2>3. QED
    BY <2>1, <2>2
<1>2. TypeInv'
  <2>1. CASE Used = 0
    BY <1>1, <1>0, <2>1 DEF Look, Goto, io, TypeInv, Places, Inside, Sending
  <2>2. CASE Used # 0
    BY <1>1, <1>0, <2>2 DEF Look, Goto, io, TypeInv, Places, Inside, Sending
  <2>3. QED
    BY <1>1, <1>0, <2>1, <2>2 DEF TypeInv, Places, Inside, Sending, Threads, Look
<1>3. OneHandler'
  <2>1. CASE Used = 0
    BY <1>1, <1>0, <2>1 DEF Look, Goto, io, TypeInv, Places, Inside, Sending, OneHandler,
       Handles
  <2>2. CASE Used # 0
    BY <1>1, <1>0, <2>2 DEF Look, Goto, io, TypeInv, Places, Inside, Sending, OneHandler,
       Handles
  <2>3. QED
    BY <1>1, <1>0, <2>1, <2>2 DEF TypeInv, Places, Inside, Sending, Threads, Look
<1>4. OneSender'
  <2>1. \A u \in Threads : at'[u] \in Sending => at[u] \in Sending
    BY <1>1, <1>0 DEF Look, Goto, TypeInv, Sending
  <2>2. flag' = flag /\ sending' = sending
    BY DEF Look, io
  <2>3. QED
    BY <1>1, <2>1, <2>2 DEF OneSender
<1>5. Numbered'
  BY <1>1, <1>0 DEF Look, Goto, io, TypeInv, Places, Inside, Sending, OneHandler, Numbered,
     Handles
<1>6. Sent'
  BY <1>1, <1>0 DEF Look, Goto, io, TypeInv, Places, Inside, Sending, OneSender, Sent, Freed,
     Numbered
<1>7. Freed'
  <2>1. CASE Used = 0
    BY <1>1, <1>0, <2>1 DEF Look, Goto, io, TypeInv, Places, Inside, Sending, OneSender,
       Sent, Freed, Numbered, OneHandler, Handles
  <2>2. CASE Used # 0
    BY <1>1, <1>0, <2>2 DEF Look, Goto, io, TypeInv, Places, Inside, Sending, OneSender,
       Sent, Freed, Numbered, OneHandler, Handles
  <2>3. QED
    BY <1>1, <1>0, <2>1, <2>2 DEF TypeInv, Places, Inside, Sending, Threads, Look
<1>8. Started'
  <2>1. CASE t = Accept /\ Used = 0
    BY <1>1, <1>0, <2>1 DEF Look, Goto, io, TypeInv, Places, Inside, Sending, OneHandler,
       OneSender, Started, Quiet, Handles, Threads, LanAssumption
  <2>2. CASE t = Accept /\ Used # 0
    BY <1>1, <1>0, <2>2 DEF Look, Goto, io, TypeInv, Places, Inside, Sending, OneHandler,
       OneSender, Started, Quiet, Handles, Threads, LanAssumption
  <2>3. CASE t \in Workers /\ Used = 0
    BY <1>1, <1>0, <2>3 DEF Look, Goto, io, TypeInv, Places, Inside, Sending, OneHandler,
       OneSender, Started, Quiet, Handles, Threads, LanAssumption
  <2>4. CASE t \in Workers /\ Used # 0
    BY <1>1, <1>0, <2>4 DEF Look, Goto, io, TypeInv, Places, Inside, Sending, OneHandler,
       OneSender, Started, Quiet, Handles, Threads, LanAssumption
  <2>5. QED
    BY <1>1, <1>0, <2>1, <2>2, <2>3, <2>4 DEF TypeInv, Places, Inside, Sending, Threads, Look
<1>9. InUse'
  BY <1>1, <1>0 DEF Look, Goto, io, TypeInv, Places, Inside, Sending, OneHandler, OneSender,
     Started, InUse, Quiet, Handles, Threads, LanAssumption
<1>10. LookedAt'
  BY <1>1, <1>0 DEF Look, Goto, io, TypeInv, Places, Inside, Sending, OneSender, LookedAt,
     Freed, Sent, InUse
<1>11. QED
  BY <1>2, <1>3, <1>4, <1>5, <1>6, <1>7, <1>8, <1>9, <1>10 DEF IInv

(* NothingToSend keeps the invariant. *)
LEMMA NothingToSendInv ==
  ASSUME LanAssumption, IInv, ~ stopped, NEW t \in Threads, NothingToSend(t)
  PROVE  IInv'
<1>1. TypeInv /\ OneHandler /\ OneSender /\ Numbered /\ Sent /\ Freed /\ Started /\ InUse
     /\ LookedAt
  BY DEF IInv
<1>2. TypeInv'
  BY <1>1 DEF NothingToSend, Goto, AfterPost, io, TypeInv, Places, Inside, Sending
<1>3. OneHandler'
  BY <1>1 DEF NothingToSend, Goto, AfterPost, io, TypeInv, Places, Inside, Sending,
     OneHandler, Handles
<1>4. OneSender'
  BY <1>1 DEF NothingToSend, Goto, AfterPost, io, TypeInv, Places, Inside, Sending, OneSender
<1>5. Numbered'
  BY <1>1 DEF NothingToSend, Goto, AfterPost, io, TypeInv, Places, Inside, Sending,
     OneHandler, Numbered, Handles
<1>6. Sent'
  BY <1>1 DEF NothingToSend, Goto, AfterPost, io, TypeInv, Places, Inside, Sending, OneSender,
     Sent, Freed, Numbered
<1>7. Freed'
  BY <1>1 DEF NothingToSend, Goto, AfterPost, io, TypeInv, Places, Inside, Sending, OneSender,
     Sent, Freed, Numbered, OneHandler, Handles
<1>8. Started'
  BY <1>1 DEF NothingToSend, Goto, AfterPost, io, TypeInv, Places, Inside, Sending,
     OneHandler, OneSender, Started, Quiet, Handles, Threads, LanAssumption
<1>9. InUse'
  BY <1>1 DEF NothingToSend, Goto, AfterPost, io, TypeInv, Places, Inside, Sending,
     OneHandler, OneSender, Started, InUse, Quiet, Handles, Threads, LanAssumption
<1>10. LookedAt'
  BY <1>1 DEF NothingToSend, Goto, AfterPost, io, TypeInv, Places, Inside, Sending, OneSender,
     LookedAt, Freed, Sent, InUse
<1>11. QED
  BY <1>2, <1>3, <1>4, <1>5, <1>6, <1>7, <1>8, <1>9, <1>10 DEF IInv

(* Send keeps the invariant. *)
LEMMA SendInv ==
  ASSUME LanAssumption, IInv, ~ stopped, NEW t \in Threads, Send(t)
  PROVE  IInv'
<1>1. TypeInv /\ OneHandler /\ OneSender /\ Numbered /\ Sent /\ Freed /\ Started /\ InUse
     /\ LookedAt
  BY DEF IInv
<1>0. /\ n[t] \in Nat /\ wire' \in Seq(Nat) /\ wire \in Seq(Nat) /\ ~ removed /\ n[t] > 0
      /\ \A k \in 1 .. Len(wire') : wire'[k] = k - 1
      /\ wire' = wire \/ (Len(wire') = Len(wire) + n[t] /\ Len(wire') <= Len(queue))
      /\ buffNum = 0 /\ ~ ended => Len(wire') = Len(wire) + n[t]
      /\ ended => wire' = wire
  <2>1. n[t] \in Nat /\ wire \in Seq(Nat) /\ queue \in Seq(Nat) /\ out \in Nat /\ arrived \in Nat
    BY <1>1 DEF TypeInv
  <2>2. ~ removed
    BY <1>1 DEF Send, InUse, Quiet, Threads
  <2>3. CASE buffNum = 0 /\ ~ ended
    <3>1. wire' = wire \o SubSeq(queue, out + 1, out + n[t])
      BY <2>3 DEF Send, Peeked
    <3>2. out = Len(wire) /\ Len(wire) + n[t] <= Len(queue) /\ n[t] > 0
      BY <1>1, <2>1, <2>2, <2>3 DEF Send, Freed, Sent, OneSender, Sending, TypeInv
    <3>3. wire' = wire \o SubSeq(queue, Len(wire) + 1, Len(wire) + n[t])
      BY <3>1, <3>2
    <3>4. /\ wire' \in Seq(Nat) /\ Len(wire') = Len(wire) + n[t]
          /\ \A k \in 1 .. Len(wire') : wire'[k] = k - 1
      BY <1>1, <2>1, <3>2, <3>3, WireFacts DEF Numbered, Sent
    <3>5. QED
      BY <2>1, <2>2, <2>3, <3>2, <3>4
  <2>4. CASE ~ (buffNum = 0 /\ ~ ended)
    <3>1. wire' = wire /\ n[t] > 0
      BY <1>1, <2>4, <2>2 DEF Send, Freed
    <3>2. QED
      BY <1>1, <2>1, <2>2, <2>4, <3>1 DEF Sent
  <2>5. QED
    BY <2>3, <2>4
<1>2. TypeInv'
  <2>1. /\ ioCount' \in Int /\ buffNum' \in Nat /\ out' \in Nat
        /\ received' \in Nat /\ handled' \in Nat /\ sending' \in Nat /\ arrived' \in Nat
        /\ queue' \in Seq(Nat) /\ wire' \in Seq(Nat)
    BY <1>1, <1>0 DEF Send, Goto, AfterPost, io, TypeInv
  <2>2. /\ flag' \in BOOLEAN /\ receiving' \in BOOLEAN /\ ended' \in BOOLEAN
        /\ removed' \in BOOLEAN /\ stopped' \in BOOLEAN
    BY <1>1, <1>0 DEF Send, Goto, AfterPost, io, TypeInv
  <2>3. at' \in [ Threads -> Places ]
    BY <1>1, <1>0 DEF Send, Goto, AfterPost, TypeInv, Places, Inside, Sending
  <2>4. by' \in [ Threads -> {"SendPacket", "SendProc"} ] /\ n' \in [ Threads -> Nat ]
    BY <1>1, <1>0 DEF Send, Goto, AfterPost, TypeInv
  <2>5. QED
    BY <2>1, <2>2, <2>3, <2>4 DEF TypeInv
<1>3. OneHandler'
  <2>1. \A u \in Threads : Handles(u)' => Handles(u)
    BY <1>1, <1>0 DEF Send, Goto, AfterPost, TypeInv, Handles, Inside
  <2>2. receiving' = receiving
    BY DEF Send, Goto, AfterPost, io
  <2>3. QED
    BY <1>1, <1>0, <2>1, <2>2 DEF OneHandler
<1>4. OneSender'
  <2>1. CASE buffNum # 0
    BY <1>1, <2>1 DEF Send, OneSender
  <2>2. CASE buffNum = 0
    <3>1. \A u \in Threads : at'[u] \in Sending => at[u] \in Sending /\ u # t
      BY <1>1, <2>2 DEF Send, Goto, AfterPost, TypeInv, Sending
    <3>2. at[t] \in Sending /\ flag' = flag
      BY DEF Send, Sending
    <3>3. flag /\ \A u \in Threads : at'[u] \notin Sending
      BY <1>1, <3>1, <3>2 DEF OneSender
    <3>4. QED
      BY <3>2, <3>3 DEF OneSender
  <2>3. QED
    BY <2>1, <2>2
<1>5. Numbered'
  BY <1>1, <1>0 DEF Send, Goto, AfterPost, io, TypeInv, Places, Inside, Sending, OneHandler,
     Numbered, Handles
<1>6. Sent'
  <2>1. CASE buffNum # 0
    BY <1>1, <1>0, <2>1 DEF Send, Goto, AfterPost, io, TypeInv, Places, Inside, Sending,
       OneSender, Sent, Freed, Numbered
  <2>2. CASE buffNum = 0 /\ ~ ended
    BY <1>1, <1>0, <2>2 DEF Send, Goto, AfterPost, io, TypeInv, Places, Inside, Sending,
       OneSender, Sent, Freed, Numbered
  <2>3. CASE buffNum = 0 /\ ended
    BY <1>1, <1>0, <2>3 DEF Send, Goto, AfterPost, io, TypeInv, Places, Inside, Sending,
       OneSender, Sent, Freed, Numbered
  <2>4. QED
    BY <1>1, <1>0, <2>1, <2>2, <2>3 DEF TypeInv, Places, Inside, Sending, Threads, Send
<1>7. Freed'
  <2>1. CASE buffNum # 0
    BY <1>1, <1>0, <2>1 DEF Send, Goto, AfterPost, io, TypeInv, Places, Inside, Sending,
       OneSender, Sent, Freed, Numbered, OneHandler, Handles
  <2>2. CASE buffNum = 0 /\ ~ ended
    BY <1>1, <1>0, <2>2 DEF Send, Goto, AfterPost, io, TypeInv, Places, Inside, Sending,
       OneSender, Sent, Freed, Numbered, OneHandler, Handles
  <2>3. CASE buffNum = 0 /\ ended
    BY <1>1, <1>0, <2>3 DEF Send, Goto, AfterPost, io, TypeInv, Places, Inside, Sending,
       OneSender, Sent, Freed, Numbered, OneHandler, Handles
  <2>4. QED
    BY <1>1, <1>0, <2>1, <2>2, <2>3 DEF TypeInv, Places, Inside, Sending, Threads, Send
<1>8. Started'
  <2>1. CASE t = Accept
    BY <1>1, <1>0, <2>1 DEF Send, Goto, AfterPost, io, TypeInv, Places, Inside, Sending,
       OneHandler, OneSender, Started, Quiet, Handles, Threads, LanAssumption
  <2>2. CASE t \in Workers
    BY <1>1, <1>0, <2>2 DEF Send, Goto, AfterPost, io, TypeInv, Places, Inside, Sending,
       OneHandler, OneSender, Started, Quiet, Handles, Threads, LanAssumption
  <2>3. QED
    BY <1>1, <1>0, <2>1, <2>2 DEF TypeInv, Places, Inside, Sending, Threads, Send
<1>9. InUse'
  <2>1. CASE buffNum # 0
    BY <1>1, <1>0, <2>1 DEF Send, io, InUse, Quiet, Inside
  <2>2. CASE buffNum = 0 /\ ended
    <3>1. CASE t = Accept
      BY <1>1, <1>0, <2>2, <3>1 DEF Send, io, Goto, AfterPost, TypeInv, Started, InUse,
         Quiet, Inside, Threads, LanAssumption
    <3>2. CASE t \in Workers
      BY <1>1, <1>0, <2>2, <3>2 DEF Send, io, Goto, AfterPost, TypeInv, Started, InUse,
         Quiet, Inside, Threads, LanAssumption
    <3>3. QED
      BY <3>1, <3>2 DEF Threads
  <2>3. CASE buffNum = 0 /\ ~ ended
    <3>1. ioCount \in Int /\ ioCount' = ioCount + 1 /\ ~ removed' /\ by' = by /\ at[t] = "send"
      BY <1>1, <1>0, <2>3 DEF Send, TypeInv
    <3>2. \A u \in Threads : at'[u] = IF u = t THEN AfterPost(t, FALSE) ELSE at[u]
      BY <1>1, <1>0, <2>3 DEF Send, Goto, TypeInv
    <3>3. AfterPost(t, FALSE) = IF by[t] = "SendPacket" THEN "release" ELSE "idle"
      BY <1>1 DEF AfterPost, TypeInv
    <3>4. Accept \in Threads /\ Workers \subseteq Threads /\ Accept \notin Workers
      BY DEF Threads, LanAssumption
    <3>5. CASE t = Accept
      <4>1. ioCount = 1 /\ at'[Accept] = "release" /\ \A w \in Workers : at'[w] = "idle"
        <5>1. ioCount = 1 /\ by[Accept] = "SendPacket" /\ \A w \in Workers : at[w] = "idle"
          BY <1>1, <3>1, <3>5 DEF Started, Quiet
        <5>2. \A w \in Workers : at'[w] = "idle"
          BY <3>2, <3>4, <3>5, <5>1
        <5>3. at'[Accept] = AfterPost(t, FALSE)
          BY <3>2, <3>4, <3>5
        <5>4. AfterPost(t, FALSE) = "release"
          BY <3>3, <3>5, <5>1
        <5>5. QED
          BY <3>1, <5>1, <5>2, <5>3, <5>4
      <4>2. QED
        BY <3>1, <3>4, <4>1 DEF InUse, Inside
    <3>6. CASE t # Accept
      <4>1. at'[Accept] = at[Accept] /\ t \in Workers
        BY <3>2, <3>4, <3>6 DEF Threads
      <4>2. at[Accept] = "release" => ioCount' >= 2
        BY <1>1, <1>0, <3>1, <4>1 DEF InUse, Quiet
      <4>3. at[Accept] \in {"receive", "idle"} => ioCount' >= 1
        BY <1>1, <1>0, <3>1 DEF InUse
      <4>4. ASSUME NEW w \in Workers,
                   at'[w] = "release" \/ (at'[w] \in Inside /\ by'[w] = "SendPacket")
            PROVE  ioCount' >= 2
        <5>1. w \in Threads
          BY <3>4
        <5>2. at[w] = "release" \/ (at[w] \in Inside /\ by[w] = "SendPacket")
          BY <3>1, <3>2, <3>3, <4>4, <5>1 DEF Inside
        <5>3. QED
          BY <1>1, <3>1, <5>2 DEF InUse
      <4>5. QED
        BY <3>1, <4>1, <4>2, <4>3, <4>4 DEF InUse
    <3>7. QED
      BY <3>5, <3>6
  <2>4. QED
    BY <1>0, <1>1, <2>1, <2>2, <2>3 DEF TypeInv
<1>10. LookedAt'
  <2>1. CASE buffNum # 0
    BY <1>1, <1>0, <2>1 DEF Send, Goto, AfterPost, io, TypeInv, Places, Inside, Sending,
       OneSender, LookedAt, Freed, Sent, InUse
  <2>2. CASE buffNum = 0 /\ ~ ended
    BY <1>1, <1>0, <2>2 DEF Send, Goto, AfterPost, io, TypeInv, Places, Inside, Sending,
       OneSender, LookedAt, Freed, Sent, InUse
  <2>3. CASE buffNum = 0 /\ ended
    BY <1>1, <1>0, <2>3 DEF Send, Goto, AfterPost, io, TypeInv, Places, Inside, Sending,
       OneSender, LookedAt, Freed, Sent, InUse
  <2>4. QED
    BY <1>1, <1>0, <2>1, <2>2, <2>3 DEF TypeInv, Places, Inside, Sending, Threads, Send
<1>11. QED
  BY <1>2, <1>3, <1>4, <1>5, <1>6, <1>7, <1>8, <1>9, <1>10 DEF IInv

(* ReleaseSession keeps the invariant. *)
LEMMA ReleaseSessionInv ==
  ASSUME LanAssumption, IInv, ~ stopped, NEW t \in Threads, ReleaseSession(t)
  PROVE  IInv'
<1>1. TypeInv /\ OneHandler /\ OneSender /\ Numbered /\ Sent /\ Freed /\ Started /\ InUse
     /\ LookedAt
  BY DEF IInv
<1>2. TypeInv'
  BY <1>1 DEF ReleaseSession, Goto, Release, io, TypeInv, Places, Inside, Sending
<1>3. OneHandler'
  BY <1>1 DEF ReleaseSession, Goto, Release, io, TypeInv, Places, Inside, Sending, OneHandler,
     Handles
<1>4. OneSender'
  BY <1>1 DEF ReleaseSession, Goto, Release, io, TypeInv, Places, Inside, Sending, OneSender
<1>5. Numbered'
  BY <1>1 DEF ReleaseSession, Goto, Release, io, TypeInv, Places, Inside, Sending, OneHandler,
     Numbered, Handles
<1>6. Sent'
  BY <1>1 DEF ReleaseSession, Goto, Release, io, TypeInv, Places, Inside, Sending, OneSender,
     Sent, Freed, Numbered
<1>7. Freed'
  <2>1. CASE ioCount = 1
    BY <1>1, <2>1 DEF ReleaseSession, Goto, Release, io, TypeInv, Places, Inside, Sending,
       OneSender, Sent, Freed, Numbered, OneHandler, Handles
  <2>2. CASE ioCount # 1
    BY <1>1, <2>2 DEF ReleaseSession, Goto, Release, io, TypeInv, Places, Inside, Sending,
       OneSender, Sent, Freed, Numbered, OneHandler, Handles
  <2>3. QED
    BY <1>1, <2>1, <2>2 DEF TypeInv, Places, Inside, Sending, Threads, ReleaseSession
<1>8. Started'
  BY <1>1 DEF ReleaseSession, Goto, Release, io, TypeInv, Places, Inside, Sending, OneHandler,
     OneSender, Started, Quiet, Handles, Threads, LanAssumption
<1>9. InUse'
  <2>1. CASE t = Accept
    BY <1>1, <2>1 DEF ReleaseSession, Goto, Release, io, TypeInv, Places, Inside, Sending,
       OneHandler, OneSender, Started, InUse, Quiet, Handles, Threads, LanAssumption
  <2>2. CASE t \in Workers
    BY <1>1, <2>2 DEF ReleaseSession, Goto, Release, io, TypeInv, Places, Inside, Sending,
       OneHandler, OneSender, Started, InUse, Quiet, Handles, Threads, LanAssumption
  <2>3. QED
    BY <1>1, <2>1, <2>2 DEF TypeInv, Places, Inside, Sending, Threads, ReleaseSession
<1>10. LookedAt'
  BY <1>1 DEF ReleaseSession, Goto, Release, io, TypeInv, Places, Inside, Sending, OneSender,
     LookedAt, Freed, Sent, InUse
<1>11. QED
  BY <1>2, <1>3, <1>4, <1>5, <1>6, <1>7, <1>8, <1>9, <1>10 DEF IInv

(* RecvPost keeps the invariant. *)
LEMMA RecvPostInv ==
  ASSUME LanAssumption, IInv, ~ stopped, NEW t \in Threads, RecvPost(t)
  PROVE  IInv'
<1>1. TypeInv /\ OneHandler /\ OneSender /\ Numbered /\ Sent /\ Freed /\ Started /\ InUse
     /\ LookedAt
  BY DEF IInv
<1>2. TypeInv'
  <2>1. /\ ioCount' \in Int /\ buffNum' \in Nat /\ out' \in Nat
        /\ received' \in Nat /\ handled' \in Nat /\ sending' \in Nat /\ arrived' \in Nat
        /\ queue' \in Seq(Nat) /\ wire' \in Seq(Nat)
    BY <1>1 DEF RecvPost, Goto, io, TypeInv
  <2>2. /\ flag' \in BOOLEAN /\ receiving' \in BOOLEAN /\ ended' \in BOOLEAN
        /\ removed' \in BOOLEAN /\ stopped' \in BOOLEAN
    BY <1>1 DEF RecvPost, Goto, io, TypeInv
  <2>3. at' \in [ Threads -> Places ]
    BY <1>1 DEF RecvPost, Goto, TypeInv, Places, Inside, Sending
  <2>4. by' \in [ Threads -> {"SendPacket", "SendProc"} ] /\ n' \in [ Threads -> Nat ]
    BY <1>1 DEF RecvPost, Goto, TypeInv
  <2>5. QED
    BY <2>1, <2>2, <2>3, <2>4 DEF TypeInv
<1>3. OneHandler'
  <2>1. CASE removed
    BY <1>1, <2>1 DEF RecvPost, OneHandler, Handles
  <2>2. CASE ~ removed
    <3>1. \A u \in Threads : Handles(u)' => Handles(u) /\ u # t
      BY <1>1, <2>2 DEF RecvPost, Goto, TypeInv, Handles, Inside
    <3>2. Handles(t)
      BY DEF RecvPost, Handles
    <3>3. \A u \in Threads : ~ Handles(u)'
      BY <1>1, <3>1, <3>2 DEF OneHandler
    <3>4. QED
      BY <3>3 DEF OneHandler
  <2>3. QED
    BY <2>1, <2>2
<1>4. OneSender'
  BY <1>1 DEF RecvPost, Goto, io, TypeInv, Places, Inside, Sending, OneSender
<1>5. Numbered'
  BY <1>1 DEF RecvPost, Goto, io, TypeInv, Places, Inside, Sending, OneHandler, Numbered,
     Handles
<1>6. Sent'
  BY <1>1 DEF RecvPost, Goto, io, TypeInv, Places, Inside, Sending, OneSender, Sent, Freed,
     Numbered
<1>7. Freed'
  BY <1>1 DEF RecvPost, Goto, io, TypeInv, Places, Inside, Sending, OneSender, Sent, Freed,
     Numbered, OneHandler, Handles
<1>8. Started'
  BY <1>1 DEF RecvPost, Goto, io, TypeInv, Places, Inside, Sending, OneHandler, OneSender,
     Started, Quiet, Handles, Threads, LanAssumption
<1>9. InUse'
  <2>1. CASE t = Accept
    BY <1>1, <2>1 DEF RecvPost, Goto, io, TypeInv, Places, Inside, Sending, OneHandler,
       OneSender, Started, InUse, Quiet, Handles, Threads, LanAssumption
  <2>2. CASE t \in Workers
    BY <1>1, <2>2 DEF RecvPost, Goto, io, TypeInv, Places, Inside, Sending, OneHandler,
       OneSender, Started, InUse, Quiet, Handles, Threads, LanAssumption
  <2>3. QED
    BY <1>1, <2>1, <2>2 DEF TypeInv, Places, Inside, Sending, Threads, RecvPost
<1>10. LookedAt'
  BY <1>1 DEF RecvPost, Goto, io, TypeInv, Places, Inside, Sending, OneSender, LookedAt,
     Freed, Sent, InUse
<1>11. QED
  BY <1>2, <1>3, <1>4, <1>5, <1>6, <1>7, <1>8, <1>9, <1>10 DEF IInv

(* RecvDone keeps the invariant. *)
LEMMA RecvDoneInv ==
  ASSUME LanAssumption, IInv, ~ stopped, NEW t \in Threads, RecvDone(t)
  PROVE  IInv'
<1>1. TypeInv /\ OneHandler /\ OneSender /\ Numbered /\ Sent /\ Freed /\ Started /\ InUse
     /\ LookedAt
  BY DEF IInv
<1>0. received \in Nat /\ received' \in Nat
  BY <1>1 DEF RecvDone, TypeInv, LanAssumption
<1>2. TypeInv'
  BY <1>1, <1>0 DEF RecvDone, Goto, io, TypeInv, Places, Inside, Sending
<1>3. OneHandler'
  BY <1>1, <1>0 DEF RecvDone, Goto, io, TypeInv, Places, Inside, Sending, OneHandler, Handles
<1>4. OneSender'
  BY <1>1, <1>0 DEF RecvDone, Goto, io, TypeInv, Places, Inside, Sending, OneSender
<1>5. Numbered'
  BY <1>1, <1>0 DEF RecvDone, Goto, io, TypeInv, Places, Inside, Sending, OneHandler,
     Numbered, Handles
<1>6. Sent'
  BY <1>1, <1>0 DEF RecvDone, Goto, io, TypeInv, Places, Inside, Sending, OneSender, Sent,
     Freed, Numbered
<1>7. Freed'
  BY <1>1, <1>0 DEF RecvDone, Goto, io, TypeInv, Places, Inside, Sending, OneSender, Sent,
     Freed, Numbered, OneHandler, Handles
<1>8. Started'
  BY <1>1, <1>0 DEF RecvDone, Goto, io, TypeInv, Places, Inside, Sending, OneHandler,
     OneSender, Started, Quiet, Handles, Threads, LanAssumption
<1>9. InUse'
  BY <1>1, <1>0 DEF RecvDone, Goto, io, TypeInv, Places, Inside, Sending, OneHandler,
     OneSender, Started, InUse, Quiet, Handles, Threads, LanAssumption
<1>10. LookedAt'
  BY <1>1, <1>0 DEF RecvDone, Goto, io, TypeInv, Places, Inside, Sending, OneSender, LookedAt,
     Freed, Sent, InUse
<1>11. QED
  BY <1>2, <1>3, <1>4, <1>5, <1>6, <1>7, <1>8, <1>9, <1>10 DEF IInv

(* GetPacket keeps the invariant. *)
LEMMA GetPacketInv ==
  ASSUME LanAssumption, IInv, ~ stopped, NEW t \in Threads, GetPacket(t)
  PROVE  IInv'
<1>1. TypeInv /\ OneHandler /\ OneSender /\ Numbered /\ Sent /\ Freed /\ Started /\ InUse
     /\ LookedAt
  BY DEF IInv
<1>0. handled \in Nat /\ handled' \in Nat
  BY <1>1 DEF GetPacket, TypeInv
<1>2. TypeInv'
  <2>1. CASE received - 2 * handled >= 2
    BY <1>1, <1>0, <2>1 DEF GetPacket, Goto, io, TypeInv, Places, Inside, Sending
  <2>2. CASE ~ (received - 2 * handled >= 2)
    BY <1>1, <1>0, <2>2 DEF GetPacket, Goto, io, TypeInv, Places, Inside, Sending
  <2>3. QED
    BY <1>1, <1>0, <2>1, <2>2 DEF TypeInv, Places, Inside, Sending, Threads, GetPacket
<1>3. OneHandler'
  <2>1. \A u \in Threads : Handles(u)' => Handles(u)
    BY <1>1, <1>0 DEF GetPacket, Goto, TypeInv, Handles, Inside
  <2>2. receiving' = receiving
    BY DEF GetPacket, io
  <2>3. QED
    BY <1>1, <2>1, <2>2 DEF OneHandler
<1>4. OneSender'
  <2>1. \A u \in Threads : at'[u] \in Sending => at[u] \in Sending
    BY <1>1, <1>0 DEF GetPacket, Goto, TypeInv, Sending
  <2>2. flag' = flag /\ sending' = sending
    BY DEF GetPacket, io
  <2>3. QED
    BY <1>1, <2>1, <2>2 DEF OneSender
<1>5. Numbered'
  BY <1>1, <1>0 DEF GetPacket, Goto, io, TypeInv, Places, Inside, Sending, OneHandler,
     Numbered, Handles
<1>6. Sent'
  BY <1>1, <1>0 DEF GetPacket, Goto, io, TypeInv, Places, Inside, Sending, OneSender, Sent,
     Freed, Numbered
<1>7. Freed'
  BY <1>1, <1>0 DEF GetPacket, Goto, io, TypeInv, Places, Inside, Sending, OneSender, Sent,
     Freed, Numbered, OneHandler, Handles
<1>8. Started'
  BY <1>1, <1>0 DEF GetPacket, Goto, io, TypeInv, Places, Inside, Sending, OneHandler,
     OneSender, Started, Quiet, Handles, Threads, LanAssumption
<1>9. InUse'
  BY <1>1, <1>0 DEF GetPacket, Goto, io, TypeInv, Places, Inside, Sending, OneHandler,
     OneSender, Started, InUse, Quiet, Handles, Threads, LanAssumption
<1>10. LookedAt'
  BY <1>1, <1>0 DEF GetPacket, Goto, io, TypeInv, Places, Inside, Sending, OneSender,
     LookedAt, Freed, Sent, InUse
<1>11. QED
  BY <1>2, <1>3, <1>4, <1>5, <1>6, <1>7, <1>8, <1>9, <1>10 DEF IInv

(* SendDone keeps the invariant. *)
LEMMA SendDoneInv ==
  ASSUME LanAssumption, IInv, ~ stopped, NEW t \in Threads, SendDone(t)
  PROVE  IInv'
<1>1. TypeInv /\ OneHandler /\ OneSender /\ Numbered /\ Sent /\ Freed /\ Started /\ InUse
     /\ LookedAt
  BY DEF IInv
<1>2. TypeInv'
  BY <1>1 DEF SendDone, Goto, io, TypeInv, Places, Inside, Sending
<1>3. OneHandler'
  BY <1>1 DEF SendDone, Goto, io, TypeInv, Places, Inside, Sending, OneHandler, Handles
<1>4. OneSender'
  BY <1>1 DEF SendDone, Goto, io, TypeInv, Places, Inside, Sending, OneSender
<1>5. Numbered'
  BY <1>1 DEF SendDone, Goto, io, TypeInv, Places, Inside, Sending, OneHandler, Numbered,
     Handles
<1>6. Sent'
  BY <1>1 DEF SendDone, Goto, io, TypeInv, Places, Inside, Sending, OneSender, Sent, Freed,
     Numbered
<1>7. Freed'
  BY <1>1 DEF SendDone, Goto, io, TypeInv, Places, Inside, Sending, OneSender, Sent, Freed,
     Numbered, OneHandler, Handles
<1>8. Started'
  BY <1>1 DEF SendDone, Goto, io, TypeInv, Places, Inside, Sending, OneHandler, OneSender,
     Started, Quiet, Handles, Threads, LanAssumption
<1>9. InUse'
  BY <1>1 DEF SendDone, Goto, io, TypeInv, Places, Inside, Sending, OneHandler, OneSender,
     Started, InUse, Quiet, Handles, Threads, LanAssumption
<1>10. LookedAt'
  BY <1>1 DEF SendDone, Goto, io, TypeInv, Places, Inside, Sending, OneSender, LookedAt,
     Freed, Sent, InUse
<1>11. QED
  BY <1>2, <1>3, <1>4, <1>5, <1>6, <1>7, <1>8, <1>9, <1>10 DEF IInv

(* ClearPacket keeps the invariant. *)
LEMMA ClearPacketInv ==
  ASSUME LanAssumption, IInv, ~ stopped, NEW t \in Threads, ClearPacket(t)
  PROVE  IInv'
<1>1. TypeInv /\ OneHandler /\ OneSender /\ Numbered /\ Sent /\ Freed /\ Started /\ InUse
     /\ LookedAt
  BY DEF IInv
<1>2. TypeInv'
  BY <1>1 DEF ClearPacket, Goto, Count, ToFree, io, TypeInv, Places, Inside, Sending
<1>3. OneHandler'
  BY <1>1 DEF ClearPacket, Goto, Count, ToFree, io, TypeInv, Places, Inside, Sending,
     OneHandler, Handles
<1>4. OneSender'
  BY <1>1 DEF ClearPacket, Goto, Count, ToFree, io, TypeInv, Places, Inside, Sending, OneSender
<1>5. Numbered'
  BY <1>1 DEF ClearPacket, Goto, Count, ToFree, io, TypeInv, Places, Inside, Sending,
     OneHandler, Numbered, Handles
<1>6. Sent'
  BY <1>1 DEF ClearPacket, Goto, Count, ToFree, io, TypeInv, Places, Inside, Sending,
     OneSender, Sent, Freed, Numbered
<1>7. Freed'
  BY <1>1 DEF ClearPacket, Goto, Count, ToFree, io, TypeInv, Places, Inside, Sending,
     OneSender, Sent, Freed, Numbered, OneHandler, Handles
<1>8. Started'
  BY <1>1 DEF ClearPacket, Goto, Count, ToFree, io, TypeInv, Places, Inside, Sending,
     OneHandler, OneSender, Started, Quiet, Handles, Threads, LanAssumption
<1>9. InUse'
  BY <1>1 DEF ClearPacket, Goto, Count, ToFree, io, TypeInv, Places, Inside, Sending,
     OneHandler, OneSender, Started, InUse, Quiet, Handles, Threads, LanAssumption
<1>10. LookedAt'
  BY <1>1 DEF ClearPacket, Goto, Count, ToFree, io, TypeInv, Places, Inside, Sending,
     OneSender, LookedAt, Freed, Sent, InUse
<1>11. QED
  BY <1>2, <1>3, <1>4, <1>5, <1>6, <1>7, <1>8, <1>9, <1>10 DEF IInv

(* FreePacket keeps the invariant. *)
LEMMA FreePacketInv ==
  ASSUME LanAssumption, IInv, ~ stopped, NEW t \in Threads, FreePacket(t)
  PROVE  IInv'
<1>1. TypeInv /\ OneHandler /\ OneSender /\ Numbered /\ Sent /\ Freed /\ Started /\ InUse
     /\ LookedAt
  BY DEF IInv
<1>0. /\ n[t] \in Nat /\ n'[t] = n[t] - 1 /\ n[t] > 0 /\ flag /\ sending = 0
      /\ \A u \in Threads : u # t => at[u] \notin Sending
      /\ out \in Nat /\ out' = out + 1 /\ at[t] = "free" /\ arrived \in Nat
      /\ removed' = removed /\ arrived' = arrived /\ sending' = sending /\ buffNum' = buffNum
      /\ flag' = flag /\ at' = at /\ by' = by /\ queue' = queue
  BY <1>1 DEF FreePacket, Count, TypeInv, OneSender, Sending, io
<1>2. TypeInv'
  BY <1>1, <1>0 DEF FreePacket, Count, io, TypeInv, Places, Inside, Sending
<1>3. OneHandler'
  BY <1>1, <1>0 DEF FreePacket, Count, io, TypeInv, Places, Inside, Sending, OneHandler, Handles
<1>4. OneSender'
  BY <1>1, <1>0 DEF FreePacket, Count, io, TypeInv, Places, Inside, Sending, OneSender
<1>5. Numbered'
  BY <1>1, <1>0 DEF FreePacket, Count, io, TypeInv, Places, Inside, Sending, OneHandler,
     Numbered, Handles
<1>6. Sent'
  BY <1>1, <1>0 DEF FreePacket, Count, io, TypeInv, Places, Inside, Sending, OneSender, Sent,
     Freed, Numbered
<1>7. Freed'
  <2>1. ~ removed => out + n[t] = arrived
    BY <1>1, <1>0 DEF Freed
  <2>2. QED
    BY <1>0, <2>1 DEF Freed, Sending
<1>8. Started'
  BY <1>1, <1>0 DEF FreePacket, Count, io, TypeInv, Places, Inside, Sending, OneHandler,
     OneSender, Started, Quiet, Handles, Threads, LanAssumption
<1>9. InUse'
  BY <1>1, <1>0 DEF FreePacket, Count, io, TypeInv, Places, Inside, Sending, OneHandler,
     OneSender, Started, InUse, Quiet, Handles, Threads, LanAssumption
<1>10. LookedAt'
  BY <1>1, <1>0 DEF FreePacket, Count, io, TypeInv, Places, Inside, Sending, OneSender,
     LookedAt, Freed, Sent, InUse
<1>11. QED
  BY <1>2, <1>3, <1>4, <1>5, <1>6, <1>7, <1>8, <1>9, <1>10 DEF IInv

(* GiveFlag keeps the invariant. *)
LEMMA GiveFlagInv ==
  ASSUME LanAssumption, IInv, ~ stopped, NEW t \in Threads, GiveFlag(t)
  PROVE  IInv'
<1>1. TypeInv /\ OneHandler /\ OneSender /\ Numbered /\ Sent /\ Freed /\ Started /\ InUse
     /\ LookedAt
  BY DEF IInv
<1>2. TypeInv'
  BY <1>1 DEF GiveFlag, Goto, io, TypeInv, Places, Inside, Sending
<1>3. OneHandler'
  BY <1>1 DEF GiveFlag, Goto, io, TypeInv, Places, Inside, Sending, OneHandler, Handles
<1>4. OneSender'
  BY <1>1 DEF GiveFlag, Goto, io, TypeInv, Places, Inside, Sending, OneSender
<1>5. Numbered'
  BY <1>1 DEF GiveFlag, Goto, io, TypeInv, Places, Inside, Sending, OneHandler, Numbered,
     Handles
<1>6. Sent'
  BY <1>1 DEF GiveFlag, Goto, io, TypeInv, Places, Inside, Sending, OneSender, Sent, Freed,
     Numbered
<1>7. Freed'
  BY <1>1 DEF GiveFlag, Goto, io, TypeInv, Places, Inside, Sending, OneSender, Sent, Freed,
     Numbered, OneHandler, Handles
<1>8. Started'
  BY <1>1 DEF GiveFlag, Goto, io, TypeInv, Places, Inside, Sending, OneHandler, OneSender,
     Started, Quiet, Handles, Threads, LanAssumption
<1>9. InUse'
  BY <1>1 DEF GiveFlag, Goto, io, TypeInv, Places, Inside, Sending, OneHandler, OneSender,
     Started, InUse, Quiet, Handles, Threads, LanAssumption
<1>10. LookedAt'
  BY <1>1 DEF GiveFlag, Goto, io, TypeInv, Places, Inside, Sending, OneSender, LookedAt,
     Freed, Sent, InUse
<1>11. QED
  BY <1>2, <1>3, <1>4, <1>5, <1>6, <1>7, <1>8, <1>9, <1>10 DEF IInv

(* SendMore keeps the invariant. *)
LEMMA SendMoreInv ==
  ASSUME LanAssumption, IInv, ~ stopped, NEW t \in Threads, SendMore(t)
  PROVE  IInv'
<1>1. TypeInv /\ OneHandler /\ OneSender /\ Numbered /\ Sent /\ Freed /\ Started /\ InUse
     /\ LookedAt
  BY DEF IInv
<1>2. TypeInv'
  BY <1>1 DEF SendMore, Goto, Used, io, TypeInv, Places, Inside, Sending
<1>3. OneHandler'
  BY <1>1 DEF SendMore, Goto, Used, io, TypeInv, Places, Inside, Sending, OneHandler, Handles
<1>4. OneSender'
  BY <1>1 DEF SendMore, Goto, Used, io, TypeInv, Places, Inside, Sending, OneSender
<1>5. Numbered'
  BY <1>1 DEF SendMore, Goto, Used, io, TypeInv, Places, Inside, Sending, OneHandler,
     Numbered, Handles
<1>6. Sent'
  BY <1>1 DEF SendMore, Goto, Used, io, TypeInv, Places, Inside, Sending, OneSender, Sent,
     Freed, Numbered
<1>7. Freed'
  BY <1>1 DEF SendMore, Goto, Used, io, TypeInv, Places, Inside, Sending, OneSender, Sent,
     Freed, Numbered, OneHandler, Handles
<1>8. Started'
  BY <1>1 DEF SendMore, Goto, Used, io, TypeInv, Places, Inside, Sending, OneHandler,
     OneSender, Started, Quiet, Handles, Threads, LanAssumption
<1>9. InUse'
  BY <1>1 DEF SendMore, Goto, Used, io, TypeInv, Places, Inside, Sending, OneHandler,
     OneSender, Started, InUse, Quiet, Handles, Threads, LanAssumption
<1>10. LookedAt'
  BY <1>1 DEF SendMore, Goto, Used, io, TypeInv, Places, Inside, Sending, OneSender, LookedAt,
     Freed, Sent, InUse
<1>11. QED
  BY <1>2, <1>3, <1>4, <1>5, <1>6, <1>7, <1>8, <1>9, <1>10 DEF IInv

(* Reset keeps the invariant. *)
LEMMA ResetInv ==
  ASSUME LanAssumption, IInv, ~ stopped, Reset
  PROVE  IInv'
<1>1. TypeInv /\ OneHandler /\ OneSender /\ Numbered /\ Sent /\ Freed /\ Started /\ InUse
     /\ LookedAt
  BY DEF IInv
<1>2. TypeInv'
  BY <1>1 DEF Reset, TypeInv
<1>3. OneHandler'
  BY <1>1 DEF Reset, OneHandler, Handles
<1>4. OneSender'
  BY <1>1 DEF Reset, OneSender
<1>5. Numbered'
  BY <1>1 DEF Reset, Numbered
<1>6. Sent'
  BY <1>1 DEF Reset, Sent, TypeInv
<1>7. Freed'
  BY <1>1 DEF Reset, Freed
<1>8. Started'
  BY <1>1 DEF Reset, Started, Quiet
<1>9. InUse'
  BY <1>1 DEF Reset, InUse, Quiet
<1>10. LookedAt'
  BY <1>1 DEF Reset, LookedAt
<1>11. QED
  BY <1>2, <1>3, <1>4, <1>5, <1>6, <1>7, <1>8, <1>9, <1>10 DEF IInv

(* Every step keeps the invariant. *)
LEMMA NextInv == LanAssumption /\ IInv /\ [Next]_vars => IInv'
<1>1. SUFFICES ASSUME LanAssumption, IInv, [Next]_vars PROVE IInv'
  OBVIOUS
<1>2. CASE Next
  <2>1. ~ stopped
    BY <1>2 DEF Next
  <2>2. CASE Reset
    BY <1>1, <2>1, <2>2, ResetInv
  <2>3. ASSUME NEW t \in Threads, Step(t) PROVE IInv'
    BY <1>1, <2>1, <2>3, SendPacketInv, TakeFlagInv, LookInv, NothingToSendInv, SendInv,
       ReleaseSessionInv, RecvPostInv, RecvDoneInv, GetPacketInv, SendDoneInv, ClearPacketInv,
       FreePacketInv, GiveFlagInv, SendMoreInv DEF Step
  <2>4. QED
    BY <1>2, <2>2, <2>3 DEF Next
<1>3. CASE UNCHANGED vars
  BY <1>1, <1>3 DEF vars, io, IInv, TypeInv, OneHandler, Handles, OneSender, Numbered, Sent,
     Freed, Started, InUse, Quiet, LookedAt
<1>4. QED
  BY <1>1, <1>2, <1>3

(* The invariant always holds. *)
LEMMA InvAlways ==
  ASSUME LanAssumption
  PROVE  Spec => []IInv
<1>1. Init => IInv
  BY InitInv
<1>2. IInv /\ [Next]_vars => IInv'
  BY NextInv
<1>3. QED
  BY <1>1, <1>2, PTL DEF Spec

(* The echo server: with any number of workers that take each other's      *)
(* completions, the login packet and the echoes reach the socket in the     *)
(* order of the client's messages, and none twice.                          *)
THEOREM EchoesInOrder ==
  ASSUME LanAssumption
  PROVE  Spec => []EchoInOrder
<1>1. IInv => EchoInOrder
  BY DEF IInv, Sent, EchoInOrder
<1>2. QED
  BY <1>1, InvAlways, PTL

(* SendProc: a packet goes back to the pool only after the send that reads  *)
(* from it is complete, unless the session is removed.                      *)
THEOREM FreedWhenSent ==
  ASSUME LanAssumption
  PROVE  Spec => []SentBeforeFreed
<1>1. IInv => SentBeforeFreed
  BY DEF IInv, Freed, SentBeforeFreed
<1>2. QED
  BY <1>1, InvAlways, PTL

(* SendPost and SendProc: when all threads have gone back to waiting and no *)
(* send is pending, SendQ is empty: whoever gives SendFlags back looks at   *)
(* the queue once more, and whoever finds it set leaves the packet to him.  *)
THEOREM NoneIsStranded ==
  ASSUME LanAssumption
  PROVE  Spec => []NothingStranded
<1>1. IInv => NothingStranded
  <2>1. SUFFICES ASSUME IInv, \A t \in Threads : at[t] = "idle", sending = 0, ~ ended
                 PROVE  Used = 0
    BY DEF NothingStranded
  <2>2. ~ flag /\ ~ (out < Len(queue))
    BY <2>1 DEF IInv, LookedAt, Sending
  <2>3. ~ removed
    BY <2>1 DEF IInv, InUse
  <2>4. out = arrived /\ arrived + sending <= Len(wire) /\ Len(wire) <= Len(queue)
    BY <2>1, <2>2, <2>3 DEF IInv, Freed, Sent
  <2>5. QED
    BY <2>1, <2>2, <2>4 DEF Used, IInv, TypeInv
<1>2. QED
  BY <1>1, InvAlways, PTL
-----------------------------------------------------------------------------
(***************************************************************************)
(* OnlineStar, for any sockets, any room of theirs and any width of the    *)
(* screen.  Handling a message and sending one must be looked at together: *)
(* of each star the messages under way to a client are at most one         *)
(* creation, first, then moves, then at most one end (Aligned), and what   *)
(* they lead to is what the server has (Shows, Forgets).                   *)
(***************************************************************************)
Messages == [ type : 0 .. 3, id : Nat, x : Int ]

StarTypes ==
  /\ g_ID \in Nat
  /\ Star!Players \subseteq Sockets
  /\ Player_List \in [ Star!Players -> [ id : 1 .. g_ID, x : Int ] ]
  /\ inbox \in [ Sockets -> Seq(Messages) ]
  /\ outbox \in [ Sockets -> Seq(Int) ] /\ batch \in Seq(Int)
  /\ me \in [ Sockets -> [ id : Nat, x : Int ] ]
  /\ others = [ s \in Sockets |-> others[s] ]
  /\ conn \in [ Sockets -> {"none", "waiting", "aborted", "open", "closed", "reset"} ]

(* Who is on a list is a player, and a player's socket has been accepted.  *)
Connected ==
  /\ set_Delete_List \subseteq Star!Players /\ missed \subseteq Star!Players
  /\ isSet \subseteq Star!Players /\ (star = "delete" => isSet = {})
  /\ \A s \in Sockets :
       /\ s \in Star!Players <=> conn[s] \in {"open", "closed", "reset"}
       /\ conn[s] = "waiting" => me[s].id = 0 /\ DOMAIN others[s] = {}

Different ==
  \A p, q \in Star!Players : Player_List[p].id = Player_List[q].id => p = q

(* Of the messages B for a client that knows the stars K, those about the  *)
(* star j: it is created once and first, and nothing follows its end.      *)
Aligned(K, B, j) ==
  \A k \in 1 .. Len(B) : B[k].id = j =>
    /\ B[k].type \in 1 .. 3
    /\ B[k].type = 1 => j \notin DOMAIN K /\ \A l \in 1 .. k - 1 : B[l].id # j
    /\ B[k].type = 2 => \A l \in k + 1 .. Len(B) : B[l].id # j
    /\ j \in DOMAIN K \/ \E l \in 1 .. k : B[l].id = j /\ B[l].type = 1

(* When it has handled them it shows j at x, or does not show it.          *)
Shows(K, B, j, x) ==
  /\ \A k \in 1 .. Len(B) : B[k].id = j => B[k].type # 2
  /\ \/ j \in DOMAIN K /\ K[j] = x /\ \A k \in 1 .. Len(B) : B[k].id # j
     \/ \E k \in 1 .. Len(B) :
          B[k].id = j /\ B[k].x = x /\ \A l \in k + 1 .. Len(B) : B[l].id # j

Forgets(K, B, j) ==
  \/ j \notin DOMAIN K /\ \A k \in 1 .. Len(B) : B[k].id # j
  \/ \E k \in 1 .. Len(B) : B[k].id = j /\ B[k].type = 2

(* It knows its own id, or that is what it will hear first.                *)
Greeted(s) ==
  \/ /\ me[s].id = Player_List[s].id
     /\ \A k \in 1 .. Len(inbox[s]) : inbox[s][k].type # 0
  \/ /\ DOMAIN others[s] = {} /\ inbox[s] # << >>
     /\ inbox[s][1].type = 0 /\ inbox[s][1].id = Player_List[s].id
     /\ \A k \in 2 .. Len(inbox[s]) : inbox[s][k].type # 0

Strangers(s) == (1 .. g_ID) \ { Player_List[s].id }

Informed(s) ==
  /\ Greeted(s)
  /\ DOMAIN others[s] \subseteq Strangers(s)
  /\ \A k \in 1 .. Len(inbox[s]) : inbox[s][k].id \in 1 .. g_ID
  /\ \A j \in Strangers(s) : Aligned(others[s], inbox[s], j)
  /\ \A p \in Star!Players \ {s} :
       Shows(others[s], inbox[s], Player_List[p].id, Player_List[p].x)
  /\ \A j \in Strangers(s) :
       (\A p \in Star!Players : Player_List[p].id # j) => Forgets(others[s], inbox[s], j)

Hears(s) == conn[s] = "open" /\ s \notin missed

StarInv ==
  /\ StarTypes /\ Connected /\ Different
  /\ \A s \in Star!Players : Hears(s) => Informed(s)
-----------------------------------------------------------------------------
(* What a message at the end of B changes of that. *)
LEMMA AppendOther ==
  ASSUME NEW K, NEW B \in Seq(Messages), NEW m \in Messages, NEW j, m.id # j
  PROVE  /\ Aligned(K, B, j) => Aligned(K, Append(B, m), j)
         /\ \A x : Shows(K, B, j, x) => Shows(K, Append(B, m), j, x)
         /\ Forgets(K, B, j) => Forgets(K, Append(B, m), j)
<1>1. PICK w \in Nat : w = Len(B)
  BY LenProperties
<1>2. PICK A : A = Append(B, m)
  OBVIOUS
<1>3. /\ Len(A) = w + 1 /\ A[w + 1] = m
      /\ \A k \in 1 .. w : A[k] = B[k]
  BY <1>1, <1>2
<1>4. \A k \in 1 .. w + 1 : A[k].id = j => k \in 1 .. w
  BY <1>3
<1>5. Aligned(K, B, j) => Aligned(K, A, j)
  <2>1. ASSUME Aligned(K, B, j), NEW k \in 1 .. w, B[k].id = j
        PROVE  /\ B[k].type \in 1 .. 3
               /\ B[k].type = 1 => j \notin DOMAIN K /\ \A l \in 1 .. k - 1 : A[l].id # j
               /\ B[k].type = 2 => \A l \in k + 1 .. w + 1 : A[l].id # j
               /\ j \in DOMAIN K \/ \E l \in 1 .. k : A[l].id = j /\ A[l].type = 1
    BY <1>1, <1>3, <1>4, <2>1 DEF Aligned
  <2>2. QED
    BY <1>3, <1>4, <2>1 DEF Aligned
<1>6. \A x : Shows(K, B, j, x) => Shows(K, A, j, x)
  BY <1>1, <1>3, <1>4 DEF Shows
<1>7. Forgets(K, B, j) => Forgets(K, A, j)
  BY <1>1, <1>3, <1>4 DEF Forgets
<1>8. QED
  BY <1>2, <1>5, <1>6, <1>7

LEMMA AppendNews ==
  ASSUME NEW K, NEW B \in Seq(Messages), NEW m \in Messages, NEW j, m.id = j,
         NEW x, Aligned(K, B, j), Shows(K, B, j, x)
  PROVE  /\ m.type = 3 => Aligned(K, Append(B, m), j) /\ Shows(K, Append(B, m), j, m.x)
         /\ m.type = 2 => Aligned(K, Append(B, m), j) /\ Forgets(K, Append(B, m), j)
<1>1. PICK w \in Nat : w = Len(B)
  BY LenProperties
<1>2. PICK A : A = Append(B, m)
  OBVIOUS
<1>3. /\ Len(A) = w + 1 /\ A[w + 1] = m
      /\ \A k \in 1 .. w : A[k] = B[k]
  BY <1>1, <1>2
<1>4. j \in DOMAIN K \/ \E l \in 1 .. w : B[l].id = j /\ B[l].type = 1
  BY <1>1 DEF Aligned, Shows
<1>5. ASSUME m.type \in {2, 3}
      PROVE  Aligned(K, A, j)
  <2>1. SUFFICES ASSUME NEW k \in 1 .. w + 1, A[k].id = j
        PROVE  /\ A[k].type \in 1 .. 3
               /\ A[k].type = 1 => j \notin DOMAIN K /\ \A l \in 1 .. k - 1 : A[l].id # j
               /\ A[k].type = 2 => \A l \in k + 1 .. w + 1 : A[l].id # j
               /\ j \in DOMAIN K \/ \E l \in 1 .. k : A[l].id = j /\ A[l].type = 1
    BY <1>3 DEF Aligned
  <2>2. CASE k = w + 1
    BY <1>3, <1>4, <1>5, <2>1, <2>2
  <2>3. CASE k \in 1 .. w
    <3>1. A[k] = B[k] /\ B[k].type # 2
      BY <1>1, <1>3, <2>1, <2>3 DEF Shows
    <3>2. /\ B[k].type \in 1 .. 3
          /\ B[k].type = 1 => j \notin DOMAIN K /\ \A l \in 1 .. k - 1 : B[l].id # j
          /\ j \in DOMAIN K \/ \E l \in 1 .. k : B[l].id = j /\ B[l].type = 1
      BY <1>1, <2>1, <2>3, <3>1 DEF Aligned
    <3>3. QED
      BY <1>3, <2>3, <3>1, <3>2
  <2>4. QED
    BY <2>2, <2>3
<1>6. ASSUME m.type = 3 PROVE Shows(K, A, j, m.x)
  <2>1. \A k \in 1 .. w + 1 : A[k].id = j => A[k].type # 2
    BY <1>1, <1>3, <1>6 DEF Shows
  <2>2. \A l \in (w + 1) + 1 .. w + 1 : A[l].id # j
    OBVIOUS
  <2>3. QED
    BY <1>3, <2>1, <2>2 DEF Shows
<1>7. ASSUME m.type = 2 PROVE Forgets(K, A, j)
  BY <1>3, <1>7 DEF Forgets
<1>8. QED
  BY <1>2, <1>5, <1>6, <1>7

LEMMA AppendCreated ==
  ASSUME NEW K, NEW B \in Seq(Messages), NEW m \in Messages, NEW j, m.id = j, m.type = 1,
         j \notin DOMAIN K, \A k \in 1 .. Len(B) : B[k].id # j
  PROVE  Aligned(K, Append(B, m), j) /\ Shows(K, Append(B, m), j, m.x)
<1>1. PICK w \in Nat : w = Len(B)
  BY LenProperties
<1>2. PICK A : A = Append(B, m)
  OBVIOUS
<1>3. /\ Len(A) = w + 1 /\ A[w + 1] = m
      /\ \A k \in 1 .. w : A[k] = B[k]
  BY <1>1, <1>2
<1>4. \A k \in 1 .. w + 1 : A[k].id = j => k = w + 1
  BY <1>1, <1>3
<1>5. Aligned(K, A, j)
  BY <1>3, <1>4 DEF Aligned
<1>6. Shows(K, A, j, m.x)
  BY <1>3, <1>4 DEF Shows
<1>7. QED
  BY <1>2, <1>5, <1>6

(* What handling the first message of B changes. *)
LEMMA HandledOther ==
  ASSUME NEW K, NEW K2, NEW B \in Seq(Messages), B # << >>, NEW j, Head(B).id # j,
         j \in DOMAIN K2 <=> j \in DOMAIN K, j \in DOMAIN K => K2[j] = K[j]
  PROVE  /\ Aligned(K, B, j) => Aligned(K2, Tail(B), j)
         /\ \A x : Shows(K, B, j, x) => Shows(K2, Tail(B), j, x)
         /\ Forgets(K, B, j) => Forgets(K2, Tail(B), j)
<1>1. PICK w \in Nat : w + 1 = Len(B)
  BY LenProperties, EmptySeq
<1>2. PICK T : T = Tail(B)
  OBVIOUS
<1>3. Len(T) = w /\ \A k \in 1 .. w : T[k] = B[k + 1]
  BY <1>1, <1>2, HeadTailProperties
<1>4. \A k \in 1 .. w + 1 : B[k].id = j => k - 1 \in 1 .. w /\ B[k] = T[k - 1]
  BY <1>1, <1>3
<1>5. Aligned(K, B, j) => Aligned(K2, T, j)
  <2>1. SUFFICES ASSUME Aligned(K, B, j), NEW k \in 1 .. w, T[k].id = j
        PROVE  /\ T[k].type \in 1 .. 3
               /\ T[k].type = 1 => j \notin DOMAIN K2 /\ \A l \in 1 .. k - 1 : T[l].id # j
               /\ T[k].type = 2 => \A l \in k + 1 .. w : T[l].id # j
               /\ j \in DOMAIN K2 \/ \E l \in 1 .. k : T[l].id = j /\ T[l].type = 1
    BY <1>3 DEF Aligned
  <2>2. PICK h \in 1 .. w + 1 : h = k + 1
    OBVIOUS
  <2>3. /\ B[h].type \in 1 .. 3
        /\ B[h].type = 1 => j \notin DOMAIN K /\ \A l \in 1 .. h - 1 : B[l].id # j
        /\ B[h].type = 2 => \A l \in h + 1 .. w + 1 : B[l].id # j
        /\ j \in DOMAIN K \/ \E l \in 1 .. h : B[l].id = j /\ B[l].type = 1
    BY <1>1, <1>3, <2>1, <2>2 DEF Aligned
  <2>4. T[k] = B[h]
    BY <1>3, <2>2
  <2>5. ASSUME B[h].type = 1, NEW l \in 1 .. k - 1 PROVE T[l].id # j
    <3>1. l + 1 \in 1 .. h - 1 /\ T[l] = B[l + 1]
      BY <1>3, <2>2
    <3>2. QED
      BY <2>3, <2>5, <3>1
  <2>6. ASSUME B[h].type = 2, NEW l \in k + 1 .. w PROVE T[l].id # j
    <3>1. l + 1 \in h + 1 .. w + 1 /\ T[l] = B[l + 1]
      BY <1>3, <2>2
    <3>2. QED
      BY <2>3, <2>6, <3>1
  <2>7. ASSUME NEW l \in 1 .. h, B[l].id = j /\ B[l].type = 1
        PROVE  \E i \in 1 .. k : T[i].id = j /\ T[i].type = 1
    <3>1. l - 1 \in 1 .. k /\ T[l - 1] = B[l]
      BY <1>4, <2>2, <2>7
    <3>2. QED
      BY <2>7, <3>1
  <2>8. QED
    BY <2>3, <2>4, <2>5, <2>6, <2>7
<1>6. ASSUME NEW x, Shows(K, B, j, x) PROVE Shows(K2, T, j, x)
  <2>1. \A k \in 1 .. w : T[k].id = j => T[k].type # 2
    <3>1. \A k \in 1 .. w + 1 : B[k].id = j => B[k].type # 2
      BY <1>1, <1>6 DEF Shows
    <3>2. ASSUME NEW k \in 1 .. w PROVE k + 1 \in 1 .. w + 1 /\ T[k] = B[k + 1]
      BY <1>3
    <3>3. QED
      BY <3>1, <3>2
  <2>2. CASE j \in DOMAIN K /\ K[j] = x /\ \A k \in 1 .. Len(B) : B[k].id # j
    BY <1>1, <1>3, <2>1, <2>2 DEF Shows
  <2>3. ASSUME NEW k \in 1 .. w + 1,
               B[k].id = j /\ B[k].x = x /\ \A l \in k + 1 .. w + 1 : B[l].id # j
        PROVE  Shows(K2, T, j, x)
    <3>1. k - 1 \in 1 .. w /\ T[k - 1] = B[k]
      BY <1>4, <2>3
    <3>2. ASSUME NEW l \in (k - 1) + 1 .. w PROVE T[l].id # j
      <4>1. l + 1 \in k + 1 .. w + 1 /\ T[l] = B[l + 1]
        BY <1>3, <3>1
      <4>2. QED
        BY <2>3, <4>1
    <3>3. QED
      BY <1>3, <2>1, <2>3, <3>1, <3>2 DEF Shows
  <2>4. QED
    BY <1>1, <1>6, <2>2, <2>3 DEF Shows
<1>7. Forgets(K, B, j) => Forgets(K2, T, j)
  BY <1>1, <1>3, <1>4 DEF Forgets
<1>8. QED
  BY <1>2, <1>5, <1>6, <1>7

LEMMA HandledNews ==
  ASSUME NEW K, NEW K2, NEW B \in Seq(Messages), B # << >>, NEW j, Head(B).id = j,
         Aligned(K, B, j)
  PROVE  /\ Head(B).type \in {1, 3} /\ j \in DOMAIN K2 /\ K2[j] = Head(B).x =>
              /\ Aligned(K2, Tail(B), j)
              /\ \A x : Shows(K, B, j, x) => Shows(K2, Tail(B), j, x)
              /\ Forgets(K, B, j) => Forgets(K2, Tail(B), j)
         /\ Head(B).type = 2 /\ j \notin DOMAIN K2 =>
              /\ Aligned(K2, Tail(B), j)
              /\ \A x : ~ Shows(K, B, j, x)
              /\ Forgets(K2, Tail(B), j)
         /\ Head(B).type = 3 => j \in DOMAIN K
         /\ Head(B).type = 1 => j \notin DOMAIN K
<1>1. PICK w \in Nat : w + 1 = Len(B)
  BY LenProperties, EmptySeq
<1>2. PICK T : T = Tail(B)
  OBVIOUS
<1>3. Len(T) = w /\ \A k \in 1 .. w : T[k] = B[k + 1]
  BY <1>1, <1>2, HeadTailProperties
<1>4. PICK m : m = Head(B) /\ m = B[1]
  OBVIOUS
<1>5. /\ m.type = 1 => j \notin DOMAIN K
      /\ m.type = 2 => \A l \in 2 .. w + 1 : B[l].id # j
      /\ j \in DOMAIN K \/ m.type = 1
  <2>1. /\ B[1].type = 1 => j \notin DOMAIN K
        /\ B[1].type = 2 => \A l \in 1 + 1 .. w + 1 : B[l].id # j
        /\ j \in DOMAIN K \/ \E l \in 1 .. 1 : B[l].id = j /\ B[l].type = 1
    BY <1>1, <1>4 DEF Aligned
  <2>2. QED
    BY <1>4, <2>1
<1>6. ASSUME NEW k \in 1 .. w, T[k].id = j
      PROVE  /\ T[k].type \in {2, 3}
             /\ T[k].type = 2 => \A l \in k + 1 .. w : T[l].id # j
  <2>1. PICK h \in 2 .. w + 1 : h = k + 1
    OBVIOUS
  <2>2. /\ B[h].type \in 1 .. 3
        /\ B[h].type = 1 => \A l \in 1 .. h - 1 : B[l].id # j
        /\ B[h].type = 2 => \A l \in h + 1 .. w + 1 : B[l].id # j
    BY <1>1, <1>3, <1>6, <2>1 DEF Aligned
  <2>3. B[h].type # 1
    BY <1>4, <2>1, <2>2
  <2>4. B[h].type = 2 => \A l \in k + 1 .. w : T[l].id # j
    BY <1>3, <2>1, <2>2
  <2>5. QED
    BY <1>3, <2>1, <2>2, <2>3, <2>4
<1>7. ASSUME m.type \in {1, 3}, j \in DOMAIN K2, K2[j] = m.x
      PROVE  /\ Aligned(K2, T, j)
             /\ \A x : Shows(K, B, j, x) => Shows(K2, T, j, x)
             /\ Forgets(K, B, j) => Forgets(K2, T, j)
  <2>1. Aligned(K2, T, j)
    BY <1>3, <1>6, <1>7 DEF Aligned
  <2>2. ASSUME NEW x, Shows(K, B, j, x) PROVE Shows(K2, T, j, x)
    <3>1. \A k \in 1 .. w : T[k].id = j => T[k].type # 2
      BY <1>1, <1>3, <2>2 DEF Shows
    <3>2. PICK k \in 1 .. w + 1 :
            B[k].id = j /\ B[k].x = x /\ \A l \in k + 1 .. w + 1 : B[l].id # j
      BY <1>1, <1>4, <2>2 DEF Shows
    <3>3. CASE k = 1
      <4>1. \A l \in 1 .. w : T[l].id # j
        BY <1>3, <3>2, <3>3
      <4>2. K2[j] = x
        BY <1>4, <1>7, <3>2, <3>3
      <4>3. QED
        BY <1>3, <1>7, <4>1, <4>2 DEF Shows
    <3>4. CASE k # 1
      <4>1. k - 1 \in 1 .. w /\ T[k - 1] = B[k]
        BY <1>3, <3>4
      <4>2. \A l \in (k - 1) + 1 .. w : T[l].id # j
        BY <1>3, <3>2
      <4>3. QED
        BY <1>3, <3>1, <3>2, <4>1, <4>2 DEF Shows
    <3>5. QED
      BY <3>3, <3>4
  <2>3. ASSUME Forgets(K, B, j) PROVE Forgets(K2, T, j)
    <3>1. PICK k \in 1 .. w + 1 : B[k].id = j /\ B[k].type = 2
      BY <1>1, <1>4, <2>3 DEF Forgets
    <3>2. k - 1 \in 1 .. w /\ T[k - 1] = B[k]
      BY <1>3, <1>4, <1>7, <3>1
    <3>3. QED
      BY <1>3, <3>1, <3>2 DEF Forgets
  <2>4. QED
    BY <2>1, <2>2, <2>3
<1>8. ASSUME m.type = 2, j \notin DOMAIN K2
      PROVE  /\ Aligned(K2, T, j)
             /\ \A x : ~ Shows(K, B, j, x)
             /\ Forgets(K2, T, j)
  <2>1. \A k \in 1 .. w : T[k].id # j
    BY <1>3, <1>5, <1>8
  <2>2. \A x : ~ Shows(K, B, j, x)
    BY <1>1, <1>4, <1>8 DEF Shows
  <2>3. QED
    BY <1>3, <1>8, <2>1, <2>2 DEF Aligned, Forgets
<1>9. QED
  BY <1>2, <1>4, <1>5, <1>7, <1>8
-----------------------------------------------------------------------------
(* A broadcast reaches the players that are not put among the missed.      *)
Reaches(a, m, P, box) ==
  /\ a.box \in [ Sockets -> Seq(Messages) ]
  /\ a.missed \subseteq P /\ a.listed \subseteq P
  /\ \A q \in P : q \notin a.missed => a.box[q] = Append(box[q], m)
  /\ \A q \in Sockets \ P : a.box[q] = box[q]

LEMMA Reached ==
  ASSUME NEW m \in Messages, NEW P \in SUBSET Sockets, NEW box \in [ Sockets -> Seq(Messages) ]
  PROVE  Reaches(Star!After(m, P, box), m, P, box)
<1>1. PICK a : a = Star!After(m, P, box)
  OBVIOUS
<1> DEFINE writable == { s \in P : Star!Writable(s, box) }
           got      == { s \in writable : conn[s] # "reset" }
<1>2. /\ a.box = [ s \in Sockets |-> IF s \in got THEN Append(box[s], m) ELSE box[s] ]
      /\ a.missed = P \ got
      /\ a.listed = IF writable = {} THEN {} ELSE P \ got
  BY <1>1 DEF Star!After
<1>3. got \subseteq P
  OBVIOUS
<1> HIDE DEF got, writable
<1>4. \A s \in Sockets : Append(box[s], m) \in Seq(Messages)
  BY AppendProperties
<1>5. Reaches(a, m, P, box)
  BY <1>2, <1>3, <1>4 DEF Reaches
<1>6. QED
  BY <1>1, <1>5

HaveBeenTold(m, P, box, lost) ==
  /\ inbox' \in [ Sockets -> Seq(Messages) ]
  /\ set_Delete_List' \subseteq set_Delete_List \cup P
  /\ missed \subseteq missed' /\ lost \subseteq missed'
  /\ missed' \subseteq missed \cup P \cup lost
  /\ \A q \in P : q \notin missed' => inbox'[q] = Append(box[q], m)
  /\ \A q \in Sockets \ P : inbox'[q] = box[q]

LEMMA Told ==
  ASSUME NEW m \in Messages, NEW P \in SUBSET Sockets, NEW box \in [ Sockets -> Seq(Messages) ],
         NEW lost, Star!Broadcast(m, P, box, lost)
  PROVE  HaveBeenTold(m, P, box, lost)
<1>1. PICK a : a = Star!After(m, P, box)
  OBVIOUS
<1>2. /\ inbox' = a.box /\ missed' = missed \cup a.missed \cup lost
      /\ set_Delete_List' = set_Delete_List \cup a.listed
  BY <1>1 DEF Star!Broadcast
<1>3. Reaches(a, m, P, box)
  BY <1>1, Reached
<1>4. QED
  BY <1>2, <1>3 DEF Reaches, HaveBeenTold

LEMMA StarStarts == Star!Init => StarInv
<1> SUFFICES ASSUME Star!Init PROVE StarInv
  OBVIOUS
<1>1. /\ star = "select" /\ isSet = {} /\ batch = << >> /\ g_ID = 0 /\ set_Delete_List = {} /\ missed = {}
      /\ Player_List = Star!Nothing
      /\ conn = [ s \in Sockets |-> "none" ]
      /\ inbox = [ s \in Sockets |-> << >> ] /\ outbox = [ s \in Sockets |-> << >> ]
      /\ me = [ s \in Sockets |-> [ id |-> 0, x |-> Star!NoStar ] ]
      /\ others = [ s \in Sockets |-> Star!Nothing ]
  BY DEF Star!Init
<1>2. Star!Players = {} /\ Star!NoStar \in Int
  BY <1>1 DEF Star!Players, Star!Nothing, Star!NoStar
<1>3. StarTypes
  <2>1. Player_List \in [ Star!Players -> [ id : 1 .. g_ID, x : Int ] ]
    BY <1>1, <1>2 DEF Star!Nothing
  <2>2. /\ inbox \in [ Sockets -> Seq(Messages) ] /\ outbox \in [ Sockets -> Seq(Int) ]
        /\ batch \in Seq(Int)
    BY <1>1, EmptySeq
  <2>3. me \in [ Sockets -> [ id : Nat, x : Int ] ]
    BY <1>1, <1>2
  <2>4. QED
    BY <1>1, <1>2, <2>1, <2>2, <2>3 DEF StarTypes
<1>4. QED
  BY <1>1, <1>2, <1>3 DEF StarInv, Connected, Different

(* A socket is informed of what it was informed of, when what it relies on *)
(* stays as it is.                                                         *)
LEMMA StillInformed ==
  ASSUME NEW s \in Star!Players, Informed(s), UNCHANGED << g_ID, Player_List >>,
         others'[s] = others[s], inbox'[s] = inbox[s], me'[s].id = me[s].id
  PROVE  Informed(s)'
<1>1. Star!Players' = Star!Players
  BY DEF Star!Players
<1>2. Greeted(s)'
  BY DEF Informed, Greeted
<1>3. QED
  BY <1>1, <1>2 DEF Informed, Strangers

LEMMA HandleKeeps ==
  ASSUME StarInv, NEW s \in Sockets, Star!Handle(s)
  PROVE  StarInv'
<1>1. /\ conn[s] = "open" /\ inbox[s] # << >>
      /\ inbox' = [ inbox EXCEPT ![s] = Tail(@) ]
      /\ UNCHANGED << star, isSet, batch, g_ID, Player_List, set_Delete_List, outbox,
                      missed >>
  BY DEF Star!Handle, Star!server
<1>2. PICK m : m = Head(inbox[s])
  OBVIOUS
<1>3. PICK i : i = me[s].id
  OBVIOUS
<1>4. me' = CASE m.type = 0 -> [ me EXCEPT ![s].id = m.id ]
              [] m.type = 1 /\ m.id = i -> [ me EXCEPT ![s].x = m.x ]
              [] OTHER -> me
  BY <1>2, <1>3 DEF Star!Handle
<1>5. PICK K, K2 : K = others[s] /\ K2 = others'[s]
  OBVIOUS
<1>6. K2 = CASE m.type = 1 /\ m.id # i ->
                  [ id \in DOMAIN K \cup {m.id} |-> IF id \in DOMAIN K THEN K[id] ELSE m.x ]
             [] m.type = 2 -> [ id \in DOMAIN K \ {m.id} |-> K[id] ]
             [] m.type = 3 /\ m.id \in DOMAIN K -> [ K EXCEPT ![m.id] = m.x ]
             [] OTHER -> K
  BY <1>2, <1>3, <1>5 DEF Star!Handle, Star!Restrict, StarInv, StarTypes
<1>7. others' = [ others EXCEPT ![s] = K2 ]
  BY <1>5 DEF Star!Handle, StarInv, StarTypes
<1>8. \/ conn' = conn
      \/ m.type = 3 /\ m.id \notin DOMAIN K /\ conn' = [ conn EXCEPT ![s] = "reset" ]
  BY <1>2, <1>5 DEF Star!Handle
<1>9. /\ s \in Star!Players /\ inbox[s] \in Seq(Messages) /\ m \in Messages
      /\ inbox'[s] = Tail(inbox[s]) /\ Tail(inbox[s]) \in Seq(Messages)
      /\ Star!Players' = Star!Players
  <2>1. s \in Star!Players
    BY <1>1 DEF StarInv, Connected
  <2>2. inbox[s] \in Seq(Messages)
    BY DEF StarInv, StarTypes
  <2>3. m \in Messages /\ Tail(inbox[s]) \in Seq(Messages)
    BY <1>1, <1>2, <2>2, HeadTailProperties
  <2>4. QED
    BY <1>1, <2>1, <2>2, <2>3 DEF StarInv, StarTypes, Star!Players
<1>10. StarTypes'
  <2>1. inbox' \in [ Sockets -> Seq(Messages) ]
    BY <1>1, <1>9 DEF StarInv, StarTypes
  <2>2. me' \in [ Sockets -> [ id : Nat, x : Int ] ]
    <3>1. m.id \in Nat /\ m.x \in Int
      BY <1>9 DEF Messages
    <3>2. me \in [ Sockets -> [ id : Nat, x : Int ] ]
      BY DEF StarInv, StarTypes
    <3>3. CASE m.type = 0
      BY <1>4, <3>1, <3>2, <3>3
    <3>4. CASE m.type = 1 /\ m.id = i
      BY <1>4, <3>1, <3>2, <3>4
    <3>5. QED
      BY <1>4, <3>2, <3>3, <3>4
  <2>3. conn' \in [ Sockets -> {"none", "waiting", "aborted", "open", "closed", "reset"} ]
    BY <1>8 DEF StarInv, StarTypes
  <2>4. others' = [ q \in Sockets |-> others'[q] ]
    BY <1>7 DEF StarInv, StarTypes
  <2>5. QED
    BY <1>1, <1>9, <2>1, <2>2, <2>3, <2>4 DEF StarInv, StarTypes
<1>11. /\ conn'[s] \in {"open", "reset"}
       /\ \A q \in Sockets : q # s => /\ conn'[q] = conn[q] /\ me'[q] = me[q]
                                     /\ others'[q] = others[q] /\ inbox'[q] = inbox[q]
  <2>1. conn'[s] \in {"open", "reset"} /\ \A q \in Sockets : q # s => conn'[q] = conn[q]
    BY <1>1, <1>8 DEF StarInv, StarTypes
  <2>2. \A q \in Sockets : q # s => others'[q] = others[q] /\ inbox'[q] = inbox[q]
    BY <1>1, <1>7 DEF StarInv, StarTypes
  <2>3. \A q \in Sockets : q # s => me'[q] = me[q]
    BY <1>4 DEF StarInv, StarTypes
  <2>4. QED
    BY <2>1, <2>2, <2>3
<1>12. Connected' /\ Different'
  BY <1>1, <1>9, <1>11 DEF StarInv, Connected, Different
<1>13. ASSUME NEW q \in Star!Players, q # s, Hears(q)' PROVE Informed(q)'
  <2>1. q \in Sockets
    BY DEF StarInv, StarTypes
  <2>2. Informed(q)
    BY <1>1, <1>11, <1>13, <2>1 DEF StarInv, Hears
  <2>3. QED
    BY <1>1, <1>11, <1>13, <2>1, <2>2, StillInformed
<1>14. ASSUME Hears(s)' PROVE Informed(s)'
  <2>1. Informed(s)
    BY <1>1, <1>9, <1>14 DEF StarInv, Hears
  <2>2. PICK own : own = Player_List[s].id
    OBVIOUS
  <2>3. PICK B \in Seq(Messages), T \in Seq(Messages) : B = inbox[s] /\ T = Tail(B)
    BY <1>9
  <2>4. PICK w \in Nat : w + 1 = Len(B)
    <3>1. PICK l \in Nat \ {0} : l = Len(B)
      BY <1>1, <2>3, EmptySeq
    <3>2. l - 1 \in Nat /\ (l - 1) + 1 = Len(B)
      BY <3>1
    <3>3. QED
      BY <3>2
  <2>5. Len(T) = w /\ (\A k \in 1 .. w : T[k] = B[k + 1]) /\ m = B[1]
    BY <1>1, <1>2, <2>3, <2>4, HeadTailProperties
  <2>6. m.type # 0 => i = own /\ \A k \in 1 .. w + 1 : B[k].type # 0
    BY <1>3, <2>1, <2>2, <2>3, <2>4, <2>5 DEF Informed, Greeted
  <2>7. m.type = 0 => m.id = own /\ \A k \in 2 .. w + 1 : B[k].type # 0
    BY <2>1, <2>2, <2>3, <2>4, <2>5 DEF Informed, Greeted
  <2>8. own \notin DOMAIN K /\ DOMAIN K \subseteq Strangers(s)
    BY <1>5, <2>1, <2>2 DEF Informed, Strangers
  <2>9. m.id \in 1 .. g_ID
    BY <2>1, <2>3, <2>4, <2>5 DEF Informed
  <2>10. Greeted(s)'
    <3>1. me'[s].id = own
      <4>1. CASE m.type = 0
        BY <1>4, <2>7, <4>1 DEF StarInv, StarTypes
      <4>2. CASE m.type # 0
        BY <1>3, <1>4, <2>6, <4>2 DEF StarInv, StarTypes
      <4>3. QED
        BY <4>1, <4>2
    <3>2. \A k \in 1 .. w : T[k].type # 0
      BY <2>5, <2>6, <2>7
    <3>3. QED
      BY <1>1, <1>9, <2>2, <2>3, <2>5, <3>1, <3>2 DEF Greeted
  <2>11. ASSUME NEW j \in Strangers(s), j # m.id
         PROVE  (j \in DOMAIN K2 <=> j \in DOMAIN K) /\ (j \in DOMAIN K => K2[j] = K[j])
    BY <1>6, <2>11
  <2>12. ASSUME m.id \in Strangers(s)
         PROVE  /\ Aligned(K, B, m.id)
                /\ \/ m.type \in {1, 3} /\ m.id \in DOMAIN K2 /\ K2[m.id] = m.x
                   \/ m.type = 2 /\ m.id \notin DOMAIN K2
    <3>1. m.id # own
      BY <2>2, <2>12 DEF Strangers
    <3>2. m.type # 0 /\ i = own
      BY <2>6, <2>7, <3>1
    <3>3. Aligned(K, B, m.id)
      BY <1>5, <2>1, <2>3, <2>12 DEF Informed
    <3>4. (m.type = 3 => m.id \in DOMAIN K) /\ (m.type = 1 => m.id \notin DOMAIN K)
      BY <1>1, <1>2, <2>3, <3>3, HandledNews
    <3>5. m.type \in 1 .. 3
      BY <1>9, <3>2 DEF Messages
    <3>6. QED
      BY <1>6, <3>1, <3>2, <3>3, <3>4, <3>5
  <2>13. DOMAIN K2 \subseteq Strangers(s)
    <3>1. m.type = 1 /\ m.id # i => m.id \in Strangers(s)
      BY <2>2, <2>6, <2>9 DEF Strangers
    <3>2. DOMAIN K2 \subseteq DOMAIN K \cup IF m.type = 1 /\ m.id # i THEN {m.id} ELSE {}
      BY <1>6
    <3>3. QED
      BY <2>8, <3>1, <3>2
  <2>14. ASSUME NEW j \in Strangers(s)
         PROVE  /\ Aligned(K2, T, j)
                /\ \A x : Shows(K, B, j, x) => Shows(K2, T, j, x)
                /\ Forgets(K, B, j) => Forgets(K2, T, j)
    <3>1. Aligned(K, B, j) /\ B # << >> /\ Head(B) = m
      BY <1>1, <1>2, <1>5, <2>1, <2>3 DEF Informed
    <3>2. CASE j # m.id
      BY <2>3, <2>11, <3>1, <3>2, HandledOther
    <3>3. CASE j = m.id
      BY <2>3, <2>12, <3>1, <3>3, HandledNews
    <3>4. QED
      BY <3>2, <3>3
  <2>15. Strangers(s)' = Strangers(s)
    BY <1>1 DEF Strangers
  <2>16. \A p \in Star!Players \ {s} : Player_List[p].id \in Strangers(s)
    BY <1>9 DEF StarInv, StarTypes, Different, Strangers
  <2>17. \A p \in Star!Players \ {s} : Shows(K2, T, Player_List[p].id, Player_List[p].x)
    BY <1>5, <2>1, <2>3, <2>14, <2>16 DEF Informed
  <2>18. \A k \in 1 .. w : T[k].id \in 1 .. g_ID
    BY <2>1, <2>3, <2>4, <2>5 DEF Informed
  <2>19. inbox'[s] = T /\ others'[s] = K2 /\ Len(T) = w
    BY <1>5, <1>9, <2>3, <2>5
  <2>20. \A j \in Strangers(s) :
           (\A p \in Star!Players : Player_List[p].id # j) => Forgets(K2, T, j)
    BY <1>5, <2>1, <2>3, <2>14 DEF Informed
  <2>21. QED
    BY <1>1, <1>9, <2>10, <2>13, <2>14, <2>15, <2>17, <2>18, <2>19, <2>20 DEF Informed
<1>15. QED
  BY <1>9, <1>10, <1>12, <1>13, <1>14 DEF StarInv

(* A client that hears one more message. *)
HasHeard(q, m) ==
  /\ Greeted(q)'
  /\ DOMAIN others'[q] \subseteq Strangers(q)'
  /\ \A k \in 1 .. Len(inbox'[q]) : inbox'[q][k].id \in 1 .. g_ID'
  /\ \A j \in Strangers(q) : j # m.id =>
       /\ Aligned(others'[q], inbox'[q], j)
       /\ \A x : Shows(others[q], inbox[q], j, x) => Shows(others'[q], inbox'[q], j, x)
       /\ Forgets(others[q], inbox[q], j) => Forgets(others'[q], inbox'[q], j)

LEMMA HeardOn ==
  ASSUME NEW q, inbox[q] \in Seq(Messages), Informed(q), g_ID \in Nat, g_ID' \in {g_ID, g_ID + 1},
         NEW m \in Messages, m.type # 0, m.id \in 1 .. g_ID',
         Player_List[q].id \in 1 .. g_ID, Player_List'[q].id = Player_List[q].id,
         others'[q] = others[q], me'[q].id = me[q].id, inbox'[q] = Append(inbox[q], m)
  PROVE  HasHeard(q, m)
<1>1. PICK B \in Seq(Messages) : B = inbox[q]
  OBVIOUS
<1>2. PICK A : A = inbox'[q] /\ A = Append(B, m)
  BY <1>1
<1>3. PICK w \in Nat : w = Len(B)
  BY LenProperties
<1>4. /\ Len(A) = w + 1 /\ A[w + 1] = m
      /\ \A k \in 1 .. w : A[k] = B[k]
  BY <1>1, <1>2, <1>3
<1>5. Greeted(q)'
  <2>1. CASE me[q].id = Player_List[q].id /\ \A k \in 1 .. w : B[k].type # 0
    BY <1>1, <1>2, <1>3, <1>4, <2>1 DEF Greeted
  <2>2. CASE /\ DOMAIN others[q] = {} /\ B # << >>
             /\ B[1].type = 0 /\ B[1].id = Player_List[q].id
             /\ \A k \in 2 .. w : B[k].type # 0
    <3>1. w # 0
      BY <1>3, <2>2, EmptySeq
    <3>2. A[1] = B[1] /\ \A k \in 2 .. w + 1 : A[k].type # 0
      BY <1>4, <2>2, <3>1
    <3>3. A # << >>
      BY <1>4
    <3>4. QED
      BY <1>1, <1>2, <1>4, <2>2, <3>2, <3>3 DEF Greeted
  <2>3. QED
    BY <1>1, <1>3, <2>1, <2>2 DEF Informed, Greeted
<1>6. Strangers(q) \subseteq Strangers(q)'
  BY DEF Strangers
<1>7. \A k \in 1 .. w + 1 : A[k].id \in 1 .. g_ID'
  BY <1>1, <1>3, <1>4 DEF Informed
<1>8. ASSUME NEW j \in Strangers(q), j # m.id
      PROVE  /\ Aligned(others[q], A, j)
             /\ \A x : Shows(others[q], B, j, x) => Shows(others[q], A, j, x)
             /\ Forgets(others[q], B, j) => Forgets(others[q], A, j)
  <2>1. Aligned(others[q], B, j)
    BY <1>1 DEF Informed
  <2>2. QED
    BY <1>1, <1>2, <1>8, <2>1, AppendOther
<1>9. DOMAIN others'[q] \subseteq Strangers(q)'
  BY <1>6 DEF Informed
<1>10. QED
  BY <1>1, <1>2, <1>4, <1>5, <1>7, <1>8, <1>9 DEF HasHeard

LEMMA Quotients ==
  ASSUME NEW i \in Nat, NEW p \in Nat \ {0}
  PROVE  i \div p \in Nat /\ (i \div p) * p <= i
OBVIOUS

(* What is received has still to be looked at. *)
LEMMA RecvKeeps == ASSUME StarInv, Star!Recv PROVE StarInv'
<1>1. PICK s \in isSet :
        \/ /\ outbox[s] # << >>
           /\ \E k \in 1 .. Len(outbox[s]) :
                /\ batch' = SubSeq(outbox[s], 1, Star!LookedAt(k))
                /\ outbox' = [ outbox EXCEPT ![s] = SubSeq(@, k + 1, Len(@)) ]
           /\ UNCHANGED << isSet, set_Delete_List >>
        \/ /\ set_Delete_List' = set_Delete_List \cup {s}
           /\ isSet' = isSet \ {s}
           /\ UNCHANGED << batch, outbox >>
  BY DEF Star!Recv
<1>2. /\ star = "recv" /\ UNCHANGED << star, g_ID, conn, me, others >>
      /\ UNCHANGED << Player_List, inbox, missed >>
  BY DEF Star!Recv, Star!client
<1>3. s \in Star!Players /\ s \in Sockets /\ Star!Players' = Star!Players
  BY <1>2 DEF StarInv, Connected, StarTypes, Star!Players
<1>4. outbox' \in [ Sockets -> Seq(Int) ] /\ batch' \in Seq(Int)
  <2>1. ASSUME NEW k \in 1 .. Len(outbox[s]),
               batch' = SubSeq(outbox[s], 1, Star!LookedAt(k)),
               outbox' = [ outbox EXCEPT ![s] = SubSeq(@, k + 1, Len(@)) ]
        PROVE  outbox' \in [ Sockets -> Seq(Int) ] /\ batch' \in Seq(Int)
    <3>1. PICK B \in Seq(Int) : B = outbox[s]
      BY <1>3 DEF StarInv, StarTypes
    <3>2. PICK l \in Nat : l = Len(B)
      BY <3>1, LenProperties
    <3>3. PICK w : w = Star!LookedAt(k)
      OBVIOUS
    <3>4. w \in 1 .. l
      <4>1. PICK i \in Nat : i = k - 1 /\ i + 1 <= l
        BY <3>1, <3>2
      <4>2. PICK p \in Nat \ {0} : p = PacketSize
        BY StarAssumption
      <4>3. PICK d \in Nat : d = i \div p /\ d * p <= i
        BY Quotients
      <4>4. d <= i
        BY <4>3
      <4>5. w = d + 1
        BY <3>3, <4>1, <4>2, <4>3 DEF Star!LookedAt
      <4>6. QED
        BY <4>1, <4>4, <4>5
    <3>5. SubSeq(B, 1, w) \in Seq(Int) /\ SubSeq(B, k + 1, l) \in Seq(Int)
      BY <2>1, <3>1, <3>2, <3>4, SubSeqProperties
    <3>6. QED
      BY <2>1, <3>1, <3>2, <3>3, <3>5 DEF StarInv, StarTypes
  <2>2. CASE UNCHANGED << batch, outbox >>
    BY <2>2 DEF StarInv, StarTypes
  <2>3. QED
    BY <1>1, <2>1, <2>2
<1>5. StarTypes'
  BY <1>2, <1>3, <1>4 DEF StarInv, StarTypes
<1>6. Connected' /\ Different'
  BY <1>1, <1>2, <1>3 DEF StarInv, Connected, Different
<1>7. ASSUME NEW q \in Star!Players, Hears(q)' PROVE Informed(q)'
  BY <1>2, <1>7, StillInformed DEF StarInv, Hears
<1>8. QED
  BY <1>3, <1>5, <1>6, <1>7 DEF StarInv

(* The move of a player. *)
LEMMA RecvPacketKeeps == ASSUME StarInv, Star!RecvPacket PROVE StarInv'
<1>1. /\ batch # << >> /\ batch' = Tail(batch)
      /\ UNCHANGED << star, g_ID, conn, outbox, me, others >>
  BY DEF Star!RecvPacket, Star!client
<1>2. PICK z \in Int : z = Head(batch) /\ batch' \in Seq(Int)
  BY <1>1, HeadTailProperties DEF StarInv, StarTypes
<1>3. PICK s \in isSet :
        /\ Player_List' = [ Player_List EXCEPT ![s].x = z ]
        /\ Star!Broadcast(Star!Moved(Player_List[s].id, z), Star!Players, inbox, {})
        /\ isSet' \subseteq isSet
  BY <1>2 DEF Star!RecvPacket
<1>4. s \in Star!Players /\ s \in Sockets /\ isSet' \subseteq isSet
  BY <1>3 DEF StarInv, Connected, StarTypes
<1>5. QED
  <2>1. PICK e \in 1 .. g_ID : e = Player_List[s].id
    BY <1>4 DEF StarInv, StarTypes
  <2>2. PICK m : m = Star!Moved(e, z)
    OBVIOUS
  <2>3. m \in Messages /\ m.type = 3 /\ m.id = e /\ m.x = z
    BY <2>1, <2>2 DEF Star!Moved, Messages, StarInv, StarTypes
  <2>4. /\ Star!Players' = Star!Players
        /\ Player_List'[s] = [ id |-> e, x |-> z ]
        /\ \A q \in Star!Players : q # s => Player_List'[q] = Player_List[q]
        /\ Player_List' \in [ Star!Players -> [ id : 1 .. g_ID, x : Int ] ]
    <3>1. Player_List \in [ Star!Players -> [ id : 1 .. g_ID, x : Int ] ]
      BY DEF StarInv, StarTypes
    <3>2. Player_List' = [ Player_List EXCEPT ![s].x = z ]
      BY <1>3
    <3>3. Star!Players' = Star!Players
      BY <3>1, <3>2 DEF Star!Players
    <3>4. QED
      BY <1>4, <2>1, <3>1, <3>2, <3>3
  <2>5. /\ inbox' \in [ Sockets -> Seq(Messages) ]
        /\ set_Delete_List' \subseteq set_Delete_List \cup Star!Players
        /\ missed \subseteq missed'
        /\ missed' \subseteq missed \cup Star!Players
        /\ \A q \in Star!Players : q \notin missed' => inbox'[q] = Append(inbox[q], m)
    <3>1. inbox \in [ Sockets -> Seq(Messages) ] /\ Star!Players \in SUBSET Sockets
      BY DEF StarInv, StarTypes
    <3>2. Star!Broadcast(m, Star!Players, inbox, {})
      BY <1>3, <2>1, <2>2
    <3>3. PICK P \in SUBSET Sockets : P = Star!Players
      BY <3>1
    <3>4. PICK none : none = {}
      OBVIOUS
    <3>5. Star!Broadcast(m, P, inbox, none)
      BY <3>2, <3>3, <3>4
    <3>6. HaveBeenTold(m, P, inbox, none)
      BY <2>3, <3>1, <3>5, Told
    <3>7. QED
      BY <3>3, <3>4, <3>6 DEF HaveBeenTold
  <2>6. StarTypes'
    BY <1>1, <1>2, <2>4, <2>5 DEF StarInv, StarTypes
  <2>7. Connected'
    BY <1>1, <1>4, <2>4, <2>5 DEF StarInv, Connected
  <2>8. Different'
    BY <1>4, <2>1, <2>4 DEF StarInv, Different
  <2>9. ASSUME NEW q \in Star!Players, Hears(q)' PROVE Informed(q)'
    <3>1. Informed(q) /\ q \notin missed' /\ inbox[q] \in Seq(Messages)
      BY <1>1, <2>5, <2>9 DEF StarInv, Hears, StarTypes
    <3>2. /\ inbox'[q] = Append(inbox[q], m) /\ others'[q] = others[q]
          /\ me'[q].id = me[q].id
          /\ Player_List[q].id \in 1 .. g_ID /\ g_ID \in Nat
      BY <1>1, <2>5, <2>9, <3>1 DEF StarInv, StarTypes
    <3>3. \A p \in Star!Players : Player_List'[p].id = Player_List[p].id
      BY <2>1, <2>4
    <3>4. Player_List'[q].id = Player_List[q].id
      BY <3>3
    <3>5. HasHeard(q, m)
      <4>1. m.type # 0 /\ m.id \in 1 .. g_ID' /\ g_ID' \in {g_ID, g_ID + 1}
        BY <1>1, <2>3
      <4>2. QED
        BY <2>3, <3>1, <3>2, <3>4, <4>1, HeardOn
    <3>6. Strangers(q)' = Strangers(q)
      BY <1>1, <3>4 DEF Strangers
    <3>7. e \in Strangers(q) =>
            Aligned(others'[q], inbox'[q], e) /\ Shows(others'[q], inbox'[q], e, z)
      <4>1. SUFFICES ASSUME e \in Strangers(q) PROVE Aligned(others'[q], inbox'[q], e)
                                                 /\ Shows(others'[q], inbox'[q], e, z)
        OBVIOUS
      <4>2. s # q
        BY <2>1, <4>1 DEF Strangers
      <4>3. Aligned(others[q], inbox[q], e)
        BY <3>1, <4>1 DEF Informed
      <4>4. Shows(others[q], inbox[q], e, Player_List[s].x)
        BY <1>4, <2>1, <3>1, <4>2 DEF Informed
      <4>5. QED
        BY <2>3, <3>1, <3>2, <4>3, <4>4, AppendNews
    <3>8. \A j \in Strangers(q)' : Aligned(others'[q], inbox'[q], j)
      BY <2>3, <3>5, <3>6, <3>7 DEF HasHeard
    <3>9. ASSUME NEW p \in Star!Players \ {q}
          PROVE  Shows(others'[q], inbox'[q], Player_List'[p].id, Player_List'[p].x)
      <4>1. Player_List[p].id \in Strangers(q) /\ Player_List'[p].id = Player_List[p].id
        <5>1. Player_List[p].id \in 1 .. g_ID
          BY DEF StarInv, StarTypes
        <5>2. Player_List[p].id # Player_List[q].id
          BY DEF StarInv, Different
        <5>3. QED
          BY <3>3, <5>1, <5>2 DEF Strangers
      <4>2. CASE p = s
        BY <2>1, <2>4, <3>7, <4>1, <4>2
      <4>3. CASE p # s
        <5>1. Player_List[p].id # e /\ Player_List'[p] = Player_List[p]
          BY <1>4, <2>1, <2>4, <4>3 DEF StarInv, Different
        <5>2. Shows(others[q], inbox[q], Player_List[p].id, Player_List[p].x)
          BY <3>1 DEF Informed
        <5>3. QED
          BY <2>3, <3>5, <4>1, <5>1, <5>2 DEF HasHeard
      <4>4. QED
        BY <4>2, <4>3
    <3>10. ASSUME NEW j \in Strangers(q)', \A p \in Star!Players : Player_List'[p].id # j
          PROVE  Forgets(others'[q], inbox'[q], j)
      <4>1. j # m.id /\ \A p \in Star!Players : Player_List[p].id # j
        BY <1>4, <2>1, <2>3, <3>3, <3>10
      <4>2. Forgets(others[q], inbox[q], j)
        BY <3>1, <3>6, <4>1 DEF Informed
      <4>3. QED
        BY <3>5, <3>6, <4>1, <4>2 DEF HasHeard
    <3>11. QED
      BY <2>4, <3>5, <3>8, <3>9, <3>10 DEF Informed, HasHeard
  <2>10. QED
    BY <2>4, <2>6, <2>7, <2>8, <2>9 DEF StarInv

(* A player is taken off the list, and the others hear of it. *)
LEMMA DisConnectKeeps == ASSUME StarInv, Star!DisConnect PROVE StarInv'
<1>1. PICK s \in set_Delete_List \cap Star!Players :
        LET P == Star!Players \ {s}
            b == Star!After(Star!Deleted(Player_List[s].id), P, inbox)
        IN  /\ Player_List' = Star!Restrict(Player_List, P)
            /\ inbox' = [ b.box EXCEPT ![s] = << >> ]
            /\ set_Delete_List' = (set_Delete_List \cup b.listed) \ {s}
            /\ missed' = (missed \cup b.missed) \ {s}
            /\ conn' = [ conn EXCEPT ![s] = "none" ]
            /\ outbox' = [ outbox EXCEPT ![s] = << >> ]
  BY DEF Star!DisConnect
<1>2. /\ star = "delete" /\ isSet = {}
      /\ star' = star /\ isSet' = isSet /\ batch' = batch /\ g_ID' = g_ID /\ me' = me /\ others' = others
  BY DEF Star!DisConnect, Star!client, StarInv, Connected
<1>3. s \in Star!Players /\ s \in Sockets
  BY DEF StarInv, StarTypes
<1>4. PICK e \in 1 .. g_ID : e = Player_List[s].id
  BY <1>3 DEF StarInv, StarTypes
<1>5. PICK m : m = Star!Deleted(e)
  OBVIOUS
<1>6. m \in Messages /\ m.type = 2 /\ m.id = e
  BY <1>4, <1>5 DEF Star!Deleted, Messages, StarInv, StarTypes
<1>7. PICK P \in SUBSET Sockets : P = Star!Players \ {s}
  BY DEF StarInv, StarTypes
<1>8. PICK b : b = Star!After(m, P, inbox)
  OBVIOUS
<1>9. /\ inbox' = [ b.box EXCEPT ![s] = << >> ]
      /\ set_Delete_List' = (set_Delete_List \cup b.listed) \ {s}
      /\ missed' = (missed \cup b.missed) \ {s}
      /\ conn' = [ conn EXCEPT ![s] = "none" ]
      /\ outbox' = [ outbox EXCEPT ![s] = << >> ]
      /\ Player_List' = [ p \in P |-> Player_List[p] ]
  BY <1>1, <1>4, <1>5, <1>7, <1>8 DEF Star!Restrict, StarInv, StarTypes
<1>10. Reaches(b, m, P, inbox)
  <2>1. inbox \in [ Sockets -> Seq(Messages) ]
    BY DEF StarInv, StarTypes
  <2>2. QED
    BY <1>6, <1>8, <2>1, Reached
<1>11. /\ Star!Players' = P
       /\ \A p \in P : p \in Star!Players /\ p \in Sockets /\ p # s
                       /\ Player_List'[p] = Player_List[p]
  BY <1>3, <1>7, <1>9 DEF Star!Players
<1>12. StarTypes'
  <2>1. Player_List' \in [ P -> [ id : 1 .. g_ID, x : Int ] ]
    BY <1>9, <1>11 DEF StarInv, StarTypes
  <2>2. inbox' \in [ Sockets -> Seq(Messages) ] /\ outbox' \in [ Sockets -> Seq(Int) ]
    BY <1>3, <1>9, <1>10, EmptySeq DEF StarInv, StarTypes, Reaches
  <2>3. conn' \in [ Sockets -> {"none", "waiting", "aborted", "open", "closed", "reset"} ]
    BY <1>9 DEF StarInv, StarTypes
  <2>4. QED
    BY <1>2, <1>11, <2>1, <2>2, <2>3 DEF StarInv, StarTypes
<1>13. Connected'
  <2>1. set_Delete_List' \subseteq P /\ missed' \subseteq P
    BY <1>7, <1>9, <1>10 DEF StarInv, Connected, Reaches
  <2>2. conn'[s] = "none" /\ \A q \in Sockets : q # s => conn'[q] = conn[q]
    BY <1>3, <1>9 DEF StarInv, StarTypes
  <2>3. QED
    BY <1>2, <1>7, <1>11, <2>1, <2>2 DEF StarInv, Connected
<1>14. Different'
  BY <1>11 DEF StarInv, Different
<1>15. ASSUME NEW q \in P, Hears(q)' PROVE Informed(q)'
  <2>1. q \in Star!Players /\ q \in Sockets /\ q # s /\ Player_List'[q] = Player_List[q]
    BY <1>11
  <2>2. conn[q] = "open" /\ q \notin missed /\ q \notin b.missed
    BY <1>9, <1>15, <2>1 DEF Hears, StarInv, StarTypes
  <2>3. Informed(q) /\ inbox[q] \in Seq(Messages)
    BY <2>1, <2>2 DEF StarInv, Hears, StarTypes
  <2>4. inbox'[q] = Append(inbox[q], m)
    BY <1>9, <1>10, <2>1, <2>2 DEF Reaches
  <2>5. HasHeard(q, m)
    <3>1. m.type # 0 /\ m.id \in 1 .. g_ID' /\ g_ID' \in {g_ID, g_ID + 1} /\ g_ID \in Nat
      BY <1>2, <1>6 DEF StarInv, StarTypes
    <3>2. Player_List[q].id \in 1 .. g_ID
      BY <2>1 DEF StarInv, StarTypes
    <3>3. others'[q] = others[q] /\ me'[q].id = me[q].id /\ Player_List'[q].id = Player_List[q].id
      BY <1>2, <2>1
    <3>4. QED
      BY <1>6, <2>3, <2>4, <3>1, <3>2, <3>3, HeardOn
  <2>6. Strangers(q)' = Strangers(q)
    BY <1>2, <2>1 DEF Strangers
  <2>7. \A p \in Star!Players : p # q => Player_List[p].id \in Strangers(q)
    BY <2>1 DEF StarInv, StarTypes, Different, Strangers
  <2>8. Aligned(others'[q], inbox'[q], e) /\ Forgets(others'[q], inbox'[q], e)
    <3>1. e \in Strangers(q) /\ others'[q] = others[q]
      BY <1>2, <1>3, <1>4, <2>1, <2>7
    <3>2. Aligned(others[q], inbox[q], e)
      BY <2>3, <3>1 DEF Informed
    <3>3. Shows(others[q], inbox[q], e, Player_List[s].x)
      BY <1>3, <1>4, <2>1, <2>3 DEF Informed
    <3>4. QED
      BY <1>6, <2>3, <2>4, <3>1, <3>2, <3>3, AppendNews
  <2>9. \A j \in Strangers(q)' : Aligned(others'[q], inbox'[q], j)
    BY <1>6, <2>5, <2>6, <2>8 DEF HasHeard
  <2>10. ASSUME NEW p \in P \ {q}
         PROVE  Shows(others'[q], inbox'[q], Player_List'[p].id, Player_List'[p].x)
    <3>1. p \in Star!Players /\ p # q /\ p # s /\ Player_List'[p] = Player_List[p]
      BY <1>11
    <3>2. Player_List[p].id \in Strangers(q) /\ Player_List[p].id # m.id
      BY <1>3, <1>4, <1>6, <2>7, <3>1 DEF StarInv, Different
    <3>3. Shows(others[q], inbox[q], Player_List[p].id, Player_List[p].x)
      BY <2>3, <3>1 DEF Informed
    <3>4. QED
      BY <2>5, <3>1, <3>2, <3>3 DEF HasHeard
  <2>11. ASSUME NEW j \in Strangers(q)', \A p \in P : Player_List'[p].id # j
         PROVE  Forgets(others'[q], inbox'[q], j)
    <3>1. CASE j = e
      BY <2>8, <3>1
    <3>2. CASE j # e
      <4>1. \A p \in Star!Players : Player_List[p].id # j
        BY <1>4, <1>7, <1>11, <2>11, <3>2
      <4>2. Forgets(others[q], inbox[q], j)
        BY <2>3, <2>6, <4>1 DEF Informed
      <4>3. QED
        BY <1>6, <2>5, <2>6, <3>2, <4>2 DEF HasHeard
    <3>3. QED
      BY <3>1, <3>2
  <2>12. QED
    BY <1>11, <2>5, <2>9, <2>10, <2>11 DEF Informed, HasHeard
<1>16. QED
  BY <1>11, <1>12, <1>13, <1>14, <1>15 DEF StarInv

(* What a new player is told: its id, the players there are, and itself.   *)
Welcome(A, w, order) ==
  /\ A[1].type = 0 /\ A[1].id = g_ID + 1
  /\ \A k \in 1 .. w : /\ A[k + 1].type = 1
                        /\ A[k + 1].id = Player_List[order[k]].id
                        /\ A[k + 1].x = Player_List[order[k]].x
  /\ A[w + 2].type = 1 /\ A[w + 2].id = g_ID + 1

ShowsWelcome(K, A, w) ==
  /\ \A k \in 1 .. w + 2 : A[k].id \in 1 .. g_ID + 1
  /\ \A k \in 2 .. w + 2 : A[k].type # 0
  /\ \A j \in 1 .. g_ID : Aligned(K, A, j)
  /\ \A p \in Star!Players : Shows(K, A, Player_List[p].id, Player_List[p].x)
  /\ \A j \in 1 .. g_ID :
       (\A p \in Star!Players : Player_List[p].id # j) => Forgets(K, A, j)

IsOrder(order, w) ==
  /\ order \in [ 1 .. w -> Star!Players ]
  /\ \A p \in Star!Players : \E k \in 1 .. w : order[k] = p
  /\ \A k, l \in 1 .. w : k < l => order[k] # order[l]

LEMMA Welcomed ==
  ASSUME g_ID \in Nat, Different,
         \A p \in Star!Players : Player_List[p].id \in 1 .. g_ID,
         NEW w \in Nat, NEW order, IsOrder(order, w),
         NEW A, Len(A) = w + 2, Welcome(A, w, order), NEW K, DOMAIN K = {}
  PROVE  ShowsWelcome(K, A, w)
<1>1. /\ order \in [ 1 .. w -> Star!Players ]
      /\ \A p \in Star!Players : \E k \in 1 .. w : order[k] = p
      /\ \A k, l \in 1 .. w : k < l => order[k] # order[l]
  BY DEF IsOrder
<1>2. \A k \in 2 .. w + 1 :
        /\ k - 1 \in 1 .. w /\ order[k - 1] \in Star!Players
        /\ A[k].type = 1 /\ A[k].id = Player_List[order[k - 1]].id
        /\ A[k].x = Player_List[order[k - 1]].x
  <2>1. ASSUME NEW k \in 2 .. w + 1
        PROVE  /\ k - 1 \in 1 .. w /\ order[k - 1] \in Star!Players
               /\ A[k].type = 1 /\ A[k].id = Player_List[order[k - 1]].id
               /\ A[k].x = Player_List[order[k - 1]].x
    <3>1. PICK h \in 1 .. w : h = k - 1 /\ k = h + 1
      OBVIOUS
    <3>2. QED
      BY <1>1, <3>1 DEF Welcome
  <2>2. QED
    BY <2>1
<1>3. \A k \in 1 .. w + 2 : k = 1 \/ k \in 2 .. w + 1 \/ k = w + 2
  OBVIOUS
<1>4. ASSUME NEW k \in 1 .. w + 2 PROVE A[k].id \in 1 .. g_ID + 1
  <2>1. g_ID + 1 \in 1 .. g_ID + 1 /\ 1 .. g_ID \subseteq 1 .. g_ID + 1
    OBVIOUS
  <2>2. k = 1 \/ k = w + 2 => A[k].id = g_ID + 1
    BY DEF Welcome
  <2>3. ASSUME k \in 2 .. w + 1 PROVE A[k].id \in 1 .. g_ID
    <3>1. PICK p \in Star!Players : p = order[k - 1]
      BY <1>2, <2>3
    <3>2. QED
      BY <1>2, <2>3, <3>1
  <2>4. QED
    BY <1>3, <2>1, <2>2, <2>3
<1>5. \A k \in 2 .. w + 2 : A[k].type # 0
  BY <1>2, <1>3 DEF Welcome
<1>6. ASSUME NEW k \in 1 .. w + 2, A[k].id \in 1 .. g_ID
      PROVE  k \in 2 .. w + 1 /\ A[k].type = 1
  <2>1. g_ID + 1 \notin 1 .. g_ID
    OBVIOUS
  <2>2. k # 1
    BY <1>6, <2>1 DEF Welcome
  <2>3. k # w + 2
    BY <1>6, <2>1 DEF Welcome
  <2>4. k \in 2 .. w + 1
    BY <2>2, <2>3
  <2>5. QED
    BY <1>2, <2>4
<1>7. ASSUME NEW k \in 2 .. w + 1, NEW l \in 2 .. w + 1, k < l
      PROVE  A[k].id # A[l].id
  <2>1. k - 1 \in 1 .. w /\ l - 1 \in 1 .. w /\ k - 1 < l - 1
    BY <1>7
  <2>2. PICK p, q : p = order[k - 1] /\ q = order[l - 1]
    OBVIOUS
  <2>3. p # q /\ p \in Star!Players /\ q \in Star!Players
    BY <1>1, <2>1, <2>2
  <2>4. A[k].id = Player_List[p].id /\ A[l].id = Player_List[q].id
    BY <1>2, <2>2
  <2>5. QED
    BY <2>3, <2>4 DEF Different
<1>8. ASSUME NEW j \in 1 .. g_ID PROVE Aligned(K, A, j)
  <2>1. SUFFICES ASSUME NEW k \in 1 .. w + 2, A[k].id = j
        PROVE  A[k].type = 1 /\ \A l \in 1 .. k - 1 : A[l].id # j
    BY DEF Aligned
  <2>2. k \in 2 .. w + 1 /\ A[k].type = 1
    BY <1>6, <2>1
  <2>3. ASSUME NEW l \in 1 .. k - 1, A[l].id = j PROVE FALSE
    <3>1. l \in 1 .. w + 2 /\ A[l].id \in 1 .. g_ID
      BY <2>3
    <3>2. l \in 2 .. w + 1 /\ l < k
      BY <1>6, <3>1
    <3>3. A[l].id # A[k].id
      BY <1>7, <2>2, <3>2
    <3>4. QED
      BY <2>1, <2>3, <3>3
  <2>4. QED
    BY <2>2, <2>3
<1>9. ASSUME NEW p \in Star!Players
      PROVE  Shows(K, A, Player_List[p].id, Player_List[p].x)
  <2>1. PICK h \in 1 .. w : order[h] = p
    BY <1>1
  <2>2. PICK k \in 2 .. w + 1 : k = h + 1
    OBVIOUS
  <2>3. A[k].id = Player_List[p].id /\ A[k].x = Player_List[p].x
    BY <2>1, <2>2 DEF Welcome
  <2>4. Player_List[p].id \in 1 .. g_ID
    OBVIOUS
  <2>5. ASSUME NEW l \in k + 1 .. w + 2, A[l].id = Player_List[p].id PROVE FALSE
    <3>1. l \in 1 .. w + 2 /\ A[l].id \in 1 .. g_ID
      BY <2>4, <2>5
    <3>2. l \in 2 .. w + 1 /\ k < l
      BY <1>6, <3>1
    <3>3. A[k].id # A[l].id
      BY <1>7, <3>2
    <3>4. QED
      BY <2>3, <2>5, <3>3
  <2>6. \A l \in 1 .. w + 2 : A[l].id = Player_List[p].id => A[l].type # 2
    BY <1>6, <2>4
  <2>7. PICK e, x : e = Player_List[p].id /\ x = Player_List[p].x
    OBVIOUS
  <2>8. /\ k \in 1 .. w + 2 /\ A[k].id = e /\ A[k].x = x
        /\ \A l \in k + 1 .. w + 2 : A[l].id # e
        /\ \A l \in 1 .. w + 2 : A[l].id = e => A[l].type # 2
    BY <2>3, <2>5, <2>6, <2>7
  <2>9. Shows(K, A, e, x)
    BY <2>8 DEF Shows
  <2>10. QED
    BY <2>7, <2>9
<1>10. ASSUME NEW j \in 1 .. g_ID, \A p \in Star!Players : Player_List[p].id # j
      PROVE  Forgets(K, A, j)
  <2>1. \A k \in 1 .. w + 2 : A[k].id # j
    BY <1>2, <1>6, <1>10
  <2>2. QED
    BY <2>1 DEF Forgets
<1>11. QED
  BY <1>4, <1>5, <1>8, <1>9, <1>10 DEF ShowsWelcome

LEMMA StarCardinality == \A S : Star!Cardinality(S) = Cardinality(S)
BY DEF Star!Cardinality, Cardinality

(* What the new player's socket is sent before its star.                    *)
IsTold(told, order, w) ==
  /\ IsOrder(order, w)
  /\ told \in Seq(Messages) /\ Len(told) = w + 1
  /\ told[1].type = 0 /\ told[1].id = g_ID + 1
  /\ \A k \in 1 .. w : /\ told[k + 1].type = 1
                        /\ told[k + 1].id = Player_List[order[k]].id
                        /\ told[k + 1].x = Player_List[order[k]].x

LEMMA ToldExisting ==
  ASSUME StarInv, NEW order \in Star!Orders(Star!Players), NEW told,
         told = << Star!Assigned(g_ID + 1) >> \o Star!Existing(order)
  PROVE  \E w \in Nat : IsTold(told, order, w)
<1>1. PICK w \in Nat : w = Star!Cardinality(Star!Players)
  <2>1. IsFiniteSet(Star!Players)
    BY StarAssumption, FS_Subset DEF StarInv, StarTypes
  <2>2. QED
    BY <2>1, FS_CardinalityType, StarCardinality
<1>2. /\ order \in [ 1 .. w -> Star!Players ]
      /\ \A p \in Star!Players : \E k \in 1 .. w : order[k] = p
      /\ \A k, l \in 1 .. w : k < l => order[k] < order[l]
  BY <1>1 DEF Star!Orders, Star!Range
<1>3. \A k, l \in 1 .. w : k < l => order[k] # order[l]
  <2>1. \A k \in 1 .. w : order[k] \in Int
    BY <1>2, StarAssumption DEF StarInv, StarTypes
  <2>2. QED
    BY <1>2, <2>1
<1>4. PICK E : E = Star!Existing(order)
  OBVIOUS
<1>5. ASSUME NEW k \in 1 .. w
      PROVE  /\ E[k] \in Messages /\ E[k].type = 1 /\ E[k].id = Player_List[order[k]].id
             /\ E[k].x = Player_List[order[k]].x
  <2>1. PICK p \in Star!Players : p = order[k]
    BY <1>2
  <2>2. Player_List[p].id \in Nat /\ Player_List[p].x \in Int
    BY DEF StarInv, StarTypes
  <2>3. E[k] = [ type |-> 1, id |-> Player_List[p].id, x |-> Player_List[p].x ]
    BY <1>2, <1>4, <2>1 DEF Star!Existing, Star!Created
  <2>4. QED
    BY <2>1, <2>2, <2>3 DEF Messages
<1>6. E \in [ 1 .. w -> Messages ]
  BY <1>2, <1>4, <1>5 DEF Star!Existing
<1>7. E \in Seq(Messages) /\ Len(E) = w
  BY <1>6, SeqDef
<1>8. PICK a : a = Star!Assigned(g_ID + 1)
  OBVIOUS
<1>9. a \in Messages /\ a.type = 0 /\ a.id = g_ID + 1
  <2>1. g_ID + 1 \in Nat
    BY DEF StarInv, StarTypes
  <2>2. a = [ type |-> 0, id |-> g_ID + 1, x |-> 0 ]
    BY <1>8 DEF Star!Assigned
  <2>3. QED
    BY <2>1, <2>2 DEF Messages
<1>10. PICK A : A = << a >>
  OBVIOUS
<1>11. A \in Seq(Messages) /\ Len(A) = 1 /\ A[1] = a
  BY <1>9, <1>10
<1>12. /\ told \in Seq(Messages) /\ Len(told) = 1 + w
       /\ \A k \in 1 .. 1 + w : told[k] = IF k <= 1 THEN A[k] ELSE E[k - 1]
  <2>1. told = A \o E
    BY <1>4, <1>8, <1>10
  <2>2. QED
    <3>1. PICK C : C = A \o E
      OBVIOUS
    <3>2. /\ C \in Seq(Messages) /\ Len(C) = Len(A) + Len(E)
          /\ \A k \in 1 .. Len(A) + Len(E) : C[k] = IF k <= Len(A) THEN A[k] ELSE E[k - Len(A)]
      BY <1>7, <1>11, <3>1, ConcatProperties
    <3>3. QED
      BY <1>7, <1>11, <2>1, <3>1, <3>2
<1>13. told[1] = a /\ \A k \in 1 .. w : told[k + 1] = E[k]
  BY <1>11, <1>12
<1>14. /\ told[1].type = 0 /\ told[1].id = g_ID + 1
       /\ \A k \in 1 .. w : /\ told[k + 1].type = 1
                             /\ told[k + 1].id = Player_List[order[k]].id
                             /\ told[k + 1].x = Player_List[order[k]].x
  BY <1>5, <1>9, <1>13
<1>15. Len(told) = w + 1
  BY <1>12
<1>16. QED
  BY <1>2, <1>3, <1>12, <1>14, <1>15 DEF IsTold, IsOrder

(* A player comes: it is told of the others, and they of it. *)
LEMMA NewPlayerKeeps == ASSUME StarInv, NEW s \in Sockets, Star!NewPlayer(s) PROVE StarInv'
<1>1. PICK order \in Star!Orders(Star!Players) :
        LET told == << Star!Assigned(g_ID + 1) >> \o Star!Existing(order)
            sent == IF Len(told) <= Room THEN told ELSE SubSeq(told, 1, Room)
        IN  Star!Broadcast(Star!Created(g_ID + 1, Star!Center), Star!Players \cup {s},
                           [ inbox EXCEPT ![s] = sent ], IF Len(told) <= Room THEN {} ELSE {s})
  BY DEF Star!NewPlayer
<1>2. /\ conn[s] = "waiting" /\ star = "accept" /\ star' = "recv"
      /\ g_ID' = g_ID + 1 /\ conn' = [ conn EXCEPT ![s] = "open" ]
      /\ isSet' = isSet /\ batch' = batch /\ outbox' = outbox /\ me' = me /\ others' = others
  BY DEF Star!NewPlayer, Star!client
<1>3. PICK told, sent, lost :
        /\ told = << Star!Assigned(g_ID + 1) >> \o Star!Existing(order)
        /\ sent = (IF Len(told) <= Room THEN told ELSE SubSeq(told, 1, Room))
        /\ lost = (IF Len(told) <= Room THEN {} ELSE {s})
  OBVIOUS
<1>4. PICK w \in Nat : IsTold(told, order, w)
  BY <1>3, ToldExisting
<1>5. /\ IsOrder(order, w)
       /\ told \in Seq(Messages) /\ Len(told) = w + 1
       /\ told[1].type = 0 /\ told[1].id = g_ID + 1
       /\ \A k \in 1 .. w : /\ told[k + 1].type = 1
                             /\ told[k + 1].id = Player_List[order[k]].id
                             /\ told[k + 1].x = Player_List[order[k]].x
  BY <1>4 DEF IsTold
<1>6. PICK g \in Nat : g = g_ID + 1
  BY DEF StarInv, StarTypes
<1>7. PICK c \in Int : c = Star!Center
  BY StarAssumption DEF Star!Center
<1>8. PICK m : m = Star!Created(g, c)
  OBVIOUS
<1>9. m \in Messages /\ m.type = 1 /\ m.id = g /\ m.x = c
  BY <1>8 DEF Star!Created, Messages
<1>10. s \notin Star!Players /\ me[s].id = 0 /\ DOMAIN others[s] = {}
  BY <1>2 DEF StarInv, Connected
<1>11. PICK P \in SUBSET Sockets : P = Star!Players \cup {s}
  BY DEF StarInv, StarTypes
<1>12. PICK box : box = [ inbox EXCEPT ![s] = sent ]
  OBVIOUS
<1>13. /\ box \in [ Sockets -> Seq(Messages) ] /\ box[s] = sent
       /\ \A q \in Sockets : q # s => box[q] = inbox[q]
  <2>1. ASSUME ~ (Len(told) <= Room) PROVE SubSeq(told, 1, Room) \in Seq(Messages)
    BY <1>5, <2>1, StarAssumption, SubSeqProperties
  <2>2. sent \in Seq(Messages)
    BY <1>3, <1>5, <2>1
  <2>3. QED
    BY <1>12, <2>2 DEF StarInv, StarTypes
<1>14. HaveBeenTold(m, P, box, lost)
  <2>1. Star!Broadcast(m, P, box, lost)
    BY <1>1, <1>3, <1>6, <1>7, <1>8, <1>11, <1>12
  <2>2. QED
    BY <1>9, <1>13, <2>1, Told
<1>15. /\ Star!Players' = P
       /\ Player_List'[s] = [ id |-> g, x |-> c ]
       /\ \A p \in Star!Players : p # s /\ Player_List'[p] = Player_List[p]
       /\ Player_List' \in [ P -> [ id : 1 .. g, x : Int ] ]
  <2>1. Player_List' = [ p \in P |-> IF p = s THEN [ id |-> g, x |-> c ] ELSE Player_List[p] ]
    BY <1>6, <1>7, <1>11 DEF Star!NewPlayer
  <2>2. Star!Players' = P
    BY <2>1 DEF Star!Players
  <2>3. ASSUME NEW p \in Star!Players PROVE p # s /\ Player_List[p] \in [ id : 1 .. g, x : Int ]
    <3>1. Player_List[p] \in [ id : 1 .. g_ID, x : Int ] /\ 1 .. g_ID \subseteq 1 .. g
      BY <1>6 DEF StarInv, StarTypes
    <3>2. QED
      BY <1>10, <3>1
  <2>4. [ id |-> g, x |-> c ] \in [ id : 1 .. g, x : Int ]
    BY <1>6 DEF StarInv, StarTypes
  <2>5. QED
    BY <1>11, <2>1, <2>2, <2>3, <2>4
<1>16. StarTypes'
  BY <1>2, <1>6, <1>11, <1>14, <1>15 DEF StarInv, StarTypes, HaveBeenTold
<1>17. Connected'
  <2>1. conn'[s] = "open" /\ \A q \in Sockets : q # s => conn'[q] = conn[q]
    BY <1>2 DEF StarInv, StarTypes
  <2>2. set_Delete_List' \subseteq P /\ missed' \subseteq P /\ isSet' \subseteq P
    BY <1>2, <1>3, <1>11, <1>14 DEF StarInv, Connected, HaveBeenTold
  <2>3. QED
    BY <1>2, <1>11, <1>15, <2>1, <2>2 DEF StarInv, Connected
<1>18. Different'
  <2>1. \A p \in Star!Players : Player_List[p].id # g
    BY <1>6 DEF StarInv, StarTypes
  <2>2. QED
    BY <1>11, <1>15, <2>1 DEF StarInv, Different
<1>19. ASSUME NEW q \in Star!Players, Hears(q)' PROVE Informed(q)'
  <2>1. q # s /\ q \in Sockets /\ q \in P /\ Player_List'[q] = Player_List[q]
    BY <1>11, <1>15 DEF StarInv, StarTypes
  <2>2. conn[q] = "open" /\ q \notin missed /\ q \notin missed'
    BY <1>2, <1>14, <1>19, <2>1 DEF Hears, StarInv, StarTypes, HaveBeenTold
  <2>3. Informed(q) /\ inbox[q] \in Seq(Messages)
    BY <2>1, <2>2 DEF StarInv, Hears, StarTypes
  <2>4. inbox'[q] = Append(inbox[q], m)
    BY <1>13, <1>14, <2>1, <2>2 DEF HaveBeenTold
  <2>5. HasHeard(q, m)
    <3>1. m.type # 0 /\ m.id \in 1 .. g_ID' /\ g_ID' \in {g_ID, g_ID + 1} /\ g_ID \in Nat
      BY <1>2, <1>6, <1>9 DEF StarInv, StarTypes
    <3>2. Player_List[q].id \in 1 .. g_ID
      BY DEF StarInv, StarTypes
    <3>3. others'[q] = others[q] /\ me'[q].id = me[q].id /\ Player_List'[q].id = Player_List[q].id
      BY <1>2, <2>1
    <3>4. QED
      BY <1>9, <2>3, <2>4, <3>1, <3>2, <3>3, HeardOn
  <2>6. \A j \in Strangers(q)' : j = g \/ (j \in Strangers(q) /\ j # g)
    BY <1>2, <1>6, <2>1 DEF Strangers, StarInv, StarTypes
  <2>7. Aligned(others'[q], inbox'[q], g) /\ Shows(others'[q], inbox'[q], g, c)
    <3>1. g \notin 1 .. g_ID
      BY <1>6 DEF StarInv, StarTypes
    <3>2. g \notin DOMAIN others[q]
      BY <2>3, <3>1 DEF Informed, Strangers
    <3>3. g \notin DOMAIN others[q] /\ \A k \in 1 .. Len(inbox[q]) : inbox[q][k].id # g
      BY <2>3, <3>1, <3>2 DEF Informed
    <3>4. others'[q] = others[q]
      BY <1>2
    <3>5. QED
      BY <1>9, <2>3, <2>4, <3>3, <3>4, AppendCreated
  <2>8. \A j \in Strangers(q)' : Aligned(others'[q], inbox'[q], j)
    BY <1>9, <2>5, <2>6, <2>7 DEF HasHeard
  <2>9. ASSUME NEW p \in P \ {q}
        PROVE  Shows(others'[q], inbox'[q], Player_List'[p].id, Player_List'[p].x)
    <3>1. CASE p = s
      BY <1>15, <2>7, <3>1
    <3>2. CASE p # s
      <4>1. p \in Star!Players /\ Player_List'[p] = Player_List[p]
        BY <1>11, <1>15, <3>2
      <4>2. Player_List[p].id \in Strangers(q) /\ Player_List[p].id # m.id
        <5>1. Player_List[p].id \in 1 .. g_ID
          BY <4>1 DEF StarInv, StarTypes
        <5>2. Player_List[p].id # Player_List[q].id
          BY <3>2, <4>1 DEF StarInv, Different
        <5>3. g \notin 1 .. g_ID
          BY <1>6 DEF StarInv, StarTypes
        <5>4. QED
          BY <1>9, <5>1, <5>2, <5>3 DEF Strangers
      <4>3. Shows(others[q], inbox[q], Player_List[p].id, Player_List[p].x)
        BY <2>3, <4>1 DEF Informed
      <4>4. QED
        BY <2>5, <4>1, <4>2, <4>3 DEF HasHeard
    <3>3. QED
      BY <3>1, <3>2
  <2>10. ASSUME NEW j \in Strangers(q)', \A p \in P : Player_List'[p].id # j
         PROVE  Forgets(others'[q], inbox'[q], j)
    <3>1. j # g
      BY <1>11, <1>15, <2>10
    <3>2. j \in Strangers(q) /\ \A p \in Star!Players : Player_List[p].id # j
      BY <1>11, <1>15, <2>6, <2>10, <3>1
    <3>3. Forgets(others[q], inbox[q], j)
      BY <2>3, <3>2 DEF Informed
    <3>4. QED
      BY <1>9, <2>5, <3>1, <3>2, <3>3 DEF HasHeard
  <2>11. QED
    BY <1>15, <2>5, <2>8, <2>9, <2>10 DEF Informed, HasHeard
<1>20. ASSUME Hears(s)' PROVE Informed(s)'
  <2>1. s \notin missed' /\ s \notin lost /\ s \in P
    BY <1>11, <1>14, <1>20 DEF Hears, HaveBeenTold
  <2>2. sent = told
    BY <1>3, <2>1
  <2>3. PICK A : A = inbox'[s]
    OBVIOUS
  <2>4. A = Append(told, m)
    BY <1>13, <1>14, <2>1, <2>2, <2>3 DEF HaveBeenTold
  <2>5. /\ Len(A) = w + 2 /\ A[w + 2] = m
        /\ \A k \in 1 .. w + 1 : A[k] = told[k]
    BY <1>5, <2>4
  <2>6. Welcome(A, w, order)
    <3>1. A[1] = told[1] /\ \A k \in 1 .. w : A[k + 1] = told[k + 1]
      BY <2>5
    <3>2. QED
      BY <1>5, <1>6, <1>9, <2>5, <3>1 DEF Welcome
  <2>7. PICK K : K = others'[s] /\ DOMAIN K = {}
    BY <1>2, <1>10
  <2>8. /\ \A k \in 1 .. w + 2 : A[k].id \in 1 .. g_ID + 1
        /\ \A k \in 2 .. w + 2 : A[k].type # 0
        /\ \A j \in 1 .. g_ID : Aligned(K, A, j)
        /\ \A p \in Star!Players : Shows(K, A, Player_List[p].id, Player_List[p].x)
        /\ \A j \in 1 .. g_ID :
             (\A p \in Star!Players : Player_List[p].id # j) => Forgets(K, A, j)
    <3>1. g_ID \in Nat /\ Different /\ \A p \in Star!Players : Player_List[p].id \in 1 .. g_ID
      BY DEF StarInv, StarTypes
    <3>2. ShowsWelcome(K, A, w)
      BY <1>5, <2>5, <2>6, <2>7, <3>1, Welcomed
    <3>3. QED
      BY <3>2 DEF ShowsWelcome
  <2>9. Strangers(s)' = 1 .. g_ID
    BY <1>2, <1>6, <1>15 DEF Strangers, StarInv, StarTypes
  <2>10. Greeted(s)'
    <3>1. A # << >>
      BY <2>4, <2>5
    <3>2. A[1].type = 0 /\ A[1].id = Player_List'[s].id
      BY <1>6, <1>15, <2>6 DEF Welcome
    <3>3. QED
      BY <2>3, <2>5, <2>7, <2>8, <3>1, <3>2 DEF Greeted
  <2>11. \A p \in P \ {s} : Shows(K, A, Player_List'[p].id, Player_List'[p].x)
    BY <1>11, <1>15, <2>8
  <2>12. ASSUME NEW j \in 1 .. g_ID, \A p \in P : Player_List'[p].id # j
         PROVE  Forgets(K, A, j)
    BY <1>11, <1>15, <2>8, <2>12
  <2>13. \A k \in 1 .. Len(A) : A[k].id \in 1 .. g_ID'
    BY <1>2, <2>5, <2>8
  <2>14. QED
    BY <1>15, <2>3, <2>7, <2>8, <2>9, <2>10, <2>11, <2>12, <2>13 DEF Informed
<1>21. QED
  BY <1>11, <1>15, <1>16, <1>17, <1>18, <1>19, <1>20 DEF StarInv

(* What a client does alone, and what the server does with its lists alone. *)
LEMMA ConnectKeeps == ASSUME StarInv, NEW s \in Sockets, Star!Connect(s) PROVE StarInv'
<1>1. /\ conn[s] = "none" /\ conn' = [ conn EXCEPT ![s] = "waiting" ]
      /\ me' = [ me EXCEPT ![s] = [ id |-> 0, x |-> Star!NoStar ] ]
      /\ others' = [ others EXCEPT ![s] = Star!Nothing ]
      /\ UNCHANGED << star, isSet, batch, g_ID, Player_List, set_Delete_List, inbox, outbox,
                      missed >>
  BY DEF Star!Connect, Star!server
<1>2. Star!NoStar \in Int /\ DOMAIN Star!Nothing = {}
  BY DEF Star!NoStar, Star!Nothing
<1>3. Star!Players' = Star!Players /\ s \notin Star!Players
  BY <1>1 DEF Star!Players, StarInv, Connected
<1>4. /\ conn'[s] = "waiting" /\ me'[s].id = 0 /\ DOMAIN others'[s] = {}
      /\ \A q \in Sockets : q # s => conn'[q] = conn[q] /\ me'[q] = me[q] /\ others'[q] = others[q]
  BY <1>1, <1>2 DEF StarInv, StarTypes
<1>5. StarTypes'
  <2>1. me' \in [ Sockets -> [ id : Nat, x : Int ] ]
    BY <1>1, <1>2 DEF StarInv, StarTypes
  <2>2. others' = [ q \in Sockets |-> others'[q] ]
    BY <1>1 DEF StarInv, StarTypes
  <2>3. conn' \in [ Sockets -> {"none", "waiting", "aborted", "open", "closed", "reset"} ]
    BY <1>1 DEF StarInv, StarTypes
  <2>4. QED
    BY <1>1, <1>3, <2>1, <2>2, <2>3 DEF StarInv, StarTypes
<1>6. Connected' /\ Different'
  BY <1>1, <1>3, <1>4 DEF StarInv, Connected, Different
<1>7. ASSUME NEW q \in Star!Players, Hears(q)' PROVE Informed(q)'
  <2>1. q \in Sockets /\ q # s
    BY <1>3 DEF StarInv, StarTypes
  <2>2. Informed(q)
    BY <1>1, <1>4, <1>7, <2>1 DEF StarInv, Hears
  <2>3. QED
    BY <1>1, <1>4, <2>1, <2>2, StillInformed
<1>8. QED
  BY <1>3, <1>5, <1>6, <1>7 DEF StarInv

LEMMA MoveKeeps == ASSUME StarInv, NEW s \in Sockets, Star!Move(s) PROVE StarInv'
<1>1. PICK dx \in {-1, 1} :
        /\ conn[s] = "open"
        /\ me' = [ me EXCEPT ![s].x = Star!OnScreen(me[s].x + dx) ]
        /\ outbox' = [ outbox EXCEPT ![s] = Append(@, Star!OnScreen(me[s].x + dx)) ]
        /\ UNCHANGED << star, isSet, batch, g_ID, Player_List, set_Delete_List, conn, inbox,
                        missed, others >>
  BY DEF Star!Move, Star!server
<1>2. PICK x \in Int : x = Star!OnScreen(me[s].x + dx)
  BY StarAssumption DEF Star!OnScreen, StarInv, StarTypes
<1>3. Star!Players' = Star!Players
  BY <1>1 DEF Star!Players
<1>4. \A q \in Sockets : me'[q].id = me[q].id
  BY <1>1, <1>2 DEF StarInv, StarTypes
<1>5. StarTypes'
  <2>1. me' \in [ Sockets -> [ id : Nat, x : Int ] ]
    BY <1>1, <1>2 DEF StarInv, StarTypes
  <2>2. outbox' \in [ Sockets -> Seq(Int) ]
    <3>1. Append(outbox[s], x) \in Seq(Int)
      BY <1>2, AppendProperties DEF StarInv, StarTypes
    <3>2. QED
      BY <1>1, <1>2, <3>1 DEF StarInv, StarTypes
  <2>3. QED
    BY <1>1, <1>3, <2>1, <2>2 DEF StarInv, StarTypes
<1>6. Connected' /\ Different'
  BY <1>1, <1>3, <1>4 DEF StarInv, Connected, Different
<1>7. ASSUME NEW q \in Star!Players, Hears(q)' PROVE Informed(q)'
  <2>1. q \in Sockets /\ Informed(q)
    BY <1>1, <1>7 DEF StarInv, StarTypes, Hears
  <2>2. QED
    BY <1>1, <1>4, <2>1, StillInformed
<1>8. QED
  BY <1>3, <1>5, <1>6, <1>7 DEF StarInv

LEMMA EndKeeps == ASSUME StarInv, NEW s \in Sockets, Star!End(s) PROVE StarInv'
<1>1. /\ \/ conn[s] = "open" /\ \E c \in {"closed", "reset"} : conn' = [ conn EXCEPT ![s] = c ]
         \/ conn[s] = "waiting" /\ conn' = [ conn EXCEPT ![s] = "aborted" ]
      /\ UNCHANGED << star, isSet, batch, g_ID, Player_List, set_Delete_List, inbox, outbox,
                      missed, me, others >>
  BY DEF Star!End, Star!server, Star!client
<1>2. Star!Players' = Star!Players
  BY <1>1 DEF Star!Players
<1>3. /\ conn' \in [ Sockets -> {"none", "waiting", "aborted", "open", "closed", "reset"} ]
      /\ \/ conn[s] = "open" /\ conn'[s] \in {"closed", "reset"}
         \/ conn[s] = "waiting" /\ conn'[s] = "aborted"
      /\ \A q \in Sockets : q # s => conn'[q] = conn[q]
  BY <1>1 DEF StarInv, StarTypes
<1>4. StarTypes'
  BY <1>1, <1>2, <1>3 DEF StarInv, StarTypes
<1>5. Connected' /\ Different'
  BY <1>1, <1>2, <1>3 DEF StarInv, Connected, Different
<1>6. ASSUME NEW q \in Star!Players, Hears(q)' PROVE Informed(q)'
  <2>1. q \in Sockets /\ q # s
    BY <1>3, <1>6 DEF StarInv, StarTypes, Hears
  <2>2. Informed(q)
    BY <1>1, <1>3, <1>6, <2>1 DEF StarInv, Hears
  <2>3. QED
    BY <1>1, <2>2, StillInformed
<1>7. QED
  BY <1>2, <1>4, <1>5, <1>6 DEF StarInv

LEMMA RestKeeps ==
  ASSUME StarInv, UNCHANGED << g_ID, Player_List, Star!network, Star!client >>,
         set_Delete_List' = set_Delete_List, batch' = batch, isSet' \subseteq Star!Players,
         star' = "delete" => isSet' = {}
  PROVE  StarInv'
<1>1. UNCHANGED << conn, inbox, outbox, missed, me, others >>
  BY DEF Star!network, Star!client
<1>2. Star!Players' = Star!Players
  BY DEF Star!Players
<1>3. StarTypes'
  BY <1>1, <1>2 DEF StarInv, StarTypes
<1>4. Connected' /\ Different'
  BY <1>1, <1>2 DEF StarInv, Connected, Different
<1>5. ASSUME NEW q \in Star!Players, Hears(q)' PROVE Informed(q)'
  BY <1>1, <1>5, StillInformed DEF StarInv, Hears
<1>6. QED
  BY <1>2, <1>3, <1>4, <1>5 DEF StarInv
-----------------------------------------------------------------------------
LEMMA StarKeeps == StarInv /\ [Star!Next]_(Star!vars) => StarInv'
<1> SUFFICES ASSUME StarInv, [Star!Next]_(Star!vars) PROVE StarInv'
  OBVIOUS
<1>1. CASE UNCHANGED Star!vars
  BY <1>1, RestKeeps DEF Star!vars, Star!server, StarInv, Connected
<1>2. CASE Star!Select
  BY <1>2, RestKeeps DEF Star!Select
<1>3. CASE Star!NobodyNew
  BY <1>3, RestKeeps DEF Star!NobodyNew, StarInv, Connected
<1>4. CASE Star!Recv
  BY <1>4, RecvKeeps
<1>5. CASE Star!RecvEnd
  BY <1>5, RestKeeps DEF Star!RecvEnd
<1>14. CASE Star!RecvPacket
  BY <1>14, RecvPacketKeeps
<1>6. CASE Star!DisConnect
  BY <1>6, DisConnectKeeps
<1>7. CASE Star!DisConnectEnd
  BY <1>7, RestKeeps DEF Star!DisConnectEnd, StarInv, Connected
<1>8. ASSUME NEW s \in Sockets, Star!NewPlayer(s) PROVE StarInv'
  BY <1>8, NewPlayerKeeps
<1>9. ASSUME NEW s \in Sockets, Star!Abort(s) PROVE StarInv'
  BY <1>9, RestKeeps DEF Star!Abort, StarInv, Connected
<1>10. ASSUME NEW s \in Sockets, Star!Connect(s) PROVE StarInv'
  BY <1>10, ConnectKeeps
<1>11. ASSUME NEW s \in Sockets, Star!Handle(s) PROVE StarInv'
  BY <1>11, HandleKeeps
<1>12. ASSUME NEW s \in Sockets, Star!Move(s) PROVE StarInv'
  BY <1>12, MoveKeeps
<1>13. ASSUME NEW s \in Sockets, Star!End(s) PROVE StarInv'
  BY <1>13, EndKeeps
<1>15. QED
  BY <1>1, <1>2, <1>3, <1>4, <1>5, <1>6, <1>7, <1>8, <1>9, <1>10, <1>11, <1>12, <1>13, <1>14
  DEF Star!Next

LEMMA InformedShows == StarInv => StarsShown
<1> SUFFICES ASSUME StarInv PROVE StarsShown
  OBVIOUS
<1>1. Star!DeletedArePlayers
  BY DEF StarInv, Connected, Star!DeletedArePlayers
<1>2. ASSUME NEW s \in Star!Players, conn[s] = "open", inbox[s] = << >>, s \notin missed
      PROVE  /\ me[s].id = Player_List[s].id
             /\ DOMAIN others[s] = { Player_List[p].id : p \in Star!Players \ {s} }
             /\ \A p \in Star!Players \ {s} : others[s][Player_List[p].id] = Player_List[p].x
  <2>1. PICK B, K : B = inbox[s] /\ K = others[s]
    OBVIOUS
  <2>2. Len(B) = 0
    BY <1>2, <2>1
  <2>3. Informed(s)
    BY <1>2 DEF StarInv, Hears
  <2>4. me[s].id = Player_List[s].id
    BY <1>2, <2>3 DEF Informed, Greeted
  <2>5. ASSUME NEW p \in Star!Players \ {s}
        PROVE  Player_List[p].id \in DOMAIN K /\ K[Player_List[p].id] = Player_List[p].x
    <3>1. PICK e, x : e = Player_List[p].id /\ x = Player_List[p].x
      OBVIOUS
    <3>2. Shows(K, B, e, x)
      BY <2>1, <2>3, <3>1 DEF Informed
    <3>3. e \in DOMAIN K /\ K[e] = x
      BY <2>2, <3>2 DEF Shows
    <3>4. QED
      BY <3>1, <3>3
  <2>6. ASSUME NEW j \in DOMAIN K PROVE \E p \in Star!Players \ {s} : Player_List[p].id = j
    <3>1. j \in Strangers(s)
      BY <2>1, <2>3 DEF Informed
    <3>2. ~ Forgets(K, B, j)
      BY <2>2 DEF Forgets
    <3>3. PICK p \in Star!Players : Player_List[p].id = j
      BY <2>1, <2>3, <3>1, <3>2 DEF Informed
    <3>4. QED
      BY <3>1, <3>3 DEF Strangers
  <2>7. QED
    BY <2>1, <2>4, <2>5, <2>6
<1>3. Star!OthersShown
  BY <1>2 DEF Star!OthersShown
<1>4. QED
  BY <1>1, <1>3 DEF StarsShown

(* Only players are put on the list of players to delete, so that the loop *)
(* of DisConnect ends, and a client that has handled all it was sent, and  *)
(* from which nothing was kept, shows exactly the other players' stars,    *)
(* each where the server has it (main.cpp of the server and the client).   *)
THEOREM StarsAreShown == Star!Spec => []StarsShown
BY StarStarts, StarKeeps, InformedShows, PTL DEF Star!Spec
===============================================================================
