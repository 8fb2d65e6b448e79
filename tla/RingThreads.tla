---------------------------- MODULE RingThreads -----------------------------
(***************************************************************************)
(* C_RING_BUFFER between two threads that take no lock: the programs       *)
(* MULTTHREAD_TEST (QueuePush, QueuePop) and DIRECT_MULTTHREAD_TEST        *)
(* (QueueDirectPush, QueueDirectPop) of Library/Ring_Buffer/main.cpp.      *)
(*                                                                         *)
(* The producer alone writes _In, the consumer alone writes _Out.  A step  *)
(* is one read of the other thread's index, one memcpy, or one write of an *)
(* index: _In and _Out are plain members, so an expression that names the  *)
(* other thread's index twice may find two different values (it does in a  *)
(* build without optimisation).  Bytes are numbered as they leave the      *)
(* queue Q of the test; 0, 1, 2, ... is the order they have to come out in.*)
(***************************************************************************)
EXTENDS RingIndex, Sequences

CONSTANTS
  DirectTest,  \* which of the two programs
  RandMax,     \* RAND_MAX
  SizeT,       \* 2^64: size_t counts modulo this
  MaxBytes     \* bound: bytes taken from Q

ASSUME ThreadsAssumption ==
  /\ DirectTest \in BOOLEAN
  /\ RandMax \in Nat \ {0}
  /\ SizeT \in Nat
  /\ SizeT > FullSize
  /\ MaxBytes \in Nat

VARIABLES
  In, Out,   \* _In, _Out
  buf,       \* _Buffer
  \* producer
  ppc,       \* where it is: "size", "enter", "copy", "copy2", "move"
  pn,        \* RandomByteToExtract or MinDataSize
  pDirect,   \* Temp_DirectEnqueueSize
  next,      \* number of the next byte; it is TempBuf[0] while one is moved
  \* consumer
  cpc,       \* "use", "use2", "enter", "dequeue", "copy", "copy2", "move"
  cGe,       \* the comparison _In >= _Out of GetUseSize()
  cIn,       \* Temp_In
  cUse,      \* Temp_Use_Size
  cn,        \* RandomByteToExtract
  chunk,     \* dequeueBuf
  got        \* bytes handed to the caller so far

pvars == << ppc, pn, pDirect, next >>
cvars == << cpc, cGe, cIn, cUse, cn, chunk, got >>
vars  == << In, Out, buf, pvars, cvars >>

Blank == -1                     \* what new char[] left in a cell

Init ==
  /\ In = 0 /\ Out = 0
  /\ buf = [ c \in Index |-> Blank ]
  /\ ppc = "size" /\ pn = 0 /\ pDirect = 0 /\ next = 0
  /\ cpc = "use" /\ cGe = FALSE /\ cIn = 0 /\ cUse = 0 /\ cn = 0
  /\ chunk = << >> /\ got = 0

Least(a, b) == IF a <= b THEN a ELSE b

-----------------------------------------------------------------------------
(* The producer.  Locals are reset where they go out of scope.             *)

(* QueuePush and QueueDirectPush: a number of bytes that GetFreeSize       *)
(* allows; Q always holds that many.  Without a free cell: continue.       *)
PushSize ==
  /\ ppc = "size"
  /\ \E n \in 1 .. GetFreeSize(In, Out) :
       /\ next + n <= MaxBytes
       /\ pn' = n
  /\ ppc' = "enter"
  /\ UNCHANGED << In, Out, buf, pDirect, next, cvars >>

(* QueueDirectPush: MinDataSize. *)
PushDirect ==
  /\ DirectTest
  /\ ppc = "enter"
  /\ pn' = Least(pn, DirectEnqueueSize(In, Out))
  /\ pDirect' = pn'
  /\ ppc' = "copy"
  /\ UNCHANGED << In, Out, buf, next, cvars >>

(* Mutant: one more byte has to be free. *)
MutRefused == FullSize - GetUseSize(In, Out) <= pn + 1

Refused == FullSize - GetUseSize(In, Out) <= pn

(* Enqueue up to its copies.  QueuePush ignores the result: when 0 is      *)
(* returned the bytes taken from Q are gone.                               *)
Enqueue ==
  /\ ~ DirectTest
  /\ ppc = "enter"
  /\ IF Refused
     THEN /\ next' = next + pn
          /\ pn' = 0
          /\ pDirect' = 0
          /\ ppc' = "size"
     ELSE /\ pDirect' = DirectEnqueueSize(In, Out)
          /\ ppc' = "copy"
          /\ UNCHANGED << next, pn >>
  /\ UNCHANGED << In, Out, buf, cvars >>

(* The buffer when n bytes from number b on are copied to cell p and on. *)
Filled(b, p, n) ==
  [ c \in Index |-> IF c \in p .. p + n - 1 THEN b + (c - p) ELSE buf[c] ]

CopyIn ==
  /\ ppc = "copy"
  /\ buf' = Filled(next, In, Least(pn, pDirect))
  /\ ppc' = IF pn <= pDirect THEN "move" ELSE "copy2"
  /\ UNCHANGED << In, Out, pn, pDirect, next, cvars >>

CopyInRest ==
  /\ ppc = "copy2"
  /\ buf' = Filled(next + pDirect, 0, pn - pDirect)
  /\ ppc' = "move"
  /\ UNCHANGED << In, Out, pn, pDirect, next, cvars >>

MoveIn ==
  /\ ppc = "move"
  /\ In' = Moved(In, pn)
  /\ next' = next + pn
  /\ pn' = 0
  /\ pDirect' = 0
  /\ ppc' = "size"
  /\ UNCHANGED << Out, buf, cvars >>

-----------------------------------------------------------------------------
(* The consumer *)

(* GetUseSize() compares first ... *)
UseSize ==
  /\ cpc = "use"
  /\ cGe' = (In >= Out)
  /\ cpc' = "use2"
  /\ UNCHANGED << In, Out, buf, pvars, cIn, cUse, cn, chunk, got >>

(* Mutant: a buffer whose contents go round the end counts as empty. *)
MutRbUseSize == IF cGe THEN (In - Out) % SizeT ELSE 0

(* ... and reads _In again for the difference.                             *)
RbUseSize == IF cGe THEN (In - Out) % SizeT ELSE (FullSize - (Out - In)) % SizeT

(* Nothing to take: continue.  QueuePop draws the number of bytes here.    *)
UseSize2 ==
  /\ cpc = "use2"
  /\ \/ /\ RbUseSize = 0
        /\ cpc' = "use"
        /\ UNCHANGED cn
     \/ /\ RbUseSize # 0
        /\ cpc' = "enter"
        /\ \/ /\ DirectTest
              /\ UNCHANGED cn
           \/ /\ ~ DirectTest
              /\ cn' \in 1 .. Least(RbUseSize, RandMax)
  /\ cGe' = FALSE
  /\ UNCHANGED << In, Out, buf, pvars, cIn, cUse, chunk, got >>

(* QueueDirectPop draws the number of bytes from DirectDequeueSize(). *)
PopDirect ==
  /\ DirectTest
  /\ cpc = "enter"
  /\ cn' \in 1 .. DirectDequeueSize(In, Out)
  /\ cUse' = cn'
  /\ cpc' = "copy"
  /\ UNCHANGED << In, Out, buf, pvars, cGe, cIn, chunk, got >>

(* Dequeue reads _In into Temp_In ... *)
DequeueIn ==
  /\ ~ DirectTest
  /\ cpc = "enter"
  /\ cIn' = In
  /\ cpc' = "dequeue"
  /\ UNCHANGED << In, Out, buf, pvars, cGe, cUse, cn, chunk, got >>

(* ... and again for Temp_Use_Size. *)
DequeueUse ==
  /\ cpc = "dequeue"
  /\ cUse' = GetUseSize(In, Out)
  /\ IF cUse' = 0
     THEN cpc' = "use" /\ cn' = 0 /\ cIn' = 0
     ELSE cpc' = "copy" /\ UNCHANGED << cn, cIn >>
  /\ UNCHANGED << In, Out, buf, pvars, cGe, chunk, got >>

(* The bytes to be copied in all, and in the first memcpy. *)
Size  == Least(cn, cUse)
First == IF DirectTest THEN Size ELSE Least(Size, DirectDequeueSize(cIn, Out))

Bytes(p, n) == [ k \in 1 .. n |-> buf[p + k - 1] ]

CopyOut ==
  /\ cpc = "copy"
  /\ chunk' = Bytes(Out, First)
  /\ cpc' = IF First = Size THEN "move" ELSE "copy2"
  /\ UNCHANGED << In, Out, buf, pvars, cGe, cIn, cUse, cn, got >>

CopyOutRest ==
  /\ cpc = "copy2"
  /\ chunk' = chunk \o Bytes(0, Size - First)
  /\ cpc' = "move"
  /\ UNCHANGED << In, Out, buf, pvars, cGe, cIn, cUse, cn, got >>

(* Mutant: all that has arrived in the meantime counts as read. *)
MutReadPos == In

(* Where _Out goes: when more was asked for than there was, Dequeue sets   *)
(* it to what _In is by now.                                               *)
ReadPos == IF cn <= cUse THEN Moved(Out, cn) ELSE In

MoveOut ==
  /\ cpc = "move"
  /\ Out' = ReadPos
  /\ got' = got + Size
  /\ cpc' = "use" /\ cIn' = 0 /\ cUse' = 0 /\ cn' = 0 /\ chunk' = << >>
  /\ UNCHANGED << In, buf, pvars, cGe >>

-----------------------------------------------------------------------------
Producer == PushSize \/ PushDirect \/ Enqueue \/ CopyIn \/ CopyInRest \/ MoveIn
Consumer == \/ UseSize \/ UseSize2 \/ PopDirect \/ DequeueIn \/ DequeueUse
            \/ CopyOut \/ CopyOutRest \/ MoveOut

Next == Producer \/ Consumer

Spec == Init /\ [][Next]_vars

(* Both threads are scheduled again and again. *)
FairSpec == Spec /\ WF_vars(Producer) /\ WF_vars(Consumer)

-----------------------------------------------------------------------------
TypeOK ==
  /\ In \in Index /\ Out \in Index
  /\ buf \in [ Index -> Blank .. MaxBytes - 1 ]
  /\ ppc \in {"size", "enter", "copy", "copy2", "move"}
  /\ pn \in 0 .. FullSize - 1
  /\ pDirect \in 0 .. FullSize - 1
  /\ next \in 0 .. MaxBytes
  /\ cpc \in {"use", "use2", "enter", "dequeue", "copy", "copy2", "move"}
  /\ cGe \in BOOLEAN
  /\ cIn \in Index
  /\ cUse \in 0 .. FullSize - 1
  /\ cn \in 0 .. (IF DirectTest THEN FullSize - 1 ELSE RandMax)
  /\ chunk \in Seq(Blank .. MaxBytes - 1)
  /\ got \in 0 .. MaxBytes

(* However far the other thread has moved since an index was read: what    *)
(* the producer is about to write fits beside the unread bytes, with one   *)
(* cell to spare, and what the consumer is about to read has been written. *)
NoOverrun ==
  /\ ppc # "size" => pn + GetUseSize(In, Out) < FullSize
  /\ cpc \in {"copy", "copy2", "move"} => Size <= GetUseSize(In, Out)

(* The consumer is handed the bytes in the order they were written, each   *)
(* of them once and none left out.                                         *)
FifoOrder ==
  cpc = "move" => /\ Len(chunk) = Size
                  /\ \A k \in 1 .. Len(chunk) : chunk[k] = got + k - 1

(* QueuePush ignores the result of Enqueue; no byte is lost by that, since *)
(* Enqueue never refuses what GetFreeSize allowed.                         *)
NothingRefused == [][next' # next => In' # In]_vars

(* Seen through the two counters the buffer is a pipe of FullSize - 1      *)
(* bytes.                                                                  *)
P == INSTANCE Pipe WITH Capacity <- FullSize - 1, put <- next, got <- got
PipeSpec == P!Spec

(* Every byte that was written is read: the consumer catches up again and  *)
(* again, as the producer has MaxBytes bytes only.                         *)
EveryByteTaken == []<>(got = next)

(* C_Ring_Buffer.cpp:131-134 says that Dequeue takes data from the read    *)
(* position, moves the read position and returns the size taken: so the    *)
(* read position is where the bytes returned so far end.                   *)
ReadPosFollows == cpc = "use" => Out = Moved(got, 0)
=============================================================================
