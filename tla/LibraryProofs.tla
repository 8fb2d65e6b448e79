---------------------------- MODULE LibraryProofs ----------------------------
(***************************************************************************)
(* Two parts of the library, each with a section of its own.               *)
(*                                                                         *)
(* RingThreads for every size of the buffer and every number of bytes.     *)
(*                                                                         *)
(* The red-black tree of Parts for every set of keys: at every step of an  *)
(* insertion it is one tree with its keys in order, every way down has as  *)
(* many black nodes, and a red node with a red parent there is at the node *)
(* RBInsertFixup is at and nowhere else.                                   *)
(***************************************************************************)
EXTENDS RingThreads, Parts, FiniteSetTheorems, WellFoundedInduction, TLAPS

-----------------------------------------------------------------------------
(* RingThreads *)

(* A number between the divisor and its double. *)
LEMMA RemainderOnce ==
  ASSUME NEW d \in Nat, d > 1, NEW a \in Nat, a >= d, a < d + d
  PROVE  a % d = a - d
<1>1. (a - d) % d = a - d
  OBVIOUS
<1>2. a % d = (a - d) % d
  OBVIOUS
<1>3. QED
  BY <1>1, <1>2

(* Going round the end at most once is a subtraction. *)
LEMMA MovedValue ==
  ASSUME NEW p \in Index, NEW n \in 0 .. FullSize
  PROVE  /\ Moved(p, n) = IF p + n < FullSize THEN p + n ELSE p + n - FullSize
         /\ Moved(p, n) \in Index
<1>1. FullSize \in Nat /\ FullSize > 1 /\ p + n \in Nat /\ p + n < FullSize + FullSize
  BY FullSizeAssumption DEF Index
<1>2. CASE p + n < FullSize
  BY <1>1, <1>2 DEF Moved, Index
<1>3. CASE p + n >= FullSize
  <2>0. PICK a \in Nat : a = p + n
    BY <1>1
  <2>1. a % FullSize = a - FullSize
    <3>1. FullSize \in Nat /\ FullSize > 1 /\ a >= FullSize /\ a < FullSize + FullSize
      BY <1>1, <1>3, <2>0
    <3>2. QED
      BY <3>1, RemainderOnce, Zenon
  <2>2. QED
    BY <1>1, <1>3, <2>0, <2>1 DEF Moved, Index
<1>4. QED
  BY <1>1, <1>2, <1>3

(* Moving an index adds to, or takes from, what the buffer holds. *)
LEMMA UseAfterMove ==
  ASSUME NEW in \in Index, NEW out \in Index
  PROVE  /\ GetUseSize(in, out) \in 0 .. FullSize - 1
         /\ \A n \in Nat : n + GetUseSize(in, out) < FullSize =>
              GetUseSize(Moved(in, n), out) = GetUseSize(in, out) + n
         /\ \A n \in Nat : n <= GetUseSize(in, out) =>
              GetUseSize(in, Moved(out, n)) = GetUseSize(in, out) - n
<1>1. GetUseSize(in, out) \in 0 .. FullSize - 1
  BY FullSizeAssumption DEF GetUseSize, Index
<1>2. ASSUME NEW n \in Nat, n + GetUseSize(in, out) < FullSize
      PROVE  GetUseSize(Moved(in, n), out) = GetUseSize(in, out) + n
  <2>1. n \in 0 .. FullSize
    BY <1>1, <1>2, FullSizeAssumption
  <2>2. Moved(in, n) = IF in + n < FullSize THEN in + n ELSE in + n - FullSize
    BY <2>1, MovedValue
  <2>3. QED
    BY <1>2, <2>1, <2>2, FullSizeAssumption DEF GetUseSize, Index
<1>3. ASSUME NEW n \in Nat, n <= GetUseSize(in, out)
      PROVE  GetUseSize(in, Moved(out, n)) = GetUseSize(in, out) - n
  <2>1. n \in 0 .. FullSize
    BY <1>1, <1>3, FullSizeAssumption
  <2>2. Moved(out, n) = IF out + n < FullSize THEN out + n ELSE out + n - FullSize
    BY <2>1, MovedValue
  <2>3. QED
    BY <1>3, <2>1, <2>2, FullSizeAssumption DEF GetUseSize, Index
<1>4. QED
  BY <1>1, <1>2, <1>3

(* What can be moved without going round the end stays below it, and is no *)
(* more than is free or in use.                                            *)
LEMMA DirectSizes ==
  ASSUME NEW in \in Index, NEW out \in Index
  PROVE  /\ DirectEnqueueSize(in, out) \in 0 .. FullSize - in
         /\ GetFreeSize(in, out) > 0 => DirectEnqueueSize(in, out) > 0
         /\ DirectDequeueSize(in, out) \in 0 .. FullSize - out
         /\ DirectDequeueSize(in, out) <= GetUseSize(in, out)
<1>1. (in + 1) % FullSize = IF in + 1 < FullSize THEN in + 1 ELSE 0
  <2>1. Moved(in, 1) = IF in + 1 < FullSize THEN in + 1 ELSE 0
    BY MovedValue, FullSizeAssumption DEF Index
  <2>2. QED
    BY <2>1 DEF Moved
<1>2. (out + FullSize - 1) % FullSize = IF out = 0 THEN FullSize - 1 ELSE out - 1
  <2>1. Moved(out, FullSize - 1) = IF out = 0 THEN FullSize - 1 ELSE out - 1
    BY MovedValue, FullSizeAssumption DEF Index
  <2>2. out + (FullSize - 1) = out + FullSize - 1
    BY FullSizeAssumption DEF Index
  <2>3. QED
    BY <2>1, <2>2 DEF Moved
<1>3. QED
  BY <1>1, <1>2, FullSizeAssumption
     DEF DirectEnqueueSize, DirectDequeueSize, GetFreeSize, GetUseSize, Index

-----------------------------------------------------------------------------
(* The sizes, in both programs.  A size was computed from indexes read at  *)
(* different times; what makes it safe is that since then the other thread *)
(* can only have moved its index in the direction that leaves more room.   *)
SizesInv ==
  /\ In \in Index
  /\ Out \in Index
  /\ ppc \in {"size", "enter", "copy", "copy2", "move"}
  /\ pn \in Nat
  /\ next \in Nat
  /\ ppc # "size" => pn + GetUseSize(In, Out) < FullSize
  /\ cpc \in {"use", "use2", "enter", "dequeue", "copy", "copy2", "move"}
  /\ cn \in Nat
  /\ cUse \in Nat
  /\ cpc \in {"copy", "copy2", "move"} => Size <= GetUseSize(In, Out)

LEMMA SizesInit == Init => SizesInv
<1>1. SUFFICES ASSUME Init PROVE SizesInv
  OBVIOUS
<1>2. 0 \in Index
  BY FullSizeAssumption DEF Index
<1>3. ppc = "size" /\ cpc = "use" /\ In = 0 /\ Out = 0 /\ pn = 0 /\ next = 0 /\ cn = 0 /\ cUse = 0
  BY <1>1 DEF Init
<1>4. QED
  BY <1>2, <1>3 DEF SizesInv

LEMMA ProducerSizes ==
  ASSUME SizesInv, Producer
  PROVE  SizesInv'
<1>1. GetUseSize(In, Out) \in 0 .. FullSize - 1
  BY UseAfterMove DEF SizesInv
<1>2. CASE PushSize
  <2>1. pn' \in Nat /\ pn' + GetUseSize(In, Out) < FullSize
    BY <1>1, <1>2, FullSizeAssumption DEF PushSize, GetFreeSize
  <2>2. QED
    BY <1>2, <2>1 DEF PushSize, SizesInv, Size, Least, cvars
<1>3. CASE PushDirect
  <2>1. DirectEnqueueSize(In, Out) \in Nat
    BY DirectSizes, FullSizeAssumption DEF SizesInv, Index
  <2>2. pn' \in Nat /\ pn' <= pn
    BY <1>3, <2>1 DEF PushDirect, Least, SizesInv
  <2>3. pn' + GetUseSize(In, Out) < FullSize
    BY <1>1, <1>3, <2>2, FullSizeAssumption DEF PushDirect, SizesInv
  <2>4. QED
    BY <1>3, <2>2, <2>3 DEF PushDirect, SizesInv, Size, Least, cvars
<1>4. CASE Enqueue
  <2>1. ~ Refused
    BY <1>1, <1>4, FullSizeAssumption DEF Enqueue, Refused, SizesInv
  <2>2. QED
    BY <1>4, <2>1 DEF Enqueue, SizesInv, Size, Least, cvars
<1>5. CASE CopyIn
  <2>1. ppc' \in {"move", "copy2"}
    BY <1>5 DEF CopyIn
  <2>2. UNCHANGED << In, Out, pn, next, cpc, cn, cUse >> /\ ppc # "size"
    BY <1>5 DEF CopyIn, cvars
  <2>3. QED
    BY <2>1, <2>2 DEF SizesInv, Size, Least
<1>6. CASE CopyInRest
  BY <1>6 DEF CopyInRest, SizesInv, Size, Least, cvars
<1>7. CASE MoveIn
  <2>1. /\ Moved(In, pn) \in Index
        /\ GetUseSize(Moved(In, pn), Out) = GetUseSize(In, Out) + pn
    BY <1>1, <1>7, MovedValue, UseAfterMove, FullSizeAssumption DEF MoveIn, SizesInv
  <2>2. cpc \in {"copy", "copy2", "move"} => Size <= GetUseSize(In, Out) + pn
    BY <1>1 DEF SizesInv, Size, Least
  <2>3. /\ In' = Moved(In, pn)
        /\ ppc' = "size"
        /\ pn' = 0
        /\ next' = next + pn
        /\ UNCHANGED << Out, cpc, cn, cUse >>
    BY <1>7 DEF MoveIn, cvars
  <2>4. Size' = Size
    BY <2>3 DEF Size, Least
  <2>5. QED
    BY <2>1, <2>2, <2>3, <2>4 DEF SizesInv
<1>8. QED
  BY <1>2, <1>3, <1>4, <1>5, <1>6, <1>7 DEF Producer

LEMMA ConsumerSizes ==
  ASSUME SizesInv, Consumer
  PROVE  SizesInv'
<1>1. GetUseSize(In, Out) \in 0 .. FullSize - 1
  BY UseAfterMove DEF SizesInv
<1>2. CASE UseSize
  BY <1>2 DEF UseSize, SizesInv, pvars
<1>3. CASE UseSize2
  <2>1. cn' \in Nat
    BY <1>3 DEF UseSize2, SizesInv
  <2>2. cpc' \in {"use", "enter"}
    BY <1>3 DEF UseSize2
  <2>3. QED
    BY <1>3, <2>1, <2>2 DEF UseSize2, SizesInv, pvars
<1>4. CASE PopDirect
  <2>1. cn' \in Nat /\ cUse' = cn' /\ cn' <= GetUseSize(In, Out)
    BY <1>1, <1>4, DirectSizes, FullSizeAssumption DEF PopDirect, SizesInv, Index
  <2>2. QED
    BY <1>4, <2>1 DEF PopDirect, SizesInv, Size, Least, pvars
<1>5. CASE DequeueIn
  BY <1>5 DEF DequeueIn, SizesInv, pvars
<1>6. CASE DequeueUse
  <2>1. cUse' = GetUseSize(In, Out) /\ cn' \in Nat
    BY <1>6 DEF DequeueUse, SizesInv
  <2>2. Size' <= GetUseSize(In, Out)
    BY <1>1, <2>1 DEF Size, Least
  <2>3. cUse' \in Nat /\ cpc' \in {"use", "copy"}
    BY <1>1, <1>6, <2>1 DEF DequeueUse
  <2>4. QED
    BY <1>6, <2>1, <2>2, <2>3 DEF DequeueUse, SizesInv, pvars
<1>7. CASE CopyOut
  BY <1>7 DEF CopyOut, SizesInv, Size, Least, pvars
<1>8. CASE CopyOutRest
  BY <1>8 DEF CopyOutRest, SizesInv, Size, Least, pvars
<1>9. CASE MoveOut
  <2>1. Out' \in Index /\ GetUseSize(In, Out') <= GetUseSize(In, Out)
    <3>1. CASE cn <= cUse
      <4>1. cn <= GetUseSize(In, Out) /\ cn \in 0 .. FullSize
        BY <1>1, <1>9, <3>1, FullSizeAssumption DEF MoveOut, SizesInv, Size, Least
      <4>2. Out' = Moved(Out, cn)
        BY <1>9, <3>1 DEF MoveOut, ReadPos
      <4>3. QED
        BY <1>1, <4>1, <4>2, MovedValue, UseAfterMove DEF SizesInv
    <3>2. CASE ~ (cn <= cUse)
      <4>1. Out' = In
        BY <1>9, <3>2 DEF MoveOut, ReadPos
      <4>2. QED
        BY <1>1, <4>1 DEF SizesInv, GetUseSize, Index
    <3>3. QED
      BY <3>1, <3>2
  <2>2. GetUseSize(In, Out') \in 0 .. FullSize - 1
    BY <2>1, UseAfterMove DEF SizesInv
  <2>3. ppc # "size" => pn + GetUseSize(In, Out') < FullSize
    BY <1>1, <2>1, <2>2, FullSizeAssumption DEF SizesInv
  <2>4. QED
    BY <1>9, <2>1, <2>3 DEF MoveOut, SizesInv, pvars
<1>10. QED
  BY <1>2, <1>3, <1>4, <1>5, <1>6, <1>7, <1>8, <1>9 DEF Consumer

LEMMA SizesNext ==
  ASSUME SizesInv, [Next]_vars
  PROVE  SizesInv'
<1>1. CASE UNCHANGED vars
  BY <1>1 DEF vars, pvars, cvars, SizesInv, Size, Least
<1>2. QED
  BY <1>1, ProducerSizes, ConsumerSizes DEF Next

LEMMA SizesAlways == Spec => []SizesInv
<1>1. QED
  BY SizesInit, SizesNext, PTL DEF Spec

(* Whatever the schedule, in both programs, neither thread writes what the *)
(* other has still to read, or reads what has not been written.            *)
THEOREM NeitherOverruns == Spec => []NoOverrun
<1>1. SizesInv => NoOverrun
  BY DEF SizesInv, NoOverrun
<1>2. QED
  BY <1>1, SizesAlways, PTL

(* Enqueue never refuses what GetFreeSize allowed a moment before.         *)
THEOREM EnqueueAccepts == Spec => NothingRefused
<1>1. ASSUME SizesInv, [Next]_vars PROVE next' # next => In' # In
  <2>1. SUFFICES ASSUME next' # next PROVE In' # In
    OBVIOUS
  <2>2. GetUseSize(In, Out) \in 0 .. FullSize - 1
    BY <1>1, UseAfterMove DEF SizesInv
  <2>3. CASE Enqueue
    BY <1>1, <2>1, <2>2, <2>3, FullSizeAssumption DEF Enqueue, Refused, SizesInv
  <2>4. CASE MoveIn
    <3>1. pn # 0
      BY <1>1, <2>1, <2>4 DEF MoveIn, SizesInv
    <3>2. pn \in 1 .. FullSize - 1
      BY <1>1, <2>2, <2>4, <3>1, FullSizeAssumption DEF MoveIn, SizesInv
    <3>3. Moved(In, pn) = IF In + pn < FullSize THEN In + pn ELSE In + pn - FullSize
      BY <1>1, <3>2, MovedValue, FullSizeAssumption DEF SizesInv
    <3>4. Moved(In, pn) # In
      BY <1>1, <3>2, <3>3, FullSizeAssumption DEF SizesInv, Index
    <3>5. QED
      BY <2>4, <3>4 DEF MoveIn
  <2>5. QED
    BY <1>1, <2>1, <2>3, <2>4
       DEF Next, Producer, Consumer, PushSize, PushDirect, CopyIn, CopyInRest, UseSize,
           UseSize2, PopDirect, DequeueIn, DequeueUse, CopyOut, CopyOutRest, MoveOut,
           vars, pvars, cvars
<1>2. QED
  BY <1>1, SizesAlways, PTL DEF Spec, NothingRefused

-----------------------------------------------------------------------------
(* Cells *)

(* The unread bytes are in the cells from Out on; In follows the last one. *)
LEMMA UnreadCells ==
  ASSUME NEW in \in Index, NEW out \in Index, NEW n \in Nat,
         n + GetUseSize(in, out) < FullSize, in + n <= FullSize
  PROVE  /\ \A k \in 0 .. GetUseSize(in, out) - 1 :
              Moved(out, k) \in Index /\ Moved(out, k) \notin in .. in + n - 1
         /\ \A k \in GetUseSize(in, out) .. GetUseSize(in, out) + n - 1 :
              Moved(out, k) = in + (k - GetUseSize(in, out))
<1>1. GetUseSize(in, out) \in 0 .. FullSize - 1
  BY UseAfterMove
<1>2. ASSUME NEW k \in 0 .. GetUseSize(in, out) - 1
      PROVE  Moved(out, k) \in Index /\ Moved(out, k) \notin in .. in + n - 1
  <2>1. k \in 0 .. FullSize
    BY <1>1, <1>2, FullSizeAssumption
  <2>2. Moved(out, k) = IF out + k < FullSize THEN out + k ELSE out + k - FullSize
    BY <2>1, MovedValue
  <2>3. QED
    BY <1>1, <1>2, <2>2, FullSizeAssumption DEF GetUseSize, Index
<1>3. ASSUME NEW k \in GetUseSize(in, out) .. GetUseSize(in, out) + n - 1
      PROVE  Moved(out, k) = in + (k - GetUseSize(in, out))
  <2>1. k \in 0 .. FullSize
    BY <1>1, <1>3, FullSizeAssumption
  <2>2. Moved(out, k) = IF out + k < FullSize THEN out + k ELSE out + k - FullSize
    BY <2>1, MovedValue
  <2>3. QED
    BY <1>1, <1>3, <2>2, FullSizeAssumption DEF GetUseSize, Index
<1>4. QED
  BY <1>2, <1>3

(* Moving on twice is moving on by the sum. *)
LEMMA MovedTwice ==
  ASSUME NEW p \in Index, NEW n \in Nat, NEW k \in Nat, n + k < FullSize
  PROVE  Moved(Moved(p, n), k) = Moved(p, n + k)
<1>1. n \in 0 .. FullSize /\ k \in 0 .. FullSize /\ n + k \in 0 .. FullSize
  BY FullSizeAssumption
<1>2. /\ Moved(p, n) = IF p + n < FullSize THEN p + n ELSE p + n - FullSize
      /\ Moved(p, n) \in Index
  BY <1>1, MovedValue
<1>3. Moved(p, n + k) = IF p + (n + k) < FullSize THEN p + (n + k)
                        ELSE p + (n + k) - FullSize
  BY <1>1, MovedValue
<1>4. Moved(Moved(p, n), k) = IF Moved(p, n) + k < FullSize THEN Moved(p, n) + k
                              ELSE Moved(p, n) + k - FullSize
  BY <1>1, <1>2, MovedValue
<1>5. QED
  BY <1>2, <1>3, <1>4, FullSizeAssumption DEF Index

-----------------------------------------------------------------------------
(* The contents, in the program that copies from and to the buffer itself. *)
ProducerInv ==
  /\ ppc # "copy2"
  /\ ppc # "size" => pn > 0
  /\ ppc \in {"copy", "move"} => pDirect = pn /\ In + pn <= FullSize
  /\ ppc = "move" => \A k \in 0 .. pn - 1 : buf[In + k] = next + k

ConsumerInv ==
  /\ cpc \notin {"dequeue", "copy2"}
  /\ cpc \in {"copy", "move"} => cUse = cn /\ cn > 0 /\ Out + cn <= FullSize
  /\ cpc = "move" => chunk = [ k \in 1 .. cn |-> got + k - 1 ]

ContentsInv ==
  /\ got \in Nat
  /\ next = got + GetUseSize(In, Out)
  /\ buf \in [ Index -> Int ]
  /\ \A k \in 0 .. GetUseSize(In, Out) - 1 : buf[Moved(Out, k)] = got + k

FifoInv == SizesInv /\ ProducerInv /\ ConsumerInv /\ ContentsInv

LEMMA FifoInit == Init => FifoInv
<1>1. SUFFICES ASSUME Init PROVE FifoInv
  OBVIOUS
<1>2. SizesInv
  BY <1>1, SizesInit
<1>3. ppc = "size" /\ cpc = "use"
  BY <1>1 DEF Init
<1>4. ProducerInv /\ ConsumerInv
  BY <1>3 DEF ProducerInv, ConsumerInv
<1>5. In = 0 /\ Out = 0 /\ got = 0 /\ next = 0 /\ GetUseSize(In, Out) = 0
  BY <1>1 DEF Init, GetUseSize
<1>6. buf \in [ Index -> Int ]
  BY <1>1 DEF Init, Blank
<1>7. ContentsInv
  BY <1>5, <1>6 DEF ContentsInv
<1>8. QED
  BY <1>2, <1>4, <1>7 DEF FifoInv

LEMMA ProducerFifo ==
  ASSUME FifoInv, DirectTest, Producer
  PROVE  FifoInv'
<1>1. GetUseSize(In, Out) \in 0 .. FullSize - 1
  BY UseAfterMove DEF FifoInv, SizesInv
<1>2. SizesInv'
  BY ProducerSizes DEF FifoInv
<1>3. CASE PushSize
  <2>1. pn' > 0 /\ ppc' = "enter"
    BY <1>3 DEF PushSize
  <2>2. ProducerInv'
    BY <2>1 DEF ProducerInv
  <2>3. QED
    BY <1>2, <1>3, <2>2 DEF PushSize, FifoInv, ConsumerInv, ContentsInv, cvars
<1>4. CASE PushDirect
  <2>1. /\ DirectEnqueueSize(In, Out) \in 0 .. FullSize - In
        /\ DirectEnqueueSize(In, Out) > 0
    BY <1>1, <1>4, DirectSizes, FullSizeAssumption
       DEF PushDirect, FifoInv, SizesInv, ProducerInv, GetFreeSize
  <2>2. pn \in Nat /\ pn > 0 /\ In \in Int
    BY <1>4, FullSizeAssumption DEF PushDirect, FifoInv, SizesInv, ProducerInv, Index
  <2>3. pn' = Least(pn, DirectEnqueueSize(In, Out)) /\ pDirect' = pn' /\ ppc' = "copy"
    BY <1>4 DEF PushDirect
  <2>4. pn' > 0 /\ In + pn' <= FullSize
    BY <2>1, <2>2, <2>3, FullSizeAssumption DEF Least
  <2>5. ProducerInv'
    BY <1>4, <2>3, <2>4 DEF ProducerInv, PushDirect
  <2>6. QED
    BY <1>2, <1>4, <2>5 DEF PushDirect, FifoInv, ConsumerInv, ContentsInv, cvars
<1>5. CASE CopyIn
  <2>1. /\ pn \in Nat /\ pn > 0 /\ pDirect = pn /\ In + pn <= FullSize
        /\ pn + GetUseSize(In, Out) < FullSize /\ In \in Index /\ Out \in Index
    BY <1>5 DEF CopyIn, FifoInv, SizesInv, ProducerInv
  <2>2. buf' = Filled(next, In, pn) /\ ppc' = "move"
    BY <1>5, <2>1 DEF CopyIn, Least
  <2>3. ASSUME NEW k \in 0 .. pn - 1 PROVE buf'[In + k] = next + k
    <3>1. In + k \in Index /\ In + k \in In .. In + pn - 1 /\ (In + k) - In = k
      BY <2>1, <2>3, FullSizeAssumption DEF Index
    <3>2. QED
      BY <2>2, <3>1 DEF Filled
  <2>4. ASSUME NEW k \in 0 .. GetUseSize(In, Out) - 1
        PROVE  buf'[Moved(Out, k)] = got + k
    <3>1. Moved(Out, k) \in Index /\ Moved(Out, k) \notin In .. In + pn - 1
      BY <2>1, <2>4, UnreadCells
    <3>2. QED
      BY <2>2, <2>4, <3>1 DEF Filled, FifoInv, ContentsInv
  <2>5. buf' \in [ Index -> Int ]
    BY <2>1, <2>2, FullSizeAssumption DEF Filled, FifoInv, SizesInv, ContentsInv, Index
  <2>6. UNCHANGED << In, Out, pn, pDirect, next, cvars >>
    BY <1>5 DEF CopyIn
  <2>7. ProducerInv'
    BY <2>1, <2>2, <2>3, <2>6 DEF ProducerInv
  <2>8. ContentsInv'
    BY <2>4, <2>5, <2>6 DEF ContentsInv, FifoInv, cvars
  <2>9. QED
    BY <1>2, <2>6, <2>7, <2>8 DEF FifoInv, ConsumerInv, cvars
<1>6. CASE MoveIn
  <2>1. /\ pn \in Nat /\ pn > 0 /\ In + pn <= FullSize
        /\ pn + GetUseSize(In, Out) < FullSize /\ In \in Index /\ Out \in Index
        /\ \A k \in 0 .. pn - 1 : buf[In + k] = next + k
    BY <1>6 DEF MoveIn, FifoInv, SizesInv, ProducerInv
  <2>2. GetUseSize(In', Out) = GetUseSize(In, Out) + pn
    BY <1>6, <2>1, UseAfterMove DEF MoveIn
  <2>3. ASSUME NEW k \in 0 .. GetUseSize(In, Out) + pn - 1
        PROVE  buf[Moved(Out, k)] = got + k
    <3>1. CASE k < GetUseSize(In, Out)
      BY <1>1, <2>1, <2>3, <3>1 DEF FifoInv, ContentsInv
    <3>2. CASE k >= GetUseSize(In, Out)
      <4>1. k - GetUseSize(In, Out) \in 0 .. pn - 1
        BY <1>1, <2>1, <2>3, <3>2
      <4>2. Moved(Out, k) = In + (k - GetUseSize(In, Out))
        BY <1>1, <2>1, <2>3, <3>2, UnreadCells
      <4>3. QED
        BY <1>1, <2>1, <2>3, <4>1, <4>2 DEF FifoInv, ContentsInv
    <3>3. QED
      BY <1>1, <2>1, <2>3, <3>1, <3>2
  <2>4. UNCHANGED << Out, buf, cvars >> /\ next' = next + pn /\ ppc' = "size"
    BY <1>6 DEF MoveIn
  <2>5. ProducerInv'
    BY <2>4 DEF ProducerInv
  <2>6. ContentsInv'
    BY <1>1, <2>1, <2>2, <2>3, <2>4 DEF ContentsInv, FifoInv, cvars
  <2>7. QED
    BY <1>2, <2>4, <2>5, <2>6 DEF FifoInv, ConsumerInv, cvars
<1>7. ~ Enqueue /\ ~ CopyInRest
  BY DEF Enqueue, CopyInRest, FifoInv, ProducerInv
<1>8. QED
  BY <1>3, <1>4, <1>5, <1>6, <1>7 DEF Producer

LEMMA ConsumerFifo ==
  ASSUME FifoInv, DirectTest, Consumer
  PROVE  FifoInv'
<1>1. GetUseSize(In, Out) \in 0 .. FullSize - 1
  BY UseAfterMove DEF FifoInv, SizesInv
<1>2. SizesInv'
  BY ConsumerSizes DEF FifoInv
<1>3. CASE UseSize
  BY <1>2, <1>3 DEF UseSize, FifoInv, ProducerInv, ConsumerInv, ContentsInv, pvars
<1>4. CASE UseSize2
  <2>1. cpc' \in {"use", "enter"}
    BY <1>4 DEF UseSize2
  <2>2. ConsumerInv'
    BY <2>1 DEF ConsumerInv
  <2>3. QED
    BY <1>2, <1>4, <2>2 DEF UseSize2, FifoInv, ProducerInv, ContentsInv, pvars
<1>5. CASE PopDirect
  <2>1. DirectDequeueSize(In, Out) \in 0 .. FullSize - Out
    BY DirectSizes DEF FifoInv, SizesInv
  <2>2. /\ cn' \in 1 .. DirectDequeueSize(In, Out) /\ cUse' = cn' /\ cpc' = "copy"
        /\ Out' = Out
    BY <1>5 DEF PopDirect
  <2>3. cn' > 0 /\ Out + cn' <= FullSize
    <3>1. PICK n, free, o, full : n = cn' /\ free = DirectDequeueSize(In, Out) /\ o = Out /\ full = FullSize
      OBVIOUS
    <3>2. n \in 1 .. free /\ free \in 0 .. full - o /\ o \in Int /\ full \in Int
      BY <2>1, <2>2, <3>1, FullSizeAssumption DEF FifoInv, SizesInv, Index
    <3>3. n > 0 /\ o + n <= full
      BY <3>2
    <3>4. QED
      BY <3>1, <3>3
  <2>4. ConsumerInv'
    BY <2>2, <2>3 DEF ConsumerInv
  <2>5. QED
    BY <1>2, <1>5, <2>4 DEF PopDirect, FifoInv, ProducerInv, ContentsInv, pvars
<1>6. CASE CopyOut
  <2>1. /\ cn \in Nat /\ cUse = cn /\ Out + cn <= FullSize
        /\ cn <= GetUseSize(In, Out) /\ Out \in Index
    BY <1>6 DEF CopyOut, FifoInv, SizesInv, ConsumerInv, Size, Least
  <2>2. First = cn /\ Size = cn
    BY <2>1 DEF First, Size, Least
  <2>3. chunk' = Bytes(Out, cn) /\ cpc' = "move"
    BY <1>6, <2>2 DEF CopyOut
  <2>4. ASSUME NEW k \in 1 .. cn PROVE buf[Out + k - 1] = got + k - 1
    <3>1. k - 1 \in 0 .. GetUseSize(In, Out) - 1 /\ k - 1 \in 0 .. FullSize
      BY <1>1, <2>1, <2>4, FullSizeAssumption
    <3>2. Moved(Out, k - 1) = Out + k - 1
      BY <2>1, <2>4, <3>1, MovedValue, FullSizeAssumption DEF Index
    <3>3. buf[Moved(Out, k - 1)] = got + (k - 1)
      BY <3>1 DEF FifoInv, ContentsInv
    <3>4. got + (k - 1) = got + k - 1
      BY <2>1, <2>4 DEF FifoInv, ContentsInv
    <3>5. QED
      BY <3>2, <3>3, <3>4
  <2>5. chunk' = [ k \in 1 .. cn |-> got + k - 1 ]
    BY <2>3, <2>4 DEF Bytes
  <2>6. UNCHANGED << In, Out, buf, pvars, cUse, cn, got >>
    BY <1>6 DEF CopyOut
  <2>7. ConsumerInv'
    BY <1>6, <2>3, <2>5, <2>6 DEF ConsumerInv, CopyOut, FifoInv
  <2>8. QED
    BY <1>2, <2>6, <2>7 DEF FifoInv, ProducerInv, ContentsInv, pvars
<1>7. CASE MoveOut
  <2>1. /\ cn \in Nat /\ cUse = cn /\ cn <= GetUseSize(In, Out)
        /\ In \in Index /\ Out \in Index
    BY <1>7 DEF MoveOut, FifoInv, SizesInv, ConsumerInv, Size, Least
  <2>2. Size = cn /\ Out' = Moved(Out, cn) /\ got' = got + cn
    BY <1>7, <2>1 DEF MoveOut, ReadPos, Size, Least
  <2>3. GetUseSize(In, Out') = GetUseSize(In, Out) - cn
    BY <2>1, <2>2, UseAfterMove
  <2>4. ASSUME NEW k \in 0 .. GetUseSize(In, Out) - cn - 1
        PROVE  buf[Moved(Out', k)] = got' + k
    <3>1. cn + k \in 0 .. GetUseSize(In, Out) - 1 /\ k \in Nat /\ cn + k < FullSize
      BY <1>1, <2>1, <2>4, FullSizeAssumption
    <3>2. Moved(Out', k) = Moved(Out, cn + k)
      BY <2>1, <2>2, <3>1, MovedTwice
    <3>3. buf[Moved(Out, cn + k)] = got + (cn + k)
      BY <3>1 DEF FifoInv, ContentsInv
    <3>4. QED
      BY <2>1, <2>2, <3>1, <3>2, <3>3 DEF FifoInv, ContentsInv
  <2>5. UNCHANGED << In, buf, pvars >> /\ cpc' = "use"
    BY <1>7 DEF MoveOut
  <2>6. ContentsInv'
    BY <1>1, <2>1, <2>2, <2>3, <2>4, <2>5 DEF ContentsInv, FifoInv, pvars
  <2>7. ConsumerInv' /\ ProducerInv'
    BY <2>5 DEF ConsumerInv, ProducerInv, FifoInv, pvars
  <2>8. QED
    BY <1>2, <2>6, <2>7 DEF FifoInv
<1>8. ~ DequeueIn /\ ~ DequeueUse /\ ~ CopyOutRest
  BY DEF DequeueIn, DequeueUse, CopyOutRest, FifoInv, ConsumerInv
<1>9. QED
  BY <1>3, <1>4, <1>5, <1>6, <1>7, <1>8 DEF Consumer

LEMMA FifoAlways ==
  ASSUME DirectTest
  PROVE  Spec => []FifoInv
<1>1. ASSUME FifoInv, [Next]_vars PROVE FifoInv'
  <2>1. CASE UNCHANGED vars
    <3>1. SizesInv'
      BY <1>1, SizesNext DEF FifoInv
    <3>2. QED
      BY <1>1, <2>1, <3>1 DEF vars, pvars, cvars, FifoInv, ProducerInv, ConsumerInv, ContentsInv
  <2>2. QED
    BY <1>1, <2>1, ProducerFifo, ConsumerFifo DEF Next
<1>2. QED
  BY <1>1, FifoInit, PTL DEF Spec

(* What QueueDirectPop is handed is what was written, in that order, with  *)
(* nothing left out, whatever the two threads do in the meantime.          *)
THEOREM DirectIsFifo ==
  ASSUME DirectTest
  PROVE  Spec => []FifoOrder
<1>1. ASSUME FifoInv PROVE FifoOrder
  <2>1. SUFFICES ASSUME cpc = "move"
                 PROVE  /\ Len(chunk) = Size
                        /\ \A k \in 1 .. Len(chunk) : chunk[k] = got + k - 1
    BY DEF FifoOrder
  <2>2. cn \in Nat /\ chunk = [ k \in 1 .. cn |-> got + k - 1 ] /\ Size = cn
    BY <1>1, <2>1 DEF FifoInv, SizesInv, ConsumerInv, Size, Least
  <2>3. Len(chunk) = cn
    BY <2>2
  <2>4. QED
    BY <2>2, <2>3
<1>2. QED
  BY <1>1, FifoAlways, PTL

(* Seen through the numbers of bytes written and read, the two threads use *)
(* the buffer as a pipe of FullSize - 1 bytes: only MoveIn puts bytes into *)
(* it, only MoveOut takes some out, and every other step is a stutter.     *)
THEOREM DirectImplementsPipe ==
  ASSUME DirectTest
  PROVE  Spec => PipeSpec
<1>1. Init => P!Init
  BY DEF Init, P!Init
<1>2. ASSUME FifoInv, [Next]_vars
      PROVE  [P!Put \/ P!Take]_<< next, got >>
  <2>1. /\ GetUseSize(In, Out) \in 0 .. FullSize - 1
        /\ next = got + GetUseSize(In, Out)
        /\ got \in Nat /\ next \in Nat /\ FullSize \in Nat
    BY <1>2, UseAfterMove, FullSizeAssumption DEF FifoInv, SizesInv, ContentsInv
  <2>2. CASE MoveIn
    <3>1. pn \in Nat /\ pn > 0 /\ pn + GetUseSize(In, Out) < FullSize
      BY <1>2, <2>2 DEF MoveIn, FifoInv, SizesInv, ProducerInv
    <3>2. pn \in 1 .. (FullSize - 1) - (next - got)
      BY <2>1, <3>1
    <3>3. next' = next + pn /\ got' = got
      BY <2>2 DEF MoveIn, cvars
    <3>4. P!Put
      BY <3>2, <3>3 DEF P!Put
    <3>5. QED
      BY <3>4
  <2>3. CASE MoveOut
    <3>1. cn \in Nat /\ cn > 0 /\ Size = cn /\ cn <= GetUseSize(In, Out)
      BY <1>2, <2>3 DEF MoveOut, FifoInv, SizesInv, ConsumerInv, Size, Least
    <3>2. cn \in 1 .. next - got
      BY <2>1, <3>1
    <3>3. got' = got + cn /\ next' = next
      BY <2>3, <3>1 DEF MoveOut, pvars
    <3>4. P!Take
      BY <3>2, <3>3 DEF P!Take
    <3>5. QED
      BY <3>4
  <2>4. CASE ~ MoveIn /\ ~ MoveOut
    <3>1. ~ Enqueue
      BY DEF Enqueue
    <3>2. UNCHANGED << next, got >>
      BY <1>2, <2>4, <3>1
         DEF Next, Producer, Consumer, PushSize, PushDirect, CopyIn, CopyInRest, UseSize,
             UseSize2, PopDirect, DequeueIn, DequeueUse, CopyOut, CopyOutRest,
             vars, pvars, cvars
    <3>3. QED
      BY <3>2
  <2>5. QED
    BY <2>2, <2>3, <2>4
<1>3. QED
  BY <1>1, <1>2, FifoAlways, PTL DEF Spec, PipeSpec, P!Spec

-----------------------------------------------------------------------------
(* Numbers and iteration *)

LEMMA NatOrder ==
  \E R : IsWellFoundedOn(R, Nat) /\ \A m, n \in Nat : << m, n >> \in R <=> m < n
<1> DEFINE R == OpToRel(<, Nat)
<1>1. IsWellFoundedOn(R, Nat)
  BY NatLessThanWellFounded
<1>2. \A m, n \in Nat : << m, n >> \in R <=> m < n
  BY DEF OpToRel
<1> HIDE DEF R
<1>3. QED
  BY <1>1, <1>2, Zenon

(* A set of numbers that is not empty has a least element: what holds up   *)
(* to a number and not for it cannot be.                                   *)
LEMMA LeastNumber ==
  ASSUME NEW T \in SUBSET Nat, T # {}
  PROVE  \E n \in T : \A m \in T : n <= m
<1>1. PICK R : IsWellFoundedOn(R, Nat) /\ \A m, n \in Nat : << m, n >> \in R <=> m < n
  BY NatOrder
<1>2. IsWellFoundedOn(R, Nat) /\ T \subseteq Nat /\ T # {}
  BY <1>1
<1>3. PICK n \in T : \A m \in T : ~ (<< m, n >> \in R)
  BY <1>2, WFMin
<1>4. ASSUME NEW m \in T PROVE n <= m
  <2>1. m \in Nat /\ n \in Nat
    OBVIOUS
  <2>2. ~ (m < n)
    BY <1>1, <1>3, <2>1
  <2>3. QED
    BY <2>1, <2>2
<1>5. QED
  BY <1>4

(* What holds up to every number of a range, from one to the next.         *)
LEMMA UpTo ==
  ASSUME NEW N \in Nat, NEW T, 0 \in T, \A i \in 0 .. N : i < N /\ i \in T => i + 1 \in T
  PROVE  \A i \in 0 .. N : i \in T
<1> SUFFICES ASSUME NEW j \in 0 .. N, j \notin T PROVE FALSE
  OBVIOUS
<1> DEFINE wrong == { i \in 0 .. N : i \notin T }
<1>1. wrong \in SUBSET Nat /\ j \in wrong
  OBVIOUS
<1>2. PICK i \in wrong : \A k \in wrong : i <= k
  <2> HIDE DEF wrong
  <2>1. QED
    BY <1>1, LeastNumber
<1>3. i \in 0 .. N /\ i \notin T /\ i # 0
  BY <1>2
<1>4. i - 1 \in 0 .. N /\ i - 1 < N /\ i - 1 + 1 = i
  BY <1>3
<1>5. i - 1 \in T
  BY <1>2, <1>4
<1>6. QED
  BY <1>3, <1>4, <1>5

(* A function applied again and again.                                     *)
Iterate(f, N, D, F, base) ==
  /\ f \in [ 0 .. N -> D ] /\ f[0] = base /\ \A i \in 1 .. N : f[i] = F[f[i - 1]]

LEMMA Iterates ==
  ASSUME NEW D, NEW F \in [ D -> D ], NEW base \in D, NEW N \in Nat
  PROVE  \E f : Iterate(f, N, D, F, base)
<1> DEFINE T == { n \in Nat : \E f : Iterate(f, n, D, F, base) }
<1>1. 0 \in T
  <2>1. Iterate([ i \in 0 .. 0 |-> base ], 0, D, F, base)
    BY DEF Iterate
  <2>2. QED
    BY <2>1
<1>2. ASSUME NEW n \in 0 .. N, n \in T PROVE n + 1 \in T
  <2>1. PICK f : Iterate(f, n, D, F, base)
    BY <1>2
  <2>2. PICK g : g = [ i \in 0 .. n + 1 |-> IF i = n + 1 THEN F[f[n]] ELSE f[i] ]
    OBVIOUS
  <2>3. f \in [ 0 .. n -> D ] /\ f[0] = base /\ \A i \in 1 .. n : f[i] = F[f[i - 1]]
    BY <2>1 DEF Iterate
  <2>4. f[n] \in D /\ F[f[n]] \in D
    BY <2>3
  <2>5. \A i \in 0 .. n : g[i] = f[i]
    BY <2>2
  <2>6. g[n + 1] = F[f[n]]
    BY <2>2
  <2>7. g \in [ 0 .. n + 1 -> D ]
    BY <2>2, <2>3, <2>4
  <2>8. ASSUME NEW i \in 1 .. n + 1 PROVE g[i] = F[g[i - 1]]
    <3>1. CASE i = n + 1
      BY <2>5, <2>6, <3>1
    <3>2. CASE i # n + 1
      <4>1. i \in 1 .. n /\ i \in 0 .. n /\ i - 1 \in 0 .. n
        BY <3>2
      <4>2. QED
        BY <2>3, <2>5, <4>1
    <3>3. QED
      BY <3>1, <3>2
  <2>9. Iterate(g, n + 1, D, F, base)
    BY <2>3, <2>5, <2>7, <2>8 DEF Iterate
  <2>10. QED
    BY <2>9
<1>3. N \in T
  <2> HIDE DEF T
  <2>1. \A i \in 0 .. N : i \in T
    BY <1>1, <1>2, UpTo
  <2>2. QED
    BY <2>1
<1>4. QED
  BY <1>3

-----------------------------------------------------------------------------
(* RedBlackTree *)

(* The fields of the nodes 0 .. N as functions, so that what holds of the   *)
(* one side holds of the other: 0 is _Nil.                                  *)
KidOf(nd, N, side) == [ m \in 0 .. N |-> RedBlack!Child(nd[m], side) ]
ParentOf(nd, N) == [ m \in 0 .. N |-> nd[m].parent ]
ColorOf(nd, N) == [ m \in 0 .. N |-> nd[m].color ]
KeyOf(nd, N) == [ m \in 0 .. N |-> nd[m].key ]

(* sub has the nodes of every subtree.                                      *)
Branches(lf, rt, N, sub) ==
  /\ N \in Nat
  /\ sub \in [ 0 .. N -> SUBSET (1 .. N) ] /\ sub[0] = {}
  /\ lf \in [ 0 .. N -> 0 .. N ] /\ rt \in [ 0 .. N -> 0 .. N ] /\ lf[0] = 0 /\ rt[0] = 0
  /\ \A n \in 1 .. N : /\ sub[n] = {n} \cup sub[lf[n]] \cup sub[rt[n]]
                       /\ n \notin sub[lf[n]] /\ n \notin sub[rt[n]]
                       /\ sub[lf[n]] \cap sub[rt[n]] = {}
  /\ \A n \in 1 .. N : \A m \in sub[n] : sub[m] \subseteq sub[n]
Upward(lf, rt, par, root, N, sub) ==
  /\ par \in [ 0 .. N -> 0 .. N ] /\ root \in 0 .. N
  /\ sub[root] = 1 .. N /\ par[root] = 0
  /\ \A n \in 1 .. N : /\ lf[n] # 0 => par[lf[n]] = n
                       /\ rt[n] # 0 => par[rt[n]] = n
  /\ \A n \in 1 .. N : n # root => par[n] # 0 /\ (lf[par[n]] = n \/ rt[par[n]] = n)
  /\ \A n, q \in 1 .. N : n \in sub[q] /\ n # q => par[n] \in sub[q]
Forked(lf, rt, par, root, N, sub) ==
  Branches(lf, rt, N, sub) /\ Upward(lf, rt, par, root, N, sub)

KeysOrdered(lf, rt, N, sub, key) ==
  \A n \in 1 .. N : /\ \A m \in sub[lf[n]] : key[m] <= key[n]
                    /\ \A m \in sub[rt[n]] : key[m] >= key[n]

(* bh has the black height of every subtree.                                *)
Black(c) == IF c = "BLACK" THEN 1 ELSE 0
Heights(lf, rt, N, col, bh) ==
  /\ bh \in [ 0 .. N -> Int ] /\ bh[0] = 0
  /\ \A n \in 1 .. N : bh[lf[n]] = bh[rt[n]] /\ bh[n] = bh[lf[n]] + Black(col[n])

Level(lf, rt, N, col) == \E bh : Heights(lf, rt, N, col, bh)

(* Two red nodes in a row there are at z only.                              *)
Coloured(par, root, N, col, at) ==
  /\ col \in [ 0 .. N -> { "RED", "BLACK" } ] /\ col[0] = "BLACK"
  /\ at \in 0 .. N /\ (at # 0 => col[at] = "RED")
  /\ col[root] = "RED" => at = root
  /\ \A n \in 1 .. N : col[n] = "RED" /\ col[par[n]] = "RED" => n = at

Numeric(N, key) == \A n \in 1 .. N : key[n] \in Int

(* The colours after a step: of a and b, of g and its children; more nodes. *)
Swapped(N, col, col1, a, b) ==
  /\ col1 \in [ 0 .. N -> { "RED", "BLACK" } ] /\ col1[a] = "RED" /\ col1[b] = "BLACK"
  /\ \A m \in 0 .. N : m # a /\ m # b => col1[m] = col[m]
Repainted(N, col, col1, g, c, d) ==
  /\ col1 \in [ 0 .. N -> { "RED", "BLACK" } ]
  /\ col1[g] = "RED" /\ col1[c] = "BLACK" /\ col1[d] = "BLACK"
  /\ \A m \in 0 .. N : m # g /\ m # c /\ m # d => col1[m] = col[m]
Longer(N, f, f1) == \A m \in 0 .. N : f1[m] = f[m]

LEMMA Numbered ==
  ASSUME NEW N \in Nat
  PROVE  \A n \in 1 .. N : n \in 0 .. N /\ n # 0
OBVIOUS

LEMMA Mirrored ==
  ASSUME NEW lf, NEW rt, NEW par, NEW root, NEW N, NEW sub, Forked(lf, rt, par, root, N, sub)
  PROVE  Forked(rt, lf, par, root, N, sub)
BY DEF Forked, Branches, Upward

LEMMA Limbs ==
  ASSUME NEW lf, NEW rt, NEW par, NEW root, NEW N, NEW sub, Forked(lf, rt, par, root, N, sub),
         NEW n \in 1 .. N
  PROVE  /\ n \in 0 .. N /\ n # 0 /\ n \in sub[n] /\ lf[n] \in 0 .. N /\ rt[n] \in 0 .. N
         /\ sub[n] \subseteq 1 .. N /\ lf[n] # n /\ rt[n] # n
         /\ lf[n] # 0 => lf[n] \in 1 .. N /\ lf[n] \in sub[lf[n]] /\ lf[n] \in sub[n] /\ lf[n] # rt[n]
         /\ rt[n] # 0 => rt[n] \in 1 .. N /\ rt[n] \in sub[rt[n]] /\ rt[n] \in sub[n] /\ lf[n] # rt[n]
<1>1. N \in Nat /\ n \in 0 .. N /\ n # 0 /\ lf[n] \in 0 .. N /\ rt[n] \in 0 .. N
  <2>1. N \in Nat /\ lf \in [ 0 .. N -> 0 .. N ] /\ rt \in [ 0 .. N -> 0 .. N ]
    BY DEF Forked, Branches
  <2>2. n \in 0 .. N /\ n # 0
    BY <2>1
  <2>3. QED
    BY <2>1, <2>2
<1>2. \A m \in 1 .. N : m \in sub[m]
  BY DEF Forked, Branches
<1>3. /\ sub[n] = {n} \cup sub[lf[n]] \cup sub[rt[n]] /\ sub[lf[n]] \cap sub[rt[n]] = {}
      /\ n \notin sub[lf[n]] /\ n \notin sub[rt[n]] /\ sub[n] \subseteq 1 .. N /\ sub[0] = {}
  BY <1>1 DEF Forked, Branches
<1>4. /\ lf[n] # 0 => lf[n] \in 1 .. N
      /\ rt[n] # 0 => rt[n] \in 1 .. N
  BY <1>1
<1>5. QED
  BY <1>1, <1>2, <1>3, <1>4

LEMMA Descends ==
  ASSUME NEW lf, NEW rt, NEW par, NEW root, NEW N, NEW sub, Forked(lf, rt, par, root, N, sub),
         NEW n \in 1 .. N, NEW m \in sub[n], m # n
  PROVE  n \notin sub[m] /\ m \in 1 .. N
<1>1. m \in 1 .. N
  BY Limbs
<1>2. sub[n] = {n} \cup sub[lf[n]] \cup sub[rt[n]] /\ n \notin sub[lf[n]] /\ n \notin sub[rt[n]]
  BY DEF Forked, Branches
<1>3. CASE m \in sub[lf[n]]
  <2>1. lf[n] \in 1 .. N
    BY <1>3, Limbs DEF Forked, Branches
  <2>2. sub[m] \subseteq sub[lf[n]]
    BY <1>3, <2>1 DEF Forked, Branches
  <2>3. QED
    BY <1>1, <1>2, <2>2
<1>4. CASE m \in sub[rt[n]]
  <2>1. rt[n] \in 1 .. N
    BY <1>4, Limbs DEF Forked, Branches
  <2>2. sub[m] \subseteq sub[rt[n]]
    BY <1>4, <2>1 DEF Forked, Branches
  <2>3. QED
    BY <1>1, <1>2, <2>2
<1>5. QED
  BY <1>2, <1>3, <1>4

(* A rotation: y, to the right of x, takes its place, and x goes to the     *)
(* left of y.                                                               *)
Spun(lf, rt, par, root, N, a, b, lf1, rt1, par1, root1) ==
  /\ lf1 = [ m \in 0 .. N |-> IF m = b THEN a ELSE IF lf[m] = a THEN b ELSE lf[m] ]
  /\ rt1 = [ m \in 0 .. N |-> IF m = a THEN lf[b] ELSE IF rt[m] = a THEN b ELSE rt[m] ]
  /\ par1 = [ m \in 0 .. N |-> IF m = a THEN b ELSE IF m = b THEN par[a]
                               ELSE IF m = lf[b] /\ m # 0 THEN a ELSE par[m] ]
  /\ root1 = IF root = a THEN b ELSE root
SubSpun(lf, N, sub, a, b) ==
  [ m \in 0 .. N |-> IF m = b THEN sub[a]
                    ELSE IF m = a THEN {a} \cup sub[lf[a]] \cup sub[lf[b]] ELSE sub[m] ]

Hand(rt, a, b) == b = rt[a] /\ b # 0

(* What the proofs about a rotation need to know of the nodes around it.    *)
LEMMA Around ==
  ASSUME NEW lf, NEW rt, NEW par, NEW root, NEW N, NEW sub, Forked(lf, rt, par, root, N, sub),
         NEW a \in 1 .. N, NEW b, Hand(rt, a, b)
  PROVE  /\ b \in 1 .. N /\ b # a /\ b \in sub[a] /\ sub[b] \subseteq sub[a]
         /\ a \notin sub[b] /\ a \notin sub[lf[b]] /\ a \notin sub[rt[b]]
         /\ par[b] = a
         /\ lf[a] # a /\ lf[a] # b /\ lf[b] # a /\ lf[b] # b /\ rt[b] # a /\ rt[b] # b
         /\ sub[lf[b]] \subseteq sub[b] /\ sub[rt[b]] \subseteq sub[b]
         /\ sub[lf[a]] \cap sub[b] = {} /\ sub[lf[b]] \cap sub[rt[b]] = {}
         /\ b \notin sub[lf[a]] /\ b \notin sub[lf[b]] /\ b \notin sub[rt[b]]
         /\ sub[a] = {a} \cup sub[lf[a]] \cup sub[b]
         /\ sub[b] = {b} \cup sub[lf[b]] \cup sub[rt[b]]
<1> USE DEF Hand
<1>1. b \in 1 .. N /\ b # a /\ b \in sub[a] /\ b \in sub[b] /\ lf[a] # a
  BY Limbs
<1>2. par[b] = a
  BY DEF Forked, Upward
<1>3. a \notin sub[b] /\ sub[b] \subseteq sub[a]
  BY <1>1, Descends DEF Forked, Branches
<1>4. /\ sub[a] = {a} \cup sub[lf[a]] \cup sub[b] /\ sub[lf[a]] \cap sub[b] = {}
      /\ sub[b] = {b} \cup sub[lf[b]] \cup sub[rt[b]] /\ sub[lf[b]] \cap sub[rt[b]] = {}
      /\ b \notin sub[lf[b]] /\ b \notin sub[rt[b]] /\ a \notin sub[lf[a]]
  BY <1>1 DEF Forked, Branches
<1>5. lf[b] # b /\ rt[b] # b
  BY <1>1, Limbs
<1>6. a \in sub[a]
  BY Limbs
<1>7. QED
  BY <1>1, <1>2, <1>3, <1>4, <1>5, <1>6

LEMMA SpunBranches ==
  ASSUME NEW lf, NEW rt, NEW par, NEW root, NEW N, NEW sub, Forked(lf, rt, par, root, N, sub),
         NEW a \in 1 .. N, NEW b, Hand(rt, a, b),
         NEW lf1, NEW rt1, NEW par1, NEW root1,
         Spun(lf, rt, par, root, N, a, b, lf1, rt1, par1, root1),
         NEW sub1, sub1 = SubSpun(lf, N, sub, a, b)
  PROVE  Branches(lf1, rt1, N, sub1)
<1> USE DEF Hand
<1>1. /\ N \in Nat /\ sub \in [ 0 .. N -> SUBSET (1 .. N) ] /\ sub[0] = {}
      /\ lf \in [ 0 .. N -> 0 .. N ] /\ rt \in [ 0 .. N -> 0 .. N ] /\ lf[0] = 0 /\ rt[0] = 0
  BY DEF Forked, Branches
<1>2. /\ \A m \in 0 .. N : lf1[m] = IF m = b THEN a ELSE IF lf[m] = a THEN b ELSE lf[m]
      /\ \A m \in 0 .. N : rt1[m] = IF m = a THEN lf[b] ELSE IF rt[m] = a THEN b ELSE rt[m]
  BY DEF Spun
<1>3. /\ b \in 1 .. N /\ b # a /\ b \in sub[a] /\ sub[b] \subseteq sub[a]
      /\ a \notin sub[b] /\ a \notin sub[lf[b]] /\ a \notin sub[rt[b]]
      /\ par[b] = a
      /\ lf[a] # a /\ lf[a] # b /\ lf[b] # a /\ lf[b] # b /\ rt[b] # a /\ rt[b] # b
      /\ sub[lf[b]] \subseteq sub[b] /\ sub[rt[b]] \subseteq sub[b]
      /\ sub[lf[a]] \cap sub[b] = {} /\ sub[lf[b]] \cap sub[rt[b]] = {}
      /\ b \notin sub[lf[a]] /\ b \notin sub[lf[b]] /\ b \notin sub[rt[b]]
      /\ sub[a] = {a} \cup sub[lf[a]] \cup sub[b]
      /\ sub[b] = {b} \cup sub[lf[b]] \cup sub[rt[b]]
  BY Around
<1>4. /\ a \in 0 .. N /\ b \in 0 .. N /\ a # 0 /\ b # 0
      /\ lf[a] \in 0 .. N /\ lf[b] \in 0 .. N /\ rt[b] \in 0 .. N
  BY <1>1, <1>3
<1>5. a \notin sub[lf[a]]
  BY DEF Forked, Branches
<1>6. /\ sub1[b] = sub[a] /\ sub1[a] = {a} \cup sub[lf[a]] \cup sub[lf[b]]
      /\ \A m \in 0 .. N : m # a /\ m # b => sub1[m] = sub[m]
  BY <1>3, <1>4 DEF SubSpun
<1>7. sub1 \in [ 0 .. N -> SUBSET (1 .. N) ] /\ sub1[0] = {}
  <2>1. ASSUME NEW m \in 0 .. N PROVE sub1[m] \in SUBSET (1 .. N)
    <3>1. \A c \in 0 .. N : sub[c] \in SUBSET (1 .. N)
      BY <1>1
    <3>2. QED
      BY <1>3, <1>4, <1>6, <3>1
  <2>2. sub1 = [ m \in 0 .. N |-> sub1[m] ]
    BY DEF SubSpun
  <2>3. QED
    BY <1>1, <1>4, <1>6, <2>1, <2>2
<1>8. /\ lf1 \in [ 0 .. N -> 0 .. N ] /\ rt1 \in [ 0 .. N -> 0 .. N ]
      /\ lf1[0] = 0 /\ rt1[0] = 0
  <2>1. \A m \in 0 .. N : lf1[m] \in 0 .. N /\ rt1[m] \in 0 .. N
    BY <1>1, <1>2, <1>4
  <2>2. lf1 = [ m \in 0 .. N |-> lf1[m] ] /\ rt1 = [ m \in 0 .. N |-> rt1[m] ]
    BY DEF Spun
  <2>3. 0 \in 0 .. N
    BY <1>1
  <2>4. lf1[0] = 0 /\ rt1[0] = 0
    BY <1>1, <1>2, <1>4, <2>3
  <2>5. QED
    BY <2>1, <2>2, <2>4
<1>9. ASSUME NEW n \in 1 .. N
      PROVE  /\ sub1[n] = {n} \cup sub1[lf1[n]] \cup sub1[rt1[n]]
             /\ n \notin sub1[lf1[n]] /\ n \notin sub1[rt1[n]]
             /\ sub1[lf1[n]] \cap sub1[rt1[n]] = {}
  <2>1. n \in 0 .. N
    BY <1>1
  <2>2. CASE n = a
    <3>1. lf1[n] = lf[a] /\ rt1[n] = lf[b]
      BY <1>2, <1>3, <1>4, <2>2
    <3>2. sub1[lf[a]] = sub[lf[a]] /\ sub1[lf[b]] = sub[lf[b]]
      BY <1>3, <1>4, <1>6
    <3>3. QED
      BY <1>3, <1>5, <1>6, <2>2, <3>1, <3>2
  <2>3. CASE n = b
    <3>1. lf1[n] = a /\ rt1[n] = rt[b]
      BY <1>2, <1>3, <1>4, <2>3
    <3>2. sub1[rt[b]] = sub[rt[b]]
      BY <1>3, <1>4, <1>6
    <3>3. QED
      BY <1>3, <1>6, <2>3, <3>1, <3>2
  <2>4. CASE n # a /\ n # b
    <3>1. lf[n] \in 0 .. N /\ rt[n] \in 0 .. N
      BY <1>1, <2>1
    <3>2. lf[n] # b /\ rt[n] # b
      BY <1>3, <1>4, <2>4 DEF Forked, Upward
    <3>3. sub1[lf1[n]] = sub[lf[n]] /\ sub1[rt1[n]] = sub[rt[n]]
      BY <1>2, <1>6, <2>1, <2>4, <3>1, <3>2
    <3>4. /\ sub[n] = {n} \cup sub[lf[n]] \cup sub[rt[n]]
          /\ n \notin sub[lf[n]] /\ n \notin sub[rt[n]] /\ sub[lf[n]] \cap sub[rt[n]] = {}
      BY DEF Forked, Branches
    <3>5. QED
      BY <1>6, <2>1, <2>4, <3>3, <3>4
  <2>5. QED
    BY <2>2, <2>3, <2>4
<1>10. ASSUME NEW n \in 1 .. N, NEW m \in sub1[n] PROVE sub1[m] \subseteq sub1[n]
  <2>1. \A q \in 1 .. N : \A o \in sub[q] : sub[o] \subseteq sub[q] /\ o \in 1 .. N
    BY <1>1 DEF Forked, Branches
  <2>2. n \in 0 .. N /\ m \in 1 .. N /\ m \in 0 .. N
    <3>1. n \in 0 .. N
      BY <1>1
    <3>2. sub1[n] \in SUBSET (1 .. N)
      BY <1>7, <3>1
    <3>3. m \in 1 .. N
      BY <1>10, <3>2
    <3>4. QED
      BY <1>1, <3>1, <3>3
  <2>3. sub1[a] \subseteq sub[a]
    BY <1>3, <1>6
  <2>4. CASE n = b
    BY <1>3, <1>6, <1>10, <2>1, <2>2, <2>3, <2>4
  <2>5. CASE n = a
    <3>1. CASE m = a
      BY <2>5, <3>1
    <3>2. CASE m # a
      <4>1. m # b /\ (m \in sub[lf[a]] \/ m \in sub[lf[b]])
        BY <1>3, <1>6, <1>10, <2>5, <3>2
      <4>2. \A c \in 0 .. N : m \in sub[c] => sub[m] \subseteq sub[c]
        BY <1>1, <2>1
      <4>3. QED
        BY <1>4, <1>6, <2>2, <2>5, <3>2, <4>1, <4>2
    <3>3. QED
      BY <3>1, <3>2
  <2>6. CASE n # a /\ n # b
    <3>1. m \in sub[n] /\ sub1[n] = sub[n]
      BY <1>6, <1>10, <2>2, <2>6
    <3>2. CASE m = b
      <4>1. a \in sub[n]
        BY <1>3, <2>6, <3>1, <3>2 DEF Forked, Upward
      <4>2. QED
        BY <1>6, <2>1, <3>1, <3>2, <4>1
    <3>3. CASE m = a
      BY <2>1, <2>3, <3>1, <3>3
    <3>4. CASE m # a /\ m # b
      BY <1>6, <2>1, <2>2, <3>1, <3>4
    <3>5. QED
      BY <3>2, <3>3, <3>4
  <2>7. QED
    BY <2>4, <2>5, <2>6
<1>11. QED
  BY <1>1, <1>7, <1>8, <1>9, <1>10 DEF Branches

LEMMA SpunUpward ==
  ASSUME NEW lf, NEW rt, NEW par, NEW root, NEW N, NEW sub, Forked(lf, rt, par, root, N, sub),
         NEW a \in 1 .. N, NEW b, Hand(rt, a, b),
         NEW lf1, NEW rt1, NEW par1, NEW root1,
         Spun(lf, rt, par, root, N, a, b, lf1, rt1, par1, root1),
         NEW sub1, sub1 = SubSpun(lf, N, sub, a, b)
  PROVE  Upward(lf1, rt1, par1, root1, N, sub1)
<1> USE DEF Hand
<1>1. /\ N \in Nat /\ sub \in [ 0 .. N -> SUBSET (1 .. N) ] /\ sub[0] = {}
      /\ lf \in [ 0 .. N -> 0 .. N ] /\ rt \in [ 0 .. N -> 0 .. N ] /\ lf[0] = 0 /\ rt[0] = 0
  BY DEF Forked, Branches
<1>2. /\ par \in [ 0 .. N -> 0 .. N ] /\ root \in 0 .. N
      /\ sub[root] = 1 .. N /\ par[root] = 0
  BY DEF Forked, Upward
<1>3. /\ b \in 1 .. N /\ b # a /\ b \in sub[a] /\ sub[b] \subseteq sub[a]
      /\ a \notin sub[b] /\ a \notin sub[lf[b]] /\ a \notin sub[rt[b]]
      /\ par[b] = a
      /\ lf[a] # a /\ lf[a] # b /\ lf[b] # a /\ lf[b] # b /\ rt[b] # a /\ rt[b] # b
      /\ sub[lf[b]] \subseteq sub[b] /\ sub[rt[b]] \subseteq sub[b]
      /\ sub[lf[a]] \cap sub[b] = {} /\ sub[lf[b]] \cap sub[rt[b]] = {}
      /\ b \notin sub[lf[a]] /\ b \notin sub[lf[b]] /\ b \notin sub[rt[b]]
      /\ sub[a] = {a} \cup sub[lf[a]] \cup sub[b]
      /\ sub[b] = {b} \cup sub[lf[b]] \cup sub[rt[b]]
  BY Around
<1>4. /\ a \in 0 .. N /\ b \in 0 .. N /\ a # 0 /\ b # 0 /\ 0 \in 0 .. N
      /\ lf[a] \in 0 .. N /\ lf[b] \in 0 .. N /\ rt[b] \in 0 .. N
  BY <1>1, <1>3
<1>5. PICK c : c = lf[b]
  OBVIOUS
<1>6. /\ \A m \in 0 .. N : lf1[m] = IF m = b THEN a ELSE IF lf[m] = a THEN b ELSE lf[m]
      /\ \A m \in 0 .. N : rt1[m] = IF m = a THEN c ELSE IF rt[m] = a THEN b ELSE rt[m]
      /\ par1[a] = b /\ par1[b] = par[a] /\ (c # 0 => par1[c] = a)
      /\ \A m \in 0 .. N : m # a /\ m # b /\ (m # c \/ m = 0) => par1[m] = par[m]
      /\ root1 = IF root = a THEN b ELSE root
  BY <1>3, <1>4, <1>5 DEF Spun
<1>7. /\ sub1[b] = sub[a] /\ sub1[a] = {a} \cup sub[lf[a]] \cup sub[c]
      /\ \A m \in 0 .. N : m # a /\ m # b => sub1[m] = sub[m]
  BY <1>3, <1>4, <1>5 DEF SubSpun
<1>8. /\ c # 0 => /\ c \in 1 .. N /\ c \in sub[c] /\ par[c] = b
      /\ lf[a] # 0 => lf[a] \in sub[lf[a]] /\ lf[a] \in 1 .. N
      /\ rt[b] # 0 => rt[b] \in sub[rt[b]] /\ rt[b] \in 1 .. N
  <2>1. c # 0 => par[c] = b
    BY <1>3, <1>5 DEF Forked, Upward
  <2>2. c # 0 => c \in 1 .. N /\ c \in sub[c]
    BY <1>3, <1>5, Limbs
  <2>3. lf[a] # 0 => lf[a] \in sub[lf[a]] /\ lf[a] \in 1 .. N
    BY Limbs
  <2>4. rt[b] # 0 => rt[b] \in sub[rt[b]] /\ rt[b] \in 1 .. N
    BY <1>3, Limbs
  <2>5. QED
    BY <2>1, <2>2, <2>3, <2>4
<1>9. \A n \in 1 .. N : /\ n \in 0 .. N /\ n # 0
                        /\ lf[n] # 0 => par[lf[n]] = n /\ lf[n] \in 0 .. N
                        /\ rt[n] # 0 => par[rt[n]] = n /\ rt[n] \in 0 .. N
                        /\ n # root => par[n] # 0 /\ par[n] \in 0 .. N /\ par[n] \in 1 .. N
                                       /\ (lf[par[n]] = n \/ rt[par[n]] = n)
  <2> TAKE n \in 1 .. N
  <2>1. n \in 0 .. N /\ n # 0
    BY <1>1
  <2>2. lf[n] \in 0 .. N /\ rt[n] \in 0 .. N /\ par[n] \in 0 .. N
    BY <1>1, <1>2, <2>1
  <2>3. /\ lf[n] # 0 => par[lf[n]] = n
        /\ rt[n] # 0 => par[rt[n]] = n
        /\ n # root => par[n] # 0 /\ (lf[par[n]] = n \/ rt[par[n]] = n)
    BY DEF Forked, Upward
  <2>4. par[n] # 0 => par[n] \in 1 .. N
    <3>1. N \in Nat
      BY <1>1
    <3>2. \A q \in 0 .. N : q # 0 => q \in 1 .. N
      BY <3>1
    <3>3. QED
      BY <2>2, <3>2
  <2>5. QED
    BY <2>1, <2>2, <2>3, <2>4
<1>10. par1 \in [ 0 .. N -> 0 .. N ] /\ root1 \in 0 .. N
  <2>1. ASSUME NEW m \in 0 .. N PROVE par1[m] \in 0 .. N
    BY <1>2, <1>4, <1>6
  <2>2. par1 = [ m \in 0 .. N |-> par1[m] ]
    BY DEF Spun
  <2>3. QED
    BY <1>2, <1>4, <1>6, <2>1, <2>2
<1>11. sub1[root1] = 1 .. N /\ par1[root1] = 0
  BY <1>2, <1>3, <1>4, <1>6, <1>7, <1>8
<1>12. ASSUME NEW n \in 1 .. N
       PROVE  /\ lf1[n] # 0 => par1[lf1[n]] = n
              /\ rt1[n] # 0 => par1[rt1[n]] = n
  <2>1. CASE n = a
    <3>1. lf1[n] = lf[a] /\ rt1[n] = c
      BY <1>3, <1>4, <1>6, <2>1
    <3>2. lf[a] # 0 => lf[a] # c
      BY <1>3, <1>5, <1>8
    <3>3. QED
      BY <1>3, <1>4, <1>6, <1>9, <2>1, <3>1, <3>2
  <2>2. CASE n = b
    <3>1. lf1[n] = a /\ rt1[n] = rt[b]
      BY <1>3, <1>4, <1>6, <2>2
    <3>2. rt[b] # 0 => rt[b] # c
      BY <1>3, <1>5, <1>8
    <3>3. QED
      BY <1>3, <1>4, <1>6, <1>9, <2>2, <3>1, <3>2
  <2>3. CASE n # a /\ n # b
    <3>1. ASSUME NEW d, d = lf[n] \/ d = rt[n], d # 0
          PROVE  par1[IF d = a THEN b ELSE d] = n
      <4>1. par[d] = n /\ d \in 0 .. N
        BY <1>9, <3>1
      <4>2. d # b /\ d # c
        BY <1>3, <1>8, <2>3, <3>1, <4>1
      <4>3. QED
        BY <1>6, <4>1, <4>2
    <3>2. n \in 0 .. N
      BY <1>9
    <3>3. lf1[n] = IF lf[n] = a THEN b ELSE lf[n]
      BY <1>6, <2>3, <3>2
    <3>4. rt1[n] = IF rt[n] = a THEN b ELSE rt[n]
      BY <1>6, <2>3, <3>2
    <3>5. QED
      BY <1>4, <3>1, <3>3, <3>4
  <2>4. QED
    BY <2>1, <2>2, <2>3
<1>13. ASSUME NEW n \in 1 .. N, n # root1
       PROVE  par1[n] # 0 /\ (lf1[par1[n]] = n \/ rt1[par1[n]] = n)
  <2>1. CASE n = a
    BY <1>3, <1>4, <1>6, <2>1
  <2>2. CASE n = b
    <3>1. a # root
      BY <1>6, <1>13, <2>2
    <3>2. PICK q : q = par[a] /\ q \in 0 .. N /\ q # 0 /\ q \in 1 .. N /\ (lf[q] = a \/ rt[q] = a)
      BY <1>9, <3>1
    <3>3. q # b /\ q # a
      BY <1>3, <3>2, Limbs
    <3>4. lf1[q] = b \/ rt1[q] = b
      BY <1>6, <3>2, <3>3
    <3>5. QED
      BY <1>6, <2>2, <3>2, <3>4
  <2>3. CASE n = c
    BY <1>3, <1>4, <1>6, <1>9, <2>3
  <2>4. CASE n # a /\ n # b /\ n # c
    <3>1. n # root
      BY <1>6, <1>13, <2>4
    <3>2. PICK q : q = par[n] /\ q \in 0 .. N /\ q # 0 /\ (lf[q] = n \/ rt[q] = n)
      BY <1>9, <3>1
    <3>3. par1[n] = q
      BY <1>6, <1>9, <2>4, <3>2
    <3>4. CASE lf[q] = n
      BY <1>5, <1>6, <2>4, <3>2, <3>3, <3>4
    <3>5. CASE rt[q] = n
      BY <1>6, <2>4, <3>2, <3>3, <3>5
    <3>6. QED
      BY <3>2, <3>4, <3>5
  <2>5. QED
    BY <2>1, <2>2, <2>3, <2>4
<1>14. ASSUME NEW n \in 1 .. N, NEW q \in 1 .. N, n \in sub1[q], n # q PROVE par1[n] \in sub1[q]
  <2>1. \A m, o \in 1 .. N : m \in sub[o] /\ m # o => par[m] \in sub[o]
    BY DEF Forked, Upward
  <2>2. \A o \in 1 .. N : \A m \in sub[o] : sub[m] \subseteq sub[o]
    BY DEF Forked, Branches
  <2>3. n \in 0 .. N /\ n # 0 /\ q \in 0 .. N
    BY <1>9
  <2>4. CASE n = a
    <3>1. par1[n] = b
      BY <1>6, <2>4
    <3>2. CASE q = b
      <4>1. b \in sub1[b]
        BY <1>3, <1>7
      <4>2. QED
        BY <3>1, <3>2, <4>1
    <3>3. CASE q # b
      <4>1. a \in sub[q] /\ sub1[q] = sub[q]
        BY <1>7, <1>14, <2>3, <2>4, <3>3
      <4>2. QED
        BY <1>3, <2>2, <3>1, <4>1
    <3>4. QED
      BY <3>2, <3>3
  <2>5. CASE n = b
    <3>1. q # a
      BY <1>3, <1>5, <1>7, <1>14, <2>5
    <3>2. b \in sub[q] /\ sub1[q] = sub[q]
      BY <1>7, <1>14, <2>3, <2>5, <3>1
    <3>3. a \in sub[q]
      BY <1>3, <1>14, <2>1, <2>5, <3>2
    <3>4. par[a] \in sub[q]
      BY <2>1, <3>1, <3>3
    <3>5. QED
      BY <1>6, <2>5, <3>2, <3>4
  <2>6. CASE n = c
    <3>1. par1[n] = a
      BY <1>6, <2>3, <2>6
    <3>2. CASE q = a
      BY <1>7, <3>1, <3>2
    <3>3. CASE q = b
      BY <1>3, <1>7, <3>1, <3>3
    <3>4. CASE q # a /\ q # b
      <4>1. c \in sub[q] /\ sub1[q] = sub[q]
        BY <1>7, <1>14, <2>3, <2>6, <3>4
      <4>2. b \in sub[q]
        BY <1>8, <1>14, <2>1, <2>3, <2>6, <4>1
      <4>3. a \in sub[q]
        BY <1>3, <2>1, <3>4, <4>2
      <4>4. QED
        BY <3>1, <4>1, <4>3
    <3>5. QED
      BY <3>2, <3>3, <3>4
  <2>7. CASE n # a /\ n # b /\ n # c
    <3>1. par1[n] = par[n]
      BY <1>6, <2>3, <2>7
    <3>2. CASE q = b
      BY <1>7, <1>14, <2>1, <2>7, <3>1, <3>2
    <3>3. CASE q = a
      <4>1. n \in sub[lf[a]] \/ n \in sub[c]
        BY <1>7, <1>14, <2>7, <3>3
      <4>2. CASE n \in sub[c]
        <5>1. c \in 1 .. N
          BY <1>1, <1>8, <4>2
        <5>2. par[n] \in sub[c]
          BY <2>1, <2>7, <4>2, <5>1
        <5>3. QED
          BY <1>7, <3>1, <3>3, <5>2
      <4>3. CASE n \in sub[lf[a]]
        <5>1. lf[a] # 0 /\ lf[a] \in 1 .. N
          BY <1>1, <1>8, <4>3
        <5>2. CASE n = lf[a]
          BY <1>7, <1>9, <3>1, <3>3, <5>1, <5>2
        <5>3. CASE n # lf[a]
          <6>1. par[n] \in sub[lf[a]]
            BY <2>1, <4>3, <5>1, <5>3
          <6>2. QED
            BY <1>7, <3>1, <3>3, <6>1
        <5>4. QED
          BY <5>2, <5>3
      <4>4. QED
        BY <4>1, <4>2, <4>3
    <3>4. CASE q # a /\ q # b
      BY <1>7, <1>14, <2>1, <2>3, <3>1, <3>4
    <3>5. QED
      BY <3>2, <3>3, <3>4
  <2>8. QED
    BY <2>4, <2>5, <2>6, <2>7
<1>15. QED
  BY <1>10, <1>11, <1>12, <1>13, <1>14 DEF Upward

LEMMA SpunForked ==
  ASSUME NEW lf, NEW rt, NEW par, NEW root, NEW N, NEW sub, Forked(lf, rt, par, root, N, sub),
         NEW a \in 1 .. N, NEW b, Hand(rt, a, b),
         NEW lf1, NEW rt1, NEW par1, NEW root1,
         Spun(lf, rt, par, root, N, a, b, lf1, rt1, par1, root1),
         NEW sub1, sub1 = SubSpun(lf, N, sub, a, b)
  PROVE  Forked(lf1, rt1, par1, root1, N, sub1)
<1>1. Branches(lf1, rt1, N, sub1)
  BY SpunBranches
<1>2. Upward(lf1, rt1, par1, root1, N, sub1)
  BY SpunUpward
<1>3. QED
  BY <1>1, <1>2 DEF Forked

(* A rotation keeps the keys in order.                                     *)
LEMMA SpunOrdered ==
  ASSUME NEW lf, NEW rt, NEW par, NEW root, NEW N, NEW sub, Forked(lf, rt, par, root, N, sub),
         NEW a \in 1 .. N, NEW b, Hand(rt, a, b),
         NEW lf1, NEW rt1, NEW par1, NEW root1,
         Spun(lf, rt, par, root, N, a, b, lf1, rt1, par1, root1),
         NEW sub1, sub1 = SubSpun(lf, N, sub, a, b),
         NEW key, Numeric(N, key), KeysOrdered(lf, rt, N, sub, key)
  PROVE  KeysOrdered(lf1, rt1, N, sub1, key)
<1> USE DEF Hand, Numeric
<1>1. /\ N \in Nat /\ sub[0] = {} /\ sub \in [ 0 .. N -> SUBSET (1 .. N) ]
      /\ lf \in [ 0 .. N -> 0 .. N ] /\ rt \in [ 0 .. N -> 0 .. N ]
  BY DEF Forked, Branches
<1>2. /\ b \in 1 .. N /\ b # a /\ b \in sub[a] /\ sub[b] \subseteq sub[a]
      /\ a \notin sub[b] /\ a \notin sub[lf[b]] /\ a \notin sub[rt[b]]
      /\ par[b] = a
      /\ lf[a] # a /\ lf[a] # b /\ lf[b] # a /\ lf[b] # b /\ rt[b] # a /\ rt[b] # b
      /\ sub[lf[b]] \subseteq sub[b] /\ sub[rt[b]] \subseteq sub[b]
      /\ sub[lf[a]] \cap sub[b] = {} /\ sub[lf[b]] \cap sub[rt[b]] = {}
      /\ b \notin sub[lf[a]] /\ b \notin sub[lf[b]] /\ b \notin sub[rt[b]]
      /\ sub[a] = {a} \cup sub[lf[a]] \cup sub[b]
      /\ sub[b] = {b} \cup sub[lf[b]] \cup sub[rt[b]]
  BY Around
<1>3. /\ a \in 0 .. N /\ b \in 0 .. N
      /\ lf[a] \in 0 .. N /\ lf[b] \in 0 .. N /\ rt[b] \in 0 .. N
  BY <1>1, <1>2
<1>4. /\ \A m \in 0 .. N : lf1[m] = IF m = b THEN a ELSE IF lf[m] = a THEN b ELSE lf[m]
      /\ \A m \in 0 .. N : rt1[m] = IF m = a THEN lf[b] ELSE IF rt[m] = a THEN b ELSE rt[m]
  BY DEF Spun
<1>5. /\ sub1[b] = sub[a] /\ sub1[a] = {a} \cup sub[lf[a]] \cup sub[lf[b]]
      /\ \A m \in 0 .. N : m # a /\ m # b => sub1[m] = sub[m]
  BY <1>2, <1>3 DEF SubSpun
<1>6. \A n \in 1 .. N : /\ \A m \in sub[lf[n]] : key[m] <= key[n]
                        /\ \A m \in sub[rt[n]] : key[m] >= key[n]
  BY DEF KeysOrdered
<1>7. \A c \in 0 .. N : \A m \in sub[c] : m \in 1 .. N /\ key[m] \in Int
  BY <1>1
<1>8. ASSUME NEW n \in 1 .. N
      PROVE  /\ \A m \in sub1[lf1[n]] : key[m] <= key[n]
             /\ \A m \in sub1[rt1[n]] : key[m] >= key[n]
  <2>1. n \in 0 .. N
    BY <1>1
  <2>2. CASE n = a
    <3>1. lf1[n] = lf[a] /\ rt1[n] = lf[b]
      BY <1>2, <1>3, <1>4, <2>2
    <3>2. sub1[lf[a]] = sub[lf[a]] /\ sub1[lf[b]] = sub[lf[b]]
      BY <1>2, <1>3, <1>5
    <3>3. \A m \in sub[lf[b]] : m \in sub[rt[a]]
      BY <1>2
    <3>4. QED
      BY <1>6, <2>2, <3>1, <3>2, <3>3
  <2>3. CASE n = b
    <3>1. lf1[n] = a /\ rt1[n] = rt[b]
      BY <1>2, <1>3, <1>4, <2>3
    <3>2. sub1[rt[b]] = sub[rt[b]]
      BY <1>2, <1>3, <1>5
    <3>3. key[a] <= key[b] /\ key[a] \in Int /\ key[b] \in Int
      BY <1>2, <1>6, Limbs
    <3>4. ASSUME NEW m \in sub1[a] PROVE key[m] <= key[b]
      <4>1. CASE m = a
        BY <3>3, <4>1
      <4>2. CASE m \in sub[lf[a]]
        BY <1>3, <1>6, <1>7, <3>3, <4>2
      <4>3. CASE m \in sub[lf[b]]
        BY <1>2, <1>6, <4>3
      <4>4. QED
        BY <1>5, <4>1, <4>2, <4>3
    <3>5. QED
      BY <1>6, <2>3, <3>1, <3>2, <3>4
  <2>4. CASE n # a /\ n # b
    <3>1. lf[n] \in 0 .. N /\ rt[n] \in 0 .. N
      BY <1>1, <2>1
    <3>2. lf[n] # b /\ rt[n] # b
      BY <1>2, <2>4 DEF Forked, Upward
    <3>3. sub1[lf1[n]] = sub[lf[n]] /\ sub1[rt1[n]] = sub[rt[n]]
      BY <1>4, <1>5, <2>1, <2>4, <3>1, <3>2
    <3>4. QED
      BY <1>6, <3>3
  <2>5. QED
    BY <2>2, <2>3, <2>4
<1>9. QED
  BY <1>8 DEF KeysOrdered

(* A rotation of two red nodes keeps the black heights.                    *)
LEMMA SpunHeights ==
  ASSUME NEW lf, NEW rt, NEW par, NEW root, NEW N, NEW sub, Forked(lf, rt, par, root, N, sub),
         NEW a \in 1 .. N, NEW b, Hand(rt, a, b),
         NEW lf1, NEW rt1, NEW par1, NEW root1,
         Spun(lf, rt, par, root, N, a, b, lf1, rt1, par1, root1),
         NEW col, NEW bh, Heights(lf, rt, N, col, bh), col[a] = "RED", col[b] = "RED"
  PROVE  Heights(lf1, rt1, N, col, bh)
<1> USE DEF Hand
<1>1. /\ b \in 1 .. N /\ b # a /\ lf[a] # a /\ lf[a] # b /\ lf[b] # a /\ lf[b] # b
      /\ rt[b] # a /\ rt[b] # b
  BY Around
<1>2. /\ N \in Nat /\ lf \in [ 0 .. N -> 0 .. N ] /\ rt \in [ 0 .. N -> 0 .. N ]
      /\ \A n \in 1 .. N : n \in 0 .. N
  <2>1. /\ N \in Nat /\ lf \in [ 0 .. N -> 0 .. N ] /\ rt \in [ 0 .. N -> 0 .. N ]
    BY DEF Forked, Branches
  <2>2. \A n \in 1 .. N : n \in 0 .. N /\ n # 0
    BY <2>1, Numbered
  <2>3. QED
    BY <2>1, <2>2
<1>3. /\ \A m \in 0 .. N : lf1[m] = IF m = b THEN a ELSE IF lf[m] = a THEN b ELSE lf[m]
      /\ \A m \in 0 .. N : rt1[m] = IF m = a THEN lf[b] ELSE IF rt[m] = a THEN b ELSE rt[m]
  BY DEF Spun
<1>4. /\ bh \in [ 0 .. N -> Int ] /\ bh[0] = 0
      /\ \A n \in 1 .. N : bh[lf[n]] = bh[rt[n]] /\ bh[n] = bh[lf[n]] + Black(col[n])
  BY DEF Heights
<1>5. Black(col[a]) = 0 /\ Black(col[b]) = 0
  BY DEF Black
<1>6. bh[a] = bh[b] /\ bh[lf[a]] = bh[a] /\ bh[lf[b]] = bh[a] /\ bh[rt[b]] = bh[a] /\ bh[a] \in Int
  <2>1. bh[a] \in Int /\ bh[lf[a]] \in Int /\ bh[b] \in Int /\ bh[lf[b]] \in Int
    BY <1>1, <1>2, <1>4
  <2>2. /\ bh[lf[a]] = bh[b] /\ bh[a] = bh[lf[a]] + 0
        /\ bh[lf[b]] = bh[rt[b]] /\ bh[b] = bh[lf[b]] + 0
    BY <1>1, <1>4, <1>5
  <2>3. QED
    BY <2>1, <2>2
<1>7. ASSUME NEW n \in 1 .. N
      PROVE  bh[lf1[n]] = bh[rt1[n]] /\ bh[n] = bh[lf1[n]] + Black(col[n])
  <2>1. CASE n = a
    <3>1. lf1[n] = lf[a] /\ rt1[n] = lf[b]
      BY <1>1, <1>2, <1>3, <2>1
    <3>2. QED
      BY <1>5, <1>6, <2>1, <3>1
  <2>2. CASE n = b
    <3>1. lf1[n] = a /\ rt1[n] = rt[b]
      BY <1>1, <1>2, <1>3, <2>2
    <3>2. QED
      BY <1>5, <1>6, <2>2, <3>1
  <2>3. CASE n # a /\ n # b
    <3>1. bh[lf1[n]] = bh[lf[n]] /\ bh[rt1[n]] = bh[rt[n]]
      BY <1>2, <1>3, <1>6, <2>3
    <3>2. QED
      BY <1>4, <3>1
  <2>4. QED
    BY <2>1, <2>2, <2>3
<1>8. QED
  BY <1>4, <1>7 DEF Heights

(* So does a rotation that lets black and red change places.               *)
LEMMA SwapHeights ==
  ASSUME NEW lf, NEW rt, NEW par, NEW root, NEW N, NEW sub, Forked(lf, rt, par, root, N, sub),
         NEW a \in 1 .. N, NEW b, Hand(rt, a, b),
         NEW lf1, NEW rt1, NEW par1, NEW root1,
         Spun(lf, rt, par, root, N, a, b, lf1, rt1, par1, root1),
         NEW col, NEW bh, Heights(lf, rt, N, col, bh), col[a] = "BLACK", col[b] = "RED",
         NEW col1, Swapped(N, col, col1, a, b)
  PROVE  Level(lf1, rt1, N, col1)
<1> USE DEF Hand, Swapped
<1>1. /\ b \in 1 .. N /\ b # a /\ lf[a] # a /\ lf[a] # b /\ lf[b] # a /\ lf[b] # b
      /\ rt[b] # a /\ rt[b] # b
  BY Around
<1>2. /\ N \in Nat /\ lf \in [ 0 .. N -> 0 .. N ] /\ rt \in [ 0 .. N -> 0 .. N ]
      /\ \A n \in 1 .. N : n \in 0 .. N /\ n # 0
  <2>1. /\ N \in Nat /\ lf \in [ 0 .. N -> 0 .. N ] /\ rt \in [ 0 .. N -> 0 .. N ]
    BY DEF Forked, Branches
  <2>2. \A n \in 1 .. N : n \in 0 .. N /\ n # 0
    BY <2>1, Numbered
  <2>3. QED
    BY <2>1, <2>2
<1>3. /\ \A m \in 0 .. N : lf1[m] = IF m = b THEN a ELSE IF lf[m] = a THEN b ELSE lf[m]
      /\ \A m \in 0 .. N : rt1[m] = IF m = a THEN lf[b] ELSE IF rt[m] = a THEN b ELSE rt[m]
  BY DEF Spun
<1>4. /\ bh \in [ 0 .. N -> Int ] /\ bh[0] = 0
      /\ \A n \in 1 .. N : bh[lf[n]] = bh[rt[n]] /\ bh[n] = bh[lf[n]] + Black(col[n])
  BY DEF Heights
<1>5. Black(col[a]) = 1 /\ Black(col[b]) = 0 /\ Black(col1[a]) = 0 /\ Black(col1[b]) = 1
  BY DEF Black
<1>6. PICK h \in Int : h = bh[b]
  BY <1>1, <1>2, <1>4
<1>7. bh[a] = h + 1 /\ bh[lf[a]] = h /\ bh[lf[b]] = h /\ bh[rt[b]] = h
  <2>1. bh[a] \in Int /\ bh[lf[a]] \in Int /\ bh[lf[b]] \in Int
    BY <1>1, <1>2, <1>4
  <2>2. /\ bh[lf[a]] = bh[b] /\ bh[a] = bh[lf[a]] + 1
        /\ bh[lf[b]] = bh[rt[b]] /\ bh[b] = bh[lf[b]] + 0
    BY <1>1, <1>4, <1>5
  <2>3. QED
    BY <1>6, <2>1, <2>2
<1>8. PICK bh1 : bh1 = [ m \in 0 .. N |-> IF m = a THEN h ELSE IF m = b THEN h + 1 ELSE bh[m] ]
  OBVIOUS
<1>9. /\ a \in 0 .. N /\ b \in 0 .. N /\ bh1[a] = h /\ bh1[b] = h + 1
      /\ \A m \in 0 .. N : m # a /\ m # b => bh1[m] = bh[m]
  BY <1>1, <1>2, <1>8
<1>10. bh1 \in [ 0 .. N -> Int ] /\ bh1[0] = 0
  <2>1. 0 \in 0 .. N /\ a # 0 /\ b # 0
    BY <1>1, <1>2
  <2>2. QED
    BY <1>4, <1>8, <1>9, <2>1
<1>11. ASSUME NEW n \in 1 .. N
       PROVE  bh1[lf1[n]] = bh1[rt1[n]] /\ bh1[n] = bh1[lf1[n]] + Black(col1[n])
  <2>1. CASE n = a
    <3>1. lf1[n] = lf[a] /\ rt1[n] = lf[b] /\ lf[a] \in 0 .. N /\ lf[b] \in 0 .. N
      BY <1>1, <1>2, <1>3, <2>1
    <3>2. bh1[lf[a]] = h /\ bh1[lf[b]] = h
      BY <1>1, <1>7, <1>9, <3>1
    <3>3. QED
      BY <1>5, <1>9, <2>1, <3>1, <3>2
  <2>2. CASE n = b
    <3>1. lf1[n] = a /\ rt1[n] = rt[b] /\ rt[b] \in 0 .. N
      BY <1>1, <1>2, <1>3, <2>2
    <3>2. bh1[rt[b]] = h
      BY <1>1, <1>7, <1>9, <3>1
    <3>3. QED
      BY <1>5, <1>9, <2>2, <3>1, <3>2
  <2>3. CASE n # a /\ n # b
    <3>1. lf[n] \in 0 .. N /\ rt[n] \in 0 .. N /\ n \in 0 .. N
      BY <1>2
    <3>2. lf[n] # b /\ rt[n] # b
      BY <1>1, <2>3 DEF Forked, Upward
    <3>3. lf1[n] = (IF lf[n] = a THEN b ELSE lf[n]) /\ rt1[n] = (IF rt[n] = a THEN b ELSE rt[n])
      BY <1>3, <2>3, <3>1
    <3>4. bh1[lf1[n]] = bh[lf[n]]
      BY <1>7, <1>9, <3>1, <3>2, <3>3
    <3>5. bh1[rt1[n]] = bh[rt[n]]
      BY <1>7, <1>9, <3>1, <3>2, <3>3
    <3>6. bh1[n] = bh[n] /\ col1[n] = col[n]
      BY <1>9, <2>3, <3>1
    <3>7. QED
      BY <1>4, <3>4, <3>5, <3>6
  <2>4. QED
    BY <2>1, <2>2, <2>3
<1>12. QED
  BY <1>10, <1>11 DEF Heights, Level

(* What the loop finds when it goes on, and where z is below g.            *)
Unsettled(par, col, at, p, g) == at # 0 /\ p = par[at] /\ col[p] = "RED" /\ g = par[p]
Inward(lf, rt, at, p, g) == p = rt[g] /\ at = lf[p]
Outward(lf, rt, at, p, g) == p = rt[g] /\ at = rt[p]

(* When the loop goes on, z has a red parent and a black grandparent.      *)
LEMMA Relatives ==
  ASSUME NEW lf, NEW rt, NEW par, NEW root, NEW N, NEW sub, Forked(lf, rt, par, root, N, sub),
         NEW col, NEW at, Coloured(par, root, N, col, at), NEW p, NEW g,
         Unsettled(par, col, at, p, g)
  PROVE  /\ at \in 1 .. N /\ p \in 1 .. N /\ g \in 1 .. N /\ at # p /\ p # g
         /\ at # root /\ p # root
         /\ col[at] = "RED" /\ col[g] = "BLACK"
         /\ lf[p] = at \/ rt[p] = at
         /\ lf[g] = p \/ rt[g] = p
<1>1. /\ N \in Nat /\ par \in [ 0 .. N -> 0 .. N ] /\ par[root] = 0
      /\ \A n \in 1 .. N : n # root => par[n] # 0 /\ (lf[par[n]] = n \/ rt[par[n]] = n)
  BY DEF Forked, Branches, Upward
<1>2. /\ col \in [ 0 .. N -> { "RED", "BLACK" } ] /\ col[0] = "BLACK"
      /\ at \in 0 .. N /\ col[at] = "RED" /\ (col[root] = "RED" => at = root)
      /\ \A n \in 1 .. N : col[n] = "RED" /\ col[par[n]] = "RED" => n = at
  BY DEF Coloured, Unsettled
<1>0. at # 0 /\ p = par[at] /\ col[p] = "RED" /\ g = par[p]
  BY DEF Unsettled
<1>3. at \in 1 .. N /\ p # 0 /\ p \in 0 .. N
  BY <1>0, <1>1, <1>2
<1>4. p \in 1 .. N
  BY <1>1, <1>3
<1>5. at # root
  BY <1>0, <1>1, <1>3
<1>6. p # root
  BY <1>0, <1>2, <1>5
<1>7. g # 0 /\ g \in 0 .. N /\ (lf[p] = at \/ rt[p] = at) /\ (lf[g] = p \/ rt[g] = p)
  BY <1>0, <1>1, <1>3, <1>4, <1>5, <1>6
<1>8. g \in 1 .. N
  BY <1>1, <1>7
<1>9. at # p /\ p # g
  BY <1>4, <1>7, <1>8, Limbs
<1>10. col[g] # "RED"
  BY <1>0, <1>2, <1>4, <1>9
<1>11. QED
  BY <1>2, <1>3, <1>4, <1>5, <1>6, <1>7, <1>8, <1>9, <1>10

(* Case 2: after the rotation at the parent it is the node the loop is at.  *)
LEMMA InnerColoured ==
  ASSUME NEW lf, NEW rt, NEW par, NEW root, NEW N, NEW sub, Forked(lf, rt, par, root, N, sub),
         NEW col, NEW at, Coloured(par, root, N, col, at), NEW p, NEW g,
         Unsettled(par, col, at, p, g), Inward(lf, rt, at, p, g),
         NEW lf1, NEW rt1, NEW par1, NEW root1,
         Spun(rt, lf, par, root, N, p, at, rt1, lf1, par1, root1)
  PROVE  /\ Coloured(par1, root1, N, col, p)
         /\ par1[p] = at /\ par1[at] = g /\ rt1[g] = at /\ rt1[at] = p /\ lf1[g] = lf[g]
<1>1. /\ at \in 1 .. N /\ p \in 1 .. N /\ g \in 1 .. N /\ at # p /\ p # g
      /\ at # root /\ p # root
      /\ col[at] = "RED" /\ col[g] = "BLACK"
  BY Relatives
<1>2. /\ N \in Nat /\ par \in [ 0 .. N -> 0 .. N ] /\ par[root] = 0
      /\ \A n \in 1 .. N : n \in 0 .. N /\ n # 0
  <2>1. /\ N \in Nat /\ par \in [ 0 .. N -> 0 .. N ] /\ par[root] = 0
    BY DEF Forked, Branches, Upward
  <2>2. \A n \in 1 .. N : n \in 0 .. N /\ n # 0
    BY <2>1, Numbered
  <2>3. QED
    BY <2>1, <2>2
<1>3. /\ col \in [ 0 .. N -> { "RED", "BLACK" } ] /\ col[0] = "BLACK"
      /\ at \in 0 .. N /\ col[at] = "RED" /\ (col[root] = "RED" => at = root)
      /\ \A n \in 1 .. N : col[n] = "RED" /\ col[par[n]] = "RED" => n = at
  BY <1>1 DEF Coloured
<1>4. /\ \A m \in 0 .. N : rt1[m] = IF m = at THEN p ELSE IF rt[m] = p THEN at ELSE rt[m]
      /\ \A m \in 0 .. N : lf1[m] = IF m = p THEN rt[at] ELSE IF lf[m] = p THEN at ELSE lf[m]
      /\ \A m \in 0 .. N : par1[m] = IF m = p THEN at ELSE IF m = at THEN par[p]
                                    ELSE IF m = rt[at] /\ m # 0 THEN p ELSE par[m]
      /\ root1 = root
  BY <1>1 DEF Spun
<1>0. p = par[at] /\ col[p] = "RED" /\ g = par[p] /\ p = rt[g] /\ at = lf[p]
  BY Zenon DEF Unsettled, Inward
<1>5. /\ p \in 0 .. N /\ g \in 0 .. N /\ p # 0 /\ g # 0
      /\ g # at
  <2>1. /\ at # 0 /\ p # 0 /\ p \in 0 .. N /\ g \in 0 .. N /\ g # 0
    BY <1>1, <1>2
  <2>2. at \in sub[p] /\ p \in sub[g]
    <3>1. at \in sub[p]
      <4>1. lf[p] # 0 => lf[p] \in sub[p]
        BY <1>1, Limbs
      <4>2. QED
        BY <1>0, <2>1, <4>1, Zenon
    <3>2. p \in sub[g]
      <4>1. rt[g] # 0 => rt[g] \in sub[g]
        BY <1>1, Limbs
      <4>2. QED
        BY <1>0, <2>1, <4>1, Zenon
    <3>3. QED
      BY <3>1, <3>2
  <2>3. g # at
    BY <1>1, <2>2, Descends
  <2>4. QED
    BY <2>1, <2>3
<1>6. lf[g] # p
  <2>1. rt[g] # 0 => lf[g] # rt[g]
    BY <1>1, Limbs
  <2>2. QED
    BY <1>0, <1>5, <2>1, Zenon
<1>7. /\ par1[p] = at /\ par1[at] = g /\ rt1[g] = at /\ rt1[at] = p /\ lf1[g] = lf[g]
  BY <1>0, <1>1, <1>3, <1>4, <1>5, <1>6, Zenon
<1>8. ASSUME NEW n \in 1 .. N, col[n] = "RED", col[par1[n]] = "RED" PROVE n = p
  <2>1. n \in 0 .. N
    BY <1>2
  <2>2. CASE n = at
    BY <1>1, <1>7, <1>8, <2>2
  <2>3. CASE n = rt[at] /\ n # at /\ n # p
    <3>1. par[n] = at
      BY <1>1, <1>2, <2>3 DEF Forked, Upward
    <3>2. QED
      BY <1>3, <1>8, <2>3, <3>1
  <2>4. CASE n # rt[at] /\ n # at /\ n # p
    <3>1. par1[n] = par[n]
      BY <1>4, <2>1, <2>4
    <3>2. QED
      BY <1>3, <1>8, <2>4, <3>1
  <2>5. QED
    BY <2>2, <2>3, <2>4
<1>9. p \in 0 .. N /\ col[p] = "RED" /\ root1 = root /\ col[root1] # "RED"
  BY <1>0, <1>1, <1>3, <1>4, <1>5, Zenon
<1>10. Coloured(par1, root1, N, col, p)
  BY <1>3, <1>8, <1>9 DEF Coloured
<1>11. QED
  BY <1>7, <1>10

(* Case 3: parent and grandparent change places and colours.               *)
LEMMA OuterColoured ==
  ASSUME NEW lf, NEW rt, NEW par, NEW root, NEW N, NEW sub, Forked(lf, rt, par, root, N, sub),
         NEW col, NEW at, Coloured(par, root, N, col, at), NEW p, NEW g,
         Unsettled(par, col, at, p, g), Outward(lf, rt, at, p, g), col[lf[g]] # "RED",
         NEW lf1, NEW rt1, NEW par1, NEW root1,
         Spun(lf, rt, par, root, N, g, p, lf1, rt1, par1, root1),
         NEW col1, Swapped(N, col, col1, g, p)
  PROVE  Coloured(par1, root1, N, col1, at)
<1> USE DEF Swapped
<1>1. /\ at \in 1 .. N /\ p \in 1 .. N /\ g \in 1 .. N /\ at # p /\ p # g
      /\ at # root /\ p # root
      /\ col[at] = "RED" /\ col[g] = "BLACK"
  BY Relatives
<1>2. /\ N \in Nat /\ par \in [ 0 .. N -> 0 .. N ] /\ par[root] = 0 /\ root \in 0 .. N
      /\ \A n \in 1 .. N : n \in 0 .. N /\ n # 0
  <2>1. /\ N \in Nat /\ par \in [ 0 .. N -> 0 .. N ] /\ par[root] = 0 /\ root \in 0 .. N
    BY DEF Forked, Branches, Upward
  <2>2. \A n \in 1 .. N : n \in 0 .. N /\ n # 0
    BY <2>1, Numbered
  <2>3. QED
    BY <2>1, <2>2
<1>3. /\ col \in [ 0 .. N -> { "RED", "BLACK" } ] /\ col[0] = "BLACK"
      /\ at \in 0 .. N /\ col[at] = "RED" /\ (col[root] = "RED" => at = root)
      /\ \A n \in 1 .. N : col[n] = "RED" /\ col[par[n]] = "RED" => n = at
  BY <1>1 DEF Coloured
<1>4. /\ \A m \in 0 .. N : par1[m] = IF m = g THEN p ELSE IF m = p THEN par[g]
                                    ELSE IF m = lf[p] /\ m # 0 THEN g ELSE par[m]
      /\ root1 = IF root = g THEN p ELSE root
  BY DEF Spun
<1>0. p = par[at] /\ col[p] = "RED" /\ g = par[p] /\ p = rt[g] /\ at = rt[p]
  BY Zenon DEF Unsettled, Outward
<1>5. at \in sub[p] /\ p \in sub[g] /\ at # g /\ at # lf[p]
  <2>1. at \in sub[p] /\ p \in sub[g] /\ at # lf[p]
    <3>1. /\ at # 0 /\ p # 0
      BY <1>1, <1>2
    <3>2. rt[p] # 0 => rt[p] \in sub[p] /\ lf[p] # rt[p]
      BY <1>1, Limbs
    <3>3. rt[g] # 0 => rt[g] \in sub[g]
      BY <1>1, Limbs
    <3>4. QED
      BY <1>0, <3>1, <3>2, <3>3, Zenon
  <2>2. QED
    BY <1>1, <2>1, Descends
<1>6. ASSUME NEW n \in 1 .. N, col1[n] = "RED", col1[par1[n]] = "RED" PROVE n = at
  <2>1. n \in 0 .. N /\ n # 0
    BY <1>2
  <2>2. par[n] = g => n = lf[g] \/ n = p
    <3>1. n # root => (lf[par[n]] = n \/ rt[par[n]] = n)
      BY DEF Forked, Upward
    <3>2. n = root => par[n] = 0
      BY <1>2
    <3>3. QED
      BY <1>0, <1>1, <1>2, <3>1, <3>2, Zenon
  <2>3. CASE n = g
    BY <1>4, <1>6, <2>1, <2>3
  <2>4. CASE n = p
    BY <1>6, <2>4
  <2>5. CASE n = lf[p] /\ n # g /\ n # p
    <3>1. par[n] = p
      BY <1>1, <2>1, <2>5 DEF Forked, Upward
    <3>2. col[n] = "RED" /\ col[p] = "RED"
      BY <1>0, <1>6, <2>1, <2>5, Zenon
    <3>3. QED
      BY <1>3, <3>1, <3>2
  <2>6. CASE n # lf[p] /\ n # g /\ n # p
    <3>1. par1[n] = par[n] /\ par[n] \in 0 .. N /\ col1[n] = col[n]
      BY <1>2, <1>4, <2>1, <2>6
    <3>2. CASE par[n] = g
      BY <1>6, <2>2, <2>6, <3>1, <3>2
    <3>3. CASE par[n] = p
      BY <1>6, <3>1, <3>3
    <3>4. CASE par[n] # g /\ par[n] # p
      BY <1>3, <1>6, <3>1, <3>4
    <3>5. QED
      BY <3>2, <3>3, <3>4
  <2>7. QED
    BY <2>3, <2>4, <2>5, <2>6
<1>7. col1[root1] # "RED"
  BY <1>1, <1>2, <1>3, <1>4
<1>8. col1[at] = "RED" /\ col1[0] = "BLACK"
  BY <1>1, <1>2, <1>3, <1>5
<1>9. QED
  BY <1>3, <1>6, <1>7, <1>8 DEF Coloured

(* Case 1: the children of g become black, g red.                          *)
LEMMA PaintedColoured ==
  ASSUME NEW lf, NEW rt, NEW par, NEW root, NEW N, NEW sub, Forked(lf, rt, par, root, N, sub),
         NEW col, NEW at, Coloured(par, root, N, col, at), NEW p, NEW g,
         Unsettled(par, col, at, p, g), NEW c, NEW d, c = lf[g], d = rt[g],
         col[c] = "RED", col[d] = "RED",
         NEW col1, Repainted(N, col, col1, g, c, d)
  PROVE  Coloured(par, root, N, col1, g)
<1> USE DEF Repainted
<1>1. /\ at \in 1 .. N /\ p \in 1 .. N /\ g \in 1 .. N /\ at # p /\ p # g
      /\ at # root /\ p # root
      /\ col[at] = "RED" /\ col[g] = "BLACK"
      /\ lf[g] = p \/ rt[g] = p
  BY Relatives
<1>2. /\ N \in Nat /\ par \in [ 0 .. N -> 0 .. N ] /\ par[root] = 0 /\ root \in 0 .. N
      /\ \A n \in 1 .. N : n \in 0 .. N /\ n # 0
  <2>1. /\ N \in Nat /\ par \in [ 0 .. N -> 0 .. N ] /\ par[root] = 0 /\ root \in 0 .. N
    BY DEF Forked, Branches, Upward
  <2>2. \A n \in 1 .. N : n \in 0 .. N /\ n # 0
    BY <2>1, Numbered
  <2>3. QED
    BY <2>1, <2>2
<1>3. /\ col \in [ 0 .. N -> { "RED", "BLACK" } ] /\ col[0] = "BLACK"
      /\ at \in 0 .. N /\ col[at] = "RED" /\ (col[root] = "RED" => at = root)
      /\ \A n \in 1 .. N : col[n] = "RED" /\ col[par[n]] = "RED" => n = at
  BY <1>1 DEF Coloured
<1>4. p = par[at]
  BY DEF Unsettled
<1>5. c # 0 /\ d # 0 /\ par[c] = g /\ par[d] = g
  <2>1. c # 0 /\ d # 0
    BY <1>3
  <2>2. QED
    BY <1>1, <2>1 DEF Forked, Upward
<1>6. ASSUME NEW n \in 1 .. N, col1[n] = "RED", col1[par[n]] = "RED" PROVE n = g
  <2>1. n \in 0 .. N /\ par[n] \in 0 .. N
    BY <1>2
  <2>2. n # c /\ n # d /\ par[n] # c /\ par[n] # d
    BY <1>6
  <2>3. CASE par[n] = g
    <3>1. n # root
      BY <1>1, <1>2, <2>3
    <3>2. n = lf[g] \/ n = rt[g]
      BY <2>3, <3>1 DEF Forked, Upward
    <3>3. QED
      BY <2>2, <3>2
  <2>4. CASE par[n] # g /\ n # g
    <3>1. n = at
      BY <1>3, <1>6, <2>1, <2>2, <2>4
    <3>2. QED
      BY <1>1, <1>4, <2>2, <3>1
  <2>5. QED
    BY <2>3, <2>4
<1>7. col1[root] = "RED" => g = root
  BY <1>1, <1>2, <1>3, <1>5
<1>8. g \in 0 .. N /\ col1[0] = "BLACK"
  BY <1>1, <1>2, <1>3, <1>5
<1>9. QED
  BY <1>6, <1>7, <1>8 DEF Coloured

LEMMA PaintedHeights ==
  ASSUME NEW lf, NEW rt, NEW par, NEW root, NEW N, NEW sub, Forked(lf, rt, par, root, N, sub),
         NEW g \in 1 .. N, NEW c, NEW d, c = lf[g], d = rt[g],
         NEW col, NEW bh, Heights(lf, rt, N, col, bh), col[0] = "BLACK",
         col[g] = "BLACK", col[c] = "RED", col[d] = "RED",
         NEW col1, Repainted(N, col, col1, g, c, d)
  PROVE  Level(lf, rt, N, col1)
<1> USE DEF Repainted
<1>1. /\ N \in Nat /\ lf \in [ 0 .. N -> 0 .. N ] /\ rt \in [ 0 .. N -> 0 .. N ]
      /\ \A n \in 1 .. N : n \in 0 .. N /\ n # 0
  <2>1. /\ N \in Nat /\ lf \in [ 0 .. N -> 0 .. N ] /\ rt \in [ 0 .. N -> 0 .. N ]
    BY DEF Forked, Branches
  <2>2. \A n \in 1 .. N : n \in 0 .. N /\ n # 0
    BY <2>1, Numbered
  <2>3. QED
    BY <2>1, <2>2
<1>2. c # 0 /\ d # 0 /\ c # d /\ c \in 1 .. N /\ d \in 1 .. N /\ c # g /\ d # g
  <2>1. c # 0 /\ d # 0
    OBVIOUS
  <2>2. /\ lf[g] # 0 => lf[g] \in 1 .. N /\ lf[g] # rt[g]
        /\ rt[g] # 0 => rt[g] \in 1 .. N
        /\ lf[g] # g /\ rt[g] # g
    BY Limbs
  <2>3. QED
    BY <2>1, <2>2
<1>3. /\ bh \in [ 0 .. N -> Int ] /\ bh[0] = 0
      /\ \A n \in 1 .. N : bh[lf[n]] = bh[rt[n]] /\ bh[n] = bh[lf[n]] + Black(col[n])
  BY DEF Heights
<1>4. PICK h \in Int : h = bh[c]
  BY <1>1, <1>2, <1>3
<1>5. /\ bh[d] = h /\ bh[g] = h + 1 /\ bh[lf[c]] = h /\ bh[rt[c]] = h
      /\ bh[lf[d]] = h /\ bh[rt[d]] = h
  <2>1. Black(col[g]) = 1 /\ Black(col[c]) = 0 /\ Black(col[d]) = 0
    BY DEF Black
  <2>2. bh[lf[c]] \in Int /\ bh[lf[d]] \in Int /\ bh[d] \in Int
    BY <1>1, <1>2, <1>3
  <2>3. /\ bh[c] = bh[d] /\ bh[g] = bh[c] + 1
        /\ bh[lf[c]] = bh[rt[c]] /\ bh[c] = bh[lf[c]] + 0
        /\ bh[lf[d]] = bh[rt[d]] /\ bh[d] = bh[lf[d]] + 0
    BY <1>2, <1>3, <2>1
  <2>4. bh[d] = h /\ bh[g] = h + 1
    BY <1>4, <2>3
  <2>5. bh[lf[c]] = h /\ bh[rt[c]] = h
    BY <1>4, <2>2, <2>3
  <2>6. bh[lf[d]] = h /\ bh[rt[d]] = h
    BY <2>2, <2>3, <2>4
  <2>7. QED
    BY <2>4, <2>5, <2>6
<1>6. PICK bh1 : bh1 = [ m \in 0 .. N |-> IF m = c \/ m = d THEN h + 1 ELSE bh[m] ]
  OBVIOUS
<1>7. /\ bh1[c] = h + 1 /\ bh1[d] = h + 1
      /\ \A m \in 0 .. N : m # c /\ m # d => bh1[m] = bh[m]
  BY <1>1, <1>2, <1>6
<1>8. bh1 \in [ 0 .. N -> Int ] /\ bh1[0] = 0
  <2>1. 0 \in 0 .. N
    BY <1>1
  <2>2. QED
    BY <1>2, <1>3, <1>6, <1>7, <2>1
<1>9. ASSUME NEW n \in 1 .. N
      PROVE  bh1[lf[n]] = bh1[rt[n]] /\ bh1[n] = bh1[lf[n]] + Black(col1[n])
  <2>1. n \in 0 .. N /\ n # 0 /\ lf[n] \in 0 .. N /\ rt[n] \in 0 .. N
    BY <1>1
  <2>2. CASE n = g
    <3>1. Black(col1[g]) = 0 /\ bh1[g] = h + 1
      BY <1>2, <1>5, <1>7, <2>1, <2>2 DEF Black
    <3>2. QED
      BY <1>4, <1>7, <2>2, <3>1
  <2>3. CASE n # g
    <3>1. lf[n] # c /\ lf[n] # d /\ rt[n] # c /\ rt[n] # d
      <4>1. par[c] = g /\ par[d] = g
        BY <1>2 DEF Forked, Upward
      <4>2. (lf[n] # 0 => par[lf[n]] = n) /\ (rt[n] # 0 => par[rt[n]] = n)
        BY DEF Forked, Upward
      <4>3. QED
        BY <1>2, <2>3, <4>1, <4>2
    <3>2. bh1[lf[n]] = bh[lf[n]] /\ bh1[rt[n]] = bh[rt[n]]
      BY <1>7, <2>1, <3>1
    <3>3. CASE n = c \/ n = d
      <4>1. Black(col1[n]) = 1 /\ bh1[n] = h + 1 /\ bh[lf[n]] = h /\ bh[rt[n]] = h
        BY <1>5, <1>7, <3>3 DEF Black
      <4>2. QED
        BY <3>2, <4>1
    <3>4. CASE n # c /\ n # d
      BY <1>3, <1>7, <2>1, <2>3, <3>2, <3>4
    <3>5. QED
      BY <3>3, <3>4
  <2>4. QED
    BY <2>2, <2>3
<1>10. QED
  BY <1>8, <1>9 DEF Heights, Level

(* The root is painted black.                                              *)
LEMMA RootColoured ==
  ASSUME NEW lf, NEW rt, NEW par, NEW root, NEW N, NEW sub, Forked(lf, rt, par, root, N, sub),
         NEW col, NEW at, Coloured(par, root, N, col, at), col[par[at]] # "RED",
         NEW col1, col1 \in [ 0 .. N -> { "RED", "BLACK" } ], col1[root] = "BLACK",
         \A m \in 0 .. N : m # root => col1[m] = col[m]
  PROVE  Coloured(par, root, N, col1, 0)
<1>1. /\ N \in Nat /\ par \in [ 0 .. N -> 0 .. N ] /\ root \in 0 .. N
      /\ \A n \in 1 .. N : n \in 0 .. N /\ n # 0
  <2>1. /\ N \in Nat /\ par \in [ 0 .. N -> 0 .. N ] /\ root \in 0 .. N
    BY DEF Forked, Branches, Upward
  <2>2. \A n \in 1 .. N : n \in 0 .. N /\ n # 0
    BY <2>1, Numbered
  <2>3. QED
    BY <2>1, <2>2
<1>2. /\ col[0] = "BLACK"
      /\ \A n \in 1 .. N : col[n] = "RED" /\ col[par[n]] = "RED" => n = at
  BY DEF Coloured
<1>3. 0 \in 0 .. N
  BY <1>1
<1>4. ASSUME NEW n \in 1 .. N, col1[n] = "RED", col1[par[n]] = "RED" PROVE FALSE
  <2>1. n \in 0 .. N /\ par[n] \in 0 .. N
    BY <1>1
  <2>2. n # root /\ par[n] # root
    BY <1>4
  <2>3. QED
    BY <1>2, <1>4, <2>1, <2>2
<1>5. col1[0] = "BLACK"
  BY <1>2, <1>3
<1>6. QED
  BY <1>3, <1>4, <1>5 DEF Coloured

LEMMA RootHeights ==
  ASSUME NEW lf, NEW rt, NEW par, NEW root, NEW N, NEW sub, Forked(lf, rt, par, root, N, sub),
         root # 0, NEW col, NEW bh, Heights(lf, rt, N, col, bh),
         NEW col1, col1[root] = "BLACK", \A m \in 0 .. N : m # root => col1[m] = col[m]
  PROVE  Level(lf, rt, N, col1)
<1>1. /\ N \in Nat /\ lf \in [ 0 .. N -> 0 .. N ] /\ rt \in [ 0 .. N -> 0 .. N ]
      /\ root \in 0 .. N /\ par[root] = 0
      /\ \A n \in 1 .. N : n \in 0 .. N /\ n # 0
  <2>1. /\ N \in Nat /\ lf \in [ 0 .. N -> 0 .. N ] /\ rt \in [ 0 .. N -> 0 .. N ]
        /\ root \in 0 .. N /\ par[root] = 0
    BY DEF Forked, Branches, Upward
  <2>2. \A n \in 1 .. N : n \in 0 .. N /\ n # 0
    BY <2>1, Numbered
  <2>3. QED
    BY <2>1, <2>2
<1>2. /\ bh \in [ 0 .. N -> Int ] /\ bh[0] = 0
      /\ \A n \in 1 .. N : bh[lf[n]] = bh[rt[n]] /\ bh[n] = bh[lf[n]] + Black(col[n])
  BY DEF Heights
<1>0. PICK h \in Int : h = bh[lf[root]]
  BY <1>1, <1>2
<1>3. PICK bh1 : bh1 = [ m \in 0 .. N |-> IF m = root THEN h + 1 ELSE bh[m] ]
  OBVIOUS
<1>4. bh1[root] = h + 1 /\ \A m \in 0 .. N : m # root => bh1[m] = bh[m]
  BY <1>1, <1>3
<1>5. bh1 \in [ 0 .. N -> Int ] /\ bh1[0] = 0
  <2>1. 0 \in 0 .. N
    BY <1>1
  <2>2. QED
    BY <1>2, <1>3, <1>4, <2>1
<1>6. ASSUME NEW n \in 1 .. N
      PROVE  bh1[lf[n]] = bh1[rt[n]] /\ bh1[n] = bh1[lf[n]] + Black(col1[n])
  <2>1. n \in 0 .. N /\ n # 0 /\ lf[n] \in 0 .. N /\ rt[n] \in 0 .. N
    BY <1>1
  <2>2. lf[n] # root /\ rt[n] # root
    <3>1. (lf[n] # 0 => par[lf[n]] = n) /\ (rt[n] # 0 => par[rt[n]] = n)
      BY DEF Forked, Upward
    <3>2. QED
      BY <1>1, <2>1, <3>1
  <2>3. bh1[lf[n]] = bh[lf[n]] /\ bh1[rt[n]] = bh[rt[n]]
    BY <1>4, <2>1, <2>2
  <2>4. CASE n = root
    <3>1. Black(col1[n]) = 1
      BY <2>4 DEF Black
    <3>2. QED
      BY <1>0, <1>2, <1>4, <2>3, <2>4, <3>1
  <2>5. CASE n # root
    BY <1>2, <1>4, <2>1, <2>3, <2>5
  <2>6. QED
    BY <2>4, <2>5
<1>7. QED
  BY <1>5, <1>6 DEF Heights, Level

(* A new node n under p, which has no child on that side.                  *)
SubGrown(n, sub, p) ==
  [ m \in 0 .. n |-> IF m = n THEN {n} ELSE IF p \in sub[m] THEN sub[m] \cup {n} ELSE sub[m] ]
Hung(lf, rt, par, n, p, lf1, rt1, par1) ==
  /\ lf1 = [ m \in 0 .. n |-> IF m = n THEN 0 ELSE IF m = p THEN n ELSE lf[m] ]
  /\ rt1 = [ m \in 0 .. n |-> IF m = n THEN 0 ELSE rt[m] ]
  /\ par1 = [ m \in 0 .. n |-> IF m = n THEN p ELSE par[m] ]

(* M is the number after N.                                                *)
Free(lf, p) == lf[p] = 0
After(N, M) == N \in Nat /\ M = N + 1

LEMMA OneMore ==
  ASSUME NEW N, NEW M, After(N, M)
  PROVE  /\ M \in Nat /\ M \in 0 .. M /\ M \in 1 .. M /\ M # 0
         /\ 0 \in 0 .. N /\ 0 \in 0 .. M /\ M \notin 0 .. N /\ M \notin 1 .. N
         /\ 1 .. M = (1 .. N) \cup {M} /\ 0 .. M = (0 .. N) \cup {M}
         /\ \A m \in 1 .. N : m \in 0 .. N /\ m # 0 /\ m # M
BY DEF After

LEMMA HungForked ==
  ASSUME NEW lf, NEW rt, NEW par, NEW root, NEW N, NEW sub, Forked(lf, rt, par, root, N, sub),
         NEW p \in 1 .. N, Free(lf, p), NEW M, After(N, M), NEW lf1, NEW rt1, NEW par1,
         Hung(lf, rt, par, M, p, lf1, rt1, par1), NEW sub1, sub1 = SubGrown(M, sub, p)
  PROVE  Forked(lf1, rt1, par1, root, M, sub1)
<1>1. /\ N \in Nat /\ sub \in [ 0 .. N -> SUBSET (1 .. N) ] /\ sub[0] = {}
      /\ lf \in [ 0 .. N -> 0 .. N ] /\ rt \in [ 0 .. N -> 0 .. N ] /\ lf[0] = 0 /\ rt[0] = 0
      /\ par \in [ 0 .. N -> 0 .. N ] /\ root \in 0 .. N /\ sub[root] = 1 .. N /\ par[root] = 0
  BY DEF Forked, Branches, Upward
<1>2. /\ M \in Nat /\ M \in 0 .. M /\ M \in 1 .. M /\ M # 0
      /\ 0 \in 0 .. N /\ 0 \in 0 .. M /\ M \notin 0 .. N /\ M \notin 1 .. N
      /\ 1 .. M = (1 .. N) \cup {M} /\ 0 .. M = (0 .. N) \cup {M}
      /\ \A m \in 1 .. N : m \in 0 .. N /\ m # 0 /\ m # M
      /\ p \in 0 .. N /\ p # 0 /\ p # M
  BY OneMore
<1>0. \A m \in 0 .. N : m \in 0 .. M /\ m # M
  BY <1>2
<1>3. /\ lf1[M] = 0 /\ rt1[M] = 0 /\ par1[M] = p
      /\ lf1[p] = M /\ \A m \in 0 .. N : m # p => lf1[m] = lf[m]
      /\ \A m \in 0 .. N : rt1[m] = rt[m] /\ par1[m] = par[m]
  <2>1. lf1[M] = 0 /\ rt1[M] = 0 /\ par1[M] = p
    <3>1. M \in 0 .. M
      BY <1>2
    <3>2. QED
      BY <3>1 DEF Hung
  <2>2. ASSUME NEW m \in 0 .. N
        PROVE  /\ m = p => lf1[m] = M
               /\ m # p => lf1[m] = lf[m]
               /\ rt1[m] = rt[m] /\ par1[m] = par[m]
    <3>1. m \in 0 .. M /\ m # M
      BY <1>0
    <3>2. QED
      BY <3>1 DEF Hung
  <2>3. QED
    BY <1>2, <2>1, <2>2
<1>4. /\ sub1[M] = {M}
      /\ \A m \in 0 .. N : p \in sub[m] => sub1[m] = sub[m] \cup {M}
      /\ \A m \in 0 .. N : p \notin sub[m] => sub1[m] = sub[m]
  <2>1. sub1[M] = {M}
    <3>1. M \in 0 .. M
      BY <1>2
    <3>2. QED
      BY <3>1 DEF SubGrown
  <2>2. ASSUME NEW m \in 0 .. N
        PROVE  /\ p \in sub[m] => sub1[m] = sub[m] \cup {M}
               /\ p \notin sub[m] => sub1[m] = sub[m]
    <3>1. m \in 0 .. M /\ m # M
      BY <1>0
    <3>2. QED
      BY <3>1 DEF SubGrown
  <2>3. QED
    BY <2>1, <2>2
<1>5. \A c \in 0 .. N : sub[c] \subseteq 1 .. N /\ sub[c] \subseteq 0 .. N /\ M \notin sub[c]
  BY <1>1, <1>2
<1>6. p \in sub[p] /\ p \notin sub[rt[p]] /\ sub[p] = {p} \cup sub[rt[p]]
  <2>1. /\ sub[p] = {p} \cup sub[lf[p]] \cup sub[rt[p]] /\ p \notin sub[rt[p]]
    BY DEF Forked, Branches
  <2>2. sub[lf[p]] = {}
    BY <1>1 DEF Free
  <2>3. QED
    BY <2>1, <2>2
<1>7. \A n \in 1 .. N : lf[n] \in 0 .. N /\ rt[n] \in 0 .. N /\ par[n] \in 0 .. N
  BY <1>1, <1>2
<1>8. /\ sub1 \in [ 0 .. M -> SUBSET (1 .. M) ] /\ sub1[0] = {}
      /\ lf1 \in [ 0 .. M -> 0 .. M ] /\ rt1 \in [ 0 .. M -> 0 .. M ] /\ lf1[0] = 0 /\ rt1[0] = 0
      /\ par1 \in [ 0 .. M -> 0 .. M ] /\ root \in 0 .. M
  <2>1. /\ lf1 = [ m \in 0 .. M |-> lf1[m] ] /\ rt1 = [ m \in 0 .. M |-> rt1[m] ]
        /\ par1 = [ m \in 0 .. M |-> par1[m] ] /\ sub1 = [ m \in 0 .. M |-> sub1[m] ]
    BY DEF Hung, SubGrown
  <2>2. ASSUME NEW m \in 0 .. M
        PROVE  lf1[m] \in 0 .. M /\ rt1[m] \in 0 .. M /\ par1[m] \in 0 .. M
    <3>1. CASE m = M
      BY <1>2, <1>3, <3>1
    <3>2. CASE m \in 0 .. N
      <4>1. lf[m] \in 0 .. N /\ rt[m] \in 0 .. N /\ par[m] \in 0 .. N
        BY <1>1, <3>2
      <4>2. lf[m] \in 0 .. M /\ rt[m] \in 0 .. M /\ par[m] \in 0 .. M /\ M \in 0 .. M
        BY <1>0, <1>2, <4>1
      <4>3. QED
        BY <1>3, <3>2, <4>2
    <3>3. QED
      BY <1>2, <3>1, <3>2
  <2>3. ASSUME NEW m \in 0 .. M PROVE sub1[m] \in SUBSET (1 .. M)
    <3>1. CASE m = M
      BY <1>2, <1>4, <3>1
    <3>2. CASE m \in 0 .. N
      <4>1. sub[m] \subseteq 1 .. M /\ M \in 1 .. M
        BY <1>2, <1>5, <3>2
      <4>2. QED
        BY <1>4, <3>2, <4>1
    <3>3. QED
      BY <1>2, <3>1, <3>2
  <2>4. 0 \in 0 .. N /\ 0 # p
    BY <1>1, <1>2
  <2>5. sub1[0] = {} /\ lf1[0] = 0 /\ rt1[0] = 0
    <3>1. lf1[0] = lf[0] /\ rt1[0] = rt[0] /\ p \notin sub[0]
      BY <1>1, <1>3, <2>4
    <3>2. sub1[0] = sub[0]
      BY <1>4, <2>4, <3>1
    <3>3. QED
      BY <1>1, <3>1, <3>2
  <2>6. root \in 0 .. M
    BY <1>1, <1>2
  <2>7. QED
    BY <2>1, <2>2, <2>3, <2>5, <2>6
<1>9. ASSUME NEW n \in 1 .. M
      PROVE  /\ sub1[n] = {n} \cup sub1[lf1[n]] \cup sub1[rt1[n]]
             /\ n \notin sub1[lf1[n]] /\ n \notin sub1[rt1[n]]
             /\ sub1[lf1[n]] \cap sub1[rt1[n]] = {}
  <2>1. CASE n = M
    BY <1>3, <1>4, <1>8, <2>1
  <2>2. CASE n = p
    <3>1. lf1[n] = M /\ rt1[n] = rt[p] /\ sub1[n] = sub[p] \cup {M} /\ rt[p] \in 0 .. N
      <4>1. p \in 0 .. N /\ rt[p] \in 0 .. N
        BY <1>2, <1>7
      <4>2. lf1[p] = M /\ rt1[p] = rt[p]
        BY <1>3, <4>1
      <4>3. sub1[p] = sub[p] \cup {M}
        BY <1>4, <1>6, <4>1
      <4>4. QED
        BY <2>2, <4>1, <4>2, <4>3
    <3>2. sub1[rt[p]] = sub[rt[p]] /\ M \notin sub[rt[p]]
      BY <1>4, <1>5, <1>6, <3>1
    <3>3. QED
      BY <1>2, <1>4, <1>6, <2>2, <3>1, <3>2
  <2>3. CASE n \in 1 .. N /\ n # p
    <3>1. /\ lf1[n] = lf[n] /\ rt1[n] = rt[n] /\ lf[n] \in 0 .. N /\ rt[n] \in 0 .. N
          /\ n \in 0 .. N /\ n # M
      <4>1. n \in 0 .. N /\ n # M /\ lf[n] \in 0 .. N /\ rt[n] \in 0 .. N
        BY <1>2, <1>7, <2>3
      <4>2. QED
        BY <1>3, <2>3, <4>1
    <3>2. /\ sub[n] = {n} \cup sub[lf[n]] \cup sub[rt[n]]
          /\ n \notin sub[lf[n]] /\ n \notin sub[rt[n]]
          /\ sub[lf[n]] \cap sub[rt[n]] = {}
      BY <2>3 DEF Forked, Branches
    <3>3. M \notin sub[lf[n]] /\ M \notin sub[rt[n]]
      BY <1>5, <3>1
    <3>4. CASE p \in sub[lf[n]]
      <4>1. /\ sub1[lf[n]] = sub[lf[n]] \cup {M} /\ sub1[rt[n]] = sub[rt[n]]
            /\ sub1[n] = sub[n] \cup {M}
        BY <1>4, <3>1, <3>2, <3>4
      <4>2. QED
        BY <3>1, <3>2, <3>3, <4>1
    <3>5. CASE p \in sub[rt[n]]
      <4>1. /\ sub1[rt[n]] = sub[rt[n]] \cup {M} /\ sub1[lf[n]] = sub[lf[n]]
            /\ sub1[n] = sub[n] \cup {M}
        BY <1>4, <3>1, <3>2, <3>5
      <4>2. QED
        BY <3>1, <3>2, <3>3, <4>1
    <3>6. CASE p \notin sub[lf[n]] /\ p \notin sub[rt[n]]
      <4>1. sub1[rt[n]] = sub[rt[n]] /\ sub1[lf[n]] = sub[lf[n]] /\ sub1[n] = sub[n]
        BY <1>4, <2>3, <3>1, <3>2, <3>6
      <4>2. QED
        BY <3>1, <3>2, <4>1
    <3>7. QED
      BY <3>4, <3>5, <3>6
  <2>4. QED
    BY <1>2, <2>1, <2>2, <2>3
<1>10. ASSUME NEW n \in 1 .. M, NEW m \in sub1[n] PROVE sub1[m] \subseteq sub1[n]
  <2>1. \A q \in 1 .. N : \A o \in sub[q] : sub[o] \subseteq sub[q] /\ o \in 0 .. N
    BY <1>2, <1>5 DEF Forked, Branches
  <2>2. CASE n = M
    BY <1>4, <1>10, <2>2
  <2>3. CASE n \in 1 .. N
    <3>1. CASE m = M
      BY <1>4, <1>10, <3>1
    <3>2. CASE m # M
      <4>1. n \in 0 .. N
        BY <1>2, <2>3
      <4>2. m \in sub[n]
        BY <1>4, <1>10, <3>2, <4>1
      <4>3. m \in 0 .. N /\ sub[m] \subseteq sub[n]
        BY <2>1, <2>3, <4>2
      <4>4. QED
        BY <1>4, <4>1, <4>3
    <3>3. QED
      BY <3>1, <3>2
  <2>4. QED
    BY <1>2, <2>2, <2>3
<1>11. Branches(lf1, rt1, M, sub1)
  BY <1>2, <1>8, <1>9, <1>10 DEF Branches
<1>12. sub1[root] = 1 .. M /\ par1[root] = 0
  <2>1. sub1[root] = sub[root] \cup {M} /\ par1[root] = par[root]
    BY <1>1, <1>3, <1>4
  <2>2. QED
    BY <1>1, <1>2, <2>1
<1>13. ASSUME NEW n \in 1 .. M
       PROVE  /\ lf1[n] # 0 => par1[lf1[n]] = n
              /\ rt1[n] # 0 => par1[rt1[n]] = n
              /\ n # root => par1[n] # 0 /\ (lf1[par1[n]] = n \/ rt1[par1[n]] = n)
  <2>1. CASE n = M
    BY <1>2, <1>3, <2>1
  <2>2. CASE n \in 1 .. N
    <3>1. /\ lf[n] # 0 => par[lf[n]] = n
          /\ rt[n] # 0 => par[rt[n]] = n
          /\ n # root => par[n] # 0 /\ (lf[par[n]] = n \/ rt[par[n]] = n)
      BY <2>2 DEF Forked, Upward
    <3>2. n \in 0 .. N /\ n # 0 /\ lf[n] \in 0 .. N /\ rt[n] \in 0 .. N /\ par[n] \in 0 .. N
      BY <1>2, <1>7, <2>2
    <3>3. QED
      <4>1. lf1[n] # 0 => par1[lf1[n]] = n
        <5>1. CASE n = p
          BY <1>3, <3>2, <5>1
        <5>2. CASE n # p
          BY <1>3, <3>1, <3>2, <5>2
        <5>3. QED
          BY <5>1, <5>2
      <4>2. rt1[n] # 0 => par1[rt1[n]] = n
        BY <1>3, <3>1, <3>2
      <4>3. ASSUME n # root PROVE par1[n] # 0 /\ (lf1[par1[n]] = n \/ rt1[par1[n]] = n)
        <5>1. par1[n] = par[n] /\ par[n] # 0 /\ (lf[par[n]] = n \/ rt[par[n]] = n)
          BY <1>3, <3>1, <3>2, <4>3
        <5>2. lf1[par[n]] = lf[par[n]] \/ par[n] = p
          BY <1>3, <3>2
        <5>3. rt1[par[n]] = rt[par[n]]
          BY <1>3, <3>2
        <5>4. lf[p] = 0
          BY DEF Free
        <5>5. QED
          BY <3>2, <5>1, <5>2, <5>3, <5>4
      <4>4. QED
        BY <4>1, <4>2, <4>3
  <2>3. QED
    BY <1>2, <2>1, <2>2
<1>14. ASSUME NEW n \in 1 .. M, NEW q \in 1 .. M, n \in sub1[q], n # q PROVE par1[n] \in sub1[q]
  <2>1. q \in 1 .. N /\ q \in 0 .. N
    BY <1>2, <1>4, <1>14
  <2>2. CASE n = M
    BY <1>3, <1>4, <1>5, <1>14, <2>1, <2>2
  <2>3. CASE n # M
    <3>1. n \in sub[q] /\ n \in 1 .. N
      BY <1>2, <1>4, <1>14, <2>1, <2>3
    <3>2. par[n] \in sub[q]
      BY <1>14, <2>1, <3>1 DEF Forked, Upward
    <3>3. QED
      <4>1. par1[n] = par[n]
        BY <1>2, <1>3, <3>1
      <4>2. QED
        BY <1>4, <2>1, <3>2, <4>1
  <2>4. QED
    BY <2>2, <2>3
<1>15. Upward(lf1, rt1, par1, root, M, sub1)
  BY <1>8, <1>12, <1>13, <1>14 DEF Upward
<1>16. QED
  BY <1>11, <1>15 DEF Forked

(* The key k belongs on the left of p, and under no node on the wrong side. *)
Belongs(lf, rt, N, sub, key, p, k) ==
  /\ k \in Int /\ k <= key[p]
  /\ \A q \in 1 .. N : p \in sub[lf[q]] => k <= key[q]
  /\ \A q \in 1 .. N : p \in sub[rt[q]] => key[q] <= k

LEMMA HungOrdered ==
  ASSUME NEW lf, NEW rt, NEW par, NEW root, NEW N, NEW sub, Forked(lf, rt, par, root, N, sub),
         NEW p \in 1 .. N, Free(lf, p), NEW M, After(N, M), NEW lf1, NEW rt1, NEW par1,
         Hung(lf, rt, par, M, p, lf1, rt1, par1), NEW sub1, sub1 = SubGrown(M, sub, p),
         NEW key, Numeric(N, key), KeysOrdered(lf, rt, N, sub, key),
         NEW k, Belongs(lf, rt, N, sub, key, p, k),
         NEW key1, key1[M] = k, Longer(N, key, key1)
  PROVE  KeysOrdered(lf1, rt1, M, sub1, key1)
<1> USE DEF Numeric, Longer
<1>1. /\ M \in 0 .. M /\ M \notin 0 .. N /\ 1 .. M = (1 .. N) \cup {M} /\ 0 \in 0 .. N
      /\ \A m \in 1 .. N : m \in 0 .. N /\ m # 0 /\ m # M
      /\ \A m \in 0 .. N : m \in 0 .. M /\ m # M
  <2>1. /\ M \in 0 .. M /\ M \notin 0 .. N /\ 1 .. M = (1 .. N) \cup {M} /\ 0 \in 0 .. N
        /\ \A m \in 1 .. N : m \in 0 .. N /\ m # 0 /\ m # M
        /\ 0 .. M = (0 .. N) \cup {M}
    BY OneMore
  <2>2. QED
    BY <2>1
<1>2. /\ \A m \in 0 .. N : sub[m] \in SUBSET (1 .. N)
      /\ \A m \in 0 .. N : lf[m] \in 0 .. N /\ rt[m] \in 0 .. N
      /\ sub[0] = {}
  BY DEF Forked, Branches
<1>3. lf1[M] = 0 /\ rt1[M] = 0
  BY <1>1 DEF Hung
<1>4. \A m \in 0 .. N : m = p => lf1[m] = M
  BY <1>1 DEF Hung
<1>5. \A m \in 0 .. N : m # p => lf1[m] = lf[m]
  BY <1>1 DEF Hung
<1>6. \A m \in 0 .. N : rt1[m] = rt[m]
  BY <1>1 DEF Hung
<1>7. sub1[M] = {M}
  BY <1>1 DEF SubGrown
<1>8. \A m \in 0 .. N : p \in sub[m] => sub1[m] = sub[m] \cup {M}
  BY <1>1 DEF SubGrown
<1>9. \A m \in 0 .. N : p \notin sub[m] => sub1[m] = sub[m]
  BY <1>1 DEF SubGrown
<1>10. sub1[0] = {}
  BY <1>1, <1>2, <1>9
<1>11. /\ k \in Int /\ k <= key[p]
       /\ \A q \in 1 .. N : p \in sub[lf[q]] => k <= key[q]
       /\ \A q \in 1 .. N : p \in sub[rt[q]] => key[q] <= k
  BY DEF Belongs
<1>12. ASSUME NEW n \in 1 .. M, NEW m \in sub1[lf1[n]] PROVE key1[m] <= key1[n]
  <2>1. n # M
    BY <1>3, <1>10, <1>12
  <2>2. n \in 1 .. N /\ n \in 0 .. N
    BY <1>1, <2>1
  <2>3. key1[n] = key[n] /\ key[n] \in Int
    BY <2>2
  <2>4. CASE n = p
    <3>1. m = M
      BY <1>4, <1>7, <1>12, <2>2, <2>4
    <3>2. QED
      BY <1>11, <2>3, <2>4, <3>1
  <2>5. CASE n # p
    <3>1. lf1[n] = lf[n] /\ lf[n] \in 0 .. N
      BY <1>2, <1>5, <2>2, <2>5
    <3>2. CASE m = M
      <4>1. p \in sub[lf[n]]
        <5>1. M \notin sub[lf[n]]
          BY <1>1, <1>2, <3>1
        <5>2. QED
          BY <1>9, <1>12, <3>1, <3>2, <5>1
      <4>2. QED
        BY <1>11, <2>2, <2>3, <3>2, <4>1
    <3>3. CASE m # M
      <4>1. m \in sub[lf[n]]
        BY <1>8, <1>9, <1>12, <3>1, <3>3
      <4>2. m \in 1 .. N /\ key[m] <= key[n]
        BY <1>2, <2>2, <3>1, <4>1 DEF KeysOrdered
      <4>3. key1[m] = key[m]
        BY <1>1, <4>2
      <4>4. QED
        BY <2>3, <4>2, <4>3
    <3>4. QED
      BY <3>2, <3>3
  <2>6. QED
    BY <2>4, <2>5
<1>13. ASSUME NEW n \in 1 .. M, NEW m \in sub1[rt1[n]] PROVE key1[m] >= key1[n]
  <2>1. n # M
    BY <1>3, <1>10, <1>13
  <2>2. n \in 1 .. N /\ n \in 0 .. N
    BY <1>1, <2>1
  <2>3. key1[n] = key[n] /\ key[n] \in Int
    BY <2>2
  <2>4. rt1[n] = rt[n] /\ rt[n] \in 0 .. N
    BY <1>2, <1>6, <2>2
  <2>5. CASE m = M
    <3>1. p \in sub[rt[n]]
      <4>1. M \notin sub[rt[n]]
        BY <1>1, <1>2, <2>4
      <4>2. QED
        BY <1>9, <1>13, <2>4, <2>5, <4>1
    <3>2. key[n] <= k
      BY <1>11, <2>2, <3>1
    <3>3. QED
      BY <1>11, <2>3, <2>5, <3>2
  <2>6. CASE m # M
    <3>1. m \in sub[rt[n]]
      BY <1>8, <1>9, <1>13, <2>4, <2>6
    <3>2. m \in 1 .. N /\ key[m] >= key[n]
      BY <1>2, <2>2, <2>4, <3>1 DEF KeysOrdered
    <3>3. key1[m] = key[m]
      BY <1>1, <3>2
    <3>4. QED
      BY <2>3, <3>2, <3>3
  <2>7. QED
    BY <2>5, <2>6
<1>14. QED
  BY <1>12, <1>13 DEF KeysOrdered

LEMMA HungHeights ==
  ASSUME NEW lf, NEW rt, NEW par, NEW root, NEW N, NEW sub, Forked(lf, rt, par, root, N, sub),
         NEW p \in 1 .. N, Free(lf, p), NEW M, After(N, M), NEW lf1, NEW rt1, NEW par1,
         Hung(lf, rt, par, M, p, lf1, rt1, par1),
         NEW col, NEW bh, Heights(lf, rt, N, col, bh),
         NEW col1, col1[M] = "RED", Longer(N, col, col1)
  PROVE  Level(lf1, rt1, M, col1)
<1> USE DEF Longer
<1>1. /\ M \in 0 .. M /\ M \notin 0 .. N /\ 1 .. M = (1 .. N) \cup {M} /\ 0 \in 0 .. N
      /\ \A m \in 1 .. N : m \in 0 .. N /\ m # 0 /\ m # M
      /\ \A m \in 0 .. N : m \in 0 .. M /\ m # M
      /\ 0 .. M = (0 .. N) \cup {M}
  <2>1. /\ M \in 0 .. M /\ M \notin 0 .. N /\ 1 .. M = (1 .. N) \cup {M} /\ 0 \in 0 .. N
        /\ \A m \in 1 .. N : m \in 0 .. N /\ m # 0 /\ m # M
        /\ 0 .. M = (0 .. N) \cup {M}
    BY OneMore
  <2>2. QED
    BY <2>1
<1>2. \A m \in 0 .. N : lf[m] \in 0 .. N /\ rt[m] \in 0 .. N
  BY DEF Forked, Branches
<1>3. lf1[M] = 0 /\ rt1[M] = 0
  BY <1>1 DEF Hung
<1>4. \A m \in 0 .. N : m = p => lf1[m] = M
  BY <1>1 DEF Hung
<1>5. \A m \in 0 .. N : m # p => lf1[m] = lf[m]
  BY <1>1 DEF Hung
<1>6. \A m \in 0 .. N : rt1[m] = rt[m]
  BY <1>1 DEF Hung
<1>7. /\ bh \in [ 0 .. N -> Int ] /\ bh[0] = 0
      /\ \A n \in 1 .. N : bh[lf[n]] = bh[rt[n]] /\ bh[n] = bh[lf[n]] + Black(col[n])
  BY DEF Heights
<1>8. PICK bh1 : bh1 = [ m \in 0 .. M |-> IF m = M THEN 0 ELSE bh[m] ]
  OBVIOUS
<1>9. bh1[M] = 0
  BY <1>1, <1>8
<1>10. \A m \in 0 .. N : bh1[m] = bh[m]
  BY <1>1, <1>8
<1>11. bh1 \in [ 0 .. M -> Int ]
  <2>1. ASSUME NEW m \in 0 .. M PROVE bh1[m] \in Int
    <3>1. CASE m = M
      BY <1>9, <3>1
    <3>2. CASE m \in 0 .. N
      BY <1>7, <1>10, <3>2
    <3>3. QED
      BY <1>1, <3>1, <3>2
  <2>2. bh1 = [ m \in 0 .. M |-> bh1[m] ]
    BY <1>8
  <2>3. QED
    BY <2>1, <2>2
<1>12. bh1[0] = 0
  BY <1>1, <1>7, <1>10
<1>13. Black("RED") = 0
  BY DEF Black
<1>14. ASSUME NEW n \in 1 .. M
       PROVE  bh1[lf1[n]] = bh1[rt1[n]] /\ bh1[n] = bh1[lf1[n]] + Black(col1[n])
  <2>1. CASE n = M
    BY <1>3, <1>9, <1>12, <1>13, <2>1
  <2>2. CASE n = p
    <3>1. n \in 1 .. N /\ n \in 0 .. N /\ rt[n] \in 0 .. N
      BY <1>1, <1>2, <2>2
    <3>2. lf1[n] = M /\ rt1[n] = rt[n] /\ lf[n] = 0
      BY <1>4, <1>6, <2>2, <3>1 DEF Free
    <3>3. bh[0] = bh[rt[n]] /\ bh[n] = bh[0] + Black(col[n])
      BY <1>7, <3>1, <3>2
    <3>4. bh1[rt[n]] = bh[rt[n]] /\ bh1[n] = bh[n] /\ col1[n] = col[n]
      BY <1>10, <3>1
    <3>5. QED
      BY <1>7, <1>9, <3>2, <3>3, <3>4
  <2>3. CASE n \in 1 .. N /\ n # p
    <3>1. n \in 0 .. N /\ lf[n] \in 0 .. N /\ rt[n] \in 0 .. N
      BY <1>1, <1>2, <2>3
    <3>2. lf1[n] = lf[n] /\ rt1[n] = rt[n] /\ col1[n] = col[n]
      BY <1>5, <1>6, <2>3, <3>1
    <3>3. bh1[lf[n]] = bh[lf[n]] /\ bh1[rt[n]] = bh[rt[n]] /\ bh1[n] = bh[n]
      BY <1>10, <3>1
    <3>4. bh[lf[n]] = bh[rt[n]] /\ bh[n] = bh[lf[n]] + Black(col[n])
      BY <1>7, <2>3
    <3>5. QED
      BY <3>2, <3>3, <3>4
  <2>4. QED
    BY <1>1, <2>1, <2>2, <2>3
<1>15. QED
  BY <1>11, <1>12, <1>14 DEF Heights, Level

LEMMA HungColoured ==
  ASSUME NEW lf, NEW rt, NEW par, NEW root, NEW N, NEW sub, Forked(lf, rt, par, root, N, sub),
         NEW p \in 1 .. N, NEW M, After(N, M), NEW lf1, NEW rt1, NEW par1,
         Hung(lf, rt, par, M, p, lf1, rt1, par1),
         NEW col, Coloured(par, root, N, col, 0),
         NEW col1, col1 \in [ 0 .. M -> { "RED", "BLACK" } ],
         col1[M] = "RED", Longer(N, col, col1)
  PROVE  Coloured(par1, root, M, col1, M)
<1> USE DEF Longer
<1>1. /\ M \in 0 .. M /\ M \notin 0 .. N /\ 1 .. M = (1 .. N) \cup {M} /\ 0 \in 0 .. N
      /\ \A m \in 1 .. N : m \in 0 .. N /\ m # 0 /\ m # M
      /\ \A m \in 0 .. N : m \in 0 .. M /\ m # M
      /\ 0 .. M = (0 .. N) \cup {M}
  <2>1. /\ M \in 0 .. M /\ M \notin 0 .. N /\ 1 .. M = (1 .. N) \cup {M} /\ 0 \in 0 .. N
        /\ \A m \in 1 .. N : m \in 0 .. N /\ m # 0 /\ m # M
        /\ 0 .. M = (0 .. N) \cup {M}
    BY OneMore
  <2>2. QED
    BY <2>1
<1>2. root \in 0 .. N /\ sub[root] = 1 .. N /\ sub[0] = {}
      /\ \A m \in 0 .. N : par[m] \in 0 .. N
  BY DEF Forked, Branches, Upward
<1>3. root # 0
  BY <1>2
<1>4. /\ col[0] = "BLACK" /\ col[root] # "RED"
      /\ \A n \in 1 .. N : ~ (col[n] = "RED" /\ col[par[n]] = "RED")
  BY <1>1, <1>3 DEF Coloured
<1>5. col1[0] = "BLACK" /\ col1[root] # "RED"
  BY <1>1, <1>2, <1>4
<1>6. \A m \in 0 .. N : par1[m] = par[m]
  BY <1>1 DEF Hung
<1>7. ASSUME NEW n \in 1 .. M, col1[n] = "RED", col1[par1[n]] = "RED", n # M PROVE FALSE
  <2>1. n \in 1 .. N /\ n \in 0 .. N
    BY <1>1, <1>7
  <2>2. par1[n] = par[n] /\ par[n] \in 0 .. N
    BY <1>2, <1>6, <2>1
  <2>3. QED
    BY <1>4, <1>7, <2>1, <2>2
<1>8. QED
  BY <1>1, <1>5, <1>7 DEF Coloured

-----------------------------------------------------------------------------
(* The tree as a whole: its shape, its order, its heights, its colours.     *)
Fine(lf, rt, par, root, N, key, col, at, sub, bh) ==
  /\ Forked(lf, rt, par, root, N, sub)
  /\ Numeric(N, key)
  /\ KeysOrdered(lf, rt, N, sub, key)
  /\ Heights(lf, rt, N, col, bh)
  /\ Coloured(par, root, N, col, at)
Good(lf, rt, par, root, N, key, col, at) ==
  \E sub, bh : Fine(lf, rt, par, root, N, key, col, at, sub, bh)

(* The same tree in the mirror, where keys count backwards.                 *)
Negated(N, key, neg) == \A n \in 1 .. N : neg[n] = 0 - key[n]

LEMMA FineMirrored ==
  ASSUME NEW lf, NEW rt, NEW par, NEW root, NEW N, NEW key, NEW col, NEW at, NEW sub, NEW bh,
         Fine(lf, rt, par, root, N, key, col, at, sub, bh), NEW neg, Negated(N, key, neg)
  PROVE  Fine(rt, lf, par, root, N, neg, col, at, sub, bh)
<1>1. Fine(lf, rt, par, root, N, key, col, at, sub, bh)
  OBVIOUS
<1>2. Forked(rt, lf, par, root, N, sub)
  BY <1>1, Mirrored DEF Fine
<1>3. Heights(rt, lf, N, col, bh)
  BY <1>1 DEF Fine, Heights
<1>4. \A n \in 1 .. N : key[n] \in Int /\ neg[n] = 0 - key[n]
  BY <1>1 DEF Fine, Negated, Numeric
<1>5. Numeric(N, neg)
  BY <1>4 DEF Numeric
<1>6. KeysOrdered(rt, lf, N, sub, neg)
  <2>1. ASSUME NEW n \in 1 .. N PROVE sub[lf[n]] \subseteq 1 .. N /\ sub[rt[n]] \subseteq 1 .. N
    <3>1. N \in Nat /\ lf \in [ 0 .. N -> 0 .. N ] /\ rt \in [ 0 .. N -> 0 .. N ]
          /\ sub \in [ 0 .. N -> SUBSET (1 .. N) ]
      BY <1>1 DEF Fine, Forked, Branches
    <3>2. n \in 0 .. N
      BY <3>1, Numbered
    <3>3. QED
      BY <3>1, <3>2
  <2>2. ASSUME NEW n \in 1 .. N, NEW m \in sub[rt[n]] PROVE neg[m] <= neg[n]
    <3>1. key[m] >= key[n]
      BY <1>1 DEF Fine, KeysOrdered
    <3>2. m \in 1 .. N
      BY <2>1
    <3>3. QED
      BY <1>4, <3>1, <3>2
  <2>3. ASSUME NEW n \in 1 .. N, NEW m \in sub[lf[n]] PROVE neg[m] >= neg[n]
    <3>1. key[m] <= key[n]
      BY <1>1 DEF Fine, KeysOrdered
    <3>2. m \in 1 .. N
      BY <2>1
    <3>3. QED
      BY <1>4, <3>1, <3>2
  <2>4. QED
    BY <2>2, <2>3 DEF KeysOrdered
<1>7. QED
  BY <1>1, <1>2, <1>3, <1>5, <1>6 DEF Fine

LEMMA GoodMirrored ==
  ASSUME NEW lf, NEW rt, NEW par, NEW root, NEW N, NEW key, NEW col, NEW at,
         Good(lf, rt, par, root, N, key, col, at), NEW neg, Negated(N, key, neg)
  PROVE  Good(rt, lf, par, root, N, neg, col, at)
<1>1. PICK sub, bh : Fine(lf, rt, par, root, N, key, col, at, sub, bh)
  BY DEF Good
<1>2. Fine(rt, lf, par, root, N, neg, col, at, sub, bh)
  BY <1>1, FineMirrored
<1>3. QED
  BY <1>2 DEF Good

LEMMA OuterGood ==
  ASSUME NEW lf, NEW rt, NEW par, NEW root, NEW N, NEW key, NEW col, NEW at,
         Good(lf, rt, par, root, N, key, col, at), NEW p, NEW g,
         Unsettled(par, col, at, p, g), Outward(lf, rt, at, p, g), col[lf[g]] # "RED",
         NEW lf1, NEW rt1, NEW par1, NEW root1,
         Spun(lf, rt, par, root, N, g, p, lf1, rt1, par1, root1),
         NEW col1, Swapped(N, col, col1, g, p)
  PROVE  Good(lf1, rt1, par1, root1, N, key, col1, at)
<1>1. PICK sub, bh : Fine(lf, rt, par, root, N, key, col, at, sub, bh)
  BY DEF Good
<1>2. /\ Forked(lf, rt, par, root, N, sub)
      /\ Numeric(N, key)
      /\ KeysOrdered(lf, rt, N, sub, key)
      /\ Heights(lf, rt, N, col, bh)
      /\ Coloured(par, root, N, col, at)
  BY <1>1 DEF Fine
<1>3. p \in 1 .. N /\ g \in 1 .. N /\ col[g] = "BLACK"
  BY <1>2, Relatives
<1>4. Hand(rt, g, p)
  <2>1. p # 0
    BY <1>3
  <2>2. QED
    BY <2>1 DEF Outward, Hand
<1>5. col[p] = "RED"
  BY DEF Unsettled
<1>6. Coloured(par1, root1, N, col1, at)
  BY <1>2, OuterColoured
<1>7. PICK sub1 : sub1 = SubSpun(lf, N, sub, g, p)
  OBVIOUS
<1>8. Forked(lf1, rt1, par1, root1, N, sub1)
  BY <1>2, <1>3, <1>4, <1>7, SpunForked
<1>9. KeysOrdered(lf1, rt1, N, sub1, key)
  BY <1>2, <1>3, <1>4, <1>7, SpunOrdered
<1>10. PICK bh1 : Heights(lf1, rt1, N, col1, bh1)
  <2>1. Level(lf1, rt1, N, col1)
    BY <1>2, <1>3, <1>4, <1>5, SwapHeights
  <2>2. QED
    BY <2>1 DEF Level
<1>11. Fine(lf1, rt1, par1, root1, N, key, col1, at, sub1, bh1)
  BY <1>2, <1>6, <1>8, <1>9, <1>10 DEF Fine
<1>12. QED
  BY <1>11 DEF Good

LEMMA InnerGood ==
  ASSUME NEW lf, NEW rt, NEW par, NEW root, NEW N, NEW key, NEW col, NEW at,
         Good(lf, rt, par, root, N, key, col, at), NEW p, NEW g,
         Unsettled(par, col, at, p, g), Inward(lf, rt, at, p, g),
         NEW lf1, NEW rt1, NEW par1, NEW root1,
         Spun(rt, lf, par, root, N, p, at, rt1, lf1, par1, root1)
  PROVE  /\ Good(lf1, rt1, par1, root1, N, key, col, p)
         /\ Unsettled(par1, col, p, at, g) /\ Outward(lf1, rt1, p, at, g) /\ lf1[g] = lf[g]
<1>1. PICK sub, bh : Fine(lf, rt, par, root, N, key, col, at, sub, bh)
  BY DEF Good
<1>2. /\ Forked(lf, rt, par, root, N, sub)
      /\ Numeric(N, key)
      /\ Coloured(par, root, N, col, at)
  BY <1>1 DEF Fine
<1>3. /\ at \in 1 .. N /\ p \in 1 .. N /\ col[at] = "RED" /\ col[p] = "RED" /\ at # p /\ p # g
  BY <1>2, Relatives DEF Unsettled
<1>4. /\ Coloured(par1, root1, N, col, p)
      /\ par1[p] = at /\ par1[at] = g /\ rt1[g] = at /\ rt1[at] = p /\ lf1[g] = lf[g]
  BY <1>2, InnerColoured
<1>5. Outward(lf1, rt1, p, at, g)
  BY <1>4 DEF Outward
<1>6. Unsettled(par1, col, p, at, g)
  BY <1>3, <1>4 DEF Unsettled
<1>7. Hand(lf, p, at)
  <2>1. at # 0
    BY <1>3
  <2>2. QED
    BY <2>1 DEF Inward, Hand
<1>8. PICK neg : neg = [ n \in 1 .. N |-> 0 - key[n] ]
  OBVIOUS
<1>9. Negated(N, key, neg) /\ Negated(N, neg, key)
  BY <1>2, <1>8 DEF Negated, Numeric
<1>10. Good(rt, lf, par, root, N, neg, col, at)
  BY <1>9, GoodMirrored
<1>11. PICK sub2, bh2 : Fine(rt, lf, par, root, N, neg, col, at, sub2, bh2)
  BY <1>10 DEF Good
<1>12. /\ Forked(rt, lf, par, root, N, sub2)
       /\ Numeric(N, neg)
       /\ KeysOrdered(rt, lf, N, sub2, neg)
       /\ Heights(rt, lf, N, col, bh2)
  BY <1>11 DEF Fine
<1>13. PICK sub1 : sub1 = SubSpun(rt, N, sub2, p, at)
  OBVIOUS
<1>14. Forked(rt1, lf1, par1, root1, N, sub1)
  BY <1>3, <1>7, <1>12, <1>13, SpunForked
<1>15. KeysOrdered(rt1, lf1, N, sub1, neg)
  BY <1>3, <1>7, <1>12, <1>13, SpunOrdered
<1>16. Heights(rt1, lf1, N, col, bh2)
  BY <1>3, <1>7, <1>12, SpunHeights
<1>17. Fine(rt1, lf1, par1, root1, N, neg, col, p, sub1, bh2)
  BY <1>4, <1>12, <1>14, <1>15, <1>16 DEF Fine
<1>18. Good(rt1, lf1, par1, root1, N, neg, col, p)
  BY <1>17 DEF Good
<1>19. Good(lf1, rt1, par1, root1, N, key, col, p)
  BY <1>9, <1>18, GoodMirrored
<1>20. QED
  BY <1>4, <1>5, <1>6, <1>19

LEMMA PaintedGood ==
  ASSUME NEW lf, NEW rt, NEW par, NEW root, NEW N, NEW key, NEW col, NEW at,
         Good(lf, rt, par, root, N, key, col, at), NEW p, NEW g,
         Unsettled(par, col, at, p, g), NEW c, NEW d, c = lf[g], d = rt[g],
         col[c] = "RED", col[d] = "RED",
         NEW col1, Repainted(N, col, col1, g, c, d)
  PROVE  Good(lf, rt, par, root, N, key, col1, g)
<1>1. PICK sub, bh : Fine(lf, rt, par, root, N, key, col, at, sub, bh)
  BY DEF Good
<1>2. /\ Forked(lf, rt, par, root, N, sub)
      /\ Heights(lf, rt, N, col, bh)
      /\ Coloured(par, root, N, col, at)
  BY <1>1 DEF Fine
<1>3. g \in 1 .. N /\ col[g] = "BLACK"
  BY <1>2, Relatives
<1>4. Coloured(par, root, N, col1, g)
  BY <1>2, PaintedColoured
<1>5. col[0] = "BLACK"
  BY <1>2 DEF Coloured
<1>6. PICK bh1 : Heights(lf, rt, N, col1, bh1)
  <2>1. Level(lf, rt, N, col1)
    BY <1>2, <1>3, <1>5, PaintedHeights
  <2>2. QED
    BY <2>1 DEF Level
<1>7. Fine(lf, rt, par, root, N, key, col1, g, sub, bh1)
  BY <1>1, <1>4, <1>6 DEF Fine
<1>8. QED
  BY <1>7 DEF Good

LEMMA FinishGood ==
  ASSUME NEW lf, NEW rt, NEW par, NEW root, NEW N, NEW key, NEW col, NEW at,
         Good(lf, rt, par, root, N, key, col, at), at # 0, col[par[at]] # "RED",
         NEW col1, col1 \in [ 0 .. N -> { "RED", "BLACK" } ], col1[root] = "BLACK",
         \A m \in 0 .. N : m # root => col1[m] = col[m]
  PROVE  Good(lf, rt, par, root, N, key, col1, 0)
<1>1. PICK sub, bh : Fine(lf, rt, par, root, N, key, col, at, sub, bh)
  BY DEF Good
<1>2. /\ Forked(lf, rt, par, root, N, sub)
      /\ Heights(lf, rt, N, col, bh)
      /\ Coloured(par, root, N, col, at)
  BY <1>1 DEF Fine
<1>3. root # 0
  <2>1. at \in 0 .. N
    BY <1>2 DEF Coloured
  <2>2. N \in Nat /\ sub[0] = {} /\ sub[root] = 1 .. N
    BY <1>2 DEF Forked, Branches, Upward
  <2>3. at \in 1 .. N
    BY <2>1, <2>2
  <2>4. QED
    BY <2>2, <2>3
<1>4. Coloured(par, root, N, col1, 0)
  BY <1>2, RootColoured
<1>5. PICK bh1 : Heights(lf, rt, N, col1, bh1)
  <2>1. Level(lf, rt, N, col1)
    BY <1>2, <1>3, RootHeights
  <2>2. QED
    BY <2>1 DEF Level
<1>6. Fine(lf, rt, par, root, N, key, col1, 0, sub, bh1)
  BY <1>1, <1>4, <1>5 DEF Fine
<1>7. QED
  BY <1>6 DEF Good

LEMMA HungGood ==
  ASSUME NEW lf, NEW rt, NEW par, NEW root, NEW N, NEW key, NEW col, NEW sub, NEW bh,
         Fine(lf, rt, par, root, N, key, col, 0, sub, bh),
         NEW p \in 1 .. N, Free(lf, p), NEW M, After(N, M), NEW lf1, NEW rt1, NEW par1,
         Hung(lf, rt, par, M, p, lf1, rt1, par1),
         NEW k, Belongs(lf, rt, N, sub, key, p, k),
         NEW key1, key1[M] = k, Longer(N, key, key1),
         NEW col1, col1 \in [ 0 .. M -> { "RED", "BLACK" } ],
         col1[M] = "RED", Longer(N, col, col1)
  PROVE  Good(lf1, rt1, par1, root, M, key1, col1, M)
<1>1. /\ Forked(lf, rt, par, root, N, sub)
      /\ Numeric(N, key)
      /\ KeysOrdered(lf, rt, N, sub, key)
      /\ Heights(lf, rt, N, col, bh)
      /\ Coloured(par, root, N, col, 0)
  BY DEF Fine
<1>2. PICK sub1 : sub1 = SubGrown(M, sub, p)
  OBVIOUS
<1>3. Forked(lf1, rt1, par1, root, M, sub1)
  BY <1>1, <1>2, HungForked
<1>4. KeysOrdered(lf1, rt1, M, sub1, key1)
  BY <1>1, <1>2, HungOrdered
<1>5. PICK bh1 : Heights(lf1, rt1, M, col1, bh1)
  <2>1. Level(lf1, rt1, M, col1)
    BY <1>1, HungHeights
  <2>2. QED
    BY <2>1 DEF Level
<1>6. Coloured(par1, root, M, col1, M)
  BY <1>1, HungColoured
<1>7. Numeric(M, key1)
  <2>1. 1 .. M = (1 .. N) \cup {M} /\ \A m \in 1 .. N : m \in 0 .. N
    BY OneMore
  <2>2. k \in Int
    BY DEF Belongs
  <2>3. QED
    BY <1>1, <2>1, <2>2 DEF Numeric, Longer
<1>8. Fine(lf1, rt1, par1, root, M, key1, col1, M, sub1, bh1)
  BY <1>3, <1>4, <1>5, <1>6, <1>7 DEF Fine
<1>9. QED
  BY <1>8 DEF Good

-----------------------------------------------------------------------------
(* The nodes of the program.                                               *)
BothSides == { "left", "right" }
RedBlackCells ==
  [ key : Int, color : { "RED", "BLACK" }, parent : Int, left : Int, right : Int ]
Across(side, o) == side \in BothSides /\ o = RedBlack!Other(side)

LEMMA SidesAre ==
  ASSUME NEW s, NEW o, Across(s, o)
  PROVE  s \in BothSides /\ o \in BothSides /\ s # o /\ Across(o, s)
BY DEF Across, BothSides, RedBlack!Other

LEMMA CellHas ==
  ASSUME NEW c \in RedBlackCells, NEW s \in BothSides, NEW n \in Int,
         NEW d, d = RedBlack!WithChild(c, s, n)
  PROVE  /\ d \in RedBlackCells /\ RedBlack!Child(d, s) = n /\ d.parent = c.parent
         /\ d.key = c.key /\ d.color = c.color
<1>1. CASE s = "left"
  <2>1. d = [ c EXCEPT !.left = n ]
    BY <1>1 DEF RedBlack!WithChild
  <2>2. QED
    BY <1>1, <2>1 DEF RedBlackCells, RedBlack!Child
<1>2. CASE s = "right"
  <2>1. d = [ c EXCEPT !.right = n ]
    BY <1>2 DEF RedBlack!WithChild
  <2>2. QED
    BY <1>2, <2>1 DEF RedBlackCells, RedBlack!Child
<1>3. QED
  BY <1>1, <1>2 DEF BothSides

LEMMA CellKeeps ==
  ASSUME NEW c \in RedBlackCells, NEW s, NEW o, Across(s, o), NEW n \in Int,
         NEW d, d = RedBlack!WithChild(c, s, n)
  PROVE  RedBlack!Child(d, o) = RedBlack!Child(c, o)
<1>1. CASE s = "left"
  <2>1. d = [ c EXCEPT !.left = n ] /\ o = "right"
    BY <1>1 DEF RedBlack!WithChild, Across, RedBlack!Other
  <2>2. QED
    BY <2>1 DEF RedBlackCells, RedBlack!Child
<1>2. CASE s = "right"
  <2>1. d = [ c EXCEPT !.right = n ] /\ o = "left"
    BY <1>2 DEF RedBlack!WithChild, Across, RedBlack!Other
  <2>2. QED
    BY <2>1 DEF RedBlackCells, RedBlack!Child
<1>3. QED
  BY <1>1, <1>2 DEF BothSides, Across

LEMMA CellUnder ==
  ASSUME NEW c \in RedBlackCells, NEW p \in Int, NEW d, d = [ c EXCEPT !.parent = p ]
  PROVE  /\ d \in RedBlackCells /\ d.parent = p /\ d.key = c.key /\ d.color = c.color
         /\ \A s \in BothSides : RedBlack!Child(d, s) = RedBlack!Child(c, s)
BY DEF RedBlackCells, RedBlack!Child

LEMMA CellPainted ==
  ASSUME NEW c \in RedBlackCells, NEW v \in { "RED", "BLACK" }, NEW d, d = [ c EXCEPT !.color = v ]
  PROVE  /\ d \in RedBlackCells /\ d.color = v /\ d.key = c.key /\ d.parent = c.parent
         /\ \A s \in BothSides : RedBlack!Child(d, s) = RedBlack!Child(c, s)
BY DEF RedBlackCells, RedBlack!Child

LEMMA CellIs ==
  ASSUME NEW c \in RedBlackCells
  PROVE  /\ c.key \in Int /\ c.color \in { "RED", "BLACK" } /\ c.parent \in Int
         /\ \A s \in BothSides : RedBlack!Child(c, s) \in Int
BY DEF RedBlackCells, RedBlack!Child

(* The cells after Rotated.                                                *)
RotatedCells(nd, N, a, b, c, p, s, o, nd1) ==
  /\ nd1 = [ m \in 0 .. N |-> nd1[m] ]
  /\ \A m \in 0 .. N : m = c /\ m # 0 => nd1[m] = [ nd[m] EXCEPT !.parent = a ]
  /\ nd1[a] = [ RedBlack!WithChild(nd[a], o, c) EXCEPT !.parent = b ]
  /\ nd1[b] = [ RedBlack!WithChild(nd[b], s, a) EXCEPT !.parent = p ]
  /\ p # 0 /\ RedBlack!Child(nd[p], s) = a => nd1[p] = RedBlack!WithChild(nd[p], s, b)
  /\ p # 0 /\ RedBlack!Child(nd[p], s) # a => nd1[p] = RedBlack!WithChild(nd[p], o, b)
  /\ \A m \in 0 .. N : m # a /\ m # b /\ (m = 0 \/ (m # c /\ m # p)) => nd1[m] = nd[m]

(* The nodes a rotation at a is about, and what it makes of the tree.       *)
RotatedAt(nd, a, b, c, p, s, o) ==
  /\ b = RedBlack!Child(nd[a], o) /\ c = RedBlack!Child(nd[b], s) /\ p = nd[a].parent
  /\ a # b /\ c # a /\ c # b /\ p # a /\ p # b /\ (p # c \/ p = 0)
RotatedTo(nd, root, a, s, nd1, root1) ==
  /\ nd1 = RedBlack!Rotated([ node |-> nd, root |-> root ], a, s).node
  /\ root1 = RedBlack!Rotated([ node |-> nd, root |-> root ], a, s).root

LEMMA RotatedIs ==
  ASSUME NEW N \in Nat, NEW nd \in [ 0 .. N -> RedBlackCells ], NEW root,
         NEW s, NEW o, Across(s, o), NEW a \in 1 .. N, NEW b \in 1 .. N, NEW c \in 0 .. N,
         NEW p \in 0 .. N, RotatedAt(nd, a, b, c, p, s, o),
         NEW nd1, NEW root1, RotatedTo(nd, root, a, s, nd1, root1)
  PROVE  /\ RotatedCells(nd, N, a, b, c, p, s, o, nd1)
         /\ p = 0 => root1 = b
         /\ p # 0 => root1 = root
<1> USE DEF RotatedAt
<1>0. PICK t : t = [ node |-> nd, root |-> root ]
  OBVIOUS
<1>1. /\ t.node = nd /\ t.root = root
      /\ nd1 = RedBlack!Rotated(t, a, s).node /\ root1 = RedBlack!Rotated(t, a, s).root
  BY <1>0 DEF RotatedTo
<1>2. o = RedBlack!Other(s)
  BY DEF Across
<1>3. PICK above : above = IF RedBlack!Child(nd[p], s) = a THEN s ELSE o
  OBVIOUS
<1>4. nd1 = [ m \in 0 .. N |->
                IF m = c /\ m # 0 THEN [ nd[m] EXCEPT !.parent = a ]
                ELSE IF m = a THEN [ RedBlack!WithChild(nd[m], o, c) EXCEPT !.parent = b ]
                ELSE IF m = b THEN [ RedBlack!WithChild(nd[m], s, a) EXCEPT !.parent = p ]
                ELSE IF m = p /\ m # 0 THEN RedBlack!WithChild(nd[m], above, b)
                ELSE nd[m] ]
  BY <1>1, <1>2, <1>3, Zenon DEF RedBlack!Rotated, RedBlack!Nil
<1>5. root1 = IF p = 0 THEN b ELSE root
  BY <1>1, <1>2 DEF RedBlack!Rotated, RedBlack!Nil
<1>6. a \in 0 .. N /\ b \in 0 .. N /\ a # 0 /\ b # 0
  OBVIOUS
<1>7. nd1[a] = [ RedBlack!WithChild(nd[a], o, c) EXCEPT !.parent = b ]
  BY <1>4, <1>6
<1>8. nd1[b] = [ RedBlack!WithChild(nd[b], s, a) EXCEPT !.parent = p ]
  BY <1>4, <1>6
<1>9. p # 0 => nd1[p] = RedBlack!WithChild(nd[p], above, b)
  BY <1>4, <1>6
<1>10. \A m \in 0 .. N : m = c /\ m # 0 => nd1[m] = [ nd[m] EXCEPT !.parent = a ]
  BY <1>4
<1>11. \A m \in 0 .. N : m # a /\ m # b /\ (m = 0 \/ (m # c /\ m # p)) => nd1[m] = nd[m]
  BY <1>4
<1>12. nd1 = [ m \in 0 .. N |-> nd1[m] ]
  BY <1>4
<1>13. QED
  BY <1>3, <1>5, <1>7, <1>8, <1>9, <1>10, <1>11, <1>12 DEF RotatedCells

LEMMA KidsAre ==
  ASSUME NEW N, NEW nd, NEW s
  PROVE  /\ \A m \in 0 .. N : /\ KidOf(nd, N, s)[m] = RedBlack!Child(nd[m], s)
                              /\ ParentOf(nd, N)[m] = nd[m].parent
                              /\ ColorOf(nd, N)[m] = nd[m].color
                              /\ KeyOf(nd, N)[m] = nd[m].key
BY DEF KidOf, ParentOf, ColorOf, KeyOf

LEMMA CellWith ==
  ASSUME NEW c \in RedBlackCells, NEW s, NEW o, Across(s, o), NEW n \in Int
  PROVE  \E d : /\ d = RedBlack!WithChild(c, s, n)
               /\ d \in RedBlackCells /\ d.parent = c.parent /\ d.key = c.key /\ d.color = c.color
               /\ RedBlack!Child(d, s) = n /\ RedBlack!Child(d, o) = RedBlack!Child(c, o)
<1>1. PICK d : d = RedBlack!WithChild(c, s, n)
  OBVIOUS
<1>2. s \in BothSides
  BY SidesAre
<1>3. /\ d \in RedBlackCells /\ d.parent = c.parent /\ d.key = c.key /\ d.color = c.color
      /\ RedBlack!Child(d, s) = n
  BY <1>1, <1>2, CellHas
<1>4. RedBlack!Child(d, o) = RedBlack!Child(c, o)
  BY <1>1, CellKeeps
<1>5. QED
  BY <1>1, <1>3, <1>4

(* The links of the nodes as functions, and what else is in them.          *)
LinksOf(nd, N, s, o, lf, rt, par) ==
  lf = KidOf(nd, N, s) /\ rt = KidOf(nd, N, o) /\ par = ParentOf(nd, N)
SameContents(nd, nd1, N) ==
  /\ nd1 \in [ 0 .. N -> RedBlackCells ]
  /\ ColorOf(nd1, N) = ColorOf(nd, N) /\ KeyOf(nd1, N) = KeyOf(nd, N)

(* Rotated is a rotation of the fields.                                    *)
LEMMA RotatedSpun ==
  ASSUME NEW N \in Nat, NEW nd \in [ 0 .. N -> RedBlackCells ], NEW root,
         NEW s, NEW o, Across(s, o),
         NEW lf, NEW rt, NEW par, LinksOf(nd, N, s, o, lf, rt, par),
         NEW sub, Forked(lf, rt, par, root, N, sub),
         NEW a \in 1 .. N, NEW b, Hand(rt, a, b),
         NEW nd1, NEW root1, RotatedTo(nd, root, a, s, nd1, root1),
         NEW lf1, NEW rt1, NEW par1, LinksOf(nd1, N, s, o, lf1, rt1, par1)
  PROVE  SameContents(nd, nd1, N) /\ Spun(lf, rt, par, root, N, a, b, lf1, rt1, par1, root1)
<1>1. s \in BothSides /\ o \in BothSides /\ s # o /\ Across(o, s)
  BY SidesAre
<1>2. /\ b \in 1 .. N /\ b # a
      /\ lf[a] # a /\ lf[a] # b /\ lf[b] # a /\ lf[b] # b /\ rt[b] # a /\ rt[b] # b
      /\ b \in sub[a] /\ sub[b] \subseteq sub[a] /\ sub[lf[b]] \subseteq sub[b] /\ par[b] = a
  BY Around
<1>3. /\ lf \in [ 0 .. N -> 0 .. N ] /\ rt \in [ 0 .. N -> 0 .. N ] /\ par \in [ 0 .. N -> 0 .. N ]
      /\ lf[0] = 0 /\ rt[0] = 0 /\ par[root] = 0
      /\ \A n \in 1 .. N : (lf[n] # 0 => par[lf[n]] = n) /\ (rt[n] # 0 => par[rt[n]] = n)
      /\ \A n \in 1 .. N : n # root => par[n] # 0 /\ (lf[par[n]] = n \/ rt[par[n]] = n)
  BY DEF Forked, Branches, Upward
<1>4. a \in 0 .. N /\ b \in 0 .. N /\ a # 0 /\ b # 0 /\ 0 \in 0 .. N
  BY <1>2
<1>5. /\ \A m \in 0 .. N : lf[m] = RedBlack!Child(nd[m], s)
      /\ \A m \in 0 .. N : rt[m] = RedBlack!Child(nd[m], o)
      /\ \A m \in 0 .. N : par[m] = nd[m].parent
  BY KidsAre DEF LinksOf
<1>6. PICK inner : inner = lf[b]
  OBVIOUS
<1>7. PICK p : p = par[a]
  OBVIOUS
<1>36. inner \in 0 .. N /\ p \in 0 .. N
  BY <1>3, <1>4, <1>6, <1>7
<1>8. inner # a /\ inner # b
  BY <1>2, <1>6
<1>9. b = rt[a]
  BY DEF Hand
<1>10. root # a => p # 0 /\ (lf[p] = a \/ rt[p] = a)
  BY <1>3, <1>7
<1>11. root = a => p = 0
  BY <1>3, <1>7
<1>12. \A m \in 0 .. N : lf[m] = a => m = p
  <2>1. ASSUME NEW m \in 0 .. N, lf[m] = a PROVE m = p
    <3>1. m # 0
      BY <1>3, <1>4, <2>1
    <3>2. m \in 1 .. N
      BY <3>1
    <3>3. QED
      BY <1>3, <1>4, <1>7, <2>1, <3>2
  <2>2. QED
    BY <2>1
<1>13. \A m \in 0 .. N : rt[m] = a => m = p
  <2>1. ASSUME NEW m \in 0 .. N, rt[m] = a PROVE m = p
    <3>1. m # 0
      BY <1>3, <1>4, <2>1
    <3>2. m \in 1 .. N
      BY <3>1
    <3>3. QED
      BY <1>3, <1>4, <1>7, <2>1, <3>2
  <2>2. QED
    BY <2>1
<1>14. ASSUME p # 0
       PROVE  p \in 1 .. N /\ p # a /\ p # b /\ p # inner /\ lf[p] # rt[p]
  <2>1. p \in 1 .. N
    BY <1>14, <1>36
  <2>2. lf[p] = a \/ rt[p] = a
    BY <1>10, <1>11, <1>14
  <2>3. p # a /\ p # b
    BY <1>2, <1>4, <1>9, <2>1, <2>2, Limbs
  <2>4. a \in sub[p] /\ lf[p] # rt[p]
    BY <1>4, <2>1, <2>2, Limbs
  <2>5. p \notin sub[a]
    BY <2>1, <2>3, <2>4, Descends
  <2>6. p # inner
    <3>1. SUFFICES ASSUME p = inner PROVE FALSE
      OBVIOUS
    <3>2. inner \in 1 .. N /\ inner \in sub[inner]
      BY <2>1, <3>1, Limbs
    <3>3. sub[inner] \subseteq sub[a]
      BY <1>2, <1>6
    <3>4. QED
      BY <2>5, <3>1, <3>2, <3>3
  <2>7. QED
    BY <2>1, <2>3, <2>4, <2>6
<1>15. /\ b = RedBlack!Child(nd[a], o) /\ inner = RedBlack!Child(nd[b], s) /\ p = nd[a].parent
  BY <1>4, <1>5, <1>6, <1>7, <1>9
<1>16. p # a /\ p # b /\ (p # inner \/ p = 0)
  BY <1>4, <1>14
<1>17. /\ RotatedCells(nd, N, a, b, inner, p, s, o, nd1)
       /\ p = 0 => root1 = b
       /\ p # 0 => root1 = root
  <2>1. RotatedAt(nd, a, b, inner, p, s, o)
    BY <1>2, <1>8, <1>15, <1>16 DEF RotatedAt
  <2>2. b \in 1 .. N
    BY <1>2
  <2>3. QED
    BY <1>36, <2>1, <2>2, RotatedIs
<1>18. /\ nd1 = [ m \in 0 .. N |-> nd1[m] ]
       /\ \A m \in 0 .. N : m = inner /\ m # 0 => nd1[m] = [ nd[m] EXCEPT !.parent = a ]
       /\ nd1[a] = [ RedBlack!WithChild(nd[a], o, inner) EXCEPT !.parent = b ]
       /\ nd1[b] = [ RedBlack!WithChild(nd[b], s, a) EXCEPT !.parent = p ]
       /\ p # 0 /\ RedBlack!Child(nd[p], s) = a => nd1[p] = RedBlack!WithChild(nd[p], s, b)
       /\ p # 0 /\ RedBlack!Child(nd[p], s) # a => nd1[p] = RedBlack!WithChild(nd[p], o, b)
       /\ \A m \in 0 .. N : m # a /\ m # b /\ (m = 0 \/ (m # inner /\ m # p)) => nd1[m] = nd[m]
  BY <1>17 DEF RotatedCells
(* A cell after the rotation.                                              *)
<1> DEFINE Cell(m, l, r, q) ==
             /\ nd1[m] \in RedBlackCells /\ nd1[m].key = nd[m].key /\ nd1[m].color = nd[m].color
             /\ RedBlack!Child(nd1[m], s) = l /\ RedBlack!Child(nd1[m], o) = r /\ nd1[m].parent = q
<1>19. Cell(a, lf[a], inner, b)
  <2>1. PICK e : e = nd[a]
    OBVIOUS
  <2>2. e \in RedBlackCells /\ inner \in Int /\ Across(o, s)
    BY <1>1, <1>4, <1>36, <2>1
  <2>3. PICK d : /\ d = RedBlack!WithChild(e, o, inner)
                 /\ d \in RedBlackCells /\ d.parent = e.parent /\ d.key = e.key /\ d.color = e.color
                 /\ RedBlack!Child(d, o) = inner /\ RedBlack!Child(d, s) = RedBlack!Child(e, s)
    BY <2>2, CellWith
  <2>4. nd1[a] = [ d EXCEPT !.parent = b ]
    BY <1>18, <2>1, <2>3
  <2>5. /\ nd1[a] \in RedBlackCells /\ nd1[a].parent = b /\ nd1[a].key = d.key /\ nd1[a].color = d.color
        /\ RedBlack!Child(nd1[a], s) = RedBlack!Child(d, s)
        /\ RedBlack!Child(nd1[a], o) = RedBlack!Child(d, o)
    BY <1>1, <1>4, <2>2, <2>3, <2>4, CellUnder
  <2>6. QED
    BY <1>4, <1>5, <2>1, <2>3, <2>5
<1>20. Cell(b, a, rt[b], p)
  <2>1. PICK e : e = nd[b]
    OBVIOUS
  <2>2. e \in RedBlackCells /\ a \in Int /\ p \in Int /\ Across(s, o)
    BY <1>4, <1>36, <2>1
  <2>3. PICK d : /\ d = RedBlack!WithChild(e, s, a)
                 /\ d \in RedBlackCells /\ d.parent = e.parent /\ d.key = e.key /\ d.color = e.color
                 /\ RedBlack!Child(d, s) = a /\ RedBlack!Child(d, o) = RedBlack!Child(e, o)
    BY <2>2, CellWith
  <2>4. nd1[b] = [ d EXCEPT !.parent = p ]
    BY <1>18, <2>1, <2>3
  <2>5. /\ nd1[b] \in RedBlackCells /\ nd1[b].parent = p /\ nd1[b].key = d.key /\ nd1[b].color = d.color
        /\ RedBlack!Child(nd1[b], s) = RedBlack!Child(d, s)
        /\ RedBlack!Child(nd1[b], o) = RedBlack!Child(d, o)
    BY <1>1, <1>4, <2>2, <2>3, <2>4, CellUnder
  <2>6. QED
    BY <1>4, <1>5, <2>1, <2>3, <2>5
<1>21. ASSUME inner # 0 PROVE Cell(inner, lf[inner], rt[inner], a)
  <2>1. nd[inner] \in RedBlackCells /\ a \in Int
    BY <1>36
  <2>2. nd1[inner] = [ nd[inner] EXCEPT !.parent = a ]
    BY <1>18, <1>21, <1>36
  <2>3. /\ nd1[inner] \in RedBlackCells /\ nd1[inner].parent = a /\ nd1[inner].key = nd[inner].key
        /\ nd1[inner].color = nd[inner].color
        /\ RedBlack!Child(nd1[inner], s) = RedBlack!Child(nd[inner], s)
        /\ RedBlack!Child(nd1[inner], o) = RedBlack!Child(nd[inner], o)
    BY <1>1, <2>1, <2>2, CellUnder
  <2>4. QED
    BY <1>5, <1>36, <2>3
<1>22. ASSUME p # 0, lf[p] = a PROVE Cell(p, b, rt[p], par[p])
  <2>1. PICK e : e = nd[p]
    OBVIOUS
  <2>2. e \in RedBlackCells /\ b \in Int /\ Across(s, o)
    BY <1>4, <1>36, <2>1
  <2>3. PICK d : /\ d = RedBlack!WithChild(e, s, b)
                 /\ d \in RedBlackCells /\ d.parent = e.parent /\ d.key = e.key /\ d.color = e.color
                 /\ RedBlack!Child(d, s) = b /\ RedBlack!Child(d, o) = RedBlack!Child(e, o)
    BY <2>2, CellWith
  <2>4. nd1[p] = d
    BY <1>5, <1>18, <1>22, <1>36, <2>1, <2>3
  <2>5. QED
    BY <1>5, <1>36, <2>1, <2>3, <2>4
<1>23. ASSUME p # 0, lf[p] # a PROVE Cell(p, lf[p], b, par[p])
  <2>1. PICK e : e = nd[p]
    OBVIOUS
  <2>2. e \in RedBlackCells /\ b \in Int /\ Across(o, s)
    BY <1>1, <1>4, <1>36, <2>1
  <2>3. PICK d : /\ d = RedBlack!WithChild(e, o, b)
                 /\ d \in RedBlackCells /\ d.parent = e.parent /\ d.key = e.key /\ d.color = e.color
                 /\ RedBlack!Child(d, o) = b /\ RedBlack!Child(d, s) = RedBlack!Child(e, s)
    BY <2>2, CellWith
  <2>4. nd1[p] = d
    BY <1>5, <1>18, <1>23, <1>36, <2>1, <2>3
  <2>5. QED
    BY <1>5, <1>36, <2>1, <2>3, <2>4
<1>24. ASSUME NEW m \in 0 .. N, m # a, m # b, m = 0 \/ (m # inner /\ m # p)
       PROVE  Cell(m, lf[m], rt[m], par[m])
  <2>1. nd1[m] = nd[m] /\ nd[m] \in RedBlackCells
    BY <1>18, <1>24
  <2>2. QED
    BY <1>5, <2>1
<1>28. /\ \A m \in 0 .. N : lf1[m] = RedBlack!Child(nd1[m], s)
       /\ \A m \in 0 .. N : rt1[m] = RedBlack!Child(nd1[m], o)
       /\ \A m \in 0 .. N : par1[m] = nd1[m].parent
  BY KidsAre DEF LinksOf
<1> DEFINE Made(m) == /\ nd1[m] \in RedBlackCells /\ nd1[m].key = nd[m].key /\ nd1[m].color = nd[m].color
                      /\ lf1[m] = IF m = b THEN a ELSE IF lf[m] = a THEN b ELSE lf[m]
                      /\ rt1[m] = IF m = a THEN lf[b] ELSE IF rt[m] = a THEN b ELSE rt[m]
                      /\ par1[m] = IF m = a THEN b ELSE IF m = b THEN par[a]
                                   ELSE IF m = lf[b] /\ m # 0 THEN a ELSE par[m]
<1>29. ASSUME NEW m \in 0 .. N PROVE Made(m)
  <2>1. CASE m = a
    BY <1>2, <1>6, <1>19, <1>28, <2>1
  <2>2. CASE m = b
    BY <1>2, <1>4, <1>7, <1>20, <1>28, <2>2
  <2>3. CASE m = inner /\ m # 0
    <3>1. m # p /\ m # a /\ m # b
      BY <1>8, <1>14, <2>3
    <3>2. lf[m] # a /\ rt[m] # a
      BY <1>12, <1>13, <3>1
    <3>3. QED
      BY <1>6, <1>21, <1>28, <2>3, <3>1, <3>2
  <2>4. CASE m = p /\ m # 0
    <3>1. m # a /\ m # b /\ m # inner /\ lf[p] # rt[p] /\ (lf[p] = a \/ rt[p] = a)
      BY <1>10, <1>11, <1>14, <2>4
    <3>2. CASE lf[p] = a
      <4>1. rt[p] # a
        BY <3>1, <3>2
      <4>2. QED
        BY <1>6, <1>22, <1>28, <2>4, <3>1, <3>2, <4>1
    <3>3. CASE lf[p] # a
      <4>1. rt[p] = a
        BY <3>1, <3>3
      <4>2. QED
        BY <1>6, <1>23, <1>28, <2>4, <3>1, <3>3, <4>1
    <3>4. QED
      BY <3>2, <3>3
  <2>5. CASE m # a /\ m # b /\ (m = 0 \/ (m # inner /\ m # p))
    <3>1. lf[m] # a /\ rt[m] # a
      <4>1. CASE m = 0
        BY <1>3, <1>4, <4>1
      <4>2. CASE m # 0
        BY <1>12, <1>13, <2>5, <4>2
      <4>3. QED
        BY <4>1, <4>2
    <3>2. QED
      BY <1>6, <1>24, <1>28, <2>5, <3>1
  <2>6. QED
    BY <2>1, <2>2, <2>3, <2>4, <2>5
<1>30. nd1 \in [ 0 .. N -> RedBlackCells ]
  BY <1>18, <1>29
<1>31. ColorOf(nd1, N) = ColorOf(nd, N) /\ KeyOf(nd1, N) = KeyOf(nd, N)
  BY <1>29 DEF ColorOf, KeyOf
<1>32. root1 = IF root = a THEN b ELSE root
  BY <1>10, <1>11, <1>17
<1>33. lf1 = [ m \in 0 .. N |-> lf1[m] ] /\ rt1 = [ m \in 0 .. N |-> rt1[m] ]
       /\ par1 = [ m \in 0 .. N |-> par1[m] ]
  BY DEF LinksOf, KidOf, ParentOf
<1>34. Spun(lf, rt, par, root, N, a, b, lf1, rt1, par1, root1)
  BY <1>29, <1>32, <1>33 DEF Spun
<1>35. QED
  BY <1>30, <1>31, <1>34 DEF SameContents

(* The keys as they count towards side s.                                  *)
SideKey(nd, N, s) ==
  IF s = "left" THEN KeyOf(nd, N) ELSE [ m \in 0 .. N |-> 0 - KeyOf(nd, N)[m] ]
GoodTree(nd, root, N, at, s, o) ==
  Good(KidOf(nd, N, s), KidOf(nd, N, o), ParentOf(nd, N), root, N,
       SideKey(nd, N, s), ColorOf(nd, N), at)

LEMMA GoodBoth ==
  ASSUME NEW N \in Nat, NEW nd \in [ 0 .. N -> RedBlackCells ], NEW root, NEW at,
         NEW s, NEW o, Across(s, o), GoodTree(nd, root, N, at, s, o)
  PROVE  GoodTree(nd, root, N, at, o, s)
<1>1. \A m \in 0 .. N : KeyOf(nd, N)[m] \in Int
  <2>1. ASSUME NEW m \in 0 .. N PROVE nd[m].key \in Int
    BY CellIs
  <2>2. QED
    BY <2>1 DEF KeyOf
<1>2. Negated(N, SideKey(nd, N, s), SideKey(nd, N, o))
  <2>1. ASSUME NEW n \in 1 .. N PROVE SideKey(nd, N, o)[n] = 0 - SideKey(nd, N, s)[n]
    <3>1. n \in 0 .. N /\ KeyOf(nd, N)[n] \in Int
      BY <1>1, Numbered
    <3>2. (s = "left" /\ o = "right") \/ (s = "right" /\ o = "left")
      BY DEF Across, BothSides, RedBlack!Other
    <3>3. PICK k \in Int : k = KeyOf(nd, N)[n]
      BY <3>1
    <3>4. CASE s = "left" /\ o = "right"
      <4>1. SideKey(nd, N, s)[n] = k /\ SideKey(nd, N, o)[n] = 0 - k
        BY <3>1, <3>3, <3>4 DEF SideKey
      <4>2. QED
        BY <4>1
    <3>5. CASE s = "right" /\ o = "left"
      <4>1. SideKey(nd, N, o)[n] = k /\ SideKey(nd, N, s)[n] = 0 - k
        BY <3>1, <3>3, <3>5 DEF SideKey
      <4>2. QED
        BY <4>1
    <3>6. QED
      BY <3>2, <3>4, <3>5
  <2>2. QED
    BY <2>1 DEF Negated
<1>3. Good(KidOf(nd, N, s), KidOf(nd, N, o), ParentOf(nd, N), root, N,
           SideKey(nd, N, s), ColorOf(nd, N), at)
  BY DEF GoodTree
<1>4. Good(KidOf(nd, N, o), KidOf(nd, N, s), ParentOf(nd, N), root, N,
           SideKey(nd, N, o), ColorOf(nd, N), at)
  BY <1>2, <1>3, GoodMirrored
<1>5. QED
  BY <1>4 DEF GoodTree

(* Painting a node changes its colour only.                                *)
SameLinks(nd, nd1, N) ==
  /\ nd1 \in [ 0 .. N -> RedBlackCells ]
  /\ \A s \in BothSides : KidOf(nd1, N, s) = KidOf(nd, N, s)
  /\ ParentOf(nd1, N) = ParentOf(nd, N)
  /\ KeyOf(nd1, N) = KeyOf(nd, N)

LEMMA PaintedIs ==
  ASSUME NEW N \in Nat, NEW nd \in [ 0 .. N -> RedBlackCells ], NEW a \in 0 .. N,
         NEW v \in { "RED", "BLACK" }, NEW nd1, nd1 = RedBlack!Painted(nd, a, v)
  PROVE  /\ SameLinks(nd, nd1, N)
         /\ ColorOf(nd1, N)[a] = v
         /\ \A m \in 0 .. N : m # a => ColorOf(nd1, N)[m] = ColorOf(nd, N)[m]
<1>1. nd1 = [ nd EXCEPT ![a].color = v ]
  BY DEF RedBlack!Painted
<1>2. PICK e : e = nd[a]
  OBVIOUS
<1>3. e \in RedBlackCells
  BY <1>2
<1>4. nd1[a] = [ e EXCEPT !.color = v ]
  BY <1>1, <1>2
<1>5. PICK d : d = nd1[a]
  OBVIOUS
<1>6. /\ d \in RedBlackCells /\ d.color = v /\ d.key = e.key /\ d.parent = e.parent
      /\ \A s \in BothSides : RedBlack!Child(d, s) = RedBlack!Child(e, s)
  BY <1>3, <1>4, <1>5, CellPainted
<1>7. \A m \in 0 .. N : m # a => nd1[m] = nd[m]
  BY <1>1
<1>8. nd1 = [ m \in 0 .. N |-> nd1[m] ]
  BY <1>1
<1>9. nd1 \in [ 0 .. N -> RedBlackCells ]
  <2>1. ASSUME NEW m \in 0 .. N PROVE nd1[m] \in RedBlackCells
    BY <1>5, <1>6, <1>7
  <2>2. QED
    BY <1>8, <2>1
<1>10. ASSUME NEW m \in 0 .. N
       PROVE  /\ \A s \in BothSides : RedBlack!Child(nd1[m], s) = RedBlack!Child(nd[m], s)
              /\ nd1[m].parent = nd[m].parent /\ nd1[m].key = nd[m].key
  <2>1. CASE m = a
    BY <1>2, <1>5, <1>6, <2>1
  <2>2. CASE m # a
    BY <1>7, <2>2
  <2>3. QED
    BY <2>1, <2>2
<1>11. ASSUME NEW s \in BothSides PROVE KidOf(nd1, N, s) = KidOf(nd, N, s)
  BY <1>10 DEF KidOf
<1>12. ParentOf(nd1, N) = ParentOf(nd, N) /\ KeyOf(nd1, N) = KeyOf(nd, N)
  BY <1>10 DEF ParentOf, KeyOf
<1>13. SameLinks(nd, nd1, N)
  BY <1>9, <1>11, <1>12 DEF SameLinks
<1>14. ColorOf(nd1, N)[a] = v
  BY <1>5, <1>6 DEF ColorOf
<1>15. \A m \in 0 .. N : m # a => ColorOf(nd1, N)[m] = ColorOf(nd, N)[m]
  BY <1>7 DEF ColorOf
<1>16. QED
  BY <1>13, <1>14, <1>15

LEMMA ColorsAre ==
  ASSUME NEW N \in Nat, NEW nd \in [ 0 .. N -> RedBlackCells ]
  PROVE  ColorOf(nd, N) \in [ 0 .. N -> { "RED", "BLACK" } ]
<1>1. ASSUME NEW m \in 0 .. N PROVE nd[m].color \in { "RED", "BLACK" }
  BY CellIs
<1>2. QED
  BY <1>1 DEF ColorOf

(* What RBInsertFixup reads when its loop goes on: z = at, its parent, its  *)
(* grandparent, and the side the parent is on.                             *)
Loop(nd, at, p, g, s, o) ==
  /\ at # 0 /\ p = nd[at].parent /\ nd[p].color = "RED" /\ g = nd[p].parent
  /\ s = IF p = nd[g].left THEN "left" ELSE "right"
  /\ o = RedBlack!Other(s)

LEMMA LoopIs ==
  ASSUME NEW N \in Nat, NEW nd \in [ 0 .. N -> RedBlackCells ], NEW root, NEW at,
         GoodTree(nd, root, N, at, "left", "right"), NEW p, NEW g, NEW s, NEW o,
         Loop(nd, at, p, g, s, o)
  PROVE  /\ Across(o, s) /\ Across(s, o)
         /\ GoodTree(nd, root, N, at, o, s) /\ GoodTree(nd, root, N, at, s, o)
         /\ Unsettled(ParentOf(nd, N), ColorOf(nd, N), at, p, g)
         /\ at \in 1 .. N /\ p \in 1 .. N /\ g \in 1 .. N /\ at # p /\ p # g
         /\ Hand(KidOf(nd, N, s), g, p)
         /\ KidOf(nd, N, o)[p] = at \/ KidOf(nd, N, s)[p] = at
         /\ KidOf(nd, N, o)[g] \in 0 .. N
<1>1. /\ at # 0 /\ p = nd[at].parent /\ nd[p].color = "RED" /\ g = nd[p].parent
      /\ s = IF p = nd[g].left THEN "left" ELSE "right"
      /\ o = RedBlack!Other(s)
  BY DEF Loop
<1>2. /\ Across(s, o) /\ Across(o, s) /\ Across("left", "right")
      /\ (s = "left" /\ o = "right") \/ (s = "right" /\ o = "left")
  BY <1>1, Zenon DEF Across, BothSides, RedBlack!Other
<1>3. GoodTree(nd, root, N, at, "right", "left")
  BY <1>2, GoodBoth
<1>4. GoodTree(nd, root, N, at, o, s) /\ GoodTree(nd, root, N, at, s, o)
  BY <1>2, <1>3
<1>5. PICK lf, rt, par, col, key : /\ lf = KidOf(nd, N, "left") /\ rt = KidOf(nd, N, "right")
                                   /\ par = ParentOf(nd, N) /\ col = ColorOf(nd, N)
                                   /\ key = SideKey(nd, N, "left")
  OBVIOUS
<1>6. Good(lf, rt, par, root, N, key, col, at)
  BY <1>5 DEF GoodTree
<1>7. PICK sub, bh : Fine(lf, rt, par, root, N, key, col, at, sub, bh)
  BY <1>6 DEF Good
<1>8. Forked(lf, rt, par, root, N, sub) /\ Coloured(par, root, N, col, at)
  BY <1>7 DEF Fine
<1>9. /\ at \in 0 .. N /\ par \in [ 0 .. N -> 0 .. N ]
      /\ lf \in [ 0 .. N -> 0 .. N ] /\ rt \in [ 0 .. N -> 0 .. N ]
  BY <1>8 DEF Coloured, Forked, Branches, Upward
<1>10. \A m \in 0 .. N : par[m] = nd[m].parent /\ col[m] = nd[m].color
  BY <1>5, KidsAre
<1>11. p = par[at] /\ p \in 0 .. N
  BY <1>1, <1>9, <1>10
<1>12. col[p] = "RED" /\ g = par[p] /\ g \in 0 .. N
  BY <1>1, <1>9, <1>10, <1>11
<1>13. Unsettled(par, col, at, p, g)
  BY <1>1, <1>11, <1>12 DEF Unsettled
<1>14. /\ at \in 1 .. N /\ p \in 1 .. N /\ g \in 1 .. N /\ at # p /\ p # g
       /\ lf[p] = at \/ rt[p] = at
       /\ lf[g] = p \/ rt[g] = p
  BY <1>8, <1>13, Relatives
<1>15. lf[g] = nd[g].left /\ p # 0
  <2>1. lf[g] = RedBlack!Child(nd[g], "left")
    BY <1>5, <1>12, KidsAre
  <2>2. QED
    BY <1>14, <2>1 DEF RedBlack!Child
<1>16. Hand(KidOf(nd, N, s), g, p)
  <2>1. CASE s = "left"
    <3>1. p = lf[g]
      BY <1>1, <1>15, <2>1, Zenon
    <3>2. QED
      BY <1>5, <1>15, <2>1, <3>1 DEF Hand
  <2>2. CASE s = "right"
    <3>1. p = rt[g]
      BY <1>1, <1>14, <1>15, <2>2, Zenon
    <3>2. QED
      BY <1>5, <1>15, <2>2, <3>1 DEF Hand
  <2>3. QED
    BY <1>2, <2>1, <2>2
<1>17. KidOf(nd, N, o)[p] = at \/ KidOf(nd, N, s)[p] = at
  BY <1>2, <1>5, <1>14
<1>18. KidOf(nd, N, o)[g] \in 0 .. N
  BY <1>2, <1>5, <1>9, <1>12
<1>19. QED
  BY <1>2, <1>4, <1>5, <1>13, <1>14, <1>16, <1>17, <1>18

LEMMA GoodShape ==
  ASSUME NEW N, NEW nd, NEW root, NEW at, NEW s, NEW o, GoodTree(nd, root, N, at, s, o)
  PROVE  \E sub : Forked(KidOf(nd, N, s), KidOf(nd, N, o), ParentOf(nd, N), root, N, sub)
BY DEF GoodTree, Good, Fine

(* Case 3, with the paint before the rotation.                             *)
LEMMA OuterStep ==
  ASSUME NEW N \in Nat, NEW nd \in [ 0 .. N -> RedBlackCells ], NEW root, NEW at,
         NEW s, NEW o, Across(o, s), GoodTree(nd, root, N, at, o, s),
         NEW p \in 1 .. N, NEW g \in 1 .. N, p # g,
         Unsettled(ParentOf(nd, N), ColorOf(nd, N), at, p, g),
         Outward(KidOf(nd, N, o), KidOf(nd, N, s), at, p, g),
         ColorOf(nd, N)[KidOf(nd, N, o)[g]] # "RED",
         NEW nd1, NEW root1,
         RotatedTo(RedBlack!Painted(RedBlack!Painted(nd, p, "BLACK"), g, "RED"), root, g, o, nd1, root1)
  PROVE  nd1 \in [ 0 .. N -> RedBlackCells ] /\ GoodTree(nd1, root1, N, at, o, s)
<1>1. PICK mid : mid = RedBlack!Painted(nd, p, "BLACK")
  OBVIOUS
<1>2. PICK pnd : pnd = RedBlack!Painted(mid, g, "RED")
  OBVIOUS
<1>3. p \in 0 .. N /\ g \in 0 .. N
  BY Numbered
<1>4. /\ SameLinks(nd, mid, N) /\ ColorOf(mid, N)[p] = "BLACK"
      /\ \A m \in 0 .. N : m # p => ColorOf(mid, N)[m] = ColorOf(nd, N)[m]
  BY <1>1, <1>3, PaintedIs
<1>5. mid \in [ 0 .. N -> RedBlackCells ]
  BY <1>4 DEF SameLinks
<1>6. /\ SameLinks(mid, pnd, N) /\ ColorOf(pnd, N)[g] = "RED"
      /\ \A m \in 0 .. N : m # g => ColorOf(pnd, N)[m] = ColorOf(mid, N)[m]
  BY <1>2, <1>3, <1>5, PaintedIs
<1>7. pnd \in [ 0 .. N -> RedBlackCells ]
  BY <1>6 DEF SameLinks
<1>8. PICK lf, rt, par, col, key : /\ lf = KidOf(nd, N, o) /\ rt = KidOf(nd, N, s)
                                   /\ par = ParentOf(nd, N) /\ col = ColorOf(nd, N)
                                   /\ key = SideKey(nd, N, o)
  OBVIOUS
<1>9. o \in BothSides /\ s \in BothSides
  BY SidesAre
<1>10. /\ lf = KidOf(pnd, N, o) /\ rt = KidOf(pnd, N, s) /\ par = ParentOf(pnd, N)
       /\ key = SideKey(pnd, N, o)
  BY <1>4, <1>6, <1>8, <1>9 DEF SameLinks, SideKey
<1>11. PICK col1 : col1 = ColorOf(pnd, N)
  OBVIOUS
<1>12. Swapped(N, col, col1, g, p)
  <2>1. col1 \in [ 0 .. N -> { "RED", "BLACK" } ]
    BY <1>7, <1>11, ColorsAre
  <2>2. col1[g] = "RED" /\ col1[p] = "BLACK"
    BY <1>3, <1>4, <1>6, <1>11
  <2>3. \A m \in 0 .. N : m # g /\ m # p => col1[m] = col[m]
    BY <1>4, <1>6, <1>8, <1>11
  <2>4. QED
    BY <2>1, <2>2, <2>3 DEF Swapped
<1>13. /\ Good(lf, rt, par, root, N, key, col, at) /\ Unsettled(par, col, at, p, g)
       /\ Outward(lf, rt, at, p, g) /\ col[lf[g]] # "RED"
  BY <1>8 DEF GoodTree
<1>14. PICK sub : Forked(lf, rt, par, root, N, sub)
  BY <1>8, GoodShape
<1>15. Hand(rt, g, p)
  <2>1. p # 0
    OBVIOUS
  <2>2. QED
    BY <1>13, <2>1 DEF Outward, Hand
<1>16. RotatedTo(pnd, root, g, o, nd1, root1)
  BY <1>1, <1>2
<1>17. PICK lf1, rt1, par1 : /\ lf1 = KidOf(nd1, N, o) /\ rt1 = KidOf(nd1, N, s)
                             /\ par1 = ParentOf(nd1, N)
  OBVIOUS
<1>18. LinksOf(pnd, N, o, s, lf, rt, par) /\ LinksOf(nd1, N, o, s, lf1, rt1, par1)
  BY <1>10, <1>17 DEF LinksOf
<1>19. SameContents(pnd, nd1, N) /\ Spun(lf, rt, par, root, N, g, p, lf1, rt1, par1, root1)
  BY <1>7, <1>14, <1>15, <1>16, <1>18, RotatedSpun
<1>20. Good(lf1, rt1, par1, root1, N, key, col1, at)
  BY <1>12, <1>13, <1>19, OuterGood
<1>21. key = SideKey(nd1, N, o) /\ col1 = ColorOf(nd1, N)
  BY <1>10, <1>11, <1>19 DEF SideKey, SameContents
<1>22. GoodTree(nd1, root1, N, at, o, s)
  BY <1>17, <1>20, <1>21 DEF GoodTree
<1>23. QED
  BY <1>19, <1>22 DEF SameContents

(* Case 2, before case 3.                                                  *)
Straightened(nd, N, at, p, g, s, o, nd1, root1) ==
  /\ nd1 \in [ 0 .. N -> RedBlackCells ] /\ GoodTree(nd1, root1, N, p, o, s)
  /\ Unsettled(ParentOf(nd1, N), ColorOf(nd1, N), p, at, g)
  /\ Outward(KidOf(nd1, N, o), KidOf(nd1, N, s), p, at, g)
  /\ KidOf(nd1, N, o)[g] = KidOf(nd, N, o)[g] /\ ColorOf(nd1, N) = ColorOf(nd, N)

LEMMA InnerStep ==
  ASSUME NEW N \in Nat, NEW nd \in [ 0 .. N -> RedBlackCells ], NEW root, NEW at \in 1 .. N,
         NEW s, NEW o, Across(s, o), GoodTree(nd, root, N, at, o, s), GoodTree(nd, root, N, at, s, o),
         NEW p \in 1 .. N, NEW g \in 1 .. N,
         Unsettled(ParentOf(nd, N), ColorOf(nd, N), at, p, g),
         Inward(KidOf(nd, N, o), KidOf(nd, N, s), at, p, g),
         NEW nd1, NEW root1, RotatedTo(nd, root, p, s, nd1, root1)
  PROVE  Straightened(nd, N, at, p, g, s, o, nd1, root1)
<1>1. PICK lf, rt, par, col, key : /\ lf = KidOf(nd, N, o) /\ rt = KidOf(nd, N, s)
                                   /\ par = ParentOf(nd, N) /\ col = ColorOf(nd, N)
                                   /\ key = SideKey(nd, N, o)
  OBVIOUS
<1>2. /\ Good(lf, rt, par, root, N, key, col, at) /\ Unsettled(par, col, at, p, g)
      /\ Inward(lf, rt, at, p, g)
  BY <1>1 DEF GoodTree
<1>3. PICK sub : Forked(rt, lf, par, root, N, sub)
  BY <1>1, GoodShape
<1>4. Hand(lf, p, at)
  <2>1. at # 0
    OBVIOUS
  <2>2. QED
    BY <1>2, <2>1 DEF Inward, Hand
<1>5. PICK lf1, rt1, par1 : /\ lf1 = KidOf(nd1, N, o) /\ rt1 = KidOf(nd1, N, s)
                            /\ par1 = ParentOf(nd1, N)
  OBVIOUS
<1>6. LinksOf(nd, N, s, o, rt, lf, par) /\ LinksOf(nd1, N, s, o, rt1, lf1, par1)
  BY <1>1, <1>5 DEF LinksOf
<1>7. SameContents(nd, nd1, N) /\ Spun(rt, lf, par, root, N, p, at, rt1, lf1, par1, root1)
  BY <1>3, <1>4, <1>6, RotatedSpun
<1>8. /\ Good(lf1, rt1, par1, root1, N, key, col, p)
      /\ Unsettled(par1, col, p, at, g) /\ Outward(lf1, rt1, p, at, g) /\ lf1[g] = lf[g]
  BY <1>2, <1>7, InnerGood
<1>9. key = SideKey(nd1, N, o) /\ col = ColorOf(nd1, N)
  BY <1>1, <1>7 DEF SideKey, SameContents
<1>10. GoodTree(nd1, root1, N, p, o, s)
  BY <1>5, <1>8, <1>9 DEF GoodTree
<1>11. QED
  BY <1>1, <1>5, <1>7, <1>8, <1>9, <1>10 DEF SameContents, Straightened

-----------------------------------------------------------------------------
(* Down the tree: subtrees get smaller.                                    *)
LEMMA Amounts ==
  ASSUME NEW lf, NEW rt, NEW par, NEW root, NEW N, NEW sub, Forked(lf, rt, par, root, N, sub),
         NEW n \in 0 .. N
  PROVE  /\ Cardinality(sub[n]) \in Nat /\ Cardinality(sub[n]) <= N
         /\ n # 0 => 1 <= Cardinality(sub[n])
<1>1. N \in Nat /\ sub[n] \subseteq 1 .. N
  BY DEF Forked, Branches
<1>2. PICK S : S = sub[n]
  OBVIOUS
<1>3. PICK W : W = 1 .. N
  OBVIOUS
<1>4. IsFiniteSet(W) /\ Cardinality(W) = N
  <2>1. IsFiniteSet(1 .. N) /\ Cardinality(1 .. N) = IF 1 > N THEN 0 ELSE N - 1 + 1
    BY <1>1, FS_Interval
  <2>2. QED
    BY <1>1, <1>3, <2>1
<1>5. S \in SUBSET W
  BY <1>1, <1>2, <1>3
<1>6. IsFiniteSet(S) /\ Cardinality(S) \in Nat /\ Cardinality(S) <= Cardinality(W)
  BY <1>4, <1>5, FS_Subset, FS_CardinalityType
<1>7. ASSUME n # 0 PROVE Cardinality(S) # 0
  <2>1. n \in 1 .. N
    BY <1>1, <1>7
  <2>2. n \in S
    BY <1>2, <2>1, Limbs
  <2>3. QED
    BY <1>6, <2>2, FS_EmptySet
<1>8. QED
  BY <1>2, <1>4, <1>6, <1>7

LEMMA Dwindles ==
  ASSUME NEW lf, NEW rt, NEW par, NEW root, NEW N, NEW sub, Forked(lf, rt, par, root, N, sub),
         NEW n \in 1 .. N, NEW m \in sub[n], m # n
  PROVE  Cardinality(sub[m]) < Cardinality(sub[n])
<1>1. n \notin sub[m]
  BY Descends
<1>2. sub[m] \subseteq sub[n] /\ n \in sub[n] /\ sub[n] \subseteq 1 .. N /\ N \in Nat
  <2>1. sub[n] \subseteq 1 .. N /\ N \in Nat
    BY DEF Forked, Branches
  <2>2. sub[m] \subseteq sub[n]
    BY DEF Forked, Branches
  <2>3. n \in sub[n]
    BY Limbs
  <2>4. QED
    BY <2>1, <2>2, <2>3
<1>3. PICK S : S = sub[n]
  OBVIOUS
<1>4. PICK T : T = sub[m]
  OBVIOUS
<1>5. PICK W : W = 1 .. N
  OBVIOUS
<1>6. IsFiniteSet(W)
  BY <1>2, <1>5, FS_Interval
<1>7. S \in SUBSET W
  BY <1>2, <1>3, <1>5
<1>8. IsFiniteSet(S)
  BY <1>6, <1>7, FS_Subset
<1>9. T \in SUBSET S /\ T # S
  BY <1>1, <1>2, <1>3, <1>4
<1>10. Cardinality(T) < Cardinality(S)
  BY <1>8, <1>9, FS_Subset, FS_CardinalityType
<1>11. QED
  BY <1>3, <1>4, <1>10

(* A node below q on the left is the left child of q or has its parent      *)
(* there; the root is below no node.                                       *)
LEMMA LeftOf ==
  ASSUME NEW lf, NEW rt, NEW par, NEW root, NEW N, NEW sub, Forked(lf, rt, par, root, N, sub),
         NEW q \in 1 .. N, NEW n \in sub[lf[q]]
  PROVE  /\ n # root /\ par[n] \in 1 .. N /\ (lf[par[n]] = n \/ rt[par[n]] = n)
         /\ (par[n] = q /\ lf[q] = n) \/ par[n] \in sub[lf[q]]
<1>1. /\ N \in Nat /\ sub[q] = {q} \cup sub[lf[q]] \cup sub[rt[q]]
      /\ q \notin sub[lf[q]] /\ sub[lf[q]] \cap sub[rt[q]] = {}
      /\ sub[root] = 1 .. N /\ par[root] = 0 /\ par \in [ 0 .. N -> 0 .. N ] /\ sub[0] = {}
  BY DEF Forked, Branches, Upward
<1>2. n \in sub[q] /\ n # q /\ q \in sub[q] /\ sub[q] \subseteq 1 .. N /\ n \in 1 .. N
  BY <1>1, Limbs
<1>3. q \notin sub[n]
  BY <1>2, Descends
<1>4. n # root
  BY <1>1, <1>3
<1>5. par[n] # 0 /\ (lf[par[n]] = n \/ rt[par[n]] = n) /\ par[n] \in sub[q]
  BY <1>2, <1>4 DEF Forked, Upward
<1>6. par[n] \in 1 .. N
  BY <1>2, <1>5
<1>7. lf[q] \in 1 .. N /\ rt[q] \in 0 .. N
  <2>1. lf[q] # 0
    BY <1>1
  <2>2. QED
    BY <2>1, Limbs
<1>8. CASE par[n] = q
  <2>1. n # rt[q]
    <3>1. SUFFICES ASSUME n = rt[q] PROVE FALSE
      OBVIOUS
    <3>2. n \in sub[rt[q]]
      BY <1>2, <3>1, Limbs
    <3>3. QED
      BY <1>1, <3>2
  <2>2. QED
    BY <1>4, <1>5, <1>6, <1>8, <2>1
<1>9. CASE par[n] \in sub[rt[q]]
  <2>1. rt[q] # 0
    BY <1>1, <1>9
  <2>2. rt[q] \in 1 .. N
    BY <1>7, <2>1
  <2>3. sub[par[n]] \subseteq sub[rt[q]]
    BY <1>9, <2>2 DEF Forked, Branches
  <2>4. n \in sub[par[n]]
    <3>1. n # 0
      BY <1>2
    <3>2. lf[par[n]] = n \/ rt[par[n]] = n
      BY <1>5
    <3>3. PICK e : e = par[n]
      OBVIOUS
    <3>4. e \in 1 .. N /\ (lf[e] = n \/ rt[e] = n)
      BY <1>6, <3>2, <3>3
    <3>5. n \in sub[e]
      BY <3>1, <3>4, Limbs
    <3>6. QED
      BY <3>3, <3>5
  <2>5. QED
    BY <1>1, <2>3, <2>4
<1>10. QED
  BY <1>1, <1>4, <1>5, <1>6, <1>8, <1>9

LEMMA RightOf ==
  ASSUME NEW lf, NEW rt, NEW par, NEW root, NEW N, NEW sub, Forked(lf, rt, par, root, N, sub),
         NEW q \in 1 .. N, NEW n \in sub[rt[q]]
  PROVE  /\ n # root /\ par[n] \in 1 .. N /\ (lf[par[n]] = n \/ rt[par[n]] = n)
         /\ (par[n] = q /\ rt[q] = n) \/ par[n] \in sub[rt[q]]
<1>1. Forked(rt, lf, par, root, N, sub)
  BY Mirrored
<1>2. QED
  BY <1>1, LeftOf

(* Where the walk of key k is: at n, below p, and k belongs where p is.     *)
Fallen(lf, rt, root, N, sub, key, k, p, n) ==
  /\ p \in 0 .. N /\ n \in 0 .. N
  /\ p = 0 => n = root
  /\ p # 0 /\ k < key[p] => n = lf[p]
  /\ p # 0 /\ ~ (k < key[p]) => n = rt[p]
  /\ \A q \in 1 .. N : p \in sub[lf[q]] => k < key[q]
  /\ \A q \in 1 .. N : p \in sub[rt[q]] => ~ (k < key[q])

LEMMA FallenStarts ==
  ASSUME NEW lf, NEW rt, NEW par, NEW root, NEW N, NEW sub, Forked(lf, rt, par, root, N, sub),
         NEW key, NEW k
  PROVE  Fallen(lf, rt, root, N, sub, key, k, 0, root)
<1>1. N \in Nat /\ root \in 0 .. N
  BY DEF Forked, Branches, Upward
<1>2. ASSUME NEW q \in 1 .. N PROVE 0 \notin sub[lf[q]] /\ 0 \notin sub[rt[q]]
  <2>1. sub[lf[q]] \subseteq 1 .. N /\ sub[rt[q]] \subseteq 1 .. N
    <3>1. lf[q] \in 0 .. N /\ rt[q] \in 0 .. N
      BY Limbs
    <3>2. QED
      BY <3>1 DEF Forked, Branches
  <2>2. QED
    BY <2>1
<1>3. QED
  BY <1>1, <1>2 DEF Fallen

LEMMA FallenStep ==
  ASSUME NEW lf, NEW rt, NEW par, NEW root, NEW N, NEW sub, Forked(lf, rt, par, root, N, sub),
         NEW key, Numeric(N, key), NEW k \in Int,
         NEW p, NEW n, Fallen(lf, rt, root, N, sub, key, k, p, n), n # 0,
         NEW c, k < key[n] => c = lf[n], ~ (k < key[n]) => c = rt[n]
  PROVE  /\ Fallen(lf, rt, root, N, sub, key, k, n, c) /\ n \in 1 .. N
         /\ c # 0 => Cardinality(sub[c]) < Cardinality(sub[n])
<1>1. N \in Nat /\ p \in 0 .. N /\ n \in 0 .. N
  BY DEF Forked, Branches, Fallen
<1>2. n \in 1 .. N
  BY <1>1
<1>3. c = lf[n] \/ c = rt[n]
  OBVIOUS
<1>4. c \in 0 .. N
  BY <1>2, <1>3, Limbs
<1>5. p = 0 => n = root
  BY DEF Fallen
<1>6. /\ \A q \in 1 .. N : (lf[q] # 0 => par[lf[q]] = q) /\ (rt[q] # 0 => par[rt[q]] = q)
  BY DEF Forked, Upward
<1>7. ASSUME n # root PROVE p \in 1 .. N /\ par[n] = p
  <2>1. p \in 1 .. N
    BY <1>1, <1>5, <1>7
  <2>2. n = lf[p] \/ n = rt[p]
    BY <2>1 DEF Fallen
  <2>3. QED
    BY <1>6, <2>1, <2>2
<1>8. ASSUME NEW q \in 1 .. N, n \in sub[lf[q]] PROVE k < key[q]
  <2>1. n # root /\ ((par[n] = q /\ lf[q] = n) \/ par[n] \in sub[lf[q]])
    BY <1>8, LeftOf
  <2>2. p \in 1 .. N /\ par[n] = p
    BY <1>7, <2>1
  <2>3. CASE p \in sub[lf[q]]
    BY <2>3 DEF Fallen
  <2>4. CASE p = q /\ lf[q] = n
    <3>1. SUFFICES ASSUME ~ (k < key[q]) PROVE FALSE
      OBVIOUS
    <3>2. rt[q] = n
      BY <2>2, <2>4, <3>1 DEF Fallen
    <3>3. lf[q] # rt[q]
      BY <2>4, Limbs
    <3>4. QED
      BY <2>4, <3>2, <3>3
  <2>5. QED
    BY <2>1, <2>2, <2>3, <2>4
<1>9. ASSUME NEW q \in 1 .. N, n \in sub[rt[q]] PROVE ~ (k < key[q])
  <2>1. n # root /\ ((par[n] = q /\ rt[q] = n) \/ par[n] \in sub[rt[q]])
    BY <1>9, RightOf
  <2>2. p \in 1 .. N /\ par[n] = p
    BY <1>7, <2>1
  <2>3. CASE p \in sub[rt[q]]
    BY <2>3 DEF Fallen
  <2>4. CASE p = q /\ rt[q] = n
    <3>1. SUFFICES ASSUME k < key[q] PROVE FALSE
      OBVIOUS
    <3>2. lf[q] = n
      BY <2>2, <2>4, <3>1 DEF Fallen
    <3>3. lf[q] # rt[q]
      BY <2>4, Limbs
    <3>4. QED
      BY <2>4, <3>2, <3>3
  <2>5. QED
    BY <2>1, <2>2, <2>3, <2>4
<1>10. Fallen(lf, rt, root, N, sub, key, k, n, c)
  BY <1>1, <1>4, <1>8, <1>9 DEF Fallen
<1>11. ASSUME c # 0 PROVE Cardinality(sub[c]) < Cardinality(sub[n])
  <2>1. c \in sub[n] /\ c # n
    BY <1>2, <1>3, <1>11, Limbs
  <2>2. QED
    BY <1>2, <2>1, Dwindles
<1>12. QED
  BY <1>2, <1>10, <1>11

(* The walk from the root: at the end there is nothing below p any more.    *)
Walked(w, root, N, lf, rt, key, k) ==
  /\ w[0] = << 0, root >>
  /\ \A i \in 1 .. N : \A p, n : w[i - 1] = << p, n >> =>
       /\ n = 0 => w[i] = << p, n >>
       /\ n # 0 /\ k < key[n] => w[i] = << n, lf[n] >>
       /\ n # 0 /\ ~ (k < key[n]) => w[i] = << n, rt[n] >>

LEMMA WalkEnds ==
  ASSUME NEW lf, NEW rt, NEW par, NEW root, NEW N, NEW sub, Forked(lf, rt, par, root, N, sub),
         NEW key, Numeric(N, key), NEW k \in Int, NEW w, Walked(w, root, N, lf, rt, key, k)
  PROVE  \E p : w[N] = << p, 0 >> /\ Fallen(lf, rt, root, N, sub, key, k, p, 0)
<1>1. N \in Nat /\ root \in 0 .. N
  BY DEF Forked, Branches, Upward
<1> DEFINE Close(i) == \E p, n : /\ w[i] = << p, n >> /\ Fallen(lf, rt, root, N, sub, key, k, p, n)
                                 /\ n = 0 \/ Cardinality(sub[n]) <= N - i
           T == { i \in 0 .. N : Close(i) }
<1>2. 0 \in T
  <2>1. w[0] = << 0, root >> /\ Fallen(lf, rt, root, N, sub, key, k, 0, root)
    BY FallenStarts DEF Walked
  <2>2. Cardinality(sub[root]) <= N - 0
    BY <1>1, Amounts
  <2>3. 0 \in 0 .. N
    BY <1>1
  <2>4. QED
    BY <2>1, <2>2, <2>3
<1>3. ASSUME NEW i \in 0 .. N, i < N, i \in T PROVE i + 1 \in T
  <2>1. PICK p, n : /\ w[i] = << p, n >> /\ Fallen(lf, rt, root, N, sub, key, k, p, n)
                    /\ n = 0 \/ Cardinality(sub[n]) <= N - i
    BY <1>3
  <2>2. i + 1 \in 1 .. N /\ i + 1 \in 0 .. N /\ i + 1 - 1 = i
    <3> HIDE DEF T, Close
    <3>1. i \in 0 .. N /\ i < N
      BY <1>3
    <3>2. QED
      BY <1>1, <3>1
  <2>3. PICK j : j = i + 1
    OBVIOUS
  <2>4. j \in 1 .. N /\ w[j - 1] = << p, n >>
    BY <2>1, <2>2, <2>3
  <2>5. /\ n = 0 => w[j] = << p, n >>
        /\ n # 0 /\ k < key[n] => w[j] = << n, lf[n] >>
        /\ n # 0 /\ ~ (k < key[n]) => w[j] = << n, rt[n] >>
    BY <2>4 DEF Walked
  <2>6. CASE n = 0
    <3>1. Close(j)
      BY <2>1, <2>5, <2>6
    <3>2. QED
      BY <2>2, <2>3, <3>1
  <2>7. CASE n # 0
    <3>1. PICK c : (k < key[n] => c = lf[n]) /\ (~ (k < key[n]) => c = rt[n])
      OBVIOUS
    <3>2. w[j] = << n, c >>
      BY <2>5, <2>7, <3>1
    <3>3. /\ Fallen(lf, rt, root, N, sub, key, k, n, c) /\ n \in 1 .. N
          /\ c # 0 => Cardinality(sub[c]) < Cardinality(sub[n])
      BY <2>1, <2>7, <3>1, FallenStep
    <3>4. c = 0 \/ Cardinality(sub[c]) <= N - j
      <4>1. CASE c # 0
        <5>1. c \in 0 .. N /\ n \in 0 .. N
          BY <3>3 DEF Fallen
        <5>2. Cardinality(sub[c]) \in Nat /\ Cardinality(sub[n]) \in Nat
          BY <5>1, Amounts
        <5>3. QED
          BY <1>1, <2>1, <2>3, <2>7, <3>3, <4>1, <5>2
      <4>2. QED
        BY <4>1
    <3>5. Close(j)
      BY <3>2, <3>3, <3>4
    <3>6. QED
      BY <2>2, <2>3, <3>5
  <2>8. QED
    BY <2>6, <2>7
<1>4. N \in T
  <2> HIDE DEF T
  <2>1. \A i \in 0 .. N : i \in T
    BY <1>1, <1>2, <1>3, UpTo
  <2>2. QED
    BY <1>1, <2>1
<1>5. PICK p, n : /\ w[N] = << p, n >> /\ Fallen(lf, rt, root, N, sub, key, k, p, n)
                  /\ n = 0 \/ Cardinality(sub[n]) <= N - N
  BY <1>4
<1>6. n = 0
  <2>1. SUFFICES ASSUME n # 0 PROVE FALSE
    OBVIOUS
  <2>2. n \in 0 .. N
    BY <1>5 DEF Fallen
  <2>3. 1 <= Cardinality(sub[n]) /\ Cardinality(sub[n]) \in Nat
    BY <2>1, <2>2, Amounts
  <2>4. QED
    BY <1>1, <1>5, <2>1, <2>3
<1>7. QED
  BY <1>5, <1>6

(* The walk of insert() for key k.                                         *)
LEMMA PlaceWalked ==
  ASSUME NEW lf, NEW rt, NEW par, LinksOf(rnode, rcount, "left", "right", lf, rt, par),
         NEW sub, Forked(lf, rt, par, _st_Root, rcount, sub),
         NEW key, key = KeyOf(rnode, rcount), NEW k
  PROVE  \E w : /\ Walked(w, _st_Root, rcount, lf, rt, key, k)
                /\ RedBlack!Place(k) = w[rcount][1]
<1> DEFINE D == (0 .. rcount) \X (0 .. rcount)
           F == [ at \in D |-> RedBlack!Down(k, at) ]
           base == << 0, _st_Root >>
           follows(f) == f = [ i \in 0 .. rcount |-> IF i = 0 THEN base ELSE RedBlack!Down(k, f[i - 1]) ]
<1>0. /\ rcount \in Nat /\ _st_Root \in 0 .. rcount
      /\ \A m \in 0 .. rcount : lf[m] \in 0 .. rcount /\ rt[m] \in 0 .. rcount
  BY DEF Forked, Branches, Upward
<1>1. \A m \in 0 .. rcount : rnode[m].left = lf[m] /\ rnode[m].right = rt[m] /\ rnode[m].key = key[m]
  BY DEF LinksOf, KidOf, KeyOf, RedBlack!Child
<1>2. ASSUME NEW p \in 0 .. rcount, NEW n \in 0 .. rcount
      PROVE  /\ n = 0 => RedBlack!Down(k, << p, n >>) = << p, n >>
             /\ n # 0 /\ k < key[n] => RedBlack!Down(k, << p, n >>) = << n, lf[n] >>
             /\ n # 0 /\ ~ (k < key[n]) => RedBlack!Down(k, << p, n >>) = << n, rt[n] >>
  BY <1>1 DEF RedBlack!Down, RedBlack!Nil
<1>3. F \in [ D -> D ]
  <2>1. ASSUME NEW p \in 0 .. rcount, NEW n \in 0 .. rcount PROVE RedBlack!Down(k, << p, n >>) \in D
    <3>1. lf[n] \in 0 .. rcount /\ rt[n] \in 0 .. rcount
      BY <1>0
    <3>2. CASE n = 0
      BY <1>2, <3>2
    <3>3. CASE n # 0 /\ k < key[n]
      BY <1>2, <3>1, <3>3
    <3>4. CASE n # 0 /\ ~ (k < key[n])
      BY <1>2, <3>1, <3>4
    <3>5. QED
      BY <3>2, <3>3, <3>4
  <2>2. ASSUME NEW at \in D PROVE RedBlack!Down(k, at) \in D
    <3>1. PICK p \in 0 .. rcount, n \in 0 .. rcount : at = << p, n >>
      OBVIOUS
    <3>2. RedBlack!Down(k, << p, n >>) \in D
      BY <2>1
    <3>3. QED
      BY <3>1, <3>2
  <2>3. QED
    BY <2>2
<1>4. base \in D
  BY <1>0
<1>5. PICK g : Iterate(g, rcount, D, F, base)
  <2> HIDE DEF D, F, base
  <2>1. QED
    BY <1>0, <1>3, <1>4, Iterates
<1>6. follows(g)
  <2>1. g \in [ 0 .. rcount -> D ] /\ g[0] = base /\ \A i \in 1 .. rcount : g[i] = F[g[i - 1]]
    BY <1>5 DEF Iterate
  <2>2. ASSUME NEW i \in 1 .. rcount PROVE g[i] = RedBlack!Down(k, g[i - 1])
    <3>1. i - 1 \in 0 .. rcount
      BY <1>0
    <3>2. g[i - 1] \in D
      BY <2>1, <3>1
    <3>3. QED
      BY <2>1, <3>2
  <2> HIDE DEF base, D, F
  <2>3. \A i \in 0 .. rcount : i = 0 \/ i \in 1 .. rcount
    BY <1>0
  <2>4. QED
    BY <2>1, <2>2, <2>3
<1> DEFINE w == CHOOSE f : follows(f)
<1>7. RedBlack!Place(k) = w[rcount][1]
  BY Zenon DEF RedBlack!Place, RedBlack!Nil
<1>8. follows(w)
  <2> HIDE DEF follows
  <2>1. QED
    BY <1>6, Zenon
<1>9. ASSUME NEW v, follows(v) PROVE Walked(v, _st_Root, rcount, lf, rt, key, k)
  <2>1. v[0] = base
    BY <1>0, <1>9
  <2>2. ASSUME NEW i \in 1 .. rcount PROVE v[i] = RedBlack!Down(k, v[i - 1])
    <3>1. i \in 0 .. rcount /\ i # 0
      BY <1>0
    <3>2. v = [ j \in 0 .. rcount |-> IF j = 0 THEN base ELSE RedBlack!Down(k, v[j - 1]) ]
      BY <1>9
    <3> HIDE DEF base, follows
    <3>3. QED
      BY <3>1, <3>2
  <2>3. \A i \in 0 .. rcount : v[i] \in D
    <3> DEFINE T == { i \in 0 .. rcount : v[i] \in D }
    <3>1. 0 \in T
      BY <1>0, <1>4, <2>1
    <3>2. ASSUME NEW i \in 0 .. rcount, i < rcount, i \in T PROVE i + 1 \in T
      <4>1. i + 1 \in 1 .. rcount /\ i + 1 \in 0 .. rcount /\ i + 1 - 1 = i
        BY <1>0, <3>2
      <4>2. v[i] \in D
        BY <3>2
      <4>3. v[i + 1] = RedBlack!Down(k, v[i])
        BY <2>2, <4>1
      <4>4. RedBlack!Down(k, v[i]) \in D
        <5>1. F[v[i]] \in D
          <6> HIDE DEF F, D
          <6>1. QED
            BY <1>3, <4>2
        <5>2. QED
          BY <4>2, <5>1
      <4>5. QED
        BY <4>1, <4>3, <4>4
    <3> HIDE DEF T
    <3>3. \A i \in 0 .. rcount : i \in T
      BY <1>0, <3>1, <3>2, UpTo
    <3>4. QED
      BY <3>3 DEF T
  <2>4. ASSUME NEW i \in 1 .. rcount, NEW p, NEW n, v[i - 1] = << p, n >>
        PROVE  /\ n = 0 => v[i] = << p, n >>
               /\ n # 0 /\ k < key[n] => v[i] = << n, lf[n] >>
               /\ n # 0 /\ ~ (k < key[n]) => v[i] = << n, rt[n] >>
    <3>1. i - 1 \in 0 .. rcount
      BY <1>0
    <3>2. << p, n >> \in D
      BY <2>3, <2>4, <3>1
    <3>3. p \in 0 .. rcount /\ n \in 0 .. rcount
      BY <3>2
    <3>4. v[i] = RedBlack!Down(k, << p, n >>)
      BY <2>2, <2>4
    <3>5. QED
      BY <1>2, <3>3, <3>4
  <2>5. QED
    BY <2>1, <2>4 DEF Walked
<1>10. Walked(w, _st_Root, rcount, lf, rt, key, k)
  <2> HIDE DEF follows, w
  <2>1. QED
    BY <1>8, <1>9
<1>11. QED
  BY <1>7, <1>10

(* The place of k: no node at all, or one with no child on the side of k.   *)
LEMMA PlaceFits ==
  ASSUME NEW lf, NEW rt, NEW par, LinksOf(rnode, rcount, "left", "right", lf, rt, par),
         NEW sub, Forked(lf, rt, par, _st_Root, rcount, sub),
         NEW key, key = KeyOf(rnode, rcount), Numeric(rcount, key), NEW k \in Int,
         NEW neg, Negated(rcount, key, neg),
         NEW p, p = RedBlack!Place(k)
  PROVE  /\ p \in 0 .. rcount
         /\ p = 0 => rcount = 0
         /\ p # 0 /\ k < key[p] => Free(lf, p) /\ Belongs(lf, rt, rcount, sub, key, p, k)
         /\ p # 0 /\ ~ (k < key[p]) => Free(rt, p) /\ Belongs(rt, lf, rcount, sub, neg, p, 0 - k)
<1>1. PICK w : Walked(w, _st_Root, rcount, lf, rt, key, k) /\ RedBlack!Place(k) = w[rcount][1]
  BY PlaceWalked
<1>2. PICK q : w[rcount] = << q, 0 >> /\ Fallen(lf, rt, _st_Root, rcount, sub, key, k, q, 0)
  BY <1>1, WalkEnds
<1>3. q = p
  BY <1>1, <1>2
<1>4. /\ p \in 0 .. rcount
      /\ p = 0 => 0 = _st_Root
      /\ p # 0 /\ k < key[p] => 0 = lf[p]
      /\ p # 0 /\ ~ (k < key[p]) => 0 = rt[p]
      /\ \A m \in 1 .. rcount : p \in sub[lf[m]] => k < key[m]
      /\ \A m \in 1 .. rcount : p \in sub[rt[m]] => ~ (k < key[m])
  BY <1>2, <1>3 DEF Fallen
<1>5. rcount \in Nat /\ sub[0] = {} /\ sub[_st_Root] = 1 .. rcount
  BY DEF Forked, Branches, Upward
<1>6. p = 0 => rcount = 0
  <2>1. SUFFICES ASSUME p = 0, rcount # 0 PROVE FALSE
    OBVIOUS
  <2>2. 1 \in 1 .. rcount
    BY <1>5, <2>1
  <2>3. 1 .. rcount = {}
    BY <1>4, <1>5, <2>1
  <2>4. QED
    BY <2>2, <2>3
<1>7. \A m \in 1 .. rcount : key[m] \in Int /\ neg[m] = 0 - key[m]
  BY DEF Numeric, Negated
<1>8. ASSUME p # 0 PROVE p \in 1 .. rcount
  BY <1>4, <1>5, <1>8
<1>9. ASSUME p # 0, k < key[p] PROVE Free(lf, p) /\ Belongs(lf, rt, rcount, sub, key, p, k)
  <2>1. key[p] \in Int
    BY <1>7, <1>8, <1>9
  <2>2. k <= key[p]
    BY <1>9, <2>1
  <2>3. ASSUME NEW m \in 1 .. rcount, p \in sub[lf[m]] PROVE k <= key[m]
    BY <1>4, <1>7, <2>3
  <2>4. ASSUME NEW m \in 1 .. rcount, p \in sub[rt[m]] PROVE key[m] <= k
    BY <1>4, <1>7, <2>4
  <2>5. QED
    BY <1>4, <1>9, <2>2, <2>3, <2>4 DEF Free, Belongs
<1>10. ASSUME p # 0, ~ (k < key[p])
       PROVE  Free(rt, p) /\ Belongs(rt, lf, rcount, sub, neg, p, 0 - k)
  <2>1. key[p] \in Int /\ neg[p] = 0 - key[p]
    BY <1>7, <1>8, <1>10
  <2>2. 0 - k <= neg[p]
    BY <1>10, <2>1
  <2>3. ASSUME NEW m \in 1 .. rcount, p \in sub[rt[m]] PROVE 0 - k <= neg[m]
    BY <1>4, <1>7, <2>3
  <2>4. ASSUME NEW m \in 1 .. rcount, p \in sub[lf[m]] PROVE neg[m] <= 0 - k
    BY <1>4, <1>7, <2>4
  <2>5. QED
    BY <1>4, <1>10, <2>2, <2>3, <2>4 DEF Free, Belongs
<1>11. QED
  BY <1>4, <1>6, <1>9, <1>10

(* The nodes after insert() hung node M, with key k, under p on side s.     *)
NewCell(k, p) == [ key |-> k, color |-> "RED", parent |-> p, left |-> 0, right |-> 0 ]
HungNodes(nd, N, M, p, k, s, nd1) ==
  /\ nd1 = [ m \in 0 .. M |-> nd1[m] ]
  /\ nd1[M] = NewCell(k, p)
  /\ nd1[p] = RedBlack!WithChild(nd[p], s, M)
  /\ \A m \in 0 .. N : m # p => nd1[m] = nd[m]

LEMMA NewCellIs ==
  ASSUME NEW k \in Int, NEW p \in Int, NEW d, d = NewCell(k, p)
  PROVE  /\ d \in RedBlackCells /\ d.key = k /\ d.color = "RED" /\ d.parent = p
         /\ \A s \in BothSides : RedBlack!Child(d, s) = 0
BY DEF NewCell, RedBlackCells, RedBlack!Child

LEMMA HungIs ==
  ASSUME NEW N \in Nat, NEW nd \in [ 0 .. N -> RedBlackCells ],
         NEW s, NEW o, Across(s, o), NEW p \in 1 .. N, NEW k \in Int, NEW M, After(N, M),
         NEW nd1, HungNodes(nd, N, M, p, k, s, nd1),
         NEW lf, NEW rt, NEW par, LinksOf(nd, N, s, o, lf, rt, par),
         NEW lf1, NEW rt1, NEW par1, LinksOf(nd1, M, s, o, lf1, rt1, par1),
         NEW key, key = KeyOf(nd, N), NEW key1, key1 = KeyOf(nd1, M),
         NEW col, col = ColorOf(nd, N), NEW col1, col1 = ColorOf(nd1, M)
  PROVE  /\ nd1 \in [ 0 .. M -> RedBlackCells ]
         /\ Hung(lf, rt, par, M, p, lf1, rt1, par1)
         /\ key1[M] = k /\ Longer(N, key, key1)
         /\ col1[M] = "RED" /\ Longer(N, col, col1)
<1>1. /\ M \in Nat /\ M \in 0 .. M /\ M # 0 /\ M \notin 0 .. N
      /\ 0 .. M = (0 .. N) \cup {M}
      /\ p \in 0 .. N /\ p # M /\ p # 0
  <2>1. /\ M \in Nat /\ M \in 0 .. M /\ M # 0 /\ M \notin 0 .. N
        /\ 0 .. M = (0 .. N) \cup {M}
        /\ \A m \in 1 .. N : m \in 0 .. N /\ m # 0 /\ m # M
    BY OneMore
  <2>2. QED
    BY <2>1
<1>2. s \in BothSides /\ o \in BothSides /\ s # o
  BY SidesAre
<1>3. /\ nd1 = [ m \in 0 .. M |-> nd1[m] ]
      /\ nd1[M] = NewCell(k, p)
      /\ nd1[p] = RedBlack!WithChild(nd[p], s, M)
      /\ \A m \in 0 .. N : m # p => nd1[m] = nd[m]
  BY DEF HungNodes
<1> DEFINE Cell(m, l, r, q, v, h) ==
             /\ nd1[m] \in RedBlackCells /\ nd1[m].key = v /\ nd1[m].color = h
             /\ RedBlack!Child(nd1[m], s) = l /\ RedBlack!Child(nd1[m], o) = r /\ nd1[m].parent = q
<1>4. Cell(M, 0, 0, p, k, "RED")
  <2>1. p \in Int
    BY <1>1
  <2>2. PICK d : d = NewCell(k, p)
    OBVIOUS
  <2>3. /\ d \in RedBlackCells /\ d.key = k /\ d.color = "RED" /\ d.parent = p
        /\ \A side \in BothSides : RedBlack!Child(d, side) = 0
    BY <2>1, <2>2, NewCellIs
  <2>4. QED
    BY <1>2, <1>3, <2>2, <2>3
<1>5. /\ \A m \in 0 .. N : lf[m] = RedBlack!Child(nd[m], s)
      /\ \A m \in 0 .. N : rt[m] = RedBlack!Child(nd[m], o)
      /\ \A m \in 0 .. N : par[m] = nd[m].parent
      /\ \A m \in 0 .. N : key[m] = nd[m].key
      /\ \A m \in 0 .. N : col[m] = nd[m].color
  BY KidsAre DEF LinksOf
<1>6. /\ \A m \in 0 .. M : lf1[m] = RedBlack!Child(nd1[m], s)
      /\ \A m \in 0 .. M : rt1[m] = RedBlack!Child(nd1[m], o)
      /\ \A m \in 0 .. M : par1[m] = nd1[m].parent
      /\ \A m \in 0 .. M : key1[m] = nd1[m].key
      /\ \A m \in 0 .. M : col1[m] = nd1[m].color
  BY KidsAre DEF LinksOf
<1>7. Cell(p, M, rt[p], par[p], key[p], col[p])
  <2>1. PICK e : e = nd[p]
    OBVIOUS
  <2>2. e \in RedBlackCells /\ M \in Int
    BY <1>1, <2>1
  <2>3. PICK d : /\ d = RedBlack!WithChild(e, s, M)
                 /\ d \in RedBlackCells /\ d.parent = e.parent /\ d.key = e.key /\ d.color = e.color
                 /\ RedBlack!Child(d, s) = M /\ RedBlack!Child(d, o) = RedBlack!Child(e, o)
    BY <2>2, CellWith
  <2>4. nd1[p] = d
    BY <1>3, <2>1, <2>3
  <2>5. QED
    BY <1>1, <1>5, <2>1, <2>3, <2>4
<1>8. ASSUME NEW m \in 0 .. N, m # p PROVE Cell(m, lf[m], rt[m], par[m], key[m], col[m])
  <2>1. nd1[m] = nd[m] /\ nd[m] \in RedBlackCells
    BY <1>3, <1>8
  <2>2. QED
    BY <1>5, <2>1
<1> DEFINE Made(m) == /\ nd1[m] \in RedBlackCells
                      /\ lf1[m] = IF m = M THEN 0 ELSE IF m = p THEN M ELSE lf[m]
                      /\ rt1[m] = IF m = M THEN 0 ELSE rt[m]
                      /\ par1[m] = IF m = M THEN p ELSE par[m]
<1>9. Made(M) /\ key1[M] = k /\ col1[M] = "RED"
  BY <1>1, <1>4, <1>6
<1>10. ASSUME NEW m \in 0 .. N PROVE Made(m) /\ key1[m] = key[m] /\ col1[m] = col[m]
  <2>1. m # M /\ m \in 0 .. M
    BY <1>1
  <2>2. CASE m = p
    BY <1>6, <1>7, <2>1, <2>2
  <2>3. CASE m # p
    BY <1>6, <1>8, <2>1, <2>3
  <2>4. QED
    BY <2>2, <2>3
<1>11. \A m \in 0 .. M : Made(m)
  <2> HIDE DEF Made
  <2>1. QED
    BY <1>1, <1>9, <1>10
<1>12. nd1 \in [ 0 .. M -> RedBlackCells ]
  BY <1>3, <1>11
<1>13. lf1 = [ m \in 0 .. M |-> lf1[m] ] /\ rt1 = [ m \in 0 .. M |-> rt1[m] ]
       /\ par1 = [ m \in 0 .. M |-> par1[m] ]
  BY DEF LinksOf, KidOf, ParentOf
<1>14. Hung(lf, rt, par, M, p, lf1, rt1, par1)
  BY <1>11, <1>13 DEF Hung
<1>15. Longer(N, key, key1) /\ Longer(N, col, col1)
  BY <1>10 DEF Longer
<1>16. QED
  BY <1>9, <1>12, <1>14, <1>15

SideOf(nd, N, s, neg) == neg = SideKey(nd, N, s)

LEMMA SideKeyIs ==
  ASSUME NEW N \in Nat, NEW nd \in [ 0 .. N -> RedBlackCells ], NEW key, key = KeyOf(nd, N)
  PROVE  /\ SideOf(nd, N, "left", key)
         /\ \E neg : /\ SideOf(nd, N, "right", neg) /\ Negated(N, key, neg)
                     /\ \A m \in 0 .. N : neg[m] = 0 - key[m]
<1>1. SideOf(nd, N, "left", key)
  BY DEF SideKey, SideOf
<1>2. PICK neg : neg = SideKey(nd, N, "right")
  OBVIOUS
<1>3. \A m \in 0 .. N : neg[m] = 0 - key[m]
  BY <1>2 DEF SideKey
<1>4. \A m \in 1 .. N : m \in 0 .. N
  BY Numbered
<1>5. Negated(N, key, neg)
  BY <1>3, <1>4 DEF Negated
<1>6. QED
  BY <1>1, <1>2, <1>3, <1>5 DEF SideOf

(* Hanging a node under the place of its key, on either side.               *)
LEMMA HungTree ==
  ASSUME NEW N \in Nat, NEW nd \in [ 0 .. N -> RedBlackCells ], NEW root,
         NEW s, NEW o, Across(s, o),
         NEW lf, NEW rt, NEW par, LinksOf(nd, N, s, o, lf, rt, par),
         NEW key, SideOf(nd, N, s, key), NEW col, col = ColorOf(nd, N),
         NEW sub, NEW bh, Fine(lf, rt, par, root, N, key, col, 0, sub, bh),
         NEW p \in 1 .. N, Free(lf, p), NEW sk, Belongs(lf, rt, N, sub, key, p, sk),
         NEW k \in Int, s = "left" => sk = k, s = "right" => sk = 0 - k,
         NEW M, After(N, M), NEW nd1, HungNodes(nd, N, M, p, k, s, nd1)
  PROVE  nd1 \in [ 0 .. M -> RedBlackCells ] /\ GoodTree(nd1, root, M, M, s, o)
<1>1. PICK lf1, rt1, par1, col1, key1, raw, raw1 :
        /\ lf1 = KidOf(nd1, M, s) /\ rt1 = KidOf(nd1, M, o) /\ par1 = ParentOf(nd1, M)
        /\ col1 = ColorOf(nd1, M) /\ raw = KeyOf(nd, N) /\ raw1 = KeyOf(nd1, M)
        /\ key1 = SideKey(nd1, M, s)
  OBVIOUS
<1>2. LinksOf(nd1, M, s, o, lf1, rt1, par1)
  BY <1>1 DEF LinksOf
<1>3. /\ nd1 \in [ 0 .. M -> RedBlackCells ]
      /\ Hung(lf, rt, par, M, p, lf1, rt1, par1)
      /\ raw1[M] = k /\ Longer(N, raw, raw1)
      /\ col1[M] = "RED" /\ Longer(N, col, col1)
  BY <1>1, <1>2, HungIs
<1>4. M \in Nat /\ M \in 0 .. M /\ \A m \in 0 .. N : m \in 0 .. M
  <2>1. M \in Nat /\ M \in 0 .. M /\ 0 .. M = (0 .. N) \cup {M}
    BY OneMore
  <2>2. QED
    BY <2>1
<1>5. key1[M] = sk /\ Longer(N, key, key1)
  <2>1. CASE s = "left"
    <3>1. key = raw /\ key1 = raw1
      BY <1>1, <2>1 DEF SideOf, SideKey
    <3>2. QED
      BY <1>3, <2>1, <3>1
  <2>2. CASE s = "right"
    <3>1. /\ \A m \in 0 .. N : key[m] = 0 - raw[m]
          /\ \A m \in 0 .. M : key1[m] = 0 - raw1[m]
      BY <1>1, <2>2 DEF SideOf, SideKey
    <3>2. key1[M] = sk
      BY <1>3, <1>4, <2>2, <3>1
    <3>3. ASSUME NEW m \in 0 .. N PROVE key1[m] = key[m]
      BY <1>3, <1>4, <3>1 DEF Longer
    <3>4. QED
      BY <3>2, <3>3 DEF Longer
  <2>3. QED
    BY <2>1, <2>2 DEF Across, BothSides
<1>6. col1 \in [ 0 .. M -> { "RED", "BLACK" } ]
  BY <1>1, <1>3, <1>4, ColorsAre
<1>7. Good(lf1, rt1, par1, root, M, key1, col1, M)
  BY <1>3, <1>5, <1>6, HungGood
<1>8. QED
  BY <1>1, <1>3, <1>7 DEF GoodTree

(* The first node.                                                         *)
LEMMA FirstGood ==
  ASSUME NEW nd \in [ 0 .. 0 -> RedBlackCells ], NEW root,
         GoodTree(nd, root, 0, 0, "left", "right"), NEW k \in Int,
         NEW nd1, nd1 = [ m \in 0 .. 1 |-> nd1[m] ], nd1[0] = nd[0], nd1[1] = NewCell(k, 0)
  PROVE  nd1 \in [ 0 .. 1 -> RedBlackCells ] /\ GoodTree(nd1, 1, 1, 1, "left", "right")
<1>1. PICK d, e : d = nd1[0] /\ e = nd1[1]
  OBVIOUS
<1>2. /\ e \in RedBlackCells /\ e.key = k /\ e.color = "RED" /\ e.parent = 0
      /\ RedBlack!Child(e, "left") = 0 /\ RedBlack!Child(e, "right") = 0
  <2>1. PICK z : z = 0
    OBVIOUS
  <2>2. z \in Int /\ e = NewCell(k, z)
    BY <1>1, <2>1
  <2>3. /\ e \in RedBlackCells /\ e.key = k /\ e.color = "RED" /\ e.parent = z
        /\ \A s \in BothSides : RedBlack!Child(e, s) = 0
    BY <2>2, NewCellIs
  <2>4. QED
    BY <2>1, <2>3 DEF BothSides
<1>3. PICK lf, rt, par, key, col, sub, bh :
        /\ lf = KidOf(nd, 0, "left") /\ rt = KidOf(nd, 0, "right") /\ par = ParentOf(nd, 0)
        /\ key = SideKey(nd, 0, "left") /\ col = ColorOf(nd, 0)
        /\ Fine(lf, rt, par, root, 0, key, col, 0, sub, bh)
  BY DEF GoodTree, Good
<1>4. /\ lf[0] = 0 /\ rt[0] = 0 /\ par[0] = 0 /\ col[0] = "BLACK"
  <2>1. 0 \in 0 .. 0
    OBVIOUS
  <2>2. Forked(lf, rt, par, root, 0, sub) /\ Coloured(par, root, 0, col, 0)
    BY <1>3 DEF Fine
  <2>3. lf[0] = 0 /\ rt[0] = 0 /\ par \in [ 0 .. 0 -> 0 .. 0 ] /\ col[0] = "BLACK"
    BY <2>2 DEF Forked, Branches, Upward, Coloured
  <2>4. QED
    BY <2>1, <2>3
<1>5. /\ d \in RedBlackCells /\ RedBlack!Child(d, "left") = 0 /\ RedBlack!Child(d, "right") = 0
      /\ d.parent = 0 /\ d.color = "BLACK"
  <2>1. 0 \in 0 .. 0
    OBVIOUS
  <2>2. d = nd[0] /\ d \in RedBlackCells
    BY <1>1, <2>1
  <2>3. /\ lf[0] = RedBlack!Child(nd[0], "left") /\ rt[0] = RedBlack!Child(nd[0], "right")
        /\ par[0] = nd[0].parent /\ col[0] = nd[0].color
    BY <1>3, <2>1, KidsAre
  <2>4. QED
    BY <1>4, <2>2, <2>3
<1>6. PICK lf1, rt1, par1, key1, col1 :
        /\ lf1 = KidOf(nd1, 1, "left") /\ rt1 = KidOf(nd1, 1, "right") /\ par1 = ParentOf(nd1, 1)
        /\ key1 = SideKey(nd1, 1, "left") /\ col1 = ColorOf(nd1, 1)
  OBVIOUS
<1>7. 0 .. 1 = {0, 1} /\ 1 .. 1 = {1}
  OBVIOUS
<1>8. /\ lf1 = [ m \in 0 .. 1 |-> 0 ] /\ rt1 = [ m \in 0 .. 1 |-> 0 ] /\ par1 = [ m \in 0 .. 1 |-> 0 ]
      /\ col1 = [ m \in 0 .. 1 |-> IF m = 0 THEN "BLACK" ELSE "RED" ]
      /\ key1[1] = k
  BY <1>1, <1>2, <1>5, <1>6, <1>7 DEF KidOf, ParentOf, ColorOf, SideKey, KeyOf
<1>9. nd1 \in [ 0 .. 1 -> RedBlackCells ]
  BY <1>1, <1>2, <1>5, <1>7
<1>10. PICK sub1, bh1 : /\ sub1 = [ m \in 0 .. 1 |-> IF m = 0 THEN {} ELSE {1} ]
                        /\ bh1 = [ m \in 0 .. 1 |-> 0 ]
  OBVIOUS
<1>11. Forked(lf1, rt1, par1, 1, 1, sub1)
  BY <1>7, <1>8, <1>10 DEF Forked, Branches, Upward
<1>12. Numeric(1, key1) /\ KeysOrdered(lf1, rt1, 1, sub1, key1)
  BY <1>7, <1>8, <1>10 DEF Numeric, KeysOrdered
<1>13. Heights(lf1, rt1, 1, col1, bh1)
  BY <1>7, <1>8, <1>10 DEF Heights, Black
<1>14. Coloured(par1, 1, 1, col1, 1)
  BY <1>7, <1>8 DEF Coloured
<1>15. Fine(lf1, rt1, par1, 1, 1, key1, col1, 1, sub1, bh1)
  BY <1>11, <1>12, <1>13, <1>14 DEF Fine
<1>16. QED
  BY <1>6, <1>9, <1>15 DEF GoodTree, Good

(* What the tree is at every step of the loop: RedBlackTree's nodes, read   *)
(* from the left, make a tree that is Fine.                                *)
RedBlackInv ==
  /\ rcount \in Nat /\ rnode \in [ 0 .. rcount -> RedBlackCells ]
  /\ GoodTree(rnode, _st_Root, rcount, rz, "left", "right")

LEMMA RedBlackStarts ==
  ASSUME RedBlack!Init
  PROVE  RedBlackInv
<1>1. PICK nd, root, at, N : nd = rnode /\ root = _st_Root /\ at = rz /\ N = rcount
  OBVIOUS
<1>2. /\ N = 0 /\ root = 0 /\ at = 0
      /\ nd = [ n \in {0} |-> [ key |-> 0, color |-> "BLACK", parent |-> 0, left |-> 0, right |-> 0 ] ]
  BY <1>1 DEF RedBlack!Init, RedBlack!Nil
<1>3. 0 .. N = {0} /\ 1 .. N = {} /\ N \in Nat
  BY <1>2
<1>4. nd[0] = [ key |-> 0, color |-> "BLACK", parent |-> 0, left |-> 0, right |-> 0 ]
  BY <1>2
<1>5. nd \in [ 0 .. N -> RedBlackCells ]
  BY <1>2, <1>3 DEF RedBlackCells
<1>6. PICK lf, rt, par, key, col, sub, bh :
        /\ lf = KidOf(nd, N, "left") /\ rt = KidOf(nd, N, "right") /\ par = ParentOf(nd, N)
        /\ key = SideKey(nd, N, "left") /\ col = ColorOf(nd, N)
        /\ sub = [ m \in 0 .. N |-> {} ] /\ bh = [ m \in 0 .. N |-> 0 ]
  OBVIOUS
<1>7. /\ lf = [ m \in 0 .. N |-> 0 ] /\ rt = [ m \in 0 .. N |-> 0 ] /\ par = [ m \in 0 .. N |-> 0 ]
      /\ col = [ m \in 0 .. N |-> "BLACK" ]
  <2>1. \A m \in 0 .. N : nd[m].left = 0 /\ nd[m].right = 0 /\ nd[m].parent = 0 /\ nd[m].color = "BLACK"
    BY <1>3, <1>4
  <2>2. lf = [ m \in 0 .. N |-> nd[m].left ] /\ rt = [ m \in 0 .. N |-> nd[m].right ]
    BY <1>6 DEF KidOf, RedBlack!Child
  <2>3. par = [ m \in 0 .. N |-> nd[m].parent ] /\ col = [ m \in 0 .. N |-> nd[m].color ]
    BY <1>6 DEF ParentOf, ColorOf
  <2>4. QED
    BY <2>1, <2>2, <2>3
<1>8. Forked(lf, rt, par, root, N, sub)
  BY <1>2, <1>3, <1>6, <1>7 DEF Forked, Branches, Upward
<1>9. Numeric(N, key) /\ KeysOrdered(lf, rt, N, sub, key)
  BY <1>3 DEF Numeric, KeysOrdered
<1>10. Heights(lf, rt, N, col, bh)
  BY <1>3, <1>6 DEF Heights
<1>11. Coloured(par, root, N, col, at)
  BY <1>2, <1>3, <1>7 DEF Coloured
<1>12. Fine(lf, rt, par, root, N, key, col, at, sub, bh)
  BY <1>8, <1>9, <1>10, <1>11 DEF Fine
<1>13. GoodTree(nd, root, N, at, "left", "right")
  BY <1>6, <1>12 DEF GoodTree, Good
<1>14. QED
  BY <1>1, <1>3, <1>5, <1>13 DEF RedBlackInv

(* What insert() does, at its place p.                                     *)
Inserted(nd, root, N, k, p, M, nd1, root1, at1) ==
  /\ M = N + 1 /\ at1 = M
  /\ p = 0 => root1 = M /\ nd1 = [ m \in 0 .. M |-> IF m = M THEN NewCell(k, p) ELSE nd[m] ]
  /\ p # 0 => /\ root1 = root
              /\ nd1 = [ m \in 0 .. M |->
                           IF m = p
                           THEN RedBlack!WithChild(IF m = M THEN NewCell(k, p) ELSE nd[m],
                                                   IF k < nd[p].key THEN "left" ELSE "right", M)
                           ELSE IF m = M THEN NewCell(k, p) ELSE nd[m] ]

LEMMA InsertIs ==
  ASSUME NEW k, RedBlack!insert(k), NEW p, p = RedBlack!Place(k),
         p \in 0 .. rcount, rcount \in Nat
  PROVE  /\ Inserted(rnode, _st_Root, rcount, k, p, rcount', rnode', _st_Root', rz')
         /\ rz = 0 /\ rcount < MaxNodes
<1>1. PICK M, new, side, grown :
        /\ M = rcount + 1
        /\ new = [ key |-> k, color |-> "RED", parent |-> p, left |-> 0, right |-> 0 ]
        /\ side = IF k < rnode[p].key THEN "left" ELSE "right"
        /\ grown = [ m \in 0 .. M |-> IF m = M THEN new ELSE rnode[m] ]
  OBVIOUS
<1>2. /\ rz = 0 /\ rcount < MaxNodes
      /\ rcount' = M /\ rz' = M
      /\ IF p = 0 THEN _st_Root' = M /\ rnode' = grown
         ELSE rnode' = [ grown EXCEPT ![p] = RedBlack!WithChild(grown[p], side, M) ]
              /\ UNCHANGED _st_Root
  BY <1>1 DEF RedBlack!insert, RedBlack!Nil
<1>3. p \in 0 .. M
  BY <1>1
<1>4. CASE p = 0
  BY <1>1, <1>2, <1>4 DEF Inserted, NewCell
<1>5. CASE p # 0
  <2>1. rnode' = [ m \in 0 .. M |->
                     IF m = p THEN RedBlack!WithChild(grown[m], side, M) ELSE grown[m] ]
    BY <1>1, <1>2, <1>5
  <2>2. \A m \in 0 .. M : grown[m] = IF m = M THEN NewCell(k, p) ELSE rnode[m]
    BY <1>1 DEF NewCell
  <2>3. rnode' = [ m \in 0 .. M |->
                     IF m = p
                     THEN RedBlack!WithChild(IF m = M THEN NewCell(k, p) ELSE rnode[m], side, M)
                     ELSE IF m = M THEN NewCell(k, p) ELSE rnode[m] ]
    BY <2>1, <2>2
  <2>4. QED
    BY <1>1, <1>2, <1>5, <2>3 DEF Inserted
<1>6. QED
  BY <1>4, <1>5

LEMMA InsertKeeps ==
  ASSUME RedBlackInv, NEW k \in RedBlackKeys, RedBlack!insert(k)
  PROVE  RedBlackInv'
<1>1. PICK nd, root, N, nd1, root1, M, at1 :
        /\ nd = rnode /\ root = _st_Root /\ N = rcount
        /\ nd1 = rnode' /\ root1 = _st_Root' /\ M = rcount' /\ at1 = rz'
  OBVIOUS
<1>2. /\ N \in Nat /\ nd \in [ 0 .. N -> RedBlackCells ]
      /\ GoodTree(nd, root, N, rz, "left", "right") /\ k \in Int
  BY <1>1, RedBlackAssumption DEF RedBlackInv
<1>3. rz = 0
  BY DEF RedBlack!insert, RedBlack!Nil
<1>4. PICK lf, rt, par, key, col :
        /\ lf = KidOf(nd, N, "left") /\ rt = KidOf(nd, N, "right") /\ par = ParentOf(nd, N)
        /\ key = KeyOf(nd, N) /\ col = ColorOf(nd, N)
  OBVIOUS
<1>5. SideOf(nd, N, "left", key)
  BY <1>2, <1>4, SideKeyIs
<1>6. PICK neg : SideOf(nd, N, "right", neg) /\ Negated(N, key, neg)
  BY <1>2, <1>4, SideKeyIs
<1>7. PICK sub, bh : Fine(lf, rt, par, root, N, key, col, 0, sub, bh)
  BY <1>2, <1>3, <1>4, <1>5 DEF GoodTree, Good, SideOf
<1>8. Fine(rt, lf, par, root, N, neg, col, 0, sub, bh)
  BY <1>6, <1>7, FineMirrored
<1>9. Forked(lf, rt, par, root, N, sub) /\ Numeric(N, key)
  BY <1>7 DEF Fine
<1>10. PICK p : p = RedBlack!Place(k)
  OBVIOUS
<1>11. LinksOf(nd, N, "left", "right", lf, rt, par) /\ LinksOf(nd, N, "right", "left", rt, lf, par)
  BY <1>4 DEF LinksOf
<1>12. /\ p \in 0 .. N
       /\ p = 0 => N = 0
       /\ p # 0 /\ k < key[p] => Free(lf, p) /\ Belongs(lf, rt, N, sub, key, p, k)
       /\ p # 0 /\ ~ (k < key[p]) => Free(rt, p) /\ Belongs(rt, lf, N, sub, neg, p, 0 - k)
  <2>1. /\ LinksOf(rnode, rcount, "left", "right", lf, rt, par)
        /\ Forked(lf, rt, par, _st_Root, rcount, sub)
        /\ key = KeyOf(rnode, rcount) /\ Numeric(rcount, key) /\ Negated(rcount, key, neg)
    BY <1>1, <1>4, <1>6, <1>9, <1>11
  <2>2. /\ p \in 0 .. rcount
        /\ p = 0 => rcount = 0
        /\ p # 0 /\ k < key[p] => Free(lf, p) /\ Belongs(lf, rt, rcount, sub, key, p, k)
        /\ p # 0 /\ ~ (k < key[p]) => Free(rt, p) /\ Belongs(rt, lf, rcount, sub, neg, p, 0 - k)
    BY <1>2, <1>10, <2>1, PlaceFits
  <2>3. QED
    BY <1>1, <2>2
<1>13. Inserted(nd, root, N, k, p, M, nd1, root1, at1)
  BY <1>1, <1>2, <1>10, <1>12, InsertIs
<1>14. M \in Nat /\ M = N + 1 /\ at1 = M /\ M \in 0 .. M /\ M # 0 /\ \A m \in 0 .. N : m \in 0 .. M /\ m # M
  BY <1>2, <1>13 DEF Inserted
<1>15. CASE p = 0
  <2>1. N = 0 /\ M = 1
    BY <1>12, <1>14, <1>15
  <2>2. /\ root1 = M /\ nd1 = [ m \in 0 .. M |-> IF m = M THEN NewCell(k, p) ELSE nd[m] ]
    BY <1>13, <1>15 DEF Inserted
  <2>3. nd1 = [ m \in 0 .. 1 |-> nd1[m] ] /\ nd1[0] = nd[0] /\ nd1[1] = NewCell(k, 0)
    BY <1>15, <2>1, <2>2
  <2>4. nd \in [ 0 .. 0 -> RedBlackCells ] /\ GoodTree(nd, root, 0, 0, "left", "right")
    BY <1>2, <1>3, <2>1
  <2>5. nd1 \in [ 0 .. 1 -> RedBlackCells ] /\ GoodTree(nd1, 1, 1, 1, "left", "right")
    BY <1>2, <2>3, <2>4, FirstGood
  <2>6. QED
    BY <1>1, <1>14, <2>1, <2>2, <2>5 DEF RedBlackInv
<1>16. ASSUME p # 0, NEW s \in BothSides, k < nd[p].key <=> s = "left"
       PROVE  p \in 1 .. N /\ HungNodes(nd, N, M, p, k, s, nd1) /\ root1 = root
  <2>1. p \in 1 .. N
    BY <1>2, <1>12, <1>16
  <2>2. PICK e, side : e = nd[p] /\ side = IF k < nd[p].key THEN "left" ELSE "right"
    OBVIOUS
  <2>3. side = s
    BY <1>16, <2>2 DEF BothSides
  <2>4. /\ root1 = root
        /\ nd1 = [ m \in 0 .. M |->
                     IF m = p
                     THEN RedBlack!WithChild(IF m = M THEN NewCell(k, p) ELSE nd[m], side, M)
                     ELSE IF m = M THEN NewCell(k, p) ELSE nd[m] ]
    BY <1>13, <1>16, <2>2 DEF Inserted
  <2>5. p \in 0 .. M /\ p # M
    BY <1>12, <1>14
  <2>6. nd1[p] = RedBlack!WithChild(nd[p], s, M)
    <3>1. nd1[p] = RedBlack!WithChild(IF p = M THEN NewCell(k, p) ELSE nd[p], side, M)
      BY <2>4, <2>5
    <3>2. QED
      BY <2>3, <2>5, <3>1
  <2>7. nd1[M] = NewCell(k, p)
    BY <1>14, <2>4, <2>5
  <2>8. \A m \in 0 .. N : m # p => nd1[m] = nd[m]
    BY <1>14, <2>4
  <2>9. nd1 = [ m \in 0 .. M |-> nd1[m] ]
    BY <2>4
  <2>10. QED
    BY <2>1, <2>4, <2>6, <2>7, <2>8, <2>9 DEF HungNodes
<1>17. After(N, M)
  BY <1>2, <1>14 DEF After
<1>18. Across("left", "right") /\ Across("right", "left")
  BY DEF Across, BothSides, RedBlack!Other
<1>19. key[p] = nd[p].key
  BY <1>4, <1>12, KidsAre
<1>20. CASE p # 0 /\ k < key[p]
  <2>1. p \in 1 .. N /\ HungNodes(nd, N, M, p, k, "left", nd1) /\ root1 = root
    BY <1>16, <1>19, <1>20 DEF BothSides
  <2>2. PICK sk : sk = k
    OBVIOUS
  <2>3. Free(lf, p) /\ Belongs(lf, rt, N, sub, key, p, sk)
    BY <1>12, <1>20, <2>2
  <2>4. PICK s, o : s = "left" /\ o = "right"
    OBVIOUS
  <2>5. /\ Across(s, o) /\ LinksOf(nd, N, s, o, lf, rt, par) /\ SideOf(nd, N, s, key)
        /\ HungNodes(nd, N, M, p, k, s, nd1)
    BY <1>5, <1>11, <1>18, <2>1, <2>4
  <2>6. (s = "left" => sk = k) /\ (s = "right" => sk = 0 - k)
    BY <2>2, <2>4
  <2>7. nd1 \in [ 0 .. M -> RedBlackCells ] /\ GoodTree(nd1, root, M, M, s, o)
    BY <1>2, <1>4, <1>7, <1>17, <2>1, <2>3, <2>5, <2>6, HungTree
  <2>8. QED
    BY <1>1, <1>14, <2>1, <2>4, <2>7 DEF RedBlackInv
<1>21. CASE p # 0 /\ ~ (k < key[p])
  <2>1. p \in 1 .. N /\ HungNodes(nd, N, M, p, k, "right", nd1) /\ root1 = root
    BY <1>16, <1>19, <1>21 DEF BothSides
  <2>2. PICK sk : sk = 0 - k
    OBVIOUS
  <2>3. Free(rt, p) /\ Belongs(rt, lf, N, sub, neg, p, sk)
    BY <1>12, <1>21, <2>2
  <2>4. PICK s, o : s = "right" /\ o = "left"
    OBVIOUS
  <2>5. /\ Across(s, o) /\ LinksOf(nd, N, s, o, rt, lf, par) /\ SideOf(nd, N, s, neg)
        /\ HungNodes(nd, N, M, p, k, s, nd1)
    BY <1>6, <1>11, <1>18, <2>1, <2>4
  <2>6. (s = "left" => sk = k) /\ (s = "right" => sk = 0 - k)
    BY <2>2, <2>4
  <2>7. nd1 \in [ 0 .. M -> RedBlackCells ] /\ GoodTree(nd1, root, M, M, s, o)
    BY <1>2, <1>4, <1>8, <1>17, <2>1, <2>3, <2>5, <2>6, HungTree
  <2>8. GoodTree(nd1, root, M, M, o, s)
    BY <1>14, <2>5, <2>7, GoodBoth
  <2>9. QED
    BY <1>1, <1>14, <2>1, <2>4, <2>7, <2>8 DEF RedBlackInv
<1>22. QED
  BY <1>15, <1>20, <1>21

(* What the loop of RBInsertFixup reads, in the names of the program.       *)
LEMMA LoopRead ==
  ASSUME RedBlackInv, rz # 0, rnode[RedBlack!Parent].color = "RED",
         NEW p, p = RedBlack!Parent, NEW g, g = RedBlack!Grand,
         NEW s, s = RedBlack!PSide, NEW o, o = RedBlack!Other(s)
  PROVE  Loop(rnode, rz, p, g, s, o) /\ RedBlack!Uncle = RedBlack!Child(rnode[g], o)
<1>1. p = rnode[rz].parent
  BY DEF RedBlack!Parent
<1>2. g = rnode[p].parent
  BY DEF RedBlack!Grand
<1>3. s = IF p = rnode[g].left THEN "left" ELSE "right"
  BY DEF RedBlack!PSide
<1>4. RedBlack!Uncle = RedBlack!Child(rnode[g], o)
  BY DEF RedBlack!Uncle
<1>5. QED
  BY <1>1, <1>2, <1>3, <1>4, Zenon DEF Loop

LEMMA RecolourKeeps ==
  ASSUME RedBlackInv, RedBlack!Recolour
  PROVE  RedBlackInv'
<1>1. PICK nd, root, N, at, nd1, p, g, s, o, c :
        /\ nd = rnode /\ root = _st_Root /\ N = rcount /\ at = rz /\ nd1 = rnode'
        /\ p = RedBlack!Parent /\ g = RedBlack!Grand /\ s = RedBlack!PSide /\ o = RedBlack!Other(s)
        /\ c = RedBlack!Uncle
  OBVIOUS
<1>2. /\ at # 0 /\ nd[p].color = "RED" /\ nd[c].color = "RED"
      /\ nd1 = RedBlack!Painted(RedBlack!Painted(RedBlack!Painted(nd, p, "BLACK"), c, "BLACK"), g, "RED")
      /\ rz' = g /\ rcount' = N /\ _st_Root' = root
  BY <1>1 DEF RedBlack!Recolour, RedBlack!Nil
<1>3. N \in Nat /\ nd \in [ 0 .. N -> RedBlackCells ] /\ GoodTree(nd, root, N, at, "left", "right")
  BY <1>1 DEF RedBlackInv
<1>4. Loop(nd, at, p, g, s, o) /\ c = RedBlack!Child(nd[g], o)
  BY <1>1, <1>2, LoopRead
<1>5. /\ Across(o, s) /\ Across(s, o)
      /\ GoodTree(nd, root, N, at, o, s) /\ GoodTree(nd, root, N, at, s, o)
      /\ Unsettled(ParentOf(nd, N), ColorOf(nd, N), at, p, g)
      /\ at \in 1 .. N /\ p \in 1 .. N /\ g \in 1 .. N /\ at # p /\ p # g
      /\ Hand(KidOf(nd, N, s), g, p)
      /\ KidOf(nd, N, o)[g] \in 0 .. N
  BY <1>3, <1>4, LoopIs
<1>6. p \in 0 .. N /\ g \in 0 .. N
  BY <1>3, <1>5, Numbered
<1>7. PICK lf, rt, par, key, col :
        /\ lf = KidOf(nd, N, o) /\ rt = KidOf(nd, N, s) /\ par = ParentOf(nd, N)
        /\ key = SideKey(nd, N, o) /\ col = ColorOf(nd, N)
  OBVIOUS
<1>8. c = lf[g] /\ c \in 0 .. N /\ p = rt[g] /\ col[c] = "RED" /\ col[p] = "RED"
  <2>1. lf[g] = RedBlack!Child(nd[g], o)
    BY <1>6, <1>7, KidsAre
  <2>2. c = lf[g] /\ c \in 0 .. N
    BY <1>4, <1>5, <1>7, <2>1
  <2>3. col[c] = nd[c].color /\ col[p] = nd[p].color
    BY <1>6, <1>7, <2>2, KidsAre
  <2>4. p = rt[g]
    BY <1>5, <1>7 DEF Hand
  <2>5. QED
    BY <1>2, <2>2, <2>3, <2>4
<1>9. c # g
  <2>1. PICK sub : Forked(lf, rt, par, root, N, sub)
    BY <1>5, <1>7, GoodShape
  <2>2. lf[g] # g
    BY <1>5, <2>1, Limbs
  <2>3. QED
    BY <1>8, <2>2
<1>10. PICK one, two : /\ one = RedBlack!Painted(nd, p, "BLACK")
                       /\ two = RedBlack!Painted(one, c, "BLACK")
  OBVIOUS
<1>11. nd1 = RedBlack!Painted(two, g, "RED")
  BY <1>2, <1>10
<1>12. /\ SameLinks(nd, one, N) /\ ColorOf(one, N)[p] = "BLACK"
       /\ \A m \in 0 .. N : m # p => ColorOf(one, N)[m] = ColorOf(nd, N)[m]
  BY <1>3, <1>6, <1>10, PaintedIs
<1>13. one \in [ 0 .. N -> RedBlackCells ]
  BY <1>12 DEF SameLinks
<1>14. /\ SameLinks(one, two, N) /\ ColorOf(two, N)[c] = "BLACK"
       /\ \A m \in 0 .. N : m # c => ColorOf(two, N)[m] = ColorOf(one, N)[m]
  BY <1>3, <1>8, <1>10, <1>13, PaintedIs
<1>15. two \in [ 0 .. N -> RedBlackCells ]
  BY <1>14 DEF SameLinks
<1>16. /\ SameLinks(two, nd1, N) /\ ColorOf(nd1, N)[g] = "RED"
       /\ \A m \in 0 .. N : m # g => ColorOf(nd1, N)[m] = ColorOf(two, N)[m]
  BY <1>3, <1>6, <1>11, <1>15, PaintedIs
<1>17. nd1 \in [ 0 .. N -> RedBlackCells ]
  BY <1>16 DEF SameLinks
<1>18. o \in BothSides /\ s \in BothSides
  BY <1>5, SidesAre
<1>19. /\ lf = KidOf(nd1, N, o) /\ rt = KidOf(nd1, N, s) /\ par = ParentOf(nd1, N)
       /\ key = SideKey(nd1, N, o)
  BY <1>7, <1>12, <1>14, <1>16, <1>18 DEF SameLinks, SideKey
<1>20. PICK col1 : col1 = ColorOf(nd1, N)
  OBVIOUS
<1>21. Repainted(N, col, col1, g, c, p)
  <2>1. col1 \in [ 0 .. N -> { "RED", "BLACK" } ]
    BY <1>3, <1>17, <1>20, ColorsAre
  <2>2. col1[g] = "RED" /\ col1[c] = "BLACK" /\ col1[p] = "BLACK"
    BY <1>5, <1>6, <1>8, <1>9, <1>12, <1>14, <1>16, <1>20
  <2>3. \A m \in 0 .. N : m # g /\ m # c /\ m # p => col1[m] = col[m]
    BY <1>7, <1>12, <1>14, <1>16, <1>20
  <2>4. QED
    BY <2>1, <2>2, <2>3 DEF Repainted
<1>22. Good(lf, rt, par, root, N, key, col, at) /\ Unsettled(par, col, at, p, g)
  BY <1>5, <1>7 DEF GoodTree
<1>23. Good(lf, rt, par, root, N, key, col1, g)
  BY <1>8, <1>21, <1>22, PaintedGood
<1>24. GoodTree(nd1, root, N, g, o, s)
  BY <1>19, <1>20, <1>23 DEF GoodTree
<1>25. GoodTree(nd1, root, N, g, "left", "right")
  <2>1. GoodTree(nd1, root, N, g, s, o)
    BY <1>3, <1>5, <1>17, <1>24, GoodBoth
  <2>2. (s = "left" /\ o = "right") \/ (s = "right" /\ o = "left")
    BY <1>5 DEF Across, BothSides, RedBlack!Other
  <2>3. QED
    BY <1>24, <2>1, <2>2
<1>26. QED
  BY <1>1, <1>2, <1>3, <1>17, <1>25 DEF RedBlackInv

LEMMA FinishKeeps ==
  ASSUME RedBlackInv, RedBlack!Finish
  PROVE  RedBlackInv'
<1>1. PICK nd, root, N, at, nd1 :
        nd = rnode /\ root = _st_Root /\ N = rcount /\ at = rz /\ nd1 = rnode'
  OBVIOUS
<1>2. /\ at # 0 /\ nd[nd[at].parent].color # "RED"
      /\ nd1 = RedBlack!Painted(nd, root, "BLACK")
      /\ rz' = 0 /\ rcount' = N /\ _st_Root' = root
  BY <1>1 DEF RedBlack!Finish, RedBlack!Nil, RedBlack!Parent
<1>3. N \in Nat /\ nd \in [ 0 .. N -> RedBlackCells ] /\ GoodTree(nd, root, N, at, "left", "right")
  BY <1>1 DEF RedBlackInv
<1>4. PICK lf, rt, par, key, col :
        /\ lf = KidOf(nd, N, "left") /\ rt = KidOf(nd, N, "right") /\ par = ParentOf(nd, N)
        /\ key = SideKey(nd, N, "left") /\ col = ColorOf(nd, N)
  OBVIOUS
<1>5. Good(lf, rt, par, root, N, key, col, at)
  BY <1>3, <1>4 DEF GoodTree
<1>6. root \in 0 .. N /\ at \in 0 .. N /\ par \in [ 0 .. N -> 0 .. N ]
  BY <1>5 DEF Good, Fine, Forked, Upward, Coloured
<1>7. col[par[at]] # "RED"
  <2>1. par[at] = nd[at].parent /\ par[at] \in 0 .. N
    BY <1>4, <1>6 DEF ParentOf
  <2>2. col[par[at]] = nd[par[at]].color
    BY <1>4, <2>1 DEF ColorOf
  <2>3. QED
    BY <1>2, <2>1, <2>2
<1>8. /\ SameLinks(nd, nd1, N) /\ ColorOf(nd1, N)[root] = "BLACK"
      /\ \A m \in 0 .. N : m # root => ColorOf(nd1, N)[m] = ColorOf(nd, N)[m]
  <2>1. nd1 = RedBlack!Painted(nd, root, "BLACK")
    BY <1>2
  <2>2. root \in 0 .. N /\ N \in Nat /\ nd \in [ 0 .. N -> RedBlackCells ]
    BY <1>3, <1>6
  <2>3. PICK v : v = "BLACK"
    OBVIOUS
  <2>4. v \in { "RED", "BLACK" } /\ nd1 = RedBlack!Painted(nd, root, v)
    BY <2>1, <2>3
  <2>5. /\ SameLinks(nd, nd1, N) /\ ColorOf(nd1, N)[root] = v
        /\ \A m \in 0 .. N : m # root => ColorOf(nd1, N)[m] = ColorOf(nd, N)[m]
    BY <2>2, <2>4, PaintedIs
  <2>6. QED
    BY <2>3, <2>5
<1>9. nd1 \in [ 0 .. N -> RedBlackCells ]
  BY <1>8 DEF SameLinks
<1>10. PICK col1 : col1 = ColorOf(nd1, N)
  OBVIOUS
<1>11. col1 \in [ 0 .. N -> { "RED", "BLACK" } ]
  BY <1>3, <1>9, <1>10, ColorsAre
<1>12. col1[root] = "BLACK" /\ \A m \in 0 .. N : m # root => col1[m] = col[m]
  BY <1>4, <1>8, <1>10
<1>13. Good(lf, rt, par, root, N, key, col1, 0)
  <2>1. at # 0
    BY <1>2
  <2>2. QED
    BY <1>5, <1>7, <1>11, <1>12, <2>1, FinishGood
<1>14. /\ lf = KidOf(nd1, N, "left") /\ rt = KidOf(nd1, N, "right") /\ par = ParentOf(nd1, N)
       /\ key = SideKey(nd1, N, "left")
  BY <1>4, <1>8 DEF SameLinks, SideKey, BothSides
<1>15. GoodTree(nd1, root, N, 0, "left", "right")
  BY <1>10, <1>13, <1>14 DEF GoodTree
<1>16. QED
  BY <1>1, <1>2, <1>3, <1>9, <1>15 DEF RedBlackInv

(* What Turn does: the tree (n1, r1) is straight, at1 is outside in it.     *)
TurnedTo(n1, r1, at1, p1, g1, o, nd1, root1) ==
  RotatedTo(RedBlack!Painted(RedBlack!Painted(n1, p1, "BLACK"), g1, "RED"), r1, g1, o, nd1, root1)

LEMMA TurnIs ==
  ASSUME RedBlack!Turn,
         NEW p, p = RedBlack!Parent, NEW s, s = RedBlack!PSide, NEW o, o = RedBlack!Other(s)
  PROVE  /\ rz # 0 /\ rnode[p].color = "RED" /\ rnode[RedBlack!Uncle].color # "RED" /\ rcount' = rcount
         /\ rz = RedBlack!Child(rnode[p], o) =>
              \E n1, r1, p1, g1 : /\ RotatedTo(rnode, _st_Root, p, s, n1, r1)
                                  /\ p1 = n1[p].parent /\ g1 = n1[p1].parent
                                  /\ TurnedTo(n1, r1, p, p1, g1, o, rnode', _st_Root') /\ rz' = p
         /\ rz # RedBlack!Child(rnode[p], o) =>
              \E g1 : /\ g1 = rnode[p].parent
                      /\ TurnedTo(rnode, _st_Root, rz, p, g1, o, rnode', _st_Root') /\ rz' = rz
<1> DEFINE before == [ node |-> rnode, root |-> _st_Root ]
           inner == rz = RedBlack!Child(rnode[p], o)
           straight == IF inner THEN RedBlack!Rotated(before, p, s) ELSE before
           at == IF inner THEN p ELSE rz
           p1 == straight.node[at].parent
           g1 == straight.node[p1].parent
           painted == RedBlack!Painted(RedBlack!Painted(straight.node, p1, "BLACK"), g1, "RED")
           after == RedBlack!Rotated([ node |-> painted, root |-> straight.root ], g1, o)
<1>2. /\ rz # 0 /\ rnode[p].color = "RED" /\ rnode[RedBlack!Uncle].color # "RED" /\ rcount' = rcount
      /\ rnode' = after.node /\ _st_Root' = after.root /\ rz' = at
  BY Zenon DEF RedBlack!Turn, RedBlack!Nil
<1>3. TurnedTo(straight.node, straight.root, at, p1, g1, o, rnode', _st_Root')
  BY <1>2, Zenon DEF TurnedTo, RotatedTo
<1>4. ASSUME rz = RedBlack!Child(rnode[p], o)
      PROVE  \E n1, r1, q1, h1 : /\ RotatedTo(rnode, _st_Root, p, s, n1, r1)
                                 /\ q1 = n1[p].parent /\ h1 = n1[q1].parent
                                 /\ TurnedTo(n1, r1, p, q1, h1, o, rnode', _st_Root') /\ rz' = p
  <2>1. straight = RedBlack!Rotated(before, p, s) /\ at = p
    BY <1>4
  <2>2. RotatedTo(rnode, _st_Root, p, s, straight.node, straight.root)
    BY <2>1, Zenon DEF RotatedTo
  <2>3. rz' = p /\ p1 = straight.node[p].parent /\ g1 = straight.node[p1].parent
    BY <1>2, <2>1
  <2>4. TurnedTo(straight.node, straight.root, p, p1, g1, o, rnode', _st_Root')
    BY <1>3, <2>1
  <2> HIDE DEF straight, at, p1, g1, after
  <2>5. QED
    BY <2>2, <2>3, <2>4
<1>5. ASSUME rz # RedBlack!Child(rnode[p], o)
      PROVE  \E h1 : /\ h1 = rnode[p].parent
                     /\ TurnedTo(rnode, _st_Root, rz, p, h1, o, rnode', _st_Root') /\ rz' = rz
  <2>1. straight = before /\ at = rz
    BY <1>5
  <2>2. straight.node = rnode /\ straight.root = _st_Root
    BY <2>1
  <2>3. p1 = p
    BY <2>1, <2>2 DEF RedBlack!Parent
  <2>4. g1 = rnode[p].parent
    BY <2>2, <2>3
  <2>5. TurnedTo(rnode, _st_Root, rz, p, g1, o, rnode', _st_Root')
    BY <1>3, <2>1, <2>2, <2>3
  <2> HIDE DEF straight, at, p1, g1, after
  <2>6. QED
    BY <1>2, <2>1, <2>4, <2>5
<1>6. QED
  BY <1>2, <1>4, <1>5, Zenon

LEMMA TurnKeeps ==
  ASSUME RedBlackInv, RedBlack!Turn
  PROVE  RedBlackInv'
<1>1. PICK nd, root, N, at, nd1, root1, at1, p, g, s, o, c :
        /\ nd = rnode /\ root = _st_Root /\ N = rcount /\ at = rz
        /\ nd1 = rnode' /\ root1 = _st_Root' /\ at1 = rz'
        /\ p = RedBlack!Parent /\ g = RedBlack!Grand /\ s = RedBlack!PSide /\ o = RedBlack!Other(s)
        /\ c = RedBlack!Uncle
  OBVIOUS
<1>2. /\ at # 0 /\ nd[p].color = "RED" /\ nd[c].color # "RED" /\ rcount' = N
      /\ at = RedBlack!Child(nd[p], o) =>
           \E n1, r1, p1, g1 : /\ RotatedTo(nd, root, p, s, n1, r1)
                               /\ p1 = n1[p].parent /\ g1 = n1[p1].parent
                               /\ TurnedTo(n1, r1, p, p1, g1, o, nd1, root1) /\ at1 = p
      /\ at # RedBlack!Child(nd[p], o) =>
           \E g1 : /\ g1 = nd[p].parent
                   /\ TurnedTo(nd, root, at, p, g1, o, nd1, root1) /\ at1 = at
  BY <1>1, TurnIs
<1>3. N \in Nat /\ nd \in [ 0 .. N -> RedBlackCells ] /\ GoodTree(nd, root, N, at, "left", "right")
  BY <1>1 DEF RedBlackInv
<1>4. Loop(nd, at, p, g, s, o) /\ c = RedBlack!Child(nd[g], o)
  BY <1>1, <1>2, LoopRead
<1>5. /\ Across(o, s) /\ Across(s, o)
      /\ GoodTree(nd, root, N, at, o, s) /\ GoodTree(nd, root, N, at, s, o)
      /\ Unsettled(ParentOf(nd, N), ColorOf(nd, N), at, p, g)
      /\ at \in 1 .. N /\ p \in 1 .. N /\ g \in 1 .. N /\ at # p /\ p # g
      /\ Hand(KidOf(nd, N, s), g, p)
      /\ KidOf(nd, N, o)[p] = at \/ KidOf(nd, N, s)[p] = at
      /\ KidOf(nd, N, o)[g] \in 0 .. N
  BY <1>3, <1>4, LoopIs
<1>6. p \in 0 .. N /\ g \in 0 .. N
  BY <1>3, <1>5, Numbered
<1>7. /\ KidOf(nd, N, o)[p] = RedBlack!Child(nd[p], o)
      /\ KidOf(nd, N, o)[g] = c
      /\ ColorOf(nd, N)[c] # "RED"
  <2>1. /\ KidOf(nd, N, o)[p] = RedBlack!Child(nd[p], o)
        /\ KidOf(nd, N, o)[g] = RedBlack!Child(nd[g], o)
    BY <1>6 DEF KidOf
  <2>2. c \in 0 .. N
    BY <1>4, <1>5, <2>1
  <2>3. ColorOf(nd, N)[c] = nd[c].color
    BY <2>2 DEF ColorOf
  <2>4. QED
    BY <1>2, <1>4, <2>1, <2>3
<1>8. KidOf(nd, N, s)[g] = p
  BY <1>5 DEF Hand
<1>9. CASE at = RedBlack!Child(nd[p], o)
  <2>1. PICK n1, r1, p1, g1 : /\ RotatedTo(nd, root, p, s, n1, r1)
                              /\ p1 = n1[p].parent /\ g1 = n1[p1].parent
                              /\ TurnedTo(n1, r1, p, p1, g1, o, nd1, root1) /\ at1 = p
    BY <1>2, <1>9
  <2>2. Inward(KidOf(nd, N, o), KidOf(nd, N, s), at, p, g)
    BY <1>7, <1>8, <1>9 DEF Inward
  <2>3. /\ n1 \in [ 0 .. N -> RedBlackCells ] /\ GoodTree(n1, r1, N, p, o, s)
        /\ Unsettled(ParentOf(n1, N), ColorOf(n1, N), p, at, g)
        /\ Outward(KidOf(n1, N, o), KidOf(n1, N, s), p, at, g)
        /\ KidOf(n1, N, o)[g] = KidOf(nd, N, o)[g] /\ ColorOf(n1, N) = ColorOf(nd, N)
    <3>1. /\ N \in Nat /\ nd \in [ 0 .. N -> RedBlackCells ] /\ Across(s, o)
          /\ GoodTree(nd, root, N, at, o, s) /\ GoodTree(nd, root, N, at, s, o)
          /\ Unsettled(ParentOf(nd, N), ColorOf(nd, N), at, p, g)
          /\ at \in 1 .. N /\ p \in 1 .. N /\ g \in 1 .. N
      BY <1>3, <1>5
    <3>2. RotatedTo(nd, root, p, s, n1, r1)
      BY <2>1
    <3>3. Straightened(nd, N, at, p, g, s, o, n1, r1)
      BY <2>2, <3>1, <3>2, InnerStep
    <3>4. QED
      BY <3>3 DEF Straightened
  <2>4. p1 = at /\ g1 = g
    <3>1. ParentOf(n1, N)[p] = at
      BY <2>3 DEF Unsettled
    <3>2. ParentOf(n1, N)[at] = g
      BY <2>3 DEF Unsettled
    <3>3. at \in 0 .. N
      BY <1>3, <1>5, Numbered
    <3>4. ParentOf(n1, N)[p] = n1[p].parent /\ ParentOf(n1, N)[at] = n1[at].parent
      BY <1>6, <3>3 DEF ParentOf
    <3>5. QED
      BY <2>1, <3>1, <3>2, <3>4
  <2>5. RotatedTo(RedBlack!Painted(RedBlack!Painted(n1, at, "BLACK"), g, "RED"), r1, g, o, nd1, root1)
    BY <2>1, <2>4 DEF TurnedTo
  <2>6. ColorOf(n1, N)[KidOf(n1, N, o)[g]] # "RED"
    BY <1>7, <2>3
  <2>7. at # g
    <3>1. PICK sub : Forked(KidOf(nd, N, o), KidOf(nd, N, s), ParentOf(nd, N), root, N, sub)
      BY <1>5, GoodShape
    <3>2. PICK lf, rt, par, col : lf = KidOf(nd, N, o) /\ rt = KidOf(nd, N, s) /\ par = ParentOf(nd, N)
                                  /\ col = ColorOf(nd, N)
      OBVIOUS
    <3>3. Good(lf, rt, par, root, N, SideKey(nd, N, o), col, at) /\ Unsettled(par, col, at, p, g)
      BY <1>5, <3>2 DEF GoodTree
    <3>4. PICK sub2 : Forked(lf, rt, par, root, N, sub2) /\ Coloured(par, root, N, col, at)
      BY <3>3 DEF Good, Fine
    <3>5. col[at] = "RED" /\ col[g] = "BLACK"
      BY <3>3, <3>4, Relatives
    <3>6. QED
      BY <3>5
  <2>8. nd1 \in [ 0 .. N -> RedBlackCells ] /\ GoodTree(nd1, root1, N, p, o, s)
    BY <1>3, <1>5, <2>3, <2>5, <2>6, <2>7, OuterStep
  <2>9. GoodTree(nd1, root1, N, p, "left", "right")
    <3>1. GoodTree(nd1, root1, N, p, s, o)
      BY <1>3, <1>5, <2>8, GoodBoth
    <3>2. (s = "left" /\ o = "right") \/ (s = "right" /\ o = "left")
      BY <1>5 DEF Across, BothSides, RedBlack!Other
    <3>3. QED
      BY <2>8, <3>1, <3>2
  <2>10. QED
    BY <1>1, <1>2, <1>3, <2>1, <2>8, <2>9 DEF RedBlackInv
<1>10. CASE at # RedBlack!Child(nd[p], o)
  <2>1. PICK g1 : /\ g1 = nd[p].parent
                  /\ TurnedTo(nd, root, at, p, g1, o, nd1, root1) /\ at1 = at
    BY <1>2, <1>10
  <2>2. g1 = g
    BY <1>4, <2>1, Zenon DEF Loop
  <2>3. Outward(KidOf(nd, N, o), KidOf(nd, N, s), at, p, g)
    BY <1>5, <1>7, <1>8, <1>10 DEF Outward
  <2>4. RotatedTo(RedBlack!Painted(RedBlack!Painted(nd, p, "BLACK"), g, "RED"), root, g, o, nd1, root1)
    BY <2>1, <2>2 DEF TurnedTo
  <2>5. ColorOf(nd, N)[KidOf(nd, N, o)[g]] # "RED"
    BY <1>7
  <2>6. nd1 \in [ 0 .. N -> RedBlackCells ] /\ GoodTree(nd1, root1, N, at, o, s)
    BY <1>3, <1>5, <2>3, <2>4, <2>5, OuterStep
  <2>7. GoodTree(nd1, root1, N, at, "left", "right")
    <3>1. GoodTree(nd1, root1, N, at, s, o)
      BY <1>3, <1>5, <2>6, GoodBoth
    <3>2. (s = "left" /\ o = "right") \/ (s = "right" /\ o = "left")
      BY <1>5 DEF Across, BothSides, RedBlack!Other
    <3>3. QED
      BY <2>6, <3>1, <3>2
  <2>8. QED
    BY <1>1, <1>2, <1>3, <2>1, <2>6, <2>7 DEF RedBlackInv
<1>11. QED
  BY <1>9, <1>10

LEMMA RedBlackSteps ==
  ASSUME RedBlackInv, [RedBlack!Next]_RedBlack!vars
  PROVE  RedBlackInv'
<1>1. ASSUME NEW k \in RedBlackKeys, RedBlack!insert(k) PROVE RedBlackInv'
  BY <1>1, InsertKeeps
<1>2. CASE RedBlack!Recolour
  BY <1>2, RecolourKeeps
<1>3. CASE RedBlack!Turn
  BY <1>3, TurnKeeps
<1>4. CASE RedBlack!Finish
  BY <1>4, FinishKeeps
<1>5. CASE UNCHANGED RedBlack!vars
  <2>1. rnode' = rnode /\ rcount' = rcount /\ _st_Root' = _st_Root /\ rz' = rz
    BY <1>5 DEF RedBlack!vars
  <2>2. QED
    BY <2>1 DEF RedBlackInv
<1>6. QED
  BY <1>1, <1>2, <1>3, <1>4, <1>5 DEF RedBlack!Next

(* The rounds in which Below collects a subtree.                           *)
Gathers(f, n, N, lf, rt) ==
  /\ f \in [ 0 .. N -> SUBSET (0 .. N) ] /\ f[0] = {n} \ {0}
  /\ \A i \in 1 .. N : \A m : m \in f[i] <=>
             m \in f[i - 1] \/ (m # 0 /\ \E q \in f[i - 1] : m = lf[q] \/ m = rt[q])

LEMMA BelowRounds ==
  ASSUME NEW lf, NEW rt, NEW par, LinksOf(rnode, rcount, "left", "right", lf, rt, par),
         NEW sub, Forked(lf, rt, par, _st_Root, rcount, sub), NEW n \in 0 .. rcount
  PROVE  \E f : Gathers(f, n, rcount, lf, rt) /\ RedBlack!Below(n) = f[rcount]
<1> DEFINE D == SUBSET (0 .. rcount)
           F == [ S \in D |-> RedBlack!WithChildren(S) ]
           base == {n} \ {0}
           follows(f) == f = [ i \in 0 .. rcount |-> IF i = 0 THEN base ELSE RedBlack!WithChildren(f[i - 1]) ]
<1>0. /\ rcount \in Nat
      /\ \A m \in 0 .. rcount : lf[m] \in 0 .. rcount /\ rt[m] \in 0 .. rcount
  BY DEF Forked, Branches, Upward
<1>1. \A m \in 0 .. rcount : rnode[m].left = lf[m] /\ rnode[m].right = rt[m]
  BY DEF LinksOf, KidOf, RedBlack!Child
<1>2. ASSUME NEW S \in D
      PROVE  \A m : m \in RedBlack!WithChildren(S) <=>
                      m \in S \/ (m # 0 /\ \E q \in S : m = lf[q] \/ m = rt[q])
  <2>1. ASSUME NEW q \in S PROVE rnode[q].left = lf[q] /\ rnode[q].right = rt[q]
    BY <1>1
  <2>2. QED
    BY <2>1 DEF RedBlack!WithChildren, RedBlack!Nil
<1>3. ASSUME NEW S \in D PROVE RedBlack!WithChildren(S) \in D
  <2>1. ASSUME NEW m \in RedBlack!WithChildren(S) PROVE m \in 0 .. rcount
    <3>1. m \in S \/ (m # 0 /\ \E q \in S : m = lf[q] \/ m = rt[q])
      BY <1>2
    <3>2. QED
      BY <1>0, <3>1
  <2>2. QED
    BY <2>1
<1>4. F \in [ D -> D ]
  BY <1>3
<1>5. base \in D
  BY <1>0
<1>6. PICK g : Iterate(g, rcount, D, F, base)
  <2> HIDE DEF D, F, base
  <2>1. QED
    BY <1>0, <1>4, <1>5, Iterates
<1>7. follows(g)
  <2>1. g \in [ 0 .. rcount -> D ] /\ g[0] = base /\ \A i \in 1 .. rcount : g[i] = F[g[i - 1]]
    BY <1>6 DEF Iterate
  <2>2. ASSUME NEW i \in 1 .. rcount PROVE g[i] = RedBlack!WithChildren(g[i - 1])
    <3>1. i - 1 \in 0 .. rcount
      BY <1>0
    <3>2. g[i - 1] \in D
      BY <2>1, <3>1
    <3>3. QED
      BY <2>1, <3>2
  <2> HIDE DEF base, D, F
  <2>3. \A i \in 0 .. rcount : i = 0 \/ i \in 1 .. rcount
    BY <1>0
  <2>4. QED
    BY <2>1, <2>2, <2>3
<1> DEFINE w == CHOOSE f : follows(f)
<1>8. RedBlack!Below(n) = w[rcount]
  BY Zenon DEF RedBlack!Below, RedBlack!Nil
<1>9. follows(w)
  <2> HIDE DEF follows
  <2>1. QED
    BY <1>7, Zenon
<1>10. ASSUME NEW v, follows(v) PROVE Gathers(v, n, rcount, lf, rt)
  <2>0. v = [ j \in 0 .. rcount |-> IF j = 0 THEN base ELSE RedBlack!WithChildren(v[j - 1]) ]
    BY <1>10
  <2>1. v[0] = base
    BY <1>0, <2>0
  <2>2. ASSUME NEW i \in 1 .. rcount PROVE v[i] = RedBlack!WithChildren(v[i - 1])
    <3>1. i \in 0 .. rcount /\ i # 0
      BY <1>0
    <3> HIDE DEF base, follows
    <3>2. QED
      BY <2>0, <3>1
  <2>3. \A i \in 0 .. rcount : v[i] \in D
    <3> DEFINE T == { i \in 0 .. rcount : v[i] \in D }
    <3>1. 0 \in T
      BY <1>0, <1>5, <2>1
    <3>2. ASSUME NEW i \in 0 .. rcount, i < rcount, i \in T PROVE i + 1 \in T
      <4>1. i + 1 \in 1 .. rcount /\ i + 1 \in 0 .. rcount /\ i + 1 - 1 = i
        BY <1>0, <3>2
      <4>2. v[i] \in D
        BY <3>2
      <4>3. v[i + 1] = RedBlack!WithChildren(v[i])
        BY <2>2, <4>1
      <4>4. RedBlack!WithChildren(v[i]) \in D
        <5> HIDE DEF D
        <5>1. QED
          BY <1>3, <4>2
      <4>5. QED
        BY <4>1, <4>3, <4>4
    <3> HIDE DEF T
    <3>3. \A i \in 0 .. rcount : i \in T
      BY <1>0, <3>1, <3>2, UpTo
    <3>4. QED
      BY <3>3 DEF T
  <2>4. ASSUME NEW i \in 1 .. rcount, NEW m
        PROVE  m \in v[i] <=> m \in v[i - 1] \/ (m # 0 /\ \E q \in v[i - 1] : m = lf[q] \/ m = rt[q])
    <3>1. i - 1 \in 0 .. rcount
      BY <1>0
    <3>2. PICK S : S = v[i - 1]
      OBVIOUS
    <3>3. S \in D /\ v[i] = RedBlack!WithChildren(S)
      BY <2>2, <2>3, <3>1, <3>2
    <3>4. m \in RedBlack!WithChildren(S) <=>
            m \in S \/ (m # 0 /\ \E q \in S : m = lf[q] \/ m = rt[q])
      <4> HIDE DEF D
      <4>1. QED
        BY <1>2, <3>3
    <3>5. QED
      BY <3>2, <3>3, <3>4
  <2>5. v = [ i \in 0 .. rcount |-> v[i] ]
    <3> HIDE DEF base, follows
    <3>1. PICK h : h = [ j \in 0 .. rcount |-> IF j = 0 THEN base ELSE RedBlack!WithChildren(v[j - 1]) ]
      OBVIOUS
    <3>2. h = [ i \in 0 .. rcount |-> h[i] ]
      BY <3>1
    <3>3. QED
      BY <2>0, <3>1, <3>2
  <2>6. v \in [ 0 .. rcount -> D ]
    BY <2>3, <2>5
  <2>7. QED
    BY <2>1, <2>4, <2>6 DEF Gathers
<1>11. Gathers(w, n, rcount, lf, rt)
  <2> HIDE DEF follows, w
  <2>1. QED
    BY <1>9, <1>10
<1>12. QED
  BY <1>8, <1>11

LEMMA RoundsEnd ==
  ASSUME NEW lf, NEW rt, NEW par, NEW root, NEW N, NEW sub, Forked(lf, rt, par, root, N, sub),
         NEW n \in 1 .. N, NEW f, Gathers(f, n, N, lf, rt)
  PROVE  f[N] = sub[n]
<1>1. /\ N \in Nat /\ sub[root] = 1 .. N /\ sub[n] \subseteq 1 .. N
      /\ \A m \in sub[n] : sub[m] \subseteq sub[n]
      /\ \A m \in sub[n] : m # n => par[m] \in sub[n]
  <2>1. N \in Nat /\ sub[root] = 1 .. N
    BY DEF Forked, Branches, Upward
  <2>2. sub[n] \subseteq 1 .. N
    BY Limbs
  <2>3. \A m \in sub[n] : sub[m] \subseteq sub[n]
    BY DEF Forked, Branches
  <2>4. \A m \in sub[n] : m # n => par[m] \in sub[n]
    BY <2>2 DEF Forked, Upward
  <2>5. QED
    BY <2>1, <2>2, <2>3, <2>4
<1>2. n \in sub[n] /\ n # 0 /\ n \in 0 .. N
  BY Limbs
<1>3. /\ f[0] = {n}
      /\ \A i \in 1 .. N : \A m : m \in f[i] <=>
             m \in f[i - 1] \/ (m # 0 /\ \E q \in f[i - 1] : m = lf[q] \/ m = rt[q])
  <2>1. f[0] = {n} \ {0}
    BY DEF Gathers
  <2>2. f[0] = {n}
    BY <1>2, <2>1
  <2>3. \A i \in 1 .. N : \A m : m \in f[i] <=>
             m \in f[i - 1] \/ (m # 0 /\ \E q \in f[i - 1] : m = lf[q] \/ m = rt[q])
    BY DEF Gathers
  <2>4. QED
    BY <2>2, <2>3
<1>4. \A i \in 0 .. N : f[i] \subseteq sub[n]
  <2> DEFINE T == { i \in 0 .. N : f[i] \subseteq sub[n] }
  <2>1. 0 \in T
    BY <1>1, <1>2, <1>3
  <2>2. ASSUME NEW i \in 0 .. N, i < N, i \in T PROVE i + 1 \in T
    <3>1. i + 1 \in 1 .. N /\ i + 1 \in 0 .. N /\ i + 1 - 1 = i
      <4> HIDE DEF T
      <4>1. QED
        BY <1>1, <2>2
    <3>2. f[i] \subseteq sub[n]
      BY <2>2
    <3>3. ASSUME NEW m \in f[i + 1] PROVE m \in sub[n]
      <4>1. CASE m \in f[i]
        BY <3>2, <4>1
      <4>2. CASE m # 0 /\ \E q \in f[i] : m = lf[q] \/ m = rt[q]
        <5>1. PICK q \in f[i] : m = lf[q] \/ m = rt[q]
          BY <4>2
        <5>2. q \in sub[n] /\ q \in 1 .. N
          BY <1>1, <3>2
        <5>3. m \in sub[q]
          BY <4>2, <5>1, <5>2, Limbs
        <5>4. QED
          BY <1>1, <5>2, <5>3
      <4>3. m \in f[i] \/ (m # 0 /\ \E q \in f[i] : m = lf[q] \/ m = rt[q])
        BY <1>3, <3>1
      <4>4. QED
        BY <4>1, <4>2, <4>3
    <3>4. QED
      BY <3>1, <3>3
  <2> HIDE DEF T
  <2>3. \A i \in 0 .. N : i \in T
    BY <1>1, <2>1, <2>2, UpTo
  <2>4. QED
    BY <2>3 DEF T
<1> DEFINE Far(i) == \A m \in sub[n] : Cardinality(sub[n]) <= Cardinality(sub[m]) + i => m \in f[i]
           T == { i \in 0 .. N : Far(i) }
<1>5. ASSUME NEW m \in sub[n]
      PROVE  /\ m \in 1 .. N /\ Cardinality(sub[m]) \in Nat /\ Cardinality(sub[n]) \in Nat
             /\ Cardinality(sub[n]) <= N
             /\ m # n => Cardinality(sub[m]) < Cardinality(sub[n])
  <2>1. m \in 1 .. N /\ m \in 0 .. N
    BY <1>1, Numbered
  <2>2. Cardinality(sub[m]) \in Nat
    BY <2>1, Amounts
  <2>3. Cardinality(sub[n]) \in Nat /\ Cardinality(sub[n]) <= N
    BY <1>2, Amounts
  <2>4. m # n => Cardinality(sub[m]) < Cardinality(sub[n])
    BY Dwindles
  <2>5. QED
    BY <2>1, <2>2, <2>3, <2>4
<1>6. 0 \in T
  <2>1. ASSUME NEW m \in sub[n], Cardinality(sub[n]) <= Cardinality(sub[m]) + 0 PROVE m \in f[0]
    <3>1. m = n
      BY <1>5, <2>1
    <3>2. QED
      BY <1>3, <3>1
  <2>2. 0 \in 0 .. N
    BY <1>1
  <2>3. QED
    BY <2>1, <2>2
<1>7. ASSUME NEW i \in 0 .. N, i < N, i \in T PROVE i + 1 \in T
  <2>1. i + 1 \in 1 .. N /\ i + 1 \in 0 .. N /\ i + 1 - 1 = i /\ i \in Nat
    <3> HIDE DEF T
    <3>1. QED
      BY <1>1, <1>7
  <2>2. Far(i)
    BY <1>7
  <2>3. ASSUME NEW m \in sub[n], Cardinality(sub[n]) <= Cardinality(sub[m]) + (i + 1) PROVE m \in f[i + 1]
    <3>1. CASE m = n
      <4>1. Cardinality(sub[n]) <= Cardinality(sub[n]) + i
        <5> HIDE DEF T, Far
        <5>1. QED
          BY <1>5, <2>1
      <4>2. n \in f[i]
        BY <1>2, <2>2, <4>1
      <4>3. PICK j : j = i + 1
        OBVIOUS
      <4>4. j \in 1 .. N /\ m \in f[j - 1]
        BY <2>1, <3>1, <4>2, <4>3
      <4>5. m \in f[j]
        BY <1>3, <4>4
      <4>6. QED
        BY <4>3, <4>5
    <3>2. CASE m # n
      <4>1. m \in 1 .. N /\ par[m] \in sub[n]
        BY <1>1, <3>2
      <4>2. m # root
        <5>1. n \notin sub[m]
          BY <3>2, Descends
        <5>2. QED
          BY <1>1, <5>1
      <4>3. PICK q : q = par[m]
        OBVIOUS
      <4>4. q \in 1 .. N /\ q \in sub[n] /\ (lf[q] = m \/ rt[q] = m) /\ m # 0
        BY <1>1, <4>1, <4>2, <4>3 DEF Forked, Upward
      <4>5. m \in sub[q] /\ m # q
        BY <4>4, Limbs
      <4>6. Cardinality(sub[m]) < Cardinality(sub[q])
        BY <4>4, <4>5, Dwindles
      <4>7. Cardinality(sub[n]) <= Cardinality(sub[q]) + i
        <5>1. Cardinality(sub[m]) \in Nat /\ Cardinality(sub[n]) \in Nat /\ Cardinality(sub[q]) \in Nat
          BY <1>5, <4>4
        <5> HIDE DEF T, Far
        <5>2. QED
          BY <2>1, <2>3, <4>6, <5>1
      <4>8. q \in f[i]
        BY <2>2, <4>4, <4>7
      <4>9. m # 0 /\ \E e \in f[i] : m = lf[e] \/ m = rt[e]
        BY <4>4, <4>8
      <4>10. QED
        BY <1>3, <2>1, <4>9
    <3>3. QED
      BY <3>1, <3>2
  <2>4. QED
    BY <2>1, <2>3
<1>8. \A i \in 0 .. N : i \in T
  <2> HIDE DEF T
  <2>1. QED
    BY <1>1, <1>6, <1>7, UpTo
<1>9. ASSUME NEW m \in sub[n] PROVE m \in f[N]
  <2>1. N \in T
    BY <1>1, <1>8
  <2>2. Cardinality(sub[n]) <= Cardinality(sub[m]) + N
    <3> HIDE DEF T, Far
    <3>1. QED
      BY <1>1, <1>5
  <2>3. QED
    BY <2>1, <2>2
<1>10. f[N] \subseteq sub[n]
  BY <1>1, <1>4
<1>11. QED
  BY <1>9, <1>10

(* The walk of BlackHeight down the left, with the black nodes passed.      *)
Falls(w, n, N, lf, col) ==
  /\ w[0] = << n, 0 >>
  /\ \A i \in 1 .. N : \A m, h : w[i - 1] = << m, h >> =>
       /\ m = 0 => w[i] = << m, h >>
       /\ m # 0 => w[i] = << lf[m], h + Black(col[m]) >>

LEMMA HeightWalk ==
  ASSUME NEW lf, NEW rt, NEW par, LinksOf(rnode, rcount, "left", "right", lf, rt, par),
         NEW sub, Forked(lf, rt, par, _st_Root, rcount, sub),
         NEW col, col = ColorOf(rnode, rcount), NEW n \in 0 .. rcount
  PROVE  \E w : Falls(w, n, rcount, lf, col) /\ RedBlack!BlackHeight(n) = w[rcount][2]
<1> DEFINE D == (0 .. rcount) \X Int
           F == [ at \in D |-> RedBlack!DownLeft(at) ]
           base == << n, 0 >>
           follows(f) == f = [ i \in 0 .. rcount |-> IF i = 0 THEN base ELSE RedBlack!DownLeft(f[i - 1]) ]
<1>0. rcount \in Nat /\ \A m \in 0 .. rcount : lf[m] \in 0 .. rcount
  BY DEF Forked, Branches, Upward
<1>1. \A m \in 0 .. rcount : rnode[m].left = lf[m] /\ rnode[m].color = col[m]
  BY DEF LinksOf, KidOf, ColorOf, RedBlack!Child
<1>2. ASSUME NEW m \in 0 .. rcount, NEW h \in Int
      PROVE  /\ m = 0 => RedBlack!DownLeft(<< m, h >>) = << m, h >>
             /\ m # 0 => RedBlack!DownLeft(<< m, h >>) = << lf[m], h + Black(col[m]) >>
  BY <1>1 DEF RedBlack!DownLeft, RedBlack!Nil, Black
<1>3. F \in [ D -> D ]
  <2>1. ASSUME NEW m \in 0 .. rcount, NEW h \in Int PROVE RedBlack!DownLeft(<< m, h >>) \in D
    <3>1. lf[m] \in 0 .. rcount /\ h + Black(col[m]) \in Int
      BY <1>0 DEF Black
    <3>2. CASE m = 0
      BY <1>2, <3>2
    <3>3. CASE m # 0
      BY <1>2, <3>1, <3>3
    <3>4. QED
      BY <3>2, <3>3
  <2>2. ASSUME NEW at \in D PROVE RedBlack!DownLeft(at) \in D
    <3>1. PICK m \in 0 .. rcount, h \in Int : at = << m, h >>
      OBVIOUS
    <3>2. RedBlack!DownLeft(<< m, h >>) \in D
      BY <2>1
    <3>3. QED
      BY <3>1, <3>2
  <2>3. QED
    BY <2>2
<1>4. base \in D
  BY <1>0
<1>5. PICK g : Iterate(g, rcount, D, F, base)
  <2> HIDE DEF D, F, base
  <2>1. QED
    BY <1>0, <1>3, <1>4, Iterates
<1>6. follows(g)
  <2>1. g \in [ 0 .. rcount -> D ] /\ g[0] = base /\ \A i \in 1 .. rcount : g[i] = F[g[i - 1]]
    BY <1>5 DEF Iterate
  <2>2. ASSUME NEW i \in 1 .. rcount PROVE g[i] = RedBlack!DownLeft(g[i - 1])
    <3>1. i - 1 \in 0 .. rcount
      BY <1>0
    <3>2. g[i - 1] \in D
      BY <2>1, <3>1
    <3>3. QED
      BY <2>1, <3>2
  <2> HIDE DEF base, D, F
  <2>3. \A i \in 0 .. rcount : i = 0 \/ i \in 1 .. rcount
    BY <1>0
  <2>4. QED
    BY <2>1, <2>2, <2>3
<1> DEFINE w == CHOOSE f : follows(f)
<1>7. RedBlack!BlackHeight(n) = w[rcount][2]
  BY Zenon DEF RedBlack!BlackHeight
<1>8. follows(w)
  <2> HIDE DEF follows
  <2>1. QED
    BY <1>6, Zenon
<1>9. ASSUME NEW v, follows(v) PROVE Falls(v, n, rcount, lf, col)
  <2>0. v = [ j \in 0 .. rcount |-> IF j = 0 THEN base ELSE RedBlack!DownLeft(v[j - 1]) ]
    BY <1>9
  <2>1. v[0] = base
    BY <1>0, <2>0
  <2>2. ASSUME NEW i \in 1 .. rcount PROVE v[i] = RedBlack!DownLeft(v[i - 1])
    <3>1. i \in 0 .. rcount /\ i # 0
      BY <1>0
    <3> HIDE DEF base, follows
    <3>2. QED
      BY <2>0, <3>1
  <2>3. \A i \in 0 .. rcount : v[i] \in D
    <3> DEFINE T == { i \in 0 .. rcount : v[i] \in D }
    <3>1. 0 \in T
      BY <1>0, <1>4, <2>1
    <3>2. ASSUME NEW i \in 0 .. rcount, i < rcount, i \in T PROVE i + 1 \in T
      <4>1. i + 1 \in 1 .. rcount /\ i + 1 \in 0 .. rcount /\ i + 1 - 1 = i
        BY <1>0, <3>2
      <4>2. v[i] \in D
        BY <3>2
      <4>3. v[i + 1] = RedBlack!DownLeft(v[i])
        BY <2>2, <4>1
      <4>4. RedBlack!DownLeft(v[i]) \in D
        <5>1. F[v[i]] \in D
          <6> HIDE DEF F, D
          <6>1. QED
            BY <1>3, <4>2
        <5>2. QED
          BY <4>2, <5>1
      <4>5. QED
        BY <4>1, <4>3, <4>4
    <3> HIDE DEF T
    <3>3. \A i \in 0 .. rcount : i \in T
      BY <1>0, <3>1, <3>2, UpTo
    <3>4. QED
      BY <3>3 DEF T
  <2>4. ASSUME NEW i \in 1 .. rcount, NEW m, NEW h, v[i - 1] = << m, h >>
        PROVE  /\ m = 0 => v[i] = << m, h >>
               /\ m # 0 => v[i] = << lf[m], h + Black(col[m]) >>
    <3>1. i - 1 \in 0 .. rcount
      BY <1>0
    <3>2. << m, h >> \in D
      BY <2>3, <2>4, <3>1
    <3>3. m \in 0 .. rcount /\ h \in Int
      BY <3>2
    <3>4. v[i] = RedBlack!DownLeft(<< m, h >>)
      BY <2>2, <2>4
    <3>5. QED
      BY <1>2, <3>3, <3>4
  <2>5. QED
    BY <2>1, <2>4 DEF Falls
<1>10. Falls(w, n, rcount, lf, col)
  <2> HIDE DEF follows, w
  <2>1. QED
    BY <1>8, <1>9
<1>11. QED
  BY <1>7, <1>10

LEMMA FallsEnd ==
  ASSUME NEW lf, NEW rt, NEW par, NEW root, NEW N, NEW sub, Forked(lf, rt, par, root, N, sub),
         NEW col, NEW bh, Heights(lf, rt, N, col, bh), NEW n \in 0 .. N,
         NEW w, Falls(w, n, N, lf, col)
  PROVE  w[N] = << 0, bh[n] >>
<1>1. /\ N \in Nat /\ bh \in [ 0 .. N -> Int ] /\ bh[0] = 0
      /\ \A m \in 1 .. N : bh[m] = bh[lf[m]] + Black(col[m])
  BY DEF Forked, Branches, Heights
<1> DEFINE Close(i) == \E m, h : /\ w[i] = << m, h >> /\ m \in 0 .. N /\ h \in Int /\ bh[m] + h = bh[n]
                                 /\ m = 0 \/ Cardinality(sub[m]) <= N - i
           T == { i \in 0 .. N : Close(i) }
<1>2. 0 \in T
  <2>1. Cardinality(sub[n]) <= N - 0
    BY <1>1, Amounts
  <2>2. w[0] = << n, 0 >> /\ bh[n] + 0 = bh[n] /\ 0 \in Int
    BY <1>1 DEF Falls
  <2>3. 0 \in 0 .. N
    BY <1>1
  <2>4. QED
    BY <2>1, <2>2, <2>3
<1>3. ASSUME NEW i \in 0 .. N, i < N, i \in T PROVE i + 1 \in T
  <2>1. PICK m, h : /\ w[i] = << m, h >> /\ m \in 0 .. N /\ h \in Int /\ bh[m] + h = bh[n]
                    /\ m = 0 \/ Cardinality(sub[m]) <= N - i
    BY <1>3
  <2>2. i + 1 \in 1 .. N /\ i + 1 \in 0 .. N /\ i + 1 - 1 = i /\ i \in Nat
    <3> HIDE DEF T, Close
    <3>1. QED
      BY <1>1, <1>3
  <2>3. PICK j : j = i + 1
    OBVIOUS
  <2>4. j \in 1 .. N /\ w[j - 1] = << m, h >>
    BY <2>1, <2>2, <2>3
  <2>5. /\ m = 0 => w[j] = << m, h >>
        /\ m # 0 => w[j] = << lf[m], h + Black(col[m]) >>
    BY <2>4 DEF Falls
  <2>6. CASE m = 0
    <3>1. Close(j)
      BY <2>1, <2>5, <2>6
    <3>2. QED
      BY <2>2, <2>3, <3>1
  <2>7. CASE m # 0
    <3>1. m \in 1 .. N
      BY <1>1, <2>1, <2>7
    <3>2. PICK c, b : c = lf[m] /\ b = Black(col[m])
      OBVIOUS
    <3>3. c \in 0 .. N /\ b \in Int /\ (c # 0 => c \in sub[m] /\ c # m)
      BY <3>1, <3>2, Limbs DEF Black
    <3>4. w[j] = << c, h + b >>
      BY <2>5, <2>7, <3>2
    <3>5. bh[c] + (h + b) = bh[n]
      <4>1. bh[m] = bh[c] + b /\ bh[c] \in Int /\ bh[m] \in Int
        BY <1>1, <2>1, <3>1, <3>2, <3>3
      <4> HIDE DEF T, Close
      <4>2. QED
        BY <2>1, <3>3, <4>1
    <3>6. c = 0 \/ Cardinality(sub[c]) <= N - j
      <4>1. CASE c # 0
        <5>1. Cardinality(sub[c]) < Cardinality(sub[m])
          BY <3>1, <3>3, <4>1, Dwindles
        <5>2. Cardinality(sub[c]) \in Nat /\ Cardinality(sub[m]) \in Nat
          BY <2>1, <3>3, Amounts
        <5> HIDE DEF T, Close
        <5>3. QED
          BY <1>1, <2>1, <2>2, <2>3, <2>7, <5>1, <5>2
      <4>2. QED
        BY <4>1
    <3>7. h + b \in Int
      BY <2>1, <3>3
    <3>8. Close(j)
      BY <3>3, <3>4, <3>5, <3>6, <3>7
    <3>9. QED
      BY <2>2, <2>3, <3>8
  <2>8. QED
    BY <2>6, <2>7
<1>4. N \in T
  <2> HIDE DEF T
  <2>1. \A i \in 0 .. N : i \in T
    BY <1>1, <1>2, <1>3, UpTo
  <2>2. QED
    BY <1>1, <2>1
<1>5. PICK m, h : /\ w[N] = << m, h >> /\ m \in 0 .. N /\ h \in Int /\ bh[m] + h = bh[n]
                  /\ m = 0 \/ Cardinality(sub[m]) <= N - N
  BY <1>4
<1> HIDE DEF T, Close
<1>6. m = 0
  <2>1. SUFFICES ASSUME m # 0 PROVE FALSE
    OBVIOUS
  <2>2. 1 <= Cardinality(sub[m]) /\ Cardinality(sub[m]) \in Nat
    BY <1>5, <2>1, Amounts
  <2>3. QED
    BY <1>1, <1>5, <2>1, <2>2
<1>7. h = bh[n]
  BY <1>1, <1>5, <1>6
<1>8. QED
  BY <1>5, <1>6, <1>7

-----------------------------------------------------------------------------
LEMMA BelowIs ==
  ASSUME NEW lf, NEW rt, NEW par, LinksOf(rnode, rcount, "left", "right", lf, rt, par),
         NEW sub, Forked(lf, rt, par, _st_Root, rcount, sub), NEW n \in 0 .. rcount
  PROVE  RedBlack!Below(n) = sub[n]
<1>1. PICK f : Gathers(f, n, rcount, lf, rt) /\ RedBlack!Below(n) = f[rcount]
  BY BelowRounds
<1>2. rcount \in Nat /\ sub[0] = {}
  BY DEF Forked, Branches
<1>3. CASE n # 0
  <2>1. n \in 1 .. rcount
    BY <1>2, <1>3
  <2>2. QED
    BY <1>1, <2>1, RoundsEnd
<1>4. CASE n = 0
  <2>1. /\ f[0] = {}
        /\ \A i \in 1 .. rcount : \A m : m \in f[i] <=>
             m \in f[i - 1] \/ (m # 0 /\ \E q \in f[i - 1] : m = lf[q] \/ m = rt[q])
    BY <1>1, <1>4 DEF Gathers
  <2> DEFINE T == { i \in 0 .. rcount : f[i] = {} }
  <2>2. 0 \in T
    BY <1>2, <2>1
  <2>3. ASSUME NEW i \in 0 .. rcount, i < rcount, i \in T PROVE i + 1 \in T
    <3>1. i + 1 \in 1 .. rcount /\ i + 1 \in 0 .. rcount /\ i + 1 - 1 = i
      <4> HIDE DEF T
      <4>1. QED
        BY <1>2, <2>3
    <3>2. PICK j : j = i + 1
      OBVIOUS
    <3>3. f[j - 1] = {} /\ j \in 1 .. rcount
      BY <2>3, <3>1, <3>2
    <3>4. f[j] = {}
      BY <2>1, <3>3
    <3>5. QED
      BY <3>1, <3>2, <3>4
  <2> HIDE DEF T
  <2>4. \A i \in 0 .. rcount : i \in T
    BY <1>2, <2>2, <2>3, UpTo
  <2>5. f[rcount] = {}
    BY <1>2, <2>4 DEF T
  <2>6. QED
    BY <1>1, <1>2, <1>4, <2>5
<1>5. QED
  BY <1>3, <1>4

LEMMA HeightIs ==
  ASSUME NEW lf, NEW rt, NEW par, LinksOf(rnode, rcount, "left", "right", lf, rt, par),
         NEW sub, Forked(lf, rt, par, _st_Root, rcount, sub),
         NEW col, col = ColorOf(rnode, rcount), NEW bh, Heights(lf, rt, rcount, col, bh),
         NEW n \in 0 .. rcount
  PROVE  RedBlack!BlackHeight(n) = bh[n]
<1>1. PICK w : Falls(w, n, rcount, lf, col) /\ RedBlack!BlackHeight(n) = w[rcount][2]
  BY HeightWalk
<1>2. w[rcount] = << 0, bh[n] >>
  BY <1>1, FallsEnd
<1>3. QED
  BY <1>1, <1>2

(* The invariant is what Linked and Balanced say, in the words of the       *)
(* program.                                                                *)
LEMMA RedBlackShows ==
  ASSUME RedBlackInv
  PROVE  TreeBalanced
<1>1. PICK lf, rt, par, key, col :
        /\ lf = KidOf(rnode, rcount, "left") /\ rt = KidOf(rnode, rcount, "right")
        /\ par = ParentOf(rnode, rcount) /\ key = KeyOf(rnode, rcount) /\ col = ColorOf(rnode, rcount)
  OBVIOUS
<1>2. PICK sub, bh : Fine(lf, rt, par, _st_Root, rcount, key, col, rz, sub, bh)
  BY <1>1 DEF RedBlackInv, GoodTree, Good, SideKey
<1>3. /\ LinksOf(rnode, rcount, "left", "right", lf, rt, par)
      /\ Forked(lf, rt, par, _st_Root, rcount, sub) /\ Heights(lf, rt, rcount, col, bh)
      /\ KeysOrdered(lf, rt, rcount, sub, key) /\ Coloured(par, _st_Root, rcount, col, rz)
  BY <1>1, <1>2 DEF LinksOf, Fine
<1>4. /\ rcount \in Nat /\ 0 \in 0 .. rcount /\ _st_Root \in 0 .. rcount /\ sub[_st_Root] = 1 .. rcount
      /\ \A n \in 0 .. rcount : lf[n] \in 0 .. rcount /\ rt[n] \in 0 .. rcount /\ par[n] \in 0 .. rcount
      /\ \A n \in 0 .. rcount : sub[n] \subseteq 1 .. rcount
  BY <1>3 DEF Forked, Branches, Upward
<1>5. \A n \in 1 .. rcount : n \in 0 .. rcount
  BY <1>4, Numbered
<1>6. \A n \in 0 .. rcount : /\ rnode[n].left = lf[n] /\ rnode[n].right = rt[n]
                             /\ rnode[n].parent = par[n] /\ rnode[n].key = key[n]
                             /\ rnode[n].color = col[n]
  BY <1>1 DEF KidOf, ParentOf, KeyOf, ColorOf, RedBlack!Child
<1>7. \A n \in 0 .. rcount : RedBlack!Below(n) = sub[n]
  BY <1>3, BelowIs
<1>8. \A n \in 0 .. rcount : RedBlack!BlackHeight(n) = bh[n]
  BY <1>1, <1>3, HeightIs
<1>9. RedBlack!Linked
  <2>1. RedBlack!Below(_st_Root) = 1 .. rcount
    BY <1>4, <1>7
  <2>2. ASSUME NEW n \in 1 .. rcount, NEW c \in {rnode[n].left, rnode[n].right} \ {0}
        PROVE  rnode[c].parent = n
    <3>1. (c = lf[n] \/ c = rt[n]) /\ c # 0 /\ c \in 0 .. rcount
      BY <1>4, <1>5, <1>6, <2>2
    <3>2. par[c] = n
      BY <1>3, <3>1 DEF Forked, Upward
    <3>3. QED
      BY <1>6, <3>1, <3>2
  <2>3. ASSUME NEW n \in 1 .. rcount, NEW m \in RedBlack!Below(rnode[n].left)
        PROVE  rnode[m].key <= rnode[n].key
    <3>1. n \in 0 .. rcount /\ lf[n] \in 0 .. rcount
      BY <1>4, <1>5
    <3>2. m \in sub[lf[n]]
      BY <1>6, <1>7, <2>3, <3>1
    <3>3. m \in 0 .. rcount
      BY <1>4, <1>5, <3>1, <3>2
    <3>4. key[m] <= key[n]
      BY <1>3, <3>2 DEF KeysOrdered
    <3>5. QED
      BY <1>6, <3>1, <3>3, <3>4
  <2>4. ASSUME NEW n \in 1 .. rcount, NEW m \in RedBlack!Below(rnode[n].right)
        PROVE  rnode[m].key >= rnode[n].key
    <3>1. n \in 0 .. rcount /\ rt[n] \in 0 .. rcount
      BY <1>4, <1>5
    <3>2. m \in sub[rt[n]]
      BY <1>6, <1>7, <2>4, <3>1
    <3>3. m \in 0 .. rcount
      BY <1>4, <1>5, <3>1, <3>2
    <3>4. key[m] >= key[n]
      BY <1>3, <3>2 DEF KeysOrdered
    <3>5. QED
      BY <1>6, <3>1, <3>3, <3>4
  <2>5. QED
    BY <2>1, <2>2, <2>3, <2>4 DEF RedBlack!Linked, RedBlack!Nil
<1>10. RedBlack!Balanced
  <2>1. col[0] = "BLACK" /\ rnode[0].color = "BLACK"
    BY <1>3, <1>4, <1>6 DEF Coloured
  <2>2. ASSUME rz = 0 PROVE rnode[_st_Root].color = "BLACK"
    <3>1. col[_st_Root] = "RED" => _st_Root = 0
      BY <1>3, <2>2 DEF Coloured
    <3>2. col[_st_Root] \in { "RED", "BLACK" }
      BY <1>3, <1>4 DEF Coloured
    <3>3. col[_st_Root] = "BLACK"
      BY <2>1, <3>1, <3>2
    <3>4. QED
      BY <1>4, <1>6, <3>3
  <2>3. ASSUME NEW n \in 1 .. rcount
        PROVE  RedBlack!BlackHeight(rnode[n].left) = RedBlack!BlackHeight(rnode[n].right)
    <3>1. n \in 0 .. rcount /\ lf[n] \in 0 .. rcount /\ rt[n] \in 0 .. rcount
      BY <1>4, <1>5
    <3>2. bh[lf[n]] = bh[rt[n]]
      BY <1>3 DEF Heights
    <3>3. rnode[n].left = lf[n] /\ rnode[n].right = rt[n]
      BY <1>6, <3>1
    <3>4. QED
      BY <1>8, <3>1, <3>2, <3>3
  <2>4. ASSUME NEW n \in 1 .. rcount, rnode[n].color = "RED", rnode[rnode[n].parent].color = "RED"
        PROVE  n = rz
    <3>1. n \in 0 .. rcount /\ par[n] \in 0 .. rcount
      BY <1>4, <1>5
    <3>2. col[n] = "RED" /\ col[par[n]] = "RED"
      BY <1>6, <2>4, <3>1
    <3>3. QED
      BY <1>3, <3>2 DEF Coloured
  <2>5. QED
    BY <2>1, <2>2, <2>3, <2>4 DEF RedBlack!Balanced, RedBlack!Nil
<1>11. QED
  BY <1>9, <1>10 DEF TreeBalanced

(* The red-black tree of insert(): at every step of the loop of             *)
(* RBInsertFixup it is one tree with its keys in order, its black heights   *)
(* agree, and two red nodes in a row there are only at the node the loop    *)
(* is at.                                                                  *)
THEOREM TheTreeStaysBalanced == RedBlack!Spec => []TreeBalanced
<1>1. RedBlack!Init => RedBlackInv
  BY RedBlackStarts
<1>2. RedBlackInv /\ [RedBlack!Next]_RedBlack!vars => RedBlackInv'
  BY RedBlackSteps
<1>3. RedBlackInv => TreeBalanced
  BY RedBlackShows
<1>4. QED
  BY <1>1, <1>2, <1>3, PTL DEF RedBlack!Spec

=============================================================================
