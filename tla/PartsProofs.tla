----------------------------- MODULE PartsProofs -----------------------------
(***************************************************************************)
(* What is proved about the parts that talk to nobody: for every value of  *)
(* their constants that the assumptions of Parts allow.                    *)
(***************************************************************************)
EXTENDS Parts, SectorProofs, FiniteSetTheorems, SequenceTheorems

-----------------------------------------------------------------------------
(* SpinTable *)

HasFork == {"got", "eat", "unlock"}

(* The flag is set while a philosopher has the fork, and one at most has. *)
SpinInv ==
  /\ spc \in [ Seats -> HasFork \cup {"get", "think", "done"} ]
  /\ mMutex \in {0, 1}
  /\ mMutex = 1 <=> \E p \in Seats : spc[p] \in HasFork
  /\ \A p, q \in Seats : spc[p] \in HasFork /\ spc[q] \in HasFork => p = q
  /\ \A p \in Seats : (spc[p] = "eat") = (mOner = p)

(* An instance has its own copy of the operators of FiniteSets.            *)
LEMMA SpinCardinality == \A S : Spin!Cardinality(S) = Cardinality(S)
BY DEF Spin!Cardinality, Cardinality

LEMMA SpinStep == SpinInv /\ [Spin!Next]_(Spin!vars) => SpinInv'
<1> SUFFICES ASSUME SpinInv, [Spin!Next]_(Spin!vars) PROVE SpinInv'
  OBVIOUS
<1> USE SpinAssumption DEF SpinInv, HasFork
<1>1. CASE UNCHANGED Spin!vars
  BY <1>1 DEF Spin!vars
<1>2. ASSUME NEW p \in Seats, Spin!SpinLock(p) PROVE SpinInv'
  BY <1>2 DEF Spin!SpinLock
<1>3. ASSUME NEW p \in Seats, Spin!PrintGet(p) PROVE SpinInv'
  BY <1>3 DEF Spin!PrintGet
<1>4. ASSUME NEW p \in Seats, Spin!Put(p) PROVE SpinInv'
  BY <1>4 DEF Spin!Put
<1>5. ASSUME NEW p \in Seats, Spin!Think(p) PROVE SpinInv'
  BY <1>5 DEF Spin!Think
<1>6. QED
  BY <1>1, <1>2, <1>3, <1>4, <1>5 DEF Spin!Next

(* SpinLock: however many philosophers share the fork, one at a time has   *)
(* it, and while it eats the fork bears its name.                          *)
THEOREM SpinnersEatAlone == Spin!Spec => []EatsAlone
<1>1. Spin!Init => SpinInv
  BY SpinAssumption DEF Spin!Init, SpinInv, HasFork
<1>2. SpinInv => EatsAlone
  <2> SUFFICES ASSUME SpinInv PROVE EatsAlone
    OBVIOUS
  <2> DEFINE H == { p \in Seats : spc[p] \in {"got", "eat", "unlock"} }
  <2>1. Cardinality(H) = mMutex
    <3>1. CASE mMutex = 0
      <4>1. H = {}
        BY <3>1 DEF SpinInv, HasFork
      <4>2. QED
        BY <3>1, <4>1, FS_EmptySet
    <3>2. CASE mMutex = 1
      <4>1. PICK p \in Seats : H = {p}
        BY <3>2 DEF SpinInv, HasFork
      <4>2. QED
        BY <3>2, <4>1, FS_Singleton
    <3>3. QED
      BY <3>1, <3>2 DEF SpinInv
  <2>2. \A p \in Seats : (spc[p] = "eat") = (mOner = p)
    BY DEF SpinInv
  <2>3. QED
    BY <2>1, <2>2, SpinCardinality DEF EatsAlone, Spin!EatsAlone
<1>3. QED
  BY <1>1, <1>2, SpinStep, PTL DEF Spin!Spec

-----------------------------------------------------------------------------
(* SectorWalk *)

(* The player is on the map, and its sector is in the block of the sector  *)
(* it has come from.                                                       *)
WalkInv ==
  /\ x \in 0 .. MoveRight
  /\ y \in 0 .. MoveBottom
  /\ old \in Sectors
  /\ SectorOf(x, y) \in Block(old)

(* The grid of the walk is the grid of SectorProofs. *)
LEMMA WalkGrid ==
  /\ \A a, b : Walk!SectorOf(a, b) = SectorOf(a, b)
  /\ \A s : Walk!Block(s) = Block(s)
  /\ \A s : Walk!GetSectorAround(s) = GetSectorAround(s)
  /\ \A a, b, leftwards : Walk!GetAttackSectorAround(a, b, leftwards, RangeX, RangeY)
                      = GetAttackSectorAround(a, b, leftwards, RangeX, RangeY)
  /\ \A a, b, leftwards, px, py : Walk!InAttackRange(a, b, leftwards, RangeX, RangeY, px, py)
                             = InAttackRange(a, b, leftwards, RangeX, RangeY, px, py)
  /\ \A s, t : Walk!GetUpdateSectorAround(s, t) = GetUpdateSectorAround(s, t)
<1>1. \A a, b : Walk!Quotient(a, b) = Quotient(a, b)
  BY DEF Walk!Quotient, Quotient
<1>2. \A a, b : Walk!SectorOf(a, b) = SectorOf(a, b)
  BY <1>1 DEF Walk!SectorOf, SectorOf
<1>3. Walk!SectorMaxX = SectorMaxX /\ Walk!SectorMaxY = SectorMaxY
  BY <1>1 DEF Walk!SectorMaxX, SectorMaxX, Walk!SectorMaxY, SectorMaxY
<1>4. \A s : Walk!CheckSectorCoordinateRange(s) = CheckSectorCoordinateRange(s)
  BY <1>3 DEF Walk!CheckSectorCoordinateRange, CheckSectorCoordinateRange
<1>5. \A s : Walk!Block(s) = Block(s)
  BY <1>3 DEF Walk!Block, Block, Walk!Sectors, Sectors
<1>6. \A s, offsets : Walk!Near(s, offsets) = Near(s, offsets)
  BY <1>4 DEF Walk!Near, Near
<1>7. \A s : Walk!GetSectorAround(s) = GetSectorAround(s)
  BY <1>6 DEF Walk!GetSectorAround, GetSectorAround, Walk!AroundOffsets, AroundOffsets
<1>8. \A a, b, leftwards : Walk!GetAttackSectorAround(a, b, leftwards, RangeX, RangeY)
                      = GetAttackSectorAround(a, b, leftwards, RangeX, RangeY)
  BY <1>1, <1>2, <1>4 DEF Walk!GetAttackSectorAround, GetAttackSectorAround
<1>9. \A a, b, leftwards, px, py : Walk!InAttackRange(a, b, leftwards, RangeX, RangeY, px, py)
                             = InAttackRange(a, b, leftwards, RangeX, RangeY, px, py)
  BY DEF Walk!InAttackRange, InAttackRange
<1>10. \A s, t : /\ Walk!UpdateUp(s, t) = UpdateUp(s, t)
                 /\ Walk!UpdateDown(s, t) = UpdateDown(s, t)
                 /\ Walk!UpdateLeft(s, t) = UpdateLeft(s, t)
                 /\ Walk!UpdateRight(s, t) = UpdateRight(s, t)
  BY <1>6 DEF Walk!UpdateUp, UpdateUp, Walk!UpdateDown, UpdateDown,
              Walk!UpdateLeft, UpdateLeft, Walk!UpdateRight, UpdateRight
<1>11. \A s, t : /\ Walk!UpdateLeftUp(s, t) = UpdateLeftUp(s, t)
                 /\ Walk!UpdateRightUp(s, t) = UpdateRightUp(s, t)
                 /\ Walk!UpdateLeftDown(s, t) = UpdateLeftDown(s, t)
                 /\ Walk!UpdateRightDown(s, t) = UpdateRightDown(s, t)
  BY <1>6 DEF Walk!UpdateLeftUp, UpdateLeftUp, Walk!UpdateRightUp, UpdateRightUp,
              Walk!UpdateLeftDown, UpdateLeftDown, Walk!UpdateRightDown, UpdateRightDown
<1>12. \A s, t : Walk!GetUpdateSectorAround(s, t) = GetUpdateSectorAround(s, t)
  BY <1>10, <1>11 DEF Walk!GetUpdateSectorAround, GetUpdateSectorAround
<1>13. QED
  BY <1>2, <1>5, <1>7, <1>8, <1>9, <1>12

(* The sector operators are exact in every state of a walk, on a map and a *)
(* grid of any size: the sectors around a player, those that fall out of   *)
(* sight and come into sight when it moves, and those an attack reaches.   *)
THEOREM SectorsAreExact == Walk!Spec => []SectorsExact
<1>1. Walk!Init => WalkInv
  BY WalkGrid, PositionHasSector, BlockFacts DEF Walk!Init, WalkInv
<1>2. WalkInv /\ [Walk!Walk]_(Walk!vars) => WalkInv'
  <2> SUFFICES ASSUME WalkInv, [Walk!Walk]_(Walk!vars) PROVE WalkInv'
    OBVIOUS
  <2>1. CASE UNCHANGED Walk!vars
    BY <2>1 DEF Walk!vars, WalkInv
  <2>2. CASE Walk!Walk
    <3>1. PICK dx \in -ErrorRange .. ErrorRange, dy \in -ErrorRange .. ErrorRange :
            /\ x + dx \in 0 .. MoveRight /\ x' = x + dx
            /\ y + dy \in 0 .. MoveBottom /\ y' = y + dy
            /\ old' = SectorOf(x, y)
      BY <2>2, WalkGrid DEF Walk!Walk
    <3>2. SectorOf(x', y') \in Block(SectorOf(x, y))
      BY <3>1, WalkAssumption, GridAssumption, StepStaysNear DEF WalkInv
    <3>3. QED
      BY <3>1, <3>2, PositionHasSector DEF WalkInv
  <2>3. QED
    BY <2>1, <2>2
<1>3. WalkInv => SectorsExact
  <2> SUFFICES ASSUME WalkInv PROVE SectorsExact
    OBVIOUS
  <2>1. Walk!AroundIsBlock
    BY WalkGrid, AroundIsBlock DEF Walk!AroundIsBlock, WalkInv
  <2>2. Walk!UpdateIsDifference
    BY WalkGrid, UpdateIsDifference DEF Walk!UpdateIsDifference, WalkInv
  <2>3. Walk!AttackSectorsSuffice
    BY WalkGrid, AttackSectorsSuffice, WalkAssumption
       DEF Walk!AttackSectorsSuffice, WalkInv
  <2>4. QED
    BY <2>1, <2>2, <2>3 DEF SectorsExact
<1>4. QED
  BY <1>1, <1>2, <1>3, PTL DEF Walk!Spec

-----------------------------------------------------------------------------
(* BinaryLog *)

(* Division with remainder, without the operators for it. *)
Divided(n, a, q, r) == q \in Nat /\ r \in 0 .. a - 1 /\ n = a * q + r

LEMMA IsDivided ==
  ASSUME NEW a \in Nat \ {0}, NEW n \in Nat
  PROVE  \E q, r : Divided(n, a, q, r)
<1>1. \A q \in Nat, r \in Nat : n \div a = q /\ n % a = r => n = a * q + r
  OBVIOUS
<1>2. n \div a \in Nat /\ n % a \in 0 .. a - 1
  OBVIOUS
<1>3. \E q \in Nat, r \in 0 .. a - 1 : n = a * q + r
  BY <1>1, <1>2
<1>4. QED
  BY <1>3 DEF Divided

LEMMA DividedIs ==
  ASSUME NEW a \in Nat \ {0}, NEW n \in Nat, NEW q, NEW r, Divided(n, a, q, r)
  PROVE  q \in Nat /\ r \in 0 .. a - 1 /\ n \div a = q /\ n % a = r
BY DEF Divided

(* Counting one further: the quotient grows when the remainder comes round. *)
LEMMA NextDivided ==
  ASSUME NEW a \in Nat \ {0}, NEW n \in Nat, NEW q, NEW r, Divided(n, a, q, r)
  PROVE  \/ r + 1 < a /\ Divided(n + 1, a, q, r + 1)
         \/ r + 1 = a /\ Divided(n + 1, a, q + 1, 0)
BY DEF Divided

(* A smaller number has a smaller quotient, or the same and a smaller      *)
(* remainder.                                                              *)
LEMMA SmallerDivided ==
  ASSUME NEW a \in Nat \ {0}, NEW m \in Nat, NEW n \in Nat, m <= n,
         NEW p, NEW r, Divided(m, a, p, r), NEW q, NEW s, Divided(n, a, q, s)
  PROVE  IF m < n THEN p < q \/ (p = q /\ r < s) ELSE p = q /\ r = s
<1>1. p <= q
  BY DividedIs
<1>2. m = a * p + r /\ n = a * q + s /\ p \in Nat /\ q \in Nat /\ r \in Nat /\ s \in Nat
  BY DEF Divided
<1>3. p = q => m - r = n - s
  BY <1>2
<1>4. m = n => p = q
  BY DividedIs
<1>5. QED
  BY <1>1, <1>2, <1>3, <1>4

(* The size in another form: three characters for every byte, 17 for every *)
(* full line, and 16 for the address of a last one that is not full.       *)
Characters(n, q, last) == 17 * q + 3 * n + last + 1

LEMMA TextSizeIs ==
  ASSUME NEW len \in Nat, NEW align \in Nat \ {0}, NEW q, NEW r,
         Divided(len, align, q, r)
  PROVE  Dump!TextSize(len, align) = Characters(len, q, IF r > 0 THEN 16 ELSE 0)
<1>1. q \in Nat /\ r \in 0 .. align - 1 /\ len \div align = q /\ len % align = r
  BY DividedIs
<1>2. Dump!TextSize(len, align) =
        q * (16 + ((2 + 1) * align + 1)) + (IF r > 0 THEN 16 + r * (2 + 1) ELSE 0) + 1
  BY <1>1 DEF Dump!TextSize, Dump!ADDRESS, Dump!BYTESTRING, Dump!SPACEBAR, Dump!ENTER,
              Dump!NUL
<1>3. q * (16 + ((2 + 1) * align + 1)) = 17 * q + 3 * (align * q)
  BY <1>1
<1>4. len = align * q + r
  BY DEF Divided
<1>5. CASE r > 0
  BY <1>1, <1>2, <1>3, <1>4, <1>5 DEF Characters
<1>6. CASE r = 0
  BY <1>1, <1>2, <1>3, <1>4, <1>6 DEF Characters
<1>7. QED
  BY <1>1, <1>5, <1>6

(* How much is written in each state: 17 characters for every full line    *)
(* that is closed, three for every byte, 16 for an open line's address.    *)
DumpInv ==
  /\ dwBufferLen \in Nat /\ dwAlign \in Nat \ {0}
  /\ dwNumOfWChar = Dump!TextSize(dwBufferLen, dwAlign)
  /\ shown \in 0 .. dwBufferLen
  /\ overrun = FALSE
  /\ doing = "done" => (terminated <=> dwBufferLen > 0)
  /\ \E q, r :
       /\ Divided(shown, dwAlign, q, r)
       /\ \/ doing = "address" /\ shown < dwBufferLen /\ r = 0 /\ dumped = 17 * q + 3 * shown
          \/ doing = "bytes" /\ shown < dwBufferLen /\ dumped = 17 * q + 3 * shown + 16
          \/ doing = "enter" /\ shown > 0 /\ r = 0 /\ dumped = 17 * q + 3 * shown - 1
          \/ doing = "done" /\ shown = dwBufferLen /\ dumped = dwNumOfWChar - 1

LEMMA DumpStep == DumpInv /\ [Dump!Next]_(Dump!vars) => DumpInv'
<1> SUFFICES ASSUME DumpInv, [Dump!Next]_(Dump!vars) PROVE DumpInv'
  OBVIOUS
<1> USE DEF Dump!ADDRESS, Dump!BYTESTRING, Dump!SPACEBAR, Dump!ENTER, Dump!NUL
<1>1. PICK len \in Nat, align \in Nat, n \in Nat :
        /\ len = dwBufferLen /\ align = dwAlign /\ n = shown
        /\ align # 0 /\ n <= len
  BY DEF DumpInv
<1>2. PICK all, rest : Divided(len, align, all, rest)
  BY <1>1, IsDivided
<1>3. PICK last \in Nat : last = IF rest > 0 THEN 16 ELSE 0
  OBVIOUS
<1>4. PICK size \in Nat : size = 17 * all + 3 * len + last + 1
  BY <1>2 DEF Divided
<1>5. dwNumOfWChar = size
  BY <1>1, <1>2, <1>3, <1>4, TextSizeIs DEF DumpInv, Characters
<1>6. PICK q, r :
        /\ Divided(n, align, q, r)
        /\ \/ doing = "address" /\ n < len /\ r = 0 /\ dumped = 17 * q + 3 * n
           \/ doing = "bytes" /\ n < len /\ dumped = 17 * q + 3 * n + 16
           \/ doing = "enter" /\ n > 0 /\ r = 0 /\ dumped = 17 * q + 3 * n - 1
           \/ doing = "done" /\ n = len /\ dumped = size - 1
  BY <1>1, <1>5 DEF DumpInv
<1>7. /\ IF n < len THEN q < all \/ (q = all /\ r < rest) ELSE q = all /\ r = rest
      /\ q \in Nat /\ all \in Nat /\ r \in Nat /\ rest \in Nat
  <2>1. IF n < len THEN q < all \/ (q = all /\ r < rest) ELSE q = all /\ r = rest
    BY <1>1, <1>2, <1>6, SmallerDivided
  <2>2. QED
    BY <2>1, <1>1, <1>2, <1>6, DividedIs
<1>8. CASE UNCHANGED Dump!vars
  BY <1>8 DEF Dump!vars, DumpInv
<1>9. CASE Dump!Address
  <2>1. /\ n < len /\ r = 0
        /\ dumped' = 17 * q + 3 * n + 16 /\ overrun' = (17 * q + 3 * n + 17 > size)
        /\ doing' = "bytes" /\ terminated'
        /\ UNCHANGED << shown, dwBufferLen, dwAlign, dwNumOfWChar >>
    BY <1>9, <1>1, <1>5, <1>6, <1>7 DEF Dump!Address, Dump!Piece, Dump!args
  <2>2. 17 * q + 3 * n + 17 <= size
    BY <2>1, <1>3, <1>4, <1>7
  <2>3. overrun' = FALSE
    <3>1. (17 * q + 3 * n + 17 > size) = FALSE
      BY <2>2, <1>4, <1>7
    <3>2. QED
      BY <2>1, <3>1, Zenon
  <2>4. QED
    BY <2>1, <2>3, <1>1, <1>6 DEF DumpInv
<1>10. CASE Dump!Byte
  <2>1. /\ n < len
        /\ dumped' = 17 * q + 3 * n + 19 /\ overrun' = (17 * q + 3 * n + 20 > size)
        /\ shown' = n + 1 /\ doing' = Dump!AfterBytes(n + 1) /\ terminated'
        /\ UNCHANGED << dwBufferLen, dwAlign, dwNumOfWChar >>
    BY <1>10, <1>1, <1>5, <1>6, <1>7 DEF Dump!Byte, Dump!Piece, Dump!args
  <2>2. 17 * q + 3 * n + 20 <= size
    BY <2>1, <1>3, <1>4, <1>7
  <2>3. overrun' = FALSE
    <3>1. (17 * q + 3 * n + 20 > size) = FALSE
      BY <2>2, <1>4, <1>7
    <3>2. QED
      BY <2>1, <3>1, Zenon
  <2>4. CASE r + 1 = align /\ Divided(n + 1, align, q + 1, 0)
    <3>1. doing' = "enter"
      BY <2>1, <2>4, <1>1, DividedIs DEF Dump!AfterBytes
    <3>2. dumped' = 17 * (q + 1) + 3 * (n + 1) - 1
      BY <2>1, <1>7
    <3>3. QED
      BY <2>1, <2>3, <2>4, <3>1, <3>2, <1>1 DEF DumpInv
  <2>5. CASE r + 1 < align /\ Divided(n + 1, align, q, r + 1)
    <3>1. (n + 1) % align # 0
      <4>1. (n + 1) % align = r + 1
        BY <2>5, <1>1, DividedIs
      <4>2. QED
        BY <4>1, <1>7
    <3>2. dumped' = 17 * q + 3 * (n + 1) + 16
      BY <2>1, <1>7
    <3>3. CASE n + 1 < len
      <4>1. doing' = "bytes"
        BY <2>1, <3>1, <3>3, <1>1 DEF Dump!AfterBytes
      <4>2. QED
        BY <2>1, <2>3, <2>5, <3>2, <3>3, <4>1, <1>1 DEF DumpInv
    <3>4. CASE n + 1 = len
      <4>1. doing' = "done"
        BY <2>1, <3>1, <3>4, <1>1 DEF Dump!AfterBytes
      <4>2. q = all /\ r + 1 = rest
        BY <2>5, <3>4, <1>1, <1>2, SmallerDivided
      <4>3. dumped' = size - 1
        BY <3>2, <3>4, <4>2, <1>3, <1>4, <1>7
      <4>4. QED
        BY <2>1, <2>3, <2>5, <3>4, <4>1, <4>3, <1>1, <1>5 DEF DumpInv
    <3>5. QED
      BY <2>1, <3>3, <3>4
  <2>6. QED
    BY <2>4, <2>5, <1>1, <1>6, NextDivided
<1>11. CASE Dump!Enter
  <2>1. /\ r = 0 /\ n > 0
        /\ dumped' = 17 * q + 3 * n /\ overrun' = (17 * q + 3 * n + 1 > size)
        /\ doing' = Dump!AfterLine /\ terminated'
        /\ UNCHANGED << shown, dwBufferLen, dwAlign, dwNumOfWChar >>
    BY <1>11, <1>1, <1>5, <1>6, <1>7 DEF Dump!Enter, Dump!Piece, Dump!args
  <2>2. 17 * q + 3 * n + 1 <= size
    BY <1>1, <1>3, <1>4, <1>7
  <2>3. overrun' = FALSE
    <3>1. (17 * q + 3 * n + 1 > size) = FALSE
      BY <2>2, <1>4, <1>7
    <3>2. QED
      BY <2>1, <3>1, Zenon
  <2>4. CASE n < len
    <3>1. doing' = "address"
      BY <2>1, <2>4, <1>1 DEF Dump!AfterLine
    <3>2. QED
      BY <2>1, <2>3, <2>4, <3>1, <1>1, <1>6 DEF DumpInv
  <2>5. CASE n = len
    <3>1. dumped' = size - 1
      BY <2>1, <2>5, <1>3, <1>4, <1>7
    <3>2. doing' = "done"
      BY <2>1, <2>5, <1>1 DEF Dump!AfterLine
    <3>3. QED
      BY <2>1, <2>3, <2>5, <3>1, <3>2, <1>1, <1>5, <1>6 DEF DumpInv
  <2>6. QED
    BY <2>4, <2>5, <1>1
<1>12. QED
  BY <1>8, <1>9, <1>10, <1>11 DEF Dump!Next

(* MAKE_BINARY_LOG: whatever the length of the block and of a line, the    *)
(* text has exactly the size that was worked out, and no piece is refused; *)
(* of an empty block there is no text and no NUL.                          *)
THEOREM DumpsFit == Dump!Spec => []TextFits
<1>1. Dump!Init => DumpInv
  <2> SUFFICES ASSUME Dump!Init PROVE DumpInv
    OBVIOUS
  <2>1. /\ dwBufferLen \in Nat /\ dwAlign \in Nat \ {0}
        /\ dumped = 0 /\ shown = 0 /\ terminated = FALSE /\ overrun = FALSE
        /\ doing = IF 0 < dwBufferLen THEN "address" ELSE "done"
        /\ dwNumOfWChar = Dump!TextSize(dwBufferLen, dwAlign)
    BY DumpAssumption DEF Dump!Init, Dump!AfterLine
  <2>2. Divided(0, dwAlign, 0, 0)
    BY <2>1 DEF Divided
  <2>3. CASE dwBufferLen > 0
    BY <2>1, <2>2, <2>3 DEF DumpInv
  <2>4. CASE dwBufferLen = 0
    <3>1. dwNumOfWChar = 1
      BY <2>1, <2>2, <2>4, TextSizeIs DEF Characters
    <3>2. QED
      BY <2>1, <2>2, <2>4, <3>1 DEF DumpInv
  <2>5. QED
    BY <2>1, <2>3, <2>4
<1>2. DumpInv => TextFits
  <2> SUFFICES ASSUME DumpInv PROVE TextFits
    OBVIOUS
  <2>1. dwNumOfWChar \in Nat
    <3>1. PICK q, r : Divided(dwBufferLen, dwAlign, q, r)
      BY IsDivided DEF DumpInv
    <3>2. PICK last \in Nat : last = IF r > 0 THEN 16 ELSE 0
      OBVIOUS
    <3>3. dwNumOfWChar = Characters(dwBufferLen, q, last)
      BY <3>1, <3>2, TextSizeIs DEF DumpInv
    <3>4. QED
      BY <3>1, <3>3 DEF DumpInv, Characters, Divided
  <2>2. QED
    BY <2>1 DEF DumpInv, TextFits, Dump!TextFits, Dump!NUL
<1>3. QED
  BY <1>1, <1>2, DumpStep, PTL DEF Dump!Spec

-----------------------------------------------------------------------------
(* SerializeBuffer *)

(* What has been put and not taken lies between the positions, in order.   *)
MessageInv ==
  /\ buffer \in Seq(Nat) /\ DefaultSize <= Len(buffer)
  /\ readPos \in Nat /\ writePos \in readPos .. Len(buffer)
  /\ written \in Nat
  /\ taken \in Seq(Nat)
  /\ \A j \in 1 .. Len(taken) : taken[j] = j
  /\ written - Len(taken) = writePos - readPos
  /\ \A c \in readPos + 1 .. writePos : buffer[c] = written - writePos + c

LEMMA FunctionIsSeq ==
  ASSUME NEW S, NEW n \in Nat, NEW f \in [ 1 .. n -> S ]
  PROVE  f \in Seq(S) /\ Len(f) = n
OBVIOUS

LEMMA Joined ==
  ASSUME NEW s \in Seq(Nat), NEW t \in Seq(Nat)
  PROVE  /\ s \o t \in Seq(Nat) /\ Len(s \o t) = Len(s) + Len(t)
         /\ \A i \in 1 .. Len(s) : (s \o t)[i] = s[i]
         /\ \A i \in 1 .. Len(t) : (s \o t)[Len(s) + i] = t[i]
<1>1. /\ s \o t \in Seq(Nat) /\ Len(s \o t) = Len(s) + Len(t)
      /\ \A i \in 1 .. Len(s) + Len(t) : (s \o t)[i] =
           IF i <= Len(s) THEN s[i] ELSE t[i - Len(s)]
  BY ConcatProperties
<1>2. Len(s) \in Nat /\ Len(t) \in Nat
  OBVIOUS
<1>3. ASSUME NEW i \in 1 .. Len(s) PROVE (s \o t)[i] = s[i]
  <2>1. i \in 1 .. Len(s) + Len(t) /\ i <= Len(s)
    BY <1>2
  <2>2. QED
    BY <1>1, <2>1
<1>4. ASSUME NEW i \in 1 .. Len(t) PROVE (s \o t)[Len(s) + i] = t[i]
  <2>1. Len(s) + i \in 1 .. Len(s) + Len(t) /\ ~ (Len(s) + i <= Len(s)) /\ Len(s) + i - Len(s) = i
    BY <1>2
  <2>2. QED
    BY <1>1, <2>1
<1>5. QED
  BY <1>1, <1>3, <1>4

(* The k elements behind the first r.                                      *)
LEMMA Behind ==
  ASSUME NEW s \in Seq(Nat), NEW r \in Nat, NEW k \in Nat, r + k <= Len(s)
  PROVE  /\ SubSeq(s, r + 1, r + k) \in Seq(Nat)
         /\ Len(SubSeq(s, r + 1, r + k)) = k
         /\ \A j \in 1 .. k : SubSeq(s, r + 1, r + k)[j] = s[r + j]
<1>1. r + 1 \in Int /\ r + k \in Int /\ Len(s) \in Nat
  OBVIOUS
<1>2. \A c \in r + 1 .. r + k : s[c] \in Nat
  BY <1>1
<1>3. /\ SubSeq(s, r + 1, r + k) \in Seq(Nat)
      /\ Len(SubSeq(s, r + 1, r + k)) = IF r + 1 <= r + k THEN r + k - (r + 1) + 1 ELSE 0
      /\ \A j \in 1 .. r + k - (r + 1) + 1 : SubSeq(s, r + 1, r + k)[j] = s[r + 1 + j - 1]
  BY <1>1, <1>2, SubSeqProperties
<1>4. (IF r + 1 <= r + k THEN r + k - (r + 1) + 1 ELSE 0) = k
  OBVIOUS
<1>5. ASSUME NEW j \in 1 .. k PROVE SubSeq(s, r + 1, r + k)[j] = s[r + j]
  <2>1. j \in 1 .. r + k - (r + 1) + 1 /\ r + 1 + j - 1 = r + j
    OBVIOUS
  <2>2. QED
    BY <1>3, <2>1
<1>6. QED
  BY <1>3, <1>4, <1>5

(* Numbers in order, continued in order.                                   *)
LEMMA InOrder ==
  ASSUME NEW s \in Seq(Nat), \A j \in 1 .. Len(s) : s[j] = j,
         NEW t \in Seq(Nat), \A j \in 1 .. Len(t) : t[j] = Len(s) + j
  PROVE  /\ s \o t \in Seq(Nat) /\ Len(s \o t) = Len(s) + Len(t)
         /\ \A j \in 1 .. Len(s \o t) : (s \o t)[j] = j
<1>1. Len(s) \in Nat /\ Len(t) \in Nat
  OBVIOUS
<1>2. s \o t \in Seq(Nat) /\ Len(s \o t) = Len(s) + Len(t)
  BY Joined
<1>3. ASSUME NEW j \in 1 .. Len(s \o t) PROVE (s \o t)[j] = j
  <2>1. CASE j <= Len(s)
    <3>1. j \in 1 .. Len(s)
      BY <1>1, <1>2, <2>1
    <3>2. QED
      BY <3>1, Joined
  <2>2. CASE ~ (j <= Len(s))
    <3>1. PICK i \in 1 .. Len(t) : j = Len(s) + i
      <4>1. j - Len(s) \in 1 .. Len(t) /\ j = Len(s) + (j - Len(s))
        BY <1>1, <1>2, <2>2
      <4>2. QED
        BY <4>1
    <3>2. QED
      BY <3>1, Joined
  <2>3. QED
    BY <2>1, <2>2
<1>4. QED
  BY <1>2, <1>3

LEMMA EmptyCells ==
  ASSUME NEW n \in Nat
  PROVE  Message!Cells(n) \in Seq(Nat) /\ Len(Message!Cells(n)) = n
<1>1. Message!Cells(n) \in [ 1 .. n -> Nat ]
  BY DEF Message!Cells, Message!Garbage
<1>2. QED
  BY <1>1, FunctionIsSeq

LEMMA MessagePut ==
  ASSUME MessageInv, NEW k \in Widths, Message!Put(k)
  PROVE  MessageInv'
<1> DEFINE short == Len(buffer) - writePos < k
           b     == IF short THEN Message!ReSize(buffer) ELSE buffer
<1>1. CASE short /\ 2 * Len(buffer) >= MaxSize
  BY <1>1 DEF MessageInv, Message!Put, Message!Filled
<1>2. CASE ~ (short /\ 2 * Len(buffer) >= MaxSize)
  <2>1. k \in Nat /\ k <= Len(buffer)
    BY MessageAssumption DEF MessageInv
  <2>2. /\ b \in Seq(Nat) /\ Len(b) >= Len(buffer) /\ writePos + k <= Len(b)
        /\ \A c \in 1 .. Len(buffer) : b[c] = buffer[c]
    <3>1. CASE short
      <4>1. b = buffer \o Message!Cells(Len(buffer))
        BY <3>1 DEF Message!ReSize
      <4>2. buffer \in Seq(Nat) /\ Len(buffer) \in Nat
        BY DEF MessageInv
      <4>3. /\ Message!Cells(Len(buffer)) \in Seq(Nat)
            /\ Len(Message!Cells(Len(buffer))) = Len(buffer)
        BY <4>2, EmptyCells
      <4> HIDE DEF b, short
      <4> DEFINE more == Message!Cells(Len(buffer))
                 both == buffer \o more
      <4> HIDE DEF more
      <4>4. /\ both \in Seq(Nat) /\ Len(both) = Len(buffer) + Len(buffer)
            /\ \A c \in 1 .. Len(buffer) : both[c] = buffer[c]
        BY <4>2, <4>3, Joined DEF more
      <4> HIDE DEF both
      <4>6. b = both
        BY <4>1 DEF both, more
      <4>5. QED
        BY <2>1, <4>2, <4>4, <4>6 DEF MessageInv
    <3>2. CASE ~ short
      BY <2>1, <3>2 DEF MessageInv
    <3>3. QED
      BY <3>1, <3>2
  <2> HIDE DEF b
  <2>3. /\ buffer' = [ c \in DOMAIN b |->
                         IF c \in writePos + 1 .. writePos + k
                         THEN written + c - writePos ELSE b[c] ]
        /\ writePos' = writePos + k
        /\ written' = written + k
        /\ UNCHANGED << readPos, taken >>
    BY <1>2 DEF Message!Put, Message!Filled, b
  <2>4. DOMAIN b = 1 .. Len(b)
    BY <2>2
  <2>5. /\ buffer' \in Seq(Nat) /\ Len(buffer') = Len(b)
        /\ \A c \in 1 .. Len(b) : buffer'[c] = IF c \in writePos + 1 .. writePos + k
                                           THEN written + c - writePos ELSE b[c]
    <3>1. ASSUME NEW c \in 1 .. Len(b)
          PROVE  (IF c \in writePos + 1 .. writePos + k
                  THEN written + c - writePos ELSE b[c]) \in Nat
      <4>1. CASE c \in writePos + 1 .. writePos + k
        <5>1. written + c - writePos \in Nat
          BY <2>1, <4>1 DEF MessageInv
        <5>2. QED
          BY <4>1, <5>1
      <4>2. CASE ~ (c \in writePos + 1 .. writePos + k)
        <5>1. b[c] \in Nat
          BY <2>2
        <5>2. QED
          BY <4>2, <5>1
      <4>3. QED
        BY <4>1, <4>2
    <3>2. Len(b) \in Nat /\ buffer' \in [ 1 .. Len(b) -> Nat ]
      BY <2>2, <2>3, <2>4, <3>1
    <3>3. QED
      BY <2>3, <2>4, <3>2, FunctionIsSeq
  <2>6. ASSUME NEW c \in readPos + 1 .. writePos + k
        PROVE  buffer'[c] = written - writePos + c
    <3>1. c \in 1 .. Len(b) /\ c \in Int /\ written \in Int /\ writePos \in Int
      BY <2>1, <2>2 DEF MessageInv
    <3>2. CASE c > writePos
      <4>1. c \in writePos + 1 .. writePos + k
        BY <3>1, <3>2, <2>1
      <4>2. buffer'[c] = written + c - writePos
        BY <2>5, <3>1, <4>1
      <4>3. QED
        BY <4>2, <3>1
    <3>3. CASE c <= writePos
      <4>1. ~ (c \in writePos + 1 .. writePos + k) /\ c \in 1 .. Len(buffer)
        BY <3>1, <3>3, <2>1 DEF MessageInv
      <4>2. buffer'[c] = buffer[c]
        BY <2>2, <2>5, <3>1, <4>1
      <4>3. QED
        BY <4>2, <3>1, <3>3 DEF MessageInv
    <3>4. QED
      BY <3>1, <3>2, <3>3
  <2>7. QED
    <3>1. buffer' \in Seq(Nat) /\ DefaultSize <= Len(buffer')
      BY <2>2, <2>5, MessageAssumption DEF MessageInv
    <3>2. readPos' \in Nat /\ writePos' \in readPos' .. Len(buffer') /\ written' \in Nat
      BY <2>1, <2>2, <2>3, <2>5 DEF MessageInv
    <3>3. taken' \in Seq(Nat) /\ \A j \in 1 .. Len(taken') : taken'[j] = j
      BY <2>3 DEF MessageInv
    <3>4. written' - Len(taken') = writePos' - readPos'
      BY <2>1, <2>3 DEF MessageInv
    <3>5. written' - writePos' = written - writePos
      BY <2>1, <2>3 DEF MessageInv
    <3>6. \A c \in readPos' + 1 .. writePos' : buffer'[c] = written' - writePos' + c
      BY <2>3, <2>6, <3>5
    <3>7. QED
      BY <3>1, <3>2, <3>3, <3>4, <3>6 DEF MessageInv
<1>3. QED
  BY <1>1, <1>2

LEMMA MessageMoved ==
  ASSUME MessageInv, NEW k \in Widths, writePos - readPos >= k, Message!Moved(k),
         UNCHANGED << buffer, writePos, written >>
  PROVE  MessageInv'
<1> DEFINE part == SubSeq(buffer, readPos + 1, readPos + k)
<1>1. k \in Nat /\ readPos + k <= Len(buffer)
  BY MessageAssumption DEF MessageInv
<1>2. /\ part \in Seq(Nat) /\ Len(part) = k
      /\ \A j \in 1 .. k : part[j] = Len(taken) + j
  <2>1. buffer \in Seq(Nat) /\ readPos \in Nat
    BY DEF MessageInv
  <2>2. part \in Seq(Nat) /\ Len(part) = k /\ \A j \in 1 .. k : part[j] = buffer[readPos + j]
    BY <1>1, <2>1, Behind
  <2> HIDE DEF part
  <2>3. ASSUME NEW j \in 1 .. k PROVE part[j] = Len(taken) + j
    <3>1. readPos + j \in readPos + 1 .. writePos
      BY <1>1 DEF MessageInv
    <3>2. buffer[readPos + j] = written - writePos + (readPos + j)
      BY <3>1 DEF MessageInv
    <3>3. part[j] = written - writePos + (readPos + j)
      BY <2>2, <3>2
    <3>4. /\ written - Len(taken) = writePos - readPos
          /\ written \in Int /\ Len(taken) \in Int /\ writePos \in Int /\ readPos \in Int
      BY DEF MessageInv
    <3>5. QED
      BY <3>3, <3>4
  <2>4. QED
    BY <2>2, <2>3
<1>3. taken' = taken \o part /\ readPos' = readPos + k
  BY DEF Message!Moved
<1> HIDE DEF part
<1>4. /\ taken' \in Seq(Nat) /\ Len(taken') = Len(taken) + k
      /\ \A j \in 1 .. Len(taken') : taken'[j] = j
  BY <1>2, <1>3, InOrder DEF MessageInv
<1>5. QED
  BY <1>1, <1>3, <1>4 DEF MessageInv

LEMMA MessageStep == MessageInv /\ [Message!Next]_(Message!vars) => MessageInv'
<1> SUFFICES ASSUME MessageInv, [Message!Next]_(Message!vars) PROVE MessageInv'
  OBVIOUS
<1>1. CASE UNCHANGED Message!vars
  BY <1>1 DEF Message!vars, MessageInv
<1>2. ASSUME NEW k \in Widths, Message!Get(k) PROVE MessageInv'
  <2>1. CASE writePos - readPos < k
    BY <1>2, <2>1 DEF Message!Get, MessageInv
  <2>2. CASE ~ (writePos - readPos < k)
    <3>1. k \in Nat /\ writePos - readPos >= k
      BY <2>2, MessageAssumption DEF MessageInv
    <3>2. QED
      BY <1>2, <2>2, <3>1, MessageMoved DEF Message!Get
  <2>3. QED
    BY <2>1, <2>2
<1>3. ASSUME NEW k \in Widths, Message!GetData(k) PROVE MessageInv'
  BY <1>3, MessageMoved DEF Message!GetData
<1>4. CASE Message!Clear
  <2> DEFINE n == written - Len(taken)
             rest == [ j \in 1 .. n |-> Len(taken) + j ]
  <2>1. n \in Nat /\ Len(taken) \in Nat
    BY DEF MessageInv
  <2> HIDE DEF n
  <2>2. rest \in Seq(Nat) /\ Len(rest) = n /\ \A j \in 1 .. n : rest[j] = Len(taken) + j
    <3>1. rest \in [ 1 .. n -> Nat ]
      BY <2>1
    <3>2. rest \in Seq(Nat) /\ Len(rest) = n
      BY <2>1, <3>1, FunctionIsSeq
    <3>3. QED
      BY <3>2
  <2>3. /\ taken' = taken \o rest /\ readPos' = 0 /\ writePos' = 0
        /\ UNCHANGED << buffer, written >>
    BY <1>4 DEF Message!Clear, n
  <2> HIDE DEF rest
  <2>4. /\ taken' \in Seq(Nat) /\ Len(taken') = Len(taken) + n
        /\ \A j \in 1 .. Len(taken') : taken'[j] = j
    BY <2>2, <2>3, InOrder DEF MessageInv
  <2>5. QED
    BY <2>1, <2>3, <2>4 DEF MessageInv, n
<1>5. ASSUME NEW k \in Widths, Message!MoveWritePos(k) PROVE MessageInv'
  <2>1. ~ (Len(buffer) - writePos < k)
    BY <1>5, MessageAssumption DEF Message!MoveWritePos, MessageInv
  <2>2. Message!Put(k)
    BY <1>5, <2>1 DEF Message!MoveWritePos, Message!Put
  <2>3. QED
    BY <2>2, MessagePut
<1>6. QED
  BY <1>1, <1>2, <1>3, <1>4, <1>5, MessagePut DEF Message!Next

(* SerializeBuffer: whatever is put, taken and cleared in any order, what  *)
(* is taken out is what was put, in the same order, and nothing is written *)
(* behind the end of the buffer.                                           *)
THEOREM MessagesAreTakenAsPut == Message!Spec => []TakenAsPut
<1>1. Message!Init => MessageInv
  <2> SUFFICES ASSUME Message!Init PROVE MessageInv
    OBVIOUS
  <2>1. DefaultSize \in Nat /\ buffer = Message!Cells(DefaultSize)
    BY MessageAssumption DEF Message!Init
  <2>2. buffer \in Seq(Nat) /\ Len(buffer) = DefaultSize
    BY <2>1, EmptyCells
  <2>3. readPos = 0 /\ writePos = 0 /\ written = 0 /\ taken = << >>
    BY DEF Message!Init
  <2>4. taken \in Seq(Nat) /\ Len(taken) = 0
    BY <2>3
  <2>5. QED
    <3>1. \A c \in readPos + 1 .. writePos : buffer[c] = written - writePos + c
      BY <2>3
    <3>2. \A j \in 1 .. Len(taken) : taken[j] = j
      BY <2>4
    <3>3. /\ readPos \in Nat /\ writePos \in readPos .. Len(buffer) /\ written \in Nat
          /\ written - Len(taken) = writePos - readPos
          /\ DefaultSize <= Len(buffer)
      <4>1. readPos = 0 /\ writePos = 0 /\ written = 0 /\ Len(taken) = 0
        BY <2>3, <2>4
      <4>2. Len(buffer) = DefaultSize /\ DefaultSize \in Nat
        BY <2>1, <2>2
      <4>3. QED
        BY <4>1, <4>2
    <3>4. QED
      BY <2>2, <2>4, <3>1, <3>2, <3>3 DEF MessageInv
<1>2. MessageInv => TakenAsPut
  BY DEF MessageInv, TakenAsPut, Message!TakenAsPut
<1>3. QED
  BY <1>1, <1>2, MessageStep, PTL DEF Message!Spec

-----------------------------------------------------------------------------
(* Logger *)

Places == { "idle", "number", "text", "lock", "line", "close and dump", "dump", "close" }

Inside(t)  == where[t] \in { "line", "close and dump", "dump", "close" }

(* A number is taken and its line not written yet.                         *)
Pending(t) == where[t] \in { "text", "lock", "line" }

Entries == [ by : Loggers, number : Nat, what : { "line", "dump" } ]

(* One thread at a time is between the two ends of the lock, it alone has  *)
(* the file open, and behind its line until the dump is written.           *)
Writing ==
  /\ holding = { t \in Loggers : Inside(t) }
  /\ \A t, u \in Loggers : Inside(t) /\ Inside(u) => t = u
  /\ opened = { t \in Loggers : where[t] \in { "close and dump", "close" } }

DumpsFollow ==
  /\ \A t \in Loggers : where[t] \in { "close and dump", "dump" } =>
       Len(file) > 0 /\ file[Len(file)] = Log!Line(t)
  /\ \A i \in 1 .. Len(file) : file[i].what = "dump" =>
       i > 1 /\ file[i - 1] = [ file[i] EXCEPT !.what = "line" ]

LogTypes ==
  /\ where \in [ Loggers -> Places ]
  /\ g_dwLogCount \in 0 .. Word - 1 /\ number \in [ Loggers -> Nat ]
  /\ file \in Seq(Entries)

FileInv == LogTypes /\ Writing /\ DumpsFollow

LEMMA Added ==
  ASSUME NEW S, NEW s \in Seq(S), NEW e \in S
  PROVE  /\ Append(s, e) \in Seq(S) /\ Len(Append(s, e)) = Len(s) + 1
         /\ Append(s, e)[Len(s) + 1] = e
         /\ \A i \in 1 .. Len(s) : Append(s, e)[i] = s[i]
BY AppendProperties

LEMMA Moved ==
  ASSUME LogTypes, NEW t \in Loggers, NEW w \in Places, Log!Goto(t, w)
  PROVE  /\ where' \in [ Loggers -> Places ] /\ where'[t] = w
         /\ \A u \in Loggers : u # t => where'[u] = where[u]
BY DEF LogTypes, Log!Goto

(* A step outside the lock.                                                *)
LEMMA MovedOutside ==
  ASSUME FileInv, NEW t \in Loggers, NEW w \in Places, Log!Goto(t, w),
         ~ Inside(t), w \in { "idle", "number", "text", "lock" },
         g_dwLogCount' \in 0 .. Word - 1, number' \in [ Loggers -> Nat ],
         \A u \in Loggers : u # t => number'[u] = number[u],
         UNCHANGED << holding, opened, file >>
  PROVE  FileInv'
<1>1. LogTypes'
  BY Moved DEF FileInv, LogTypes
<1>2. \A u \in Loggers : Inside(u)' <=> Inside(u)
  <2> TAKE u \in Loggers
  <2>1. where'[t] = w /\ (u # t => where'[u] = where[u])
    BY Moved DEF FileInv
  <2>2. CASE u = t
    <3>1. where'[u] \in { "idle", "number", "text", "lock" }
      BY <2>1, <2>2
    <3>2. ~ (Inside(u)')
      BY <3>1 DEF Inside
    <3>3. QED
      BY <2>2, <3>2
  <2>3. CASE u # t
    BY <2>1, <2>3 DEF Inside
  <2>4. QED
    BY <2>2, <2>3
<1>3. Writing'
  <2>1. \A u \in Loggers : where'[u] \in { "close and dump", "close" } <=>
                           where[u] \in { "close and dump", "close" }
    BY Moved DEF FileInv, Inside
  <2>2. opened' = { u \in Loggers : where'[u] \in { "close and dump", "close" } }
    BY <2>1 DEF FileInv, Writing
  <2>3. holding' = { u \in Loggers : Inside(u)' }
    BY <1>2 DEF FileInv, Writing
  <2>4. \A u, v \in Loggers : Inside(u)' /\ Inside(v)' => u = v
    BY <1>2 DEF FileInv, Writing
  <2>5. QED
    BY <2>2, <2>3, <2>4 DEF Writing
<1>4. \A u \in Loggers : where'[u] \in { "close and dump", "dump" } =>
        where[u] \in { "close and dump", "dump" } /\ Log!Line(u)' = Log!Line(u)
  BY Moved DEF FileInv, Inside, Log!Line
<1>5. DumpsFollow'
  BY <1>4 DEF FileInv, DumpsFollow
<1>6. QED
  BY <1>1, <1>3, <1>5 DEF FileInv

LEMMA FileStep == FileInv /\ [Log!Next]_(Log!vars) => FileInv'
<1> SUFFICES ASSUME FileInv, [Log!Next]_(Log!vars) PROVE FileInv'
  OBVIOUS
<1>1. CASE UNCHANGED << g_dwLogCount, where, number, file, holding, opened >>
  BY <1>1 DEF FileInv, LogTypes, Writing, DumpsFollow, Inside, Log!Line
<1>2. ASSUME NEW t \in Loggers, Log!Log(t) PROVE FileInv'
  <2>1. CASE UNCHANGED where
    BY <1>1, <1>2, <2>1 DEF Log!Log
  <2>2. CASE Log!Goto(t, "number")
    BY <1>2, <2>2, MovedOutside DEF Log!Log, FileInv, LogTypes, Inside, Places
  <2>3. QED
    BY <1>2, <2>1, <2>2 DEF Log!Log
<1>3. ASSUME NEW t \in Loggers, Log!TakeNumber(t) PROVE FileInv'
  <2>1. /\ number' = [ number EXCEPT ![t] = g_dwLogCount' ] /\ Log!Goto(t, "text")
        /\ UNCHANGED << holding, opened, file >>
        /\ ~ Inside(t) /\ g_dwLogCount' = (g_dwLogCount + 1) % Word
    BY <1>3 DEF Log!TakeNumber, Inside
  <2>2. g_dwLogCount' \in 0 .. Word - 1
    BY <2>1, LogAssumption DEF FileInv, LogTypes
  <2>3. number' \in [ Loggers -> Nat ] /\ \A u \in Loggers : u # t => number'[u] = number[u]
    BY <2>1, <2>2 DEF FileInv, LogTypes
  <2>4. QED
    BY <2>1, <2>2, <2>3, MovedOutside DEF Places
<1>4. ASSUME NEW t \in Loggers, Log!TextFits(t) PROVE FileInv'
  BY <1>4, MovedOutside DEF Log!TextFits, FileInv, LogTypes, Inside, Places
<1>5. ASSUME NEW t \in Loggers, Log!TextTooLong(t) PROVE FileInv'
  BY <1>5, MovedOutside DEF Log!TextTooLong, FileInv, LogTypes, Inside, Places
<1>6. ASSUME NEW t \in Loggers, Log!Lock(t) PROVE FileInv'
  <2>1. /\ \A u \in Loggers : ~ Inside(u)
        /\ holding' = { t } /\ Log!Goto(t, "line") /\ UNCHANGED << g_dwLogCount, number, opened, file >>
    BY <1>6 DEF Log!Lock, Log!Free, FileInv, Writing
  <2>2. LogTypes' /\ where'[t] = "line" /\ \A u \in Loggers : u # t => where'[u] = where[u]
    BY <2>1, Moved DEF FileInv, LogTypes, Places
  <2>3. Writing'
    BY <2>1, <2>2 DEF FileInv, Writing, Inside
  <2>4. DumpsFollow'
    BY <2>1, <2>2 DEF FileInv, DumpsFollow, Inside, Log!Line
  <2>5. QED
    BY <2>2, <2>3, <2>4 DEF FileInv
<1>7. ASSUME NEW t \in Loggers, Log!Write(t) PROVE FileInv'
  <2> DEFINE e == IF where[t] = "line" THEN Log!Line(t) ELSE Log!Dump(t)
             w == IF where[t] = "line" /\ call[t].dump /\ ~ report[t]
                    THEN "close and dump" ELSE "close"
  <2>1. /\ where[t] \in { "line", "dump" } /\ opened' = opened \cup { t }
        /\ file' = Append(file, e) /\ Log!Goto(t, w) /\ UNCHANGED << g_dwLogCount, number, holding >>
    BY <1>7 DEF Log!Write
  <2>2. /\ w \in { "close and dump", "close" }
        /\ w = "close and dump" => where[t] = "line"
    OBVIOUS
  <2>3. e \in Entries
    BY DEF FileInv, LogTypes, Entries, Log!Line, Log!Dump
  <2>4. w = "close and dump" => e = Log!Line(t)
    BY <2>2
  <2>5. e.what = "dump" => where[t] = "dump" /\ e = Log!Dump(t)
    <3>1. CASE where[t] = "line"
      BY <3>1 DEF Log!Line
    <3>2. CASE where[t] # "line"
      BY <2>1, <3>2
    <3>3. QED
      BY <3>1, <3>2
  <2> HIDE DEF e, w
  <2>6. /\ file' \in Seq(Entries) /\ Len(file') = Len(file) + 1 /\ file'[Len(file) + 1] = e
        /\ \A i \in 1 .. Len(file) : file'[i] = file[i]
    BY <2>1, <2>3, Added DEF FileInv, LogTypes
  <2>7. LogTypes' /\ where'[t] = w /\ \A u \in Loggers : u # t => where'[u] = where[u]
    BY <2>1, <2>2, <2>6, Moved DEF FileInv, LogTypes, Places
  <2>8. \A u \in Loggers : u # t => ~ Inside(u)
    BY <2>1 DEF FileInv, Writing, Inside
  <2>9. Writing'
    BY <2>1, <2>2, <2>7, <2>8 DEF FileInv, Writing, Inside
  <2>10. DumpsFollow'
    <3>1. ASSUME NEW u \in Loggers, where'[u] \in { "close and dump", "dump" }
          PROVE  Len(file') > 0 /\ file'[Len(file')] = Log!Line(u)'
      <4>1. u = t /\ w = "close and dump"
        BY <2>2, <2>7, <2>8, <3>1 DEF Inside
      <4>2. file'[Len(file')] = Log!Line(u)'
        BY <2>1, <2>4, <2>6, <4>1 DEF Log!Line
      <4>3. QED
        BY <2>6, <4>2 DEF FileInv, LogTypes
    <3>2. ASSUME NEW i \in 1 .. Len(file'), file'[i].what = "dump"
          PROVE  i > 1 /\ file'[i - 1] = [ file'[i] EXCEPT !.what = "line" ]
      <4>0. Len(file) \in Nat
        BY DEF FileInv, LogTypes
      <4>1. CASE i <= Len(file)
        <5>1. i \in 1 .. Len(file) /\ file'[i] = file[i]
          BY <2>6, <4>0, <4>1
        <5>2. i > 1 /\ file[i - 1] = [ file[i] EXCEPT !.what = "line" ]
          BY <3>2, <5>1 DEF FileInv, DumpsFollow
        <5>3. i - 1 \in 1 .. Len(file)
          BY <4>0, <5>1, <5>2
        <5>4. QED
          BY <2>6, <5>1, <5>2, <5>3
      <4>2. CASE ~ (i <= Len(file))
        <5>1. i = Len(file) + 1 /\ file'[i] = e
          BY <2>6, <4>0, <4>2
        <5>2. where[t] = "dump" /\ e = Log!Dump(t)
          BY <2>5, <3>2, <5>1
        <5>3. Len(file) > 0 /\ file[Len(file)] = Log!Line(t)
          BY <5>2 DEF FileInv, DumpsFollow
        <5>4. file'[i - 1] = Log!Line(t)
          BY <2>6, <4>0, <5>1, <5>3
        <5>5. Log!Line(t) = [ Log!Dump(t) EXCEPT !.what = "line" ]
          BY DEF Log!Line, Log!Dump
        <5>6. QED
          BY <4>0, <5>1, <5>2, <5>3, <5>4, <5>5
      <4>3. QED
        BY <4>1, <4>2
    <3>3. QED
      BY <3>1, <3>2 DEF DumpsFollow
  <2>11. QED
    BY <2>7, <2>9, <2>10 DEF FileInv
<1>8. ASSUME NEW t \in Loggers, Log!CloseAndDump(t) PROVE FileInv'
  <2>1. /\ where[t] = "close and dump" /\ opened' = opened \ { t } /\ Log!Goto(t, "dump")
        /\ UNCHANGED << g_dwLogCount, number, holding, file >>
    BY <1>8 DEF Log!CloseAndDump
  <2>2. LogTypes' /\ where'[t] = "dump" /\ \A u \in Loggers : u # t => where'[u] = where[u]
    BY <2>1, Moved DEF FileInv, LogTypes, Places
  <2>3. Writing'
    BY <2>1, <2>2 DEF FileInv, Writing, Inside
  <2>4. DumpsFollow'
    BY <2>1, <2>2 DEF FileInv, DumpsFollow, Log!Line
  <2>5. QED
    BY <2>2, <2>3, <2>4 DEF FileInv
<1>9. ASSUME NEW t \in Loggers, Log!Close(t) PROVE FileInv'
  <2> DEFINE w == IF report[t] THEN "number" ELSE "idle"
  <2>1. /\ where[t] = "close" /\ opened' = opened \ { t } /\ holding' = holding \ { t }
        /\ Log!Goto(t, w) /\ UNCHANGED << g_dwLogCount, number, file >>
    BY <1>9 DEF Log!Close
  <2>2. w \in { "number", "idle" }
    OBVIOUS
  <2> HIDE DEF w
  <2>3. LogTypes' /\ where'[t] = w /\ \A u \in Loggers : u # t => where'[u] = where[u]
    BY <2>1, <2>2, Moved DEF FileInv, LogTypes, Places
  <2>4. Writing'
    BY <2>1, <2>2, <2>3 DEF FileInv, Writing, Inside
  <2>5. DumpsFollow'
    BY <2>1, <2>2, <2>3 DEF FileInv, DumpsFollow, Log!Line
  <2>6. QED
    BY <2>3, <2>4, <2>5 DEF FileInv
<1>10. QED
  BY <1>1, <1>2, <1>3, <1>4, <1>5, <1>6, <1>7, <1>8, <1>9
  DEF Log!Next, Log!Step, Log!ChangeLevel, Log!vars

LEMMA LogCardinality == \A S : Log!Cardinality(S) = Cardinality(S)
BY DEF Log!Cardinality, Cardinality

LEMMA LogFileInv == Log!Spec => []FileInv
<1>1. Log!Init => FileInv
  <2> SUFFICES ASSUME Log!Init PROVE FileInv
    OBVIOUS
  <2>1. /\ where = [ t \in Loggers |-> "idle" ] /\ number = [ t \in Loggers |-> 0 ]
        /\ holding = {} /\ opened = {} /\ file = << >> /\ g_dwLogCount = 0
    BY DEF Log!Init
  <2>2. file \in Seq(Entries) /\ Len(file) = 0
    BY <2>1
  <2>3. LogTypes
    BY <2>1, <2>2, LogAssumption DEF LogTypes, Places
  <2>4. Writing
    BY <2>1 DEF Writing, Inside
  <2>5. DumpsFollow
    <3>1. \A t \in Loggers : ~ (where[t] \in { "close and dump", "dump" })
      BY <2>1
    <3>2. \A i \in 1 .. Len(file) : FALSE
      BY <2>2
    <3>3. QED
      BY <3>1, <3>2 DEF DumpsFollow
  <2>6. QED
    BY <2>3, <2>4, <2>5 DEF FileInv
<1>2. QED
  BY <1>1, FileStep, PTL DEF Log!Spec

(* Until g_dwLogCount comes round, a number that is taken is greater than  *)
(* those before it, and a line that is not written yet has one that no     *)
(* other line has or will have.                                            *)
Below ==
  /\ \A t \in Loggers : number[t] <= g_dwLogCount
  /\ \A i \in 1 .. Len(file) : file[i].number <= g_dwLogCount

Fresh ==
  /\ \A t \in Loggers : \A i \in 1 .. Len(file) : Pending(t) /\ file[i].what = "line" =>
       /\ file[i].number # number[t]
       /\ file[i].by = t => file[i].number < number[t]
  /\ \A t, u \in Loggers : Pending(t) /\ Pending(u) /\ number[t] = number[u] => t = u

Ordered ==
  \A i, j \in 1 .. Len(file) :
    i < j /\ file[i].what = "line" /\ file[j].what = "line" =>
      /\ file[i].number # file[j].number
      /\ file[i].by = file[j].by => file[i].number < file[j].number

NumberInv == Below /\ Fresh /\ Ordered

(* A step that takes no number and writes no line.                         *)
LEMMA NumbersStay ==
  ASSUME LogTypes, NumberInv, UNCHANGED << g_dwLogCount, number, file >>,
         \A t \in Loggers : Pending(t)' => Pending(t)
  PROVE  NumberInv'
<1>1. Below'
  BY DEF NumberInv, Below
<1>2. Fresh'
  BY DEF NumberInv, Fresh
<1>3. Ordered'
  BY DEF NumberInv, Ordered
<1>4. QED
  BY <1>1, <1>2, <1>3 DEF NumberInv

LEMMA NumberStep ==
  ASSUME FileInv, NumberInv, [Log!Next]_(Log!vars),
         [g_dwLogCount <= g_dwLogCount']_g_dwLogCount
  PROVE  NumberInv'
<1>0. LogTypes
  BY DEF FileInv
<1>1. CASE UNCHANGED << g_dwLogCount, where, number, file >>
  BY <1>0, <1>1, NumbersStay DEF Pending
<1>2. ASSUME NEW t \in Loggers, NEW w \in Places, Log!Goto(t, w),
             UNCHANGED << g_dwLogCount, number, file >>,
             w \in { "text", "lock", "line" } => Pending(t)
      PROVE  NumberInv'
  <2>1. ASSUME NEW u \in Loggers, Pending(u)' PROVE Pending(u)
    <3>1. where'[t] = w /\ (u # t => where'[u] = where[u])
      BY <1>0, <1>2, Moved
    <3>2. QED
      BY <1>2, <2>1, <3>1 DEF Pending
  <2>2. QED
    BY <1>0, <1>2, <2>1, NumbersStay
<1>3. ASSUME NEW t \in Loggers, Log!Log(t) PROVE NumberInv'
  <2>1. CASE UNCHANGED where
    BY <1>1, <1>3, <2>1 DEF Log!Log
  <2>2. CASE Log!Goto(t, "number")
    BY <1>2, <1>3, <2>2 DEF Log!Log, Places
  <2>3. QED
    BY <1>3, <2>1, <2>2 DEF Log!Log
<1>4. ASSUME NEW t \in Loggers, Log!TextFits(t) PROVE NumberInv'
  BY <1>2, <1>4 DEF Log!TextFits, Pending, Places
<1>5. ASSUME NEW t \in Loggers, Log!TextTooLong(t) PROVE NumberInv'
  BY <1>2, <1>5 DEF Log!TextTooLong, Places
<1>6. ASSUME NEW t \in Loggers, Log!Lock(t) PROVE NumberInv'
  BY <1>2, <1>6 DEF Log!Lock, Pending, Places
<1>7. ASSUME NEW t \in Loggers, Log!CloseAndDump(t) PROVE NumberInv'
  BY <1>2, <1>7 DEF Log!CloseAndDump, Places
<1>8. ASSUME NEW t \in Loggers, Log!Close(t) PROVE NumberInv'
  BY <1>2, <1>8 DEF Log!Close, Places
<1>9. ASSUME NEW t \in Loggers, Log!TakeNumber(t) PROVE NumberInv'
  <2>1. /\ number' = [ number EXCEPT ![t] = g_dwLogCount' ] /\ UNCHANGED file
        /\ g_dwLogCount' = (g_dwLogCount + 1) % Word
        /\ Log!Goto(t, "text")
    BY <1>9 DEF Log!TakeNumber
  <2>2. g_dwLogCount' = g_dwLogCount + 1
    <3>1. g_dwLogCount \in 0 .. Word - 1 /\ Word \in Nat \ { 0, 1 }
      BY <1>0, LogAssumption DEF LogTypes
    <3>2. CASE g_dwLogCount = Word - 1
      <4>1. g_dwLogCount' = 0
        BY <2>1, <3>1, <3>2
      <4>2. QED
        BY <3>1, <3>2, <4>1
    <3>3. CASE g_dwLogCount # Word - 1
      BY <2>1, <3>1, <3>3
    <3>4. QED
      BY <3>2, <3>3
  <2>3. /\ where'[t] = "text" /\ \A u \in Loggers : u # t => where'[u] = where[u]
    BY <1>0, <2>1, Moved DEF Places
  <2>4. /\ number'[t] = g_dwLogCount + 1
        /\ \A u \in Loggers : u # t => number'[u] = number[u]
    BY <1>0, <2>1, <2>2 DEF LogTypes
  <2>5. /\ \A u \in Loggers : number[u] \in Nat /\ number[u] <= g_dwLogCount
        /\ \A i \in 1 .. Len(file) : file[i].number \in Nat /\ file[i].number <= g_dwLogCount
        /\ g_dwLogCount \in Nat
    <3>1. \A i \in 1 .. Len(file) : file[i] \in Entries
      BY <1>0 DEF LogTypes
    <3>2. \A i \in 1 .. Len(file) : file[i].number \in Nat
      BY <3>1 DEF Entries
    <3>3. /\ \A u \in Loggers : number[u] <= g_dwLogCount
          /\ \A i \in 1 .. Len(file) : file[i].number <= g_dwLogCount
      BY DEF NumberInv, Below
    <3>4. g_dwLogCount \in Nat /\ \A u \in Loggers : number[u] \in Nat
      BY <1>0 DEF LogTypes
    <3>5. QED
      BY <3>2, <3>3, <3>4
  <2>6. Below'
    <3>1. ASSUME NEW u \in Loggers PROVE number'[u] <= g_dwLogCount'
      <4>1. CASE u = t
        BY <2>2, <2>4, <2>5, <4>1
      <4>2. CASE u # t
        BY <2>2, <2>4, <2>5, <4>2
      <4>3. QED
        BY <4>1, <4>2
    <3>2. \A i \in 1 .. Len(file) : file[i].number <= g_dwLogCount'
      BY <2>2, <2>5
    <3>3. QED
      BY <2>1, <3>1, <3>2 DEF Below
  <2>7. Fresh'
    <3>1. ASSUME NEW u \in Loggers, NEW i \in 1 .. Len(file), Pending(u)', file[i].what = "line"
          PROVE  file[i].number # number'[u] /\ (file[i].by = u => file[i].number < number'[u])
      <4>1. CASE u = t
        BY <2>4, <2>5, <4>1
      <4>2. CASE u # t
        <5>1. Pending(u) /\ number'[u] = number[u]
          BY <2>3, <2>4, <3>1, <4>2 DEF Pending
        <5>2. QED
          BY <3>1, <5>1 DEF NumberInv, Fresh
      <4>3. QED
        BY <4>1, <4>2
    <3>2. ASSUME NEW u \in Loggers, NEW v \in Loggers, Pending(u)', Pending(v)',
                 number'[u] = number'[v]
          PROVE  u = v
      <4>1. CASE u = t /\ v # t
        BY <2>4, <2>5, <3>2, <4>1
      <4>2. CASE v = t /\ u # t
        BY <2>4, <2>5, <3>2, <4>2
      <4>3. CASE u # t /\ v # t
        <5>1. Pending(u) /\ Pending(v) /\ number[u] = number[v]
          BY <2>3, <2>4, <3>2, <4>3 DEF Pending
        <5>2. QED
          BY <5>1 DEF NumberInv, Fresh
      <4>4. QED
        BY <4>1, <4>2, <4>3
    <3>3. QED
      BY <2>1, <3>1, <3>2 DEF Fresh
  <2>8. Ordered'
    BY <2>1 DEF NumberInv, Ordered
  <2>9. QED
    BY <2>6, <2>7, <2>8 DEF NumberInv
<1>10. ASSUME NEW t \in Loggers, Log!Write(t) PROVE NumberInv'
  <2> DEFINE e == IF where[t] = "line" THEN Log!Line(t) ELSE Log!Dump(t)
             w == IF where[t] = "line" /\ call[t].dump /\ ~ report[t]
                    THEN "close and dump" ELSE "close"
             n == Len(file)
  <2>1. /\ where[t] \in { "line", "dump" } /\ file' = Append(file, e) /\ Log!Goto(t, w)
        /\ UNCHANGED << g_dwLogCount, number >>
    BY <1>10 DEF Log!Write
  <2>2. w \in { "close and dump", "close" }
    OBVIOUS
  <2>3. e \in Entries /\ e.by = t /\ e.number = number[t] /\ (e.what = "line" => Pending(t))
    <3>1. CASE where[t] = "line"
      BY <1>0, <3>1 DEF LogTypes, Entries, Log!Line, Pending
    <3>2. CASE where[t] # "line"
      BY <1>0, <3>2 DEF LogTypes, Entries, Log!Dump
    <3>3. QED
      BY <3>1, <3>2
  <2> HIDE DEF e, w
  <2>4. /\ file' \in Seq(Entries) /\ Len(file') = n + 1 /\ file'[n + 1] = e
        /\ \A i \in 1 .. n : file'[i] = file[i]
        /\ n \in Nat
    BY <1>0, <2>1, <2>3, Added DEF LogTypes
  <2> HIDE DEF n
  <2>5. \A i \in 1 .. Len(file') : (i \in 1 .. n /\ file'[i] = file[i]) \/ (i = n + 1 /\ file'[i] = e)
    BY <2>4
  <2>6. \A u \in Loggers : Pending(u)' => u # t /\ Pending(u)
    <3>1. w \in Places
      BY <2>2 DEF Places
    <3>2. where'[t] = w /\ \A u \in Loggers : u # t => where'[u] = where[u]
      BY <1>0, <2>1, <3>1, Moved
    <3>3. QED
      BY <2>2, <3>2 DEF Pending
  <2>7. Below'
    <3>1. ASSUME NEW i \in 1 .. Len(file') PROVE file'[i].number <= g_dwLogCount
      <4>1. CASE i \in 1 .. n /\ file'[i] = file[i]
        BY <4>1 DEF NumberInv, Below, n
      <4>2. CASE i = n + 1 /\ file'[i] = e
        BY <2>3, <4>2 DEF NumberInv, Below
      <4>3. QED
        BY <2>5, <4>1, <4>2
    <3>2. QED
      BY <2>1, <3>1 DEF NumberInv, Below
  <2>8. Fresh'
    <3>1. ASSUME NEW u \in Loggers, NEW i \in 1 .. Len(file'), Pending(u)',
                 file'[i].what = "line"
          PROVE  file'[i].number # number[u] /\ (file'[i].by = u => file'[i].number < number[u])
      <4>0. u # t /\ Pending(u)
        BY <2>6, <3>1
      <4>1. CASE i \in 1 .. n /\ file'[i] = file[i]
        BY <3>1, <4>0, <4>1 DEF NumberInv, Fresh, n
      <4>2. CASE i = n + 1 /\ file'[i] = e
        BY <2>3, <3>1, <4>0, <4>2 DEF NumberInv, Fresh
      <4>3. QED
        BY <2>5, <4>1, <4>2
    <3>2. \A u, v \in Loggers : Pending(u)' /\ Pending(v)' /\ number'[u] = number'[v] => u = v
      BY <2>1, <2>6 DEF NumberInv, Fresh
    <3>3. QED
      BY <2>1, <3>1, <3>2 DEF Fresh
  <2>9. Ordered'
    <3>1. ASSUME NEW i \in 1 .. Len(file'), NEW j \in 1 .. Len(file'), i < j,
                 file'[i].what = "line", file'[j].what = "line"
          PROVE  /\ file'[i].number # file'[j].number
                 /\ file'[i].by = file'[j].by => file'[i].number < file'[j].number
      <4>0. i \in 1 .. n /\ file'[i] = file[i]
        BY <2>4, <2>5, <3>1
      <4>1. CASE j \in 1 .. n /\ file'[j] = file[j]
        BY <3>1, <4>0, <4>1 DEF NumberInv, Ordered, n
      <4>2. CASE j = n + 1 /\ file'[j] = e
        <5>1. file[i].what = "line" /\ Pending(t)
          BY <2>3, <3>1, <4>0, <4>2
        <5>2. /\ file[i].number # number[t]
              /\ file[i].by = t => file[i].number < number[t]
          BY <4>0, <5>1 DEF NumberInv, Fresh, n
        <5>3. QED
          BY <2>3, <4>0, <4>2, <5>2
      <4>3. QED
        BY <2>5, <4>1, <4>2
    <3>2. QED
      BY <3>1 DEF Ordered
  <2>10. QED
    BY <2>7, <2>8, <2>9 DEF NumberInv
<1>11. QED
  BY <1>1, <1>3, <1>4, <1>5, <1>6, <1>7, <1>8, <1>9, <1>10
  DEF Log!Next, Log!Step, Log!ChangeLevel, Log!vars

(* Logger: the file is one thread's at a time and a dump follows its line  *)
(* always; the numbers tell the order of the lines until g_dwLogCount      *)
(* comes round.                                                            *)
THEOREM LinesAreInOrder ==
  Log!Spec /\ [][g_dwLogCount <= g_dwLogCount']_g_dwLogCount => []LinesInOrder
<1>1. Log!Init => NumberInv
  <2> SUFFICES ASSUME Log!Init PROVE NumberInv
    OBVIOUS
  <2>1. /\ where = [ t \in Loggers |-> "idle" ] /\ number = [ t \in Loggers |-> 0 ]
        /\ file = << >> /\ g_dwLogCount = 0
    BY DEF Log!Init
  <2>2. \A i \in 1 .. Len(file) : FALSE
    BY <2>1
  <2>3. \A t \in Loggers : ~ Pending(t) /\ number[t] = 0
    BY <2>1 DEF Pending
  <2>4. QED
    BY <2>1, <2>2, <2>3 DEF NumberInv, Below, Fresh, Ordered
<1>2. FileInv /\ NumberInv => LinesInOrder
  <2> SUFFICES ASSUME FileInv, NumberInv PROVE LinesInOrder
    OBVIOUS
  <2>1. DOMAIN file = 1 .. Len(file)
    BY DEF FileInv, LogTypes
  <2>2. Log!NumbersTellOrder
    BY <2>1 DEF NumberInv, Ordered, Log!NumbersTellOrder
  <2>3. Log!Cardinality(opened) <= 1
    <3>1. CASE opened = {}
      BY <3>1, LogCardinality, FS_EmptySet
    <3>2. CASE opened # {}
      <4>1. PICK t \in opened : TRUE
        BY <3>2
      <4>2. opened = { t }
        BY <4>1 DEF FileInv, Writing, Inside
      <4>3. QED
        <5>1. Cardinality({ t }) = 1
          BY FS_Singleton
        <5>2. Log!Cardinality(opened) = 1
          BY <4>2, <5>1, LogCardinality
        <5>3. QED
          BY <5>2
    <3>3. QED
      BY <3>1, <3>2
  <2>4. Log!FileTaken
    BY <2>1, <2>3 DEF FileInv, DumpsFollow, Log!FileTaken
  <2>5. QED
    BY <2>2, <2>4 DEF LinesInOrder
<1>3. QED
  BY <1>1, <1>2, LogFileInv, NumberStep, PTL DEF Log!Spec

-----------------------------------------------------------------------------
(* MemoryPool *)

LEMMA NatOrder ==
  \E R : IsWellFoundedOn(R, Nat) /\ \A m, n \in Nat : << m, n >> \in R <=> m < n
<1> DEFINE R == OpToRel(<, Nat)
<1>1. IsWellFoundedOn(R, Nat)
  BY NatLessThanWellFounded
<1>2. \A m, n \in Nat : << m, n >> \in R <=> m < n
  BY DEF OpToRel
<1> HIDE DEF R
<1>3. QED
  BY <1>1, <1>2, Zenon

(* A set of numbers that is not empty has a least element: what holds up   *)
(* to a number and not for it cannot be.                                   *)
LEMMA LeastNumber ==
  ASSUME NEW T \in SUBSET Nat, T # {}
  PROVE  \E n \in T : \A m \in T : n <= m
<1>1. PICK R : IsWellFoundedOn(R, Nat) /\ \A m, n \in Nat : << m, n >> \in R <=> m < n
  BY NatOrder
<1>2. IsWellFoundedOn(R, Nat) /\ T \subseteq Nat /\ T # {}
  BY <1>1
<1>3. PICK n \in T : \A m \in T : ~ (<< m, n >> \in R)
  BY <1>2, WFMin
<1>4. ASSUME NEW m \in T PROVE n <= m
  <2>1. m \in Nat /\ n \in Nat
    OBVIOUS
  <2>2. ~ (m < n)
    BY <1>1, <1>3, <2>1
  <2>3. QED
    BY <2>1, <2>2
<1>5. QED
  BY <1>4

(* The block that the i-th of a list of blocks has to point to.            *)
Pointer(s, i) == IF i <= m_iCapacity THEN s[i] ELSE Pool!NULL

(* The blocks in the order of the free list.                               *)
Chained(s) ==
  /\ s \in [ 1 .. m_iCapacity -> Blocks ]
  /\ \A i, j \in 1 .. m_iCapacity : s[i] = s[j] => i = j
  /\ pFreeNode = Pointer(s, 1)
  /\ \A i \in 1 .. m_iCapacity : pNext[s[i]] = Pointer(s, i + 1)

OnList(s) == { s[i] : i \in 1 .. m_iCapacity }

LEMMA PoolCardinality == \A S : Pool!Cardinality(S) = Cardinality(S)
BY DEF Pool!Cardinality, Cardinality

(* No block twice, and no more than there are.                             *)
LEMMA ListLength ==
  ASSUME m_iCapacity \in Nat, NEW s, Chained(s)
  PROVE  /\ m_iCapacity <= Cardinality(Blocks) /\ Cardinality(Blocks) \in Nat
         /\ IsFiniteSet(OnList(s)) /\ Cardinality(OnList(s)) = m_iCapacity
<1>1. IsFiniteSet(Blocks) /\ Cardinality(Blocks) \in Nat
  BY PoolAssumption, FS_CardinalityType
<1>2. IsFiniteSet(1 .. m_iCapacity) /\ Cardinality(1 .. m_iCapacity) = m_iCapacity
  BY FS_Interval
<1>3. s \in Injection(1 .. m_iCapacity, Blocks)
  BY DEF Chained, Injection, IsInjective
<1>4. m_iCapacity <= Cardinality(Blocks)
  BY <1>1, <1>2, <1>3, FS_Injection
<1>5. s \in Bijection(1 .. m_iCapacity, OnList(s))
  BY DEF Chained, OnList, Bijection, Injection, IsInjective, Surjection
<1>6. ExistsBijection(1 .. m_iCapacity, OnList(s))
  BY <1>5 DEF ExistsBijection
<1>7. IsFiniteSet(OnList(s)) /\ Cardinality(OnList(s)) = Cardinality(1 .. m_iCapacity)
  BY <1>2, <1>6, FS_Bijection
<1>8. QED
  BY <1>1, <1>2, <1>4, <1>7

LEMMA FreeListIs ==
  ASSUME m_iCapacity \in Nat, NEW s, Chained(s)
  PROVE  Pool!FreeList = OnList(s)
<1> DEFINE N == Cardinality(Blocks)
           C == [ i \in 0 .. N |-> Pointer(s, i + 1) ]
           follows(f) == f = [ i \in 0 .. N |->
                                 IF i = 0 THEN pFreeNode
                                 ELSE IF f[i - 1] = Pool!NULL THEN Pool!NULL
                                      ELSE pNext[f[i - 1]] ]
<1>1. N \in Nat /\ m_iCapacity <= N
  BY ListLength
<1>2. Pool!Cardinality(Blocks) = N
  BY PoolCardinality
<1>3. follows(C)
  <2> DEFINE rhs(i) == IF i = 0 THEN pFreeNode
                       ELSE IF C[i - 1] = Pool!NULL THEN Pool!NULL ELSE pNext[C[i - 1]]
  <2>1. ASSUME NEW i \in 0 .. N PROVE Pointer(s, i + 1) = rhs(i)
    <3>1. CASE i = 0
      BY <3>1 DEF Chained
    <3>2. CASE i # 0
      <4>1. i - 1 \in 0 .. N /\ i - 1 + 1 = i /\ C[i - 1] = Pointer(s, i)
        BY <1>1, <3>2
      <4> HIDE DEF C
      <4>2. CASE i <= m_iCapacity
        <5>1. i \in 1 .. m_iCapacity
          BY <3>2, <4>2
        <5>2. C[i - 1] = s[i] /\ s[i] # Pool!NULL
          BY <4>1, <5>1, PoolAssumption DEF Pointer, Chained, Pool!NULL
        <5>3. pNext[s[i]] = Pointer(s, i + 1)
          BY <5>1 DEF Chained
        <5>4. QED
          BY <3>2, <5>2, <5>3
      <4>3. CASE ~ (i <= m_iCapacity)
        <5>1. C[i - 1] = Pool!NULL /\ Pointer(s, i + 1) = Pool!NULL
          BY <4>1, <4>3 DEF Pointer
        <5>2. QED
          BY <3>2, <5>1
      <4>4. QED
        BY <4>2, <4>3
    <3>3. QED
      BY <3>1, <3>2
  <2>2. QED
    BY <2>1
<1>4. ASSUME NEW f, follows(f) PROVE f = C
  <2>1. f = [ i \in 0 .. N |-> f[i] ] /\ C = [ i \in 0 .. N |-> C[i] ]
    <3> DEFINE g == [ i \in 0 .. N |-> IF i = 0 THEN pFreeNode
                                       ELSE IF f[i - 1] = Pool!NULL THEN Pool!NULL
                                            ELSE pNext[f[i - 1]] ]
    <3>1. g = [ i \in 0 .. N |-> g[i] ]
      OBVIOUS
    <3>2. f = g
      BY <1>4
    <3> HIDE DEF g
    <3>3. f = [ i \in 0 .. N |-> f[i] ]
      BY <3>1, <3>2
    <3>4. QED
      BY <3>3
  <2>2. f[0] = C[0]
    <3>1. 0 \in 0 .. N
      BY <1>1
    <3>2. f[0] = pFreeNode
      BY <1>4, <3>1
    <3>3. C[0] = pFreeNode
      BY <1>3, <3>1
    <3>4. QED
      BY <3>2, <3>3
  <2>3. ASSUME NEW i \in 0 .. N, i # 0, f[i - 1] = C[i - 1] PROVE f[i] = C[i]
    <3>1. f[i] = IF f[i - 1] = Pool!NULL THEN Pool!NULL ELSE pNext[f[i - 1]]
      BY <1>4, <2>3
    <3>2. C[i] = IF C[i - 1] = Pool!NULL THEN Pool!NULL ELSE pNext[C[i - 1]]
      BY <1>3, <2>3
    <3> HIDE DEF C
    <3>3. QED
      BY <2>3, <3>1, <3>2
  <2> HIDE DEF C
  <2>4. \A i \in 0 .. N : f[i] = C[i]
    <3> DEFINE wrong == { i \in 0 .. N : f[i] # C[i] }
    <3>1. SUFFICES ASSUME wrong # {} PROVE FALSE
      OBVIOUS
    <3>2. wrong \in SUBSET Nat
      BY <1>1
    <3>3. PICK i \in wrong : \A j \in wrong : i <= j
      BY <3>1, <3>2, LeastNumber
    <3>4. i \in 0 .. N /\ f[i] # C[i] /\ i # 0
      BY <2>2, <3>3
    <3>5. i - 1 \in 0 .. N /\ ~ (i <= i - 1)
      BY <1>1, <3>4
    <3>6. f[i - 1] = C[i - 1]
      BY <3>3, <3>5
    <3>7. QED
      BY <2>3, <3>4, <3>6
  <2>5. QED
    BY <2>1, <2>4
<1> DEFINE chain == CHOOSE f : follows(f)
<1>5. Pool!FreeList = { chain[i] : i \in 0 .. N } \ { Pool!NULL }
  BY <1>2 DEF Pool!FreeList
<1>6. chain = C
  <2>1. follows(chain)
    BY <1>3, Zenon
  <2> HIDE DEF chain
  <2>2. QED
    BY <1>4, <2>1
<1>7. Pool!FreeList = { C[i] : i \in 0 .. N } \ { Pool!NULL }
  <2> HIDE DEF chain, C
  <2>1. QED
    BY <1>5, <1>6
<1>8. ASSUME NEW b PROVE b \in Pool!FreeList <=> b \in OnList(s)
  <2>1. ASSUME b \in Pool!FreeList PROVE b \in OnList(s)
    <3>1. PICK i \in 0 .. N : b = Pointer(s, i + 1) /\ b # Pool!NULL
      BY <1>7, <2>1
    <3>2. i + 1 \in 1 .. m_iCapacity
      BY <3>1 DEF Pointer
    <3>3. b = s[i + 1]
      BY <3>1, <3>2 DEF Pointer
    <3>4. QED
      BY <3>2, <3>3 DEF OnList
  <2>2. ASSUME b \in OnList(s) PROVE b \in Pool!FreeList
    <3>1. PICK i \in 1 .. m_iCapacity : b = s[i]
      BY <2>2 DEF OnList
    <3>2. i - 1 \in 0 .. N /\ i - 1 + 1 = i
      BY <1>1, <3>1
    <3>3. C[i - 1] = b
      BY <3>1, <3>2 DEF Pointer
    <3>4. b # Pool!NULL
      BY <3>1, PoolAssumption DEF Chained, Pool!NULL
    <3> HIDE DEF C
    <3>5. QED
      BY <1>7, <3>2, <3>3, <3>4
  <2>3. QED
    BY <2>1, <2>2
<1>9. QED
  BY <1>8

PoolTypes ==
  /\ pNext \in [ Blocks -> Blocks \cup { Pool!NULL } ]
  /\ m_iCapacity \in Nat
  /\ pc \in [ Threads -> { "out", "alloc", "unlink", "take", "free" } ]
  /\ pnode \in [ Threads -> Blocks \cup { Pool!NULL } ]
  /\ held \in [ Threads -> SUBSET Blocks ]
  /\ made \subseteq Blocks

(* Who is inside has the lock, and has the block at the head in hand.      *)
InLock ==
  /\ \A t \in Threads : pc[t] # "out" => lock = t
  /\ \A t \in Threads : pc[t] \in { "unlink", "take", "free" } => pnode[t] \in Blocks
  /\ \A t \in Threads : pc[t] = "unlink" => pnode[t] = pFreeNode

HeldApart == \A t, u \in Threads : t # u => held[t] \cap held[u] = {}

(* A block that goes back is no longer held and still counted as used.     *)
Used ==
  /\ (\A t \in Threads : pc[t] # "free") => m_iUseCount = Cardinality(Pool!AllHeld)
  /\ (\E t \in Threads : pc[t] = "free") => m_iUseCount = Cardinality(Pool!AllHeld) + 1

(* Every block is on the list s, held, or on its way.                      *)
Placed(s) ==
  /\ made = OnList(s) \cup Pool!AllHeld \cup Pool!InFlight
  /\ OnList(s) \cap (Pool!AllHeld \cup Pool!InFlight) = {}
  /\ Pool!AllHeld \cap Pool!InFlight = {}

PoolInv ==
  /\ PoolTypes /\ InLock /\ HeldApart /\ Used
  /\ \E s : Chained(s) /\ Placed(s)

LEMMA PoolCounts == PoolInv => PoolExact
<1> SUFFICES ASSUME PoolInv PROVE PoolExact
  OBVIOUS
<1>1. PICK s : Chained(s) /\ Placed(s)
  BY DEF PoolInv
<1>2. m_iCapacity \in Nat
  BY DEF PoolInv, PoolTypes
<1>3. Pool!FreeList = OnList(s) /\ Cardinality(OnList(s)) = m_iCapacity
  BY <1>1, <1>2, FreeListIs, ListLength
<1>4. Pool!BlocksInOnePlace
  BY <1>1, <1>3 DEF Placed, PoolInv, HeldApart, Pool!BlocksInOnePlace
<1>5. Pool!CountsExact
  BY <1>3, PoolCardinality DEF PoolInv, Used, Pool!CountsExact
<1>6. QED
  BY <1>4, <1>5 DEF PoolExact

(* The blocks on their way, when one thread at most is inside.             *)
LEMMA Flight ==
  ASSUME NEW p, NEW n, NEW t \in Threads, \A u \in Threads : u # t => p[u] = "out"
  PROVE  /\ p[t] \in { "take", "free" } =>
              { n[u] : u \in { v \in Threads : p[v] \in { "take", "free" } } } = { n[t] }
         /\ p[t] \notin { "take", "free" } =>
              { n[u] : u \in { v \in Threads : p[v] \in { "take", "free" } } } = {}
<1>1. CASE p[t] \in { "take", "free" }
  <2>1. { v \in Threads : p[v] \in { "take", "free" } } = { t }
    BY <1>1
  <2>2. QED
    BY <1>1, <2>1
<1>2. CASE p[t] \notin { "take", "free" }
  <2>1. { v \in Threads : p[v] \in { "take", "free" } } = {}
    BY <1>2
  <2>2. QED
    BY <1>2, <2>1
<1>3. QED
  BY <1>1, <1>2

LEMMA Alone ==
  ASSUME PoolInv, NEW t \in Threads, pc[t] # "out"
  PROVE  /\ lock = t
         /\ \A u \in Threads : u # t => pc[u] = "out"
         /\ pc[t] \in { "take", "free" } => Pool!InFlight = { pnode[t] }
         /\ pc[t] \notin { "take", "free" } => Pool!InFlight = {}
<1>1. lock = t /\ \A u \in Threads : u # t => pc[u] = "out"
  BY DEF PoolInv, InLock
<1>2. QED
  BY <1>1, Flight DEF Pool!InFlight

LEMMA NobodyInside ==
  ASSUME PoolInv, lock = Pool!NULL
  PROVE  (\A u \in Threads : pc[u] = "out") /\ Pool!InFlight = {}
<1>1. \A u \in Threads : pc[u] = "out"
  BY PoolAssumption DEF PoolInv, InLock, Pool!NULL
<1>2. QED
  BY <1>1 DEF Pool!InFlight

LEMMA HeldFinite ==
  ASSUME PoolInv
  PROVE  /\ Pool!AllHeld \subseteq Blocks /\ IsFiniteSet(Pool!AllHeld)
         /\ Cardinality(Pool!AllHeld) \in Nat
<1>1. Pool!AllHeld \subseteq Blocks
  BY DEF Pool!AllHeld, PoolInv, PoolTypes
<1>2. IsFiniteSet(Pool!AllHeld)
  BY <1>1, PoolAssumption, FS_Subset
<1>3. QED
  BY <1>1, <1>2, FS_CardinalityType

LEMMA EnterStep ==
  ASSUME PoolInv, NEW t \in Threads, Pool!AllocEnter(t)
  PROVE  PoolInv'
<1>1. /\ lock = Pool!NULL /\ lock' = t /\ pc' = [ pc EXCEPT ![t] = "alloc" ]
      /\ UNCHANGED << pNext, pFreeNode, m_iCapacity, m_iUseCount, made, pnode, held >>
  BY DEF Pool!AllocEnter, Pool!Acquire, Pool!poolvars
<1>2. (\A u \in Threads : pc[u] = "out") /\ Pool!InFlight = {}
  BY <1>1, NobodyInside
<1>3. pc'[t] = "alloc" /\ \A u \in Threads : u # t => pc'[u] = "out"
  BY <1>1, <1>2 DEF PoolInv, PoolTypes
<1>4. Pool!InFlight' = {}
  BY <1>3, Flight DEF Pool!InFlight
<1>5. Pool!AllHeld' = Pool!AllHeld
  BY <1>1 DEF Pool!AllHeld
<1>6. PoolTypes' /\ HeldApart'
  BY <1>1 DEF PoolInv, PoolTypes, HeldApart
<1>7. InLock'
  BY <1>1, <1>3 DEF InLock
<1>8. Used'
  BY <1>1, <1>2, <1>3, <1>5 DEF PoolInv, Used
<1>9. \E s : Chained(s)' /\ Placed(s)'
  <2>1. PICK s : Chained(s) /\ Placed(s)
    BY DEF PoolInv
  <2>2. Chained(s)' /\ Placed(s)'
    BY <1>1, <1>2, <1>4, <1>5, <2>1 DEF Chained, Placed, Pointer, OnList
  <2>3. QED
    BY <2>2
<1>10. QED
  BY <1>6, <1>7, <1>8, <1>9 DEF PoolInv

LEMMA NewStep ==
  ASSUME PoolInv, NEW t \in Threads, Pool!AllocNew(t)
  PROVE  PoolInv'
<1>1. PICK b \in Blocks \ made :
        /\ pc[t] = "alloc" /\ pc' = [ pc EXCEPT ![t] = "take" ]
        /\ made' = made \cup { b } /\ pnode' = [ pnode EXCEPT ![t] = b ]
        /\ UNCHANGED << pNext, pFreeNode, m_iCapacity, m_iUseCount, lock, held >>
  BY DEF Pool!AllocNew
<1>2. /\ lock = t /\ \A u \in Threads : u # t => pc[u] = "out"
      /\ Pool!InFlight = {}
  BY <1>1, Alone
<1>3. /\ pc'[t] = "take" /\ \A u \in Threads : u # t => pc'[u] = "out"
      /\ pnode'[t] = b /\ t \in Threads
  BY <1>1, <1>2 DEF PoolInv, PoolTypes
<1>4. Pool!InFlight' = { b }
  BY <1>3, Flight DEF Pool!InFlight
<1>5. Pool!AllHeld' = Pool!AllHeld
  BY <1>1 DEF Pool!AllHeld
<1>6. PoolTypes' /\ HeldApart'
  BY <1>1 DEF PoolInv, PoolTypes, HeldApart
<1>7. InLock'
  BY <1>1, <1>2, <1>3 DEF InLock
<1>8. Used'
  BY <1>1, <1>2, <1>3, <1>5 DEF PoolInv, Used
<1>9. \E s : Chained(s)' /\ Placed(s)'
  <2>1. PICK s : Chained(s) /\ Placed(s)
    BY DEF PoolInv
  <2>2. Chained(s)' /\ OnList(s)' = OnList(s)
    BY <1>1, <2>1 DEF Chained, Pointer, OnList
  <2>3. Placed(s)'
    BY <1>1, <1>2, <1>4, <1>5, <2>1, <2>2 DEF Placed
  <2>4. QED
    BY <2>2, <2>3
<1>10. QED
  BY <1>6, <1>7, <1>8, <1>9 DEF PoolInv

LEMMA HeadStep ==
  ASSUME PoolInv, NEW t \in Threads, Pool!AllocHead(t)
  PROVE  PoolInv'
<1>1. /\ pc[t] = "alloc" /\ pc' = [ pc EXCEPT ![t] = "unlink" ] /\ m_iCapacity # 0
      /\ pnode' = [ pnode EXCEPT ![t] = pFreeNode ]
      /\ UNCHANGED << pNext, pFreeNode, m_iCapacity, m_iUseCount, made, lock, held >>
  BY DEF Pool!AllocHead, Pool!poolvars
<1>2. /\ lock = t /\ \A u \in Threads : u # t => pc[u] = "out"
      /\ Pool!InFlight = {}
  BY <1>1, Alone
<1>3. PICK s : Chained(s) /\ Placed(s)
  BY DEF PoolInv
<1>4. pFreeNode \in Blocks
  <2>1. 1 \in 1 .. m_iCapacity
    BY <1>1 DEF PoolInv, PoolTypes
  <2>2. QED
    BY <1>3, <2>1 DEF Chained, Pointer
<1>5. /\ pc'[t] = "unlink" /\ \A u \in Threads : u # t => pc'[u] = "out"
      /\ pnode'[t] = pFreeNode
  BY <1>1, <1>2 DEF PoolInv, PoolTypes
<1>6. Pool!InFlight' = {}
  BY <1>5, Flight DEF Pool!InFlight
<1>7. Pool!AllHeld' = Pool!AllHeld
  BY <1>1 DEF Pool!AllHeld
<1>8. PoolTypes' /\ HeldApart'
  BY <1>1, <1>4 DEF PoolInv, PoolTypes, HeldApart
<1>9. InLock'
  BY <1>1, <1>2, <1>4, <1>5 DEF InLock
<1>10. Used'
  BY <1>1, <1>2, <1>5, <1>7 DEF PoolInv, Used
<1>11. Chained(s)' /\ Placed(s)'
  BY <1>1, <1>2, <1>3, <1>6, <1>7 DEF Chained, Placed, Pointer, OnList
<1>12. QED
  BY <1>8, <1>9, <1>10, <1>11 DEF PoolInv

LEMMA UnlinkStep ==
  ASSUME PoolInv, NEW t \in Threads, Pool!AllocUnlink(t)
  PROVE  PoolInv'
<1>1. /\ pc[t] = "unlink" /\ pc' = [ pc EXCEPT ![t] = "take" ]
      /\ pFreeNode' = pNext[pnode[t]] /\ m_iCapacity' = m_iCapacity - 1
      /\ UNCHANGED << pNext, m_iUseCount, made, lock, pnode, held >>
  BY DEF Pool!AllocUnlink
<1>2. /\ lock = t /\ \A u \in Threads : u # t => pc[u] = "out"
      /\ Pool!InFlight = {}
  BY <1>1, Alone
<1>3. PICK s : Chained(s) /\ Placed(s)
  BY DEF PoolInv
<1>4. PICK n : n = m_iCapacity
  OBVIOUS
<1>5. n \in Nat /\ 1 \in 1 .. n /\ pnode[t] = s[1]
  <2>1. pnode[t] \in Blocks /\ pnode[t] = pFreeNode /\ n \in Nat
    BY <1>1, <1>4 DEF PoolInv, PoolTypes, InLock
  <2>2. 1 <= n
    BY <1>3, <1>4, <2>1, PoolAssumption DEF Chained, Pointer, Pool!NULL
  <2>3. QED
    BY <1>3, <1>4, <2>1, <2>2 DEF Chained, Pointer
<1>6. m_iCapacity' = n - 1 /\ n - 1 \in Nat
  BY <1>1, <1>4, <1>5
<1>7. PICK r : r = [ i \in 1 .. n - 1 |-> s[i + 1] ]
  OBVIOUS
<1>8. /\ s \in [ 1 .. n -> Blocks ]
      /\ \A i, j \in 1 .. n : s[i] = s[j] => i = j
      /\ \A i \in 1 .. n : pNext[s[i]] = IF i + 1 <= n THEN s[i + 1] ELSE Pool!NULL
  BY <1>3, <1>4 DEF Chained, Pointer
<1>9. \A i \in 1 .. n - 1 : i + 1 \in 1 .. n /\ r[i] = s[i + 1]
  BY <1>5, <1>7
<1>10. Chained(r)'
  <2>1. r \in [ 1 .. n - 1 -> Blocks ]
    BY <1>7, <1>8, <1>9
  <2>2. \A i, j \in 1 .. n - 1 : r[i] = r[j] => i = j
    BY <1>8, <1>9, <1>5
  <2>3. pFreeNode' = IF 1 <= n - 1 THEN r[1] ELSE Pool!NULL
    <3>1. pFreeNode' = IF 1 + 1 <= n THEN s[1 + 1] ELSE Pool!NULL
      BY <1>1, <1>5, <1>8
    <3>2. QED
      BY <1>5, <1>9, <3>1
  <2>4. ASSUME NEW i \in 1 .. n - 1
        PROVE  pNext[r[i]] = IF i + 1 <= n - 1 THEN r[i + 1] ELSE Pool!NULL
    <3>1. i + 1 \in 1 .. n /\ r[i] = s[i + 1]
      BY <1>9
    <3>2. pNext[r[i]] = IF i + 1 + 1 <= n THEN s[i + 1 + 1] ELSE Pool!NULL
      BY <1>8, <3>1
    <3>3. CASE i + 1 <= n - 1
      <4>1. i + 1 \in 1 .. n - 1 /\ i + 1 + 1 <= n
        BY <1>5, <3>3
      <4>2. r[i + 1] = s[i + 1 + 1]
        BY <1>9, <4>1
      <4>3. QED
        BY <3>2, <3>3, <4>1, <4>2
    <3>4. CASE ~ (i + 1 <= n - 1)
      <4>1. ~ (i + 1 + 1 <= n)
        BY <1>5, <3>4
      <4>2. QED
        BY <3>2, <3>4, <4>1
    <3>5. QED
      BY <3>3, <3>4
  <2>5. QED
    BY <1>1, <1>6, <2>1, <2>2, <2>3, <2>4 DEF Chained, Pointer
<1>11. OnList(s) = OnList(r)' \cup { s[1] } /\ s[1] \notin OnList(r)'
  <2>1. OnList(s) = { s[i] : i \in 1 .. n } /\ OnList(r)' = { r[i] : i \in 1 .. n - 1 }
    BY <1>4, <1>6 DEF OnList
  <2>2. ASSUME NEW i \in 1 .. n PROVE s[i] \in { r[j] : j \in 1 .. n - 1 } \cup { s[1] }
    <3>1. CASE i = 1
      BY <3>1
    <3>2. CASE i # 1
      <4>1. i - 1 \in 1 .. n - 1 /\ i - 1 + 1 = i
        BY <1>5, <3>2
      <4>2. r[i - 1] = s[i]
        BY <1>9, <4>1
      <4>3. QED
        BY <4>1, <4>2
    <3>3. QED
      BY <3>1, <3>2
  <2>3. ASSUME NEW i \in 1 .. n - 1 PROVE r[i] \in { s[j] : j \in 1 .. n } /\ r[i] # s[1]
    <3>1. i + 1 \in 1 .. n /\ i + 1 # 1 /\ r[i] = s[i + 1]
      BY <1>9, <1>5
    <3>2. QED
      BY <1>5, <1>8, <3>1
  <2>4. s[1] \in { s[j] : j \in 1 .. n }
    BY <1>5
  <2>5. QED
    BY <2>1, <2>2, <2>3, <2>4
<1>12. /\ pc'[t] = "take" /\ \A u \in Threads : u # t => pc'[u] = "out"
       /\ pnode'[t] = s[1] /\ s[1] \in Blocks
  BY <1>1, <1>2, <1>5, <1>8 DEF PoolInv, PoolTypes
<1>13. Pool!InFlight' = { s[1] }
  BY <1>12, Flight DEF Pool!InFlight
<1>14. Pool!AllHeld' = Pool!AllHeld
  BY <1>1 DEF Pool!AllHeld
<1>15. PoolTypes' /\ HeldApart'
  BY <1>1, <1>6 DEF PoolInv, PoolTypes, HeldApart
<1>16. InLock'
  BY <1>1, <1>2, <1>12 DEF InLock
<1>17. Used'
  BY <1>1, <1>2, <1>12, <1>14 DEF PoolInv, Used
<1>18. Placed(r)'
  BY <1>1, <1>2, <1>3, <1>11, <1>13, <1>14 DEF Placed
<1>19. QED
  BY <1>10, <1>15, <1>16, <1>17, <1>18 DEF PoolInv

(* What is held when one thread gets a block, or gives one away.           *)
LEMMA HeldMore ==
  ASSUME NEW h \in [ Threads -> SUBSET Blocks ], NEW t \in Threads, NEW b \in Blocks,
         NEW g, g = [ h EXCEPT ![t] = @ \cup { b } ]
  PROVE  /\ g \in [ Threads -> SUBSET Blocks ]
         /\ UNION { g[u] : u \in Threads } = (UNION { h[u] : u \in Threads }) \cup { b }
         /\ \A u \in Threads : g[u] = IF u = t THEN h[t] \cup { b } ELSE h[u]
<1>1. /\ g \in [ Threads -> SUBSET Blocks ] /\ g[t] = h[t] \cup { b }
      /\ \A u \in Threads : u # t => g[u] = h[u]
  OBVIOUS
<1> DEFINE G == UNION { g[u] : u \in Threads }
           H == UNION { h[u] : u \in Threads }
<1>2. \A e : /\ e \in G <=> \E u \in Threads : e \in g[u]
             /\ e \in H <=> \E u \in Threads : e \in h[u]
  OBVIOUS
<1> HIDE DEF G, H
<1>3. ASSUME NEW e
      PROVE  (\E u \in Threads : e \in g[u]) <=> (\E u \in Threads : e \in h[u]) \/ e = b
  BY <1>1
<1>4. G = H \cup { b }
  <2>1. \A e : e \in G <=> e \in H \/ e = b
    BY <1>2, <1>3
  <2>2. QED
    BY <2>1
<1>5. UNION { g[u] : u \in Threads } = (UNION { h[u] : u \in Threads }) \cup { b }
  BY <1>4, Zenon DEF G, H
<1>6. \A u \in Threads : g[u] = IF u = t THEN h[t] \cup { b } ELSE h[u]
  BY <1>1
<1>7. QED
  BY <1>1, <1>5, <1>6, Zenon

LEMMA HeldLess ==
  ASSUME NEW h \in [ Threads -> SUBSET Blocks ], NEW t \in Threads, NEW b \in h[t],
         \A u, v \in Threads : u # v => h[u] \cap h[v] = {},
         NEW g, g = [ h EXCEPT ![t] = @ \ { b } ]
  PROVE  /\ g \in [ Threads -> SUBSET Blocks ]
         /\ UNION { g[u] : u \in Threads } = (UNION { h[u] : u \in Threads }) \ { b }
         /\ \A u \in Threads : g[u] = IF u = t THEN h[t] \ { b } ELSE h[u]
<1>1. /\ g \in [ Threads -> SUBSET Blocks ] /\ g[t] = h[t] \ { b }
      /\ \A u \in Threads : u # t => g[u] = h[u]
  OBVIOUS
<1> DEFINE G == UNION { g[u] : u \in Threads }
           H == UNION { h[u] : u \in Threads }
<1>2. \A e : /\ e \in G <=> \E u \in Threads : e \in g[u]
             /\ e \in H <=> \E u \in Threads : e \in h[u]
  OBVIOUS
<1> HIDE DEF G, H
<1>3. ASSUME NEW e
      PROVE  (\E u \in Threads : e \in g[u]) <=> (\E u \in Threads : e \in h[u]) /\ e # b
  BY <1>1
<1>4. G = H \ { b }
  <2>1. \A e : e \in G <=> e \in H /\ e # b
    BY <1>2, <1>3
  <2>2. QED
    BY <2>1
<1>5. UNION { g[u] : u \in Threads } = (UNION { h[u] : u \in Threads }) \ { b }
  BY <1>4, Zenon DEF G, H
<1>6. \A u \in Threads : g[u] = IF u = t THEN h[t] \ { b } ELSE h[u]
  BY <1>1
<1>7. QED
  BY <1>1, <1>5, <1>6, Zenon

LEMMA ReturnStep ==
  ASSUME PoolInv, NEW t \in Threads, Pool!AllocReturn(t)
  PROVE  PoolInv'
<1>1. /\ pc[t] = "take" /\ pc' = [ pc EXCEPT ![t] = "out" ]
      /\ m_iUseCount' = m_iUseCount + 1
      /\ held' = [ held EXCEPT ![t] = @ \cup { pnode[t] } ]
      /\ pnode' = [ pnode EXCEPT ![t] = Pool!NULL ]
      /\ UNCHANGED << pNext, pFreeNode, m_iCapacity, made >>
  BY DEF Pool!AllocReturn
<1>2. /\ \A u \in Threads : u # t => pc[u] = "out"
      /\ Pool!InFlight = { pnode[t] } /\ pnode[t] \in Blocks
  BY <1>1, Alone DEF PoolInv, InLock
<1>3. \A u \in Threads : pc'[u] = "out"
  BY <1>1, <1>2 DEF PoolInv, PoolTypes
<1>4. Pool!InFlight' = {}
  BY <1>3 DEF Pool!InFlight
<1>5. /\ held' \in [ Threads -> SUBSET Blocks ]
      /\ \A u \in Threads : held'[u] = IF u = t THEN held[t] \cup { pnode[t] } ELSE held[u]
      /\ Pool!AllHeld' = Pool!AllHeld \cup { pnode[t] }
  <2>1. held \in [ Threads -> SUBSET Blocks ]
    BY DEF PoolInv, PoolTypes
  <2>2. QED
    BY <1>1, <1>2, <2>1, HeldMore DEF Pool!AllHeld
<1>6. PICK s : Chained(s) /\ Placed(s)
  BY DEF PoolInv
<1>7. pnode[t] \notin Pool!AllHeld /\ \A u \in Threads : pnode[t] \notin held[u]
  BY <1>2, <1>6 DEF Placed, Pool!AllHeld
<1>8. Cardinality(Pool!AllHeld') = Cardinality(Pool!AllHeld) + 1
  BY <1>5, <1>7, HeldFinite, FS_AddElement
<1>9. PoolTypes'
  BY <1>1, <1>5 DEF PoolInv, PoolTypes
<1>10. InLock'
  BY <1>3 DEF InLock
<1>11. HeldApart'
  BY <1>5, <1>7 DEF PoolInv, HeldApart
<1>12. Used'
  <2>1. m_iUseCount = Cardinality(Pool!AllHeld)
    BY <1>1, <1>2 DEF PoolInv, Used
  <2>2. m_iUseCount' = Cardinality(Pool!AllHeld')
    BY <1>1, <1>8, <2>1
  <2>3. QED
    BY <1>3, <2>2 DEF Used
<1>13. Chained(s)' /\ OnList(s)' = OnList(s)
  BY <1>1, <1>6 DEF Chained, Pointer, OnList
<1>14. Placed(s)'
  BY <1>1, <1>2, <1>4, <1>5, <1>6, <1>13 DEF Placed
<1>15. QED
  BY <1>9, <1>10, <1>11, <1>12, <1>13, <1>14 DEF PoolInv

LEMMA FreeStep ==
  ASSUME PoolInv, NEW t \in Threads, Pool!FreeEnter(t)
  PROVE  PoolInv'
<1>1. PICK b \in held[t] :
        /\ lock = Pool!NULL /\ lock' = t /\ pc' = [ pc EXCEPT ![t] = "free" ]
        /\ pnode' = [ pnode EXCEPT ![t] = b ]
        /\ held' = [ held EXCEPT ![t] = @ \ { b } ]
        /\ UNCHANGED << pNext, pFreeNode, m_iCapacity, m_iUseCount, made >>
  BY DEF Pool!FreeEnter, Pool!Acquire, Pool!poolvars
<1>2. (\A u \in Threads : pc[u] = "out") /\ Pool!InFlight = {}
  BY <1>1, NobodyInside
<1>3. held \in [ Threads -> SUBSET Blocks ] /\ b \in Blocks
  BY DEF PoolInv, PoolTypes
<1>4. /\ pc'[t] = "free" /\ \A u \in Threads : u # t => pc'[u] = "out"
      /\ pnode'[t] = b
  BY <1>1, <1>2 DEF PoolInv, PoolTypes
<1>5. Pool!InFlight' = { b }
  BY <1>4, Flight DEF Pool!InFlight
<1>6. /\ held' \in [ Threads -> SUBSET Blocks ]
      /\ \A u \in Threads : held'[u] = IF u = t THEN held[t] \ { b } ELSE held[u]
      /\ Pool!AllHeld' = Pool!AllHeld \ { b }
  BY <1>1, <1>3, HeldLess DEF Pool!AllHeld, PoolInv, HeldApart
<1>7. PICK s : Chained(s) /\ Placed(s)
  BY DEF PoolInv
<1>8. b \in Pool!AllHeld
  BY DEF Pool!AllHeld
<1>9. Cardinality(Pool!AllHeld) = Cardinality(Pool!AllHeld') + 1
  <2>1. Cardinality(Pool!AllHeld') = Cardinality(Pool!AllHeld) - 1
    BY <1>6, <1>8, HeldFinite, FS_RemoveElement
  <2>2. QED
    BY <2>1, HeldFinite
<1>10. PoolTypes'
  BY <1>1, <1>3, <1>6 DEF PoolInv, PoolTypes
<1>11. InLock'
  BY <1>1, <1>3, <1>4 DEF InLock
<1>12. HeldApart'
  BY <1>6 DEF PoolInv, HeldApart
<1>13. Used'
  <2>1. m_iUseCount' = Cardinality(Pool!AllHeld') + 1
    BY <1>1, <1>2, <1>9 DEF PoolInv, Used
  <2>2. QED
    BY <1>4, <2>1 DEF Used
<1>14. Chained(s)' /\ OnList(s)' = OnList(s)
  BY <1>1, <1>7 DEF Chained, Pointer, OnList
<1>15. Placed(s)'
  BY <1>1, <1>2, <1>5, <1>6, <1>7, <1>8, <1>14 DEF Placed
<1>16. QED
  BY <1>10, <1>11, <1>12, <1>13, <1>14, <1>15 DEF PoolInv

LEMMA PushStep ==
  ASSUME PoolInv, NEW t \in Threads, Pool!FreePush(t)
  PROVE  PoolInv'
<1>1. /\ pc[t] = "free" /\ pc' = [ pc EXCEPT ![t] = "out" ]
      /\ pNext' = [ pNext EXCEPT ![pnode[t]] = pFreeNode ] /\ pFreeNode' = pnode[t]
      /\ m_iCapacity' = m_iCapacity + 1 /\ m_iUseCount' = m_iUseCount - 1
      /\ pnode' = [ pnode EXCEPT ![t] = Pool!NULL ]
      /\ UNCHANGED << made, held >>
  BY DEF Pool!FreePush
<1>2. /\ \A u \in Threads : u # t => pc[u] = "out"
      /\ Pool!InFlight = { pnode[t] }
  BY <1>1, Alone
<1>3. PICK s : Chained(s) /\ Placed(s)
  BY DEF PoolInv
<1>4. PICK n, b : n = m_iCapacity /\ b = pnode[t]
  OBVIOUS
<1>5. n \in Nat /\ b \in Blocks /\ b \notin OnList(s)
  BY <1>1, <1>2, <1>3, <1>4 DEF PoolInv, PoolTypes, InLock, Placed
<1>6. /\ s \in [ 1 .. n -> Blocks ]
      /\ \A i, j \in 1 .. n : s[i] = s[j] => i = j
      /\ pFreeNode = IF 1 <= n THEN s[1] ELSE Pool!NULL
      /\ \A i \in 1 .. n : pNext[s[i]] = IF i + 1 <= n THEN s[i + 1] ELSE Pool!NULL
      /\ \A i \in 1 .. n : s[i] # b
  BY <1>3, <1>4, <1>5 DEF Chained, Pointer, OnList
<1>7. PICK r : r = [ i \in 1 .. n + 1 |-> IF i = 1 THEN b ELSE s[i - 1] ]
  OBVIOUS
<1>8. /\ r[1] = b
      /\ \A i \in 1 .. n + 1 : i # 1 => i - 1 \in 1 .. n /\ r[i] = s[i - 1]
      /\ \A i \in 1 .. n : i + 1 \in 1 .. n + 1 /\ r[i + 1] = s[i]
  BY <1>5, <1>7
<1>9. Chained(r)'
  <2>1. r \in [ 1 .. n + 1 -> Blocks ]
    <3>1. \A i \in 1 .. n + 1 : (IF i = 1 THEN b ELSE s[i - 1]) \in Blocks
      BY <1>5, <1>6
    <3>2. QED
      BY <1>7, <3>1
  <2>2. ASSUME NEW i \in 1 .. n + 1, NEW j \in 1 .. n + 1, r[i] = r[j] PROVE i = j
    <3>1. CASE i = 1 /\ j # 1
      BY <1>6, <1>8, <2>2, <3>1
    <3>2. CASE i # 1 /\ j = 1
      BY <1>6, <1>8, <2>2, <3>2
    <3>3. CASE i # 1 /\ j # 1
      <4>1. i - 1 = j - 1
        BY <1>6, <1>8, <2>2, <3>3
      <4>2. QED
        BY <4>1
    <3>4. QED
      BY <3>1, <3>2, <3>3
  <2>3. pFreeNode' = IF 1 <= n + 1 THEN r[1] ELSE Pool!NULL
    BY <1>1, <1>4, <1>5, <1>8
  <2>4. /\ pNext'[b] = pFreeNode
        /\ \A c \in Blocks : c # b => pNext'[c] = pNext[c]
    BY <1>1, <1>4, <1>5 DEF PoolInv, PoolTypes
  <2>5. ASSUME NEW i \in 1 .. n + 1
        PROVE  pNext'[r[i]] = IF i + 1 <= n + 1 THEN r[i + 1] ELSE Pool!NULL
    <3>1. CASE i = 1
      <4>1. pNext'[r[i]] = IF 1 <= n THEN s[1] ELSE Pool!NULL
        BY <1>6, <1>8, <2>4, <3>1
      <4>2. CASE 1 <= n
        <5>1. 1 \in 1 .. n /\ r[1 + 1] = s[1] /\ i + 1 <= n + 1
          BY <1>5, <1>8, <3>1, <4>2
        <5>2. QED
          BY <3>1, <4>1, <4>2, <5>1
      <4>3. CASE ~ (1 <= n)
        BY <1>5, <3>1, <4>1, <4>3
      <4>4. QED
        BY <4>2, <4>3
    <3>2. CASE i # 1
      <4>1. PICK k \in 1 .. n : i = k + 1
        BY <1>5, <1>8, <3>2
      <4>2. /\ r[i] = s[k] /\ s[k] \in Blocks /\ s[k] # b
        BY <1>6, <1>8, <4>1
      <4>3. pNext'[r[i]] = IF k + 1 <= n THEN s[k + 1] ELSE Pool!NULL
        BY <1>6, <2>4, <4>2
      <4>4. CASE k + 1 <= n
        <5>1. k + 1 \in 1 .. n /\ r[k + 1 + 1] = s[k + 1] /\ i + 1 <= n + 1
          BY <1>5, <1>8, <4>1, <4>4
        <5>2. QED
          BY <4>1, <4>3, <4>4, <5>1
      <4>5. CASE ~ (k + 1 <= n)
        BY <1>5, <4>1, <4>3, <4>5
      <4>6. QED
        BY <4>4, <4>5
    <3>3. QED
      BY <3>1, <3>2
  <2>6. QED
    BY <1>1, <1>4, <2>1, <2>2, <2>3, <2>5 DEF Chained, Pointer
<1>10. OnList(r)' = OnList(s) \cup { b }
  <2>1. OnList(s) = { s[i] : i \in 1 .. n } /\ OnList(r)' = { r[i] : i \in 1 .. n + 1 }
    BY <1>1, <1>4 DEF OnList
  <2>2. \A i \in 1 .. n + 1 : r[i] \in { s[j] : j \in 1 .. n } \cup { b }
    BY <1>8
  <2>3. \A j \in 1 .. n : s[j] \in { r[i] : i \in 1 .. n + 1 }
    BY <1>8
  <2>4. b \in { r[i] : i \in 1 .. n + 1 }
    <3>1. 1 \in 1 .. n + 1
      BY <1>5
    <3>2. QED
      BY <1>8, <3>1
  <2>5. QED
    BY <2>1, <2>2, <2>3, <2>4
<1>11. \A u \in Threads : pc'[u] = "out"
  BY <1>1, <1>2 DEF PoolInv, PoolTypes
<1>12. Pool!InFlight' = {}
  BY <1>11 DEF Pool!InFlight
<1>13. Pool!AllHeld' = Pool!AllHeld
  BY <1>1 DEF Pool!AllHeld
<1>14. PoolTypes'
  <2>1. pFreeNode \in Blocks \cup { Pool!NULL }
    <3>1. CASE 1 <= n
      <4>1. 1 \in 1 .. n
        BY <1>5, <3>1
      <4>2. QED
        BY <1>6, <3>1, <4>1
    <3>2. CASE ~ (1 <= n)
      BY <1>6, <3>2
    <3>3. QED
      BY <3>1, <3>2
  <2>2. pNext' \in [ Blocks -> Blocks \cup { Pool!NULL } ]
    BY <1>1, <2>1 DEF PoolInv, PoolTypes
  <2>3. m_iCapacity' \in Nat
    BY <1>1, <1>4, <1>5
  <2>4. QED
    BY <1>1, <2>2, <2>3 DEF PoolInv, PoolTypes
<1>15. InLock'
  BY <1>11 DEF InLock
<1>16. HeldApart'
  BY <1>1 DEF PoolInv, HeldApart
<1>17. Used'
  <2>1. m_iUseCount = Cardinality(Pool!AllHeld) + 1
    BY <1>1 DEF PoolInv, Used
  <2>2. m_iUseCount' = Cardinality(Pool!AllHeld)
    BY <1>1, <2>1, HeldFinite
  <2>3. QED
    BY <1>11, <1>13, <2>2 DEF Used
<1>18. Placed(r)'
  BY <1>1, <1>2, <1>3, <1>4, <1>10, <1>12, <1>13 DEF Placed
<1>19. QED
  BY <1>9, <1>14, <1>15, <1>16, <1>17, <1>18 DEF PoolInv

LEMMA HandOverStep ==
  ASSUME PoolInv, NEW t \in Threads, NEW u \in Threads, Pool!HandOver(t, u)
  PROVE  PoolInv'
<1>1. PICK b \in held[t] :
        /\ t # u /\ held' = [ held EXCEPT ![t] = @ \ { b }, ![u] = @ \cup { b } ]
        /\ UNCHANGED << pNext, pFreeNode, m_iCapacity, m_iUseCount, made, lock, pc, pnode >>
  BY DEF Pool!HandOver, Pool!poolvars
<1>2. held \in [ Threads -> SUBSET Blocks ] /\ b \in Blocks
  BY DEF PoolInv, PoolTypes
<1>3. PICK g : g = [ held EXCEPT ![t] = @ \ { b } ]
  OBVIOUS
<1>4. /\ g \in [ Threads -> SUBSET Blocks ]
      /\ \A v \in Threads : g[v] = IF v = t THEN held[t] \ { b } ELSE held[v]
      /\ UNION { g[v] : v \in Threads } = Pool!AllHeld \ { b }
  BY <1>2, <1>3, HeldLess DEF Pool!AllHeld, PoolInv, HeldApart
<1>5. held' = [ g EXCEPT ![u] = @ \cup { b } ]
  BY <1>1, <1>2, <1>3
<1>6. /\ held' \in [ Threads -> SUBSET Blocks ]
      /\ \A v \in Threads : held'[v] = IF v = u THEN g[u] \cup { b } ELSE g[v]
      /\ Pool!AllHeld' = (Pool!AllHeld \ { b }) \cup { b }
  BY <1>2, <1>4, <1>5, HeldMore DEF Pool!AllHeld
<1>7. Pool!AllHeld' = Pool!AllHeld
  BY <1>6 DEF Pool!AllHeld
<1>8. Pool!InFlight' = Pool!InFlight
  BY <1>1 DEF Pool!InFlight
<1>9. PoolTypes' /\ InLock'
  BY <1>1, <1>6 DEF PoolInv, PoolTypes, InLock
<1>10. HeldApart'
  <2>1. \A v, w \in Threads : v # w => held[v] \cap held[w] = {}
    BY DEF PoolInv, HeldApart
  <2>2. \A v, w \in Threads : v # w => g[v] \cap g[w] = {}
    BY <1>4, <2>1
  <2>3. \A v \in Threads : b \notin g[v]
    BY <1>4, <2>1
  <2>4. QED
    BY <1>6, <2>2, <2>3 DEF HeldApart
<1>11. Used'
  BY <1>1, <1>7 DEF PoolInv, Used
<1>12. PICK s : Chained(s) /\ Placed(s)
  BY DEF PoolInv
<1>13. Chained(s)' /\ OnList(s)' = OnList(s)
  BY <1>1, <1>12 DEF Chained, Pointer, OnList
<1>14. Placed(s)'
  BY <1>1, <1>7, <1>8, <1>12, <1>13 DEF Placed
<1>15. QED
  BY <1>9, <1>10, <1>11, <1>13, <1>14 DEF PoolInv

LEMMA DestroyStep ==
  ASSUME PoolInv, Pool!Destroy
  PROVE  PoolInv'
<1>1. /\ \A t \in Threads : pc[t] = "out"
      /\ made' = made \ Pool!FreeList
      /\ m_iCapacity' = m_iCapacity - Cardinality(Pool!FreeList)
      /\ pFreeNode' = Pool!NULL
      /\ UNCHANGED << pNext, m_iUseCount, lock, pc, pnode, held >>
  BY PoolCardinality DEF Pool!Destroy
<1>2. PICK s : Chained(s) /\ Placed(s)
  BY DEF PoolInv
<1>3. m_iCapacity \in Nat
  BY DEF PoolInv, PoolTypes
<1>4. Pool!FreeList = OnList(s) /\ Cardinality(OnList(s)) = m_iCapacity
  BY <1>2, <1>3, FreeListIs, ListLength
<1>5. m_iCapacity' = 0 /\ made' = made \ OnList(s)
  BY <1>1, <1>3, <1>4
<1>6. Pool!AllHeld' = Pool!AllHeld /\ Pool!InFlight' = Pool!InFlight
  BY <1>1 DEF Pool!AllHeld, Pool!InFlight
<1>7. PICK r : r = [ i \in 1 .. 0 |-> Pool!NULL ]
  OBVIOUS
<1>8. r \in [ 1 .. 0 -> Blocks ] /\ \A i \in 1 .. 0 : FALSE
  BY <1>7
<1>9. Chained(r)' /\ OnList(r)' = {}
  BY <1>1, <1>5, <1>8 DEF Chained, Pointer, OnList
<1>10. Placed(r)'
  BY <1>2, <1>5, <1>6, <1>9 DEF Placed
<1>11. PoolTypes' /\ InLock' /\ HeldApart' /\ Used'
  BY <1>1, <1>5, <1>6 DEF PoolInv, PoolTypes, InLock, HeldApart, Used
<1>12. QED
  BY <1>9, <1>10, <1>11 DEF PoolInv

(* The constructor's blocks, the last one made at the head.                *)
LEMMA PoolStart == Pool!Init => PoolInv
<1> SUFFICES ASSUME Pool!Init PROVE PoolInv
  OBVIOUS
<1> DEFINE n == iBlockNum
<1>1. PICK chain \in [ 1 .. n -> Blocks ] :
        /\ \A i, j \in 1 .. n : chain[i] = chain[j] => i = j
        /\ made = { chain[i] : i \in 1 .. n }
        /\ pNext = [ b \in Blocks |->
                       IF \E i \in 2 .. n : chain[i] = b
                         THEN chain[(CHOOSE i \in 2 .. n : chain[i] = b) - 1]
                         ELSE Pool!NULL ]
        /\ pFreeNode = IF n = 0 THEN Pool!NULL ELSE chain[n]
  BY DEF Pool!Init
<1>2. /\ m_iCapacity = n /\ m_iUseCount = 0 /\ lock = Pool!NULL
      /\ pc = [ t \in Threads |-> "out" ] /\ pnode = [ t \in Threads |-> Pool!NULL ]
      /\ held = [ t \in Threads |-> {} ]
  BY DEF Pool!Init
<1>3. n \in Nat
  BY PoolAssumption
<1> HIDE DEF n
<1>4. ASSUME NEW i \in 1 .. n
      PROVE  pNext[chain[i]] = IF i = 1 THEN Pool!NULL ELSE chain[i - 1]
  <2>1. chain[i] \in Blocks
    OBVIOUS
  <2>2. CASE i = 1
    <3>1. ~ \E j \in 2 .. n : chain[j] = chain[i]
      BY <1>1, <1>3, <2>2
    <3>2. QED
      BY <1>1, <2>1, <2>2, <3>1
  <2>3. CASE i # 1
    <3>1. i \in 2 .. n
      BY <1>3, <2>3
    <3>2. \A j \in 2 .. n : chain[j] = chain[i] => j = i
      BY <1>1, <1>3
    <3>3. (CHOOSE j \in 2 .. n : chain[j] = chain[i]) = i
      BY <3>1, <3>2, Zenon
    <3>4. QED
      BY <1>1, <2>1, <2>3, <3>1, <3>3
  <2>4. QED
    BY <2>2, <2>3
<1>5. PICK s : s = [ i \in 1 .. n |-> chain[n + 1 - i] ]
  OBVIOUS
<1>6. \A i \in 1 .. n : n + 1 - i \in 1 .. n /\ s[i] = chain[n + 1 - i]
  BY <1>3, <1>5
<1>7. Chained(s)
  <2>1. s \in [ 1 .. n -> Blocks ]
    BY <1>5, <1>6
  <2>2. ASSUME NEW i \in 1 .. n, NEW j \in 1 .. n, s[i] = s[j] PROVE i = j
    <3>1. n + 1 - i = n + 1 - j
      BY <1>1, <1>6, <2>2
    <3>2. QED
      BY <1>3, <3>1
  <2>3. pFreeNode = IF 1 <= n THEN s[1] ELSE Pool!NULL
    <3>1. CASE n = 0
      BY <1>1, <3>1
    <3>2. CASE n # 0
      <4>1. 1 \in 1 .. n /\ n + 1 - 1 = n /\ 1 <= n
        BY <1>3, <3>2
      <4>2. s[1] = chain[n]
        BY <1>6, <4>1
      <4>3. QED
        BY <1>1, <3>2, <4>1, <4>2
    <3>3. QED
      BY <3>1, <3>2
  <2>4. ASSUME NEW i \in 1 .. n
        PROVE  pNext[s[i]] = IF i + 1 <= n THEN s[i + 1] ELSE Pool!NULL
    <3>1. PICK k \in 1 .. n : k = n + 1 - i /\ s[i] = chain[k]
      BY <1>6
    <3>2. pNext[s[i]] = IF k = 1 THEN Pool!NULL ELSE chain[k - 1]
      BY <1>4, <3>1
    <3>3. CASE k = 1
      <4>1. ~ (i + 1 <= n)
        BY <1>3, <3>1, <3>3
      <4>2. QED
        BY <3>2, <3>3, <4>1
    <3>4. CASE k # 1
      <4>1. i + 1 \in 1 .. n /\ i + 1 <= n /\ n + 1 - (i + 1) = k - 1
        BY <1>3, <3>1, <3>4
      <4>2. s[i + 1] = chain[k - 1]
        BY <1>6, <4>1
      <4>3. QED
        BY <3>2, <3>4, <4>1, <4>2
    <3>5. QED
      BY <3>3, <3>4
  <2>5. QED
    BY <1>2, <2>1, <2>2, <2>3, <2>4 DEF Chained, Pointer
<1>8. OnList(s) = made
  <2>1. \A e : e \in OnList(s) <=> \E i \in 1 .. n : e = s[i]
    BY <1>2 DEF OnList
  <2>0. \A e : e \in made <=> \E i \in 1 .. n : e = chain[i]
    BY <1>1
  <2>2. \A i \in 1 .. n : s[i] \in made
    BY <1>6, <2>0
  <2>3. ASSUME NEW j \in 1 .. n PROVE chain[j] \in OnList(s)
    <3>1. n + 1 - j \in 1 .. n /\ n + 1 - (n + 1 - j) = j
      BY <1>3
    <3>2. s[n + 1 - j] = chain[j]
      BY <1>6, <3>1
    <3>3. QED
      BY <2>1, <3>1, <3>2
  <2>4. QED
    BY <2>0, <2>1, <2>2, <2>3
<1>9. Pool!AllHeld = {} /\ Pool!InFlight = {}
  BY <1>2 DEF Pool!AllHeld, Pool!InFlight
<1>10. Placed(s)
  BY <1>8, <1>9 DEF Placed
<1>11. PoolTypes
  <2>1. pNext \in [ Blocks -> Blocks \cup { Pool!NULL } ]
    <3>1. ASSUME NEW b \in Blocks, \E i \in 2 .. n : chain[i] = b
          PROVE  chain[(CHOOSE i \in 2 .. n : chain[i] = b) - 1] \in Blocks
      <4>1. PICK k \in 2 .. n : k = CHOOSE i \in 2 .. n : chain[i] = b
        BY <3>1, Zenon
      <4>2. k - 1 \in 1 .. n
        BY <1>3
      <4>3. QED
        BY <4>1, <4>2
    <3>2. QED
      BY <1>1, <3>1
  <2>2. made \subseteq Blocks
    BY <1>1
  <2>3. QED
    BY <1>2, <1>3, <2>1, <2>2 DEF PoolTypes
<1>12. InLock /\ HeldApart
  BY <1>2 DEF InLock, HeldApart
<1>13. Used
  <2>1. Cardinality(Pool!AllHeld) = 0
    BY <1>9, FS_EmptySet
  <2>2. QED
    BY <1>2, <2>1 DEF Used
<1>14. QED
  BY <1>7, <1>10, <1>11, <1>12, <1>13 DEF PoolInv

(* MemoryPool: a block is on the free list, with one caller or on its way, *)
(* and the counters are exact, for every number of threads and blocks.     *)
THEOREM PoolIsExact == Pool!Spec => []PoolExact
<1>1. PoolInv /\ [Pool!Next]_(Pool!vars) => PoolInv'
  <2> SUFFICES ASSUME PoolInv, [Pool!Next]_(Pool!vars) PROVE PoolInv'
    OBVIOUS
  <2>1. CASE UNCHANGED Pool!vars
    <3>1. UNCHANGED << pNext, pFreeNode, m_iCapacity, m_iUseCount, made, lock, pc, pnode, held >>
      BY <2>1 DEF Pool!vars, Pool!poolvars
    <3>2. Pool!AllHeld' = Pool!AllHeld /\ Pool!InFlight' = Pool!InFlight
      BY <3>1 DEF Pool!AllHeld, Pool!InFlight
    <3>3. PICK s : Chained(s) /\ Placed(s)
      BY DEF PoolInv
    <3>4. Chained(s)' /\ OnList(s)' = OnList(s)
      BY <3>1, <3>3 DEF Chained, Pointer, OnList
    <3>5. Placed(s)'
      BY <3>1, <3>2, <3>3, <3>4 DEF Placed
    <3>6. PoolTypes' /\ InLock' /\ HeldApart' /\ Used'
      BY <3>1, <3>2 DEF PoolInv, PoolTypes, InLock, HeldApart, Used
    <3>7. QED
      BY <3>4, <3>5, <3>6 DEF PoolInv
  <2>2. ASSUME NEW t \in Threads, Pool!Step(t) PROVE PoolInv'
    BY <2>2, EnterStep, NewStep, HeadStep, UnlinkStep, ReturnStep, FreeStep, PushStep,
       HandOverStep DEF Pool!Step
  <2>3. QED
    BY <2>1, <2>2, DestroyStep DEF Pool!Next
<1>2. QED
  BY <1>1, PoolStart, PoolCounts, PTL DEF Pool!Spec
-----------------------------------------------------------------------------
(* JumpPoint *)

(* The direction in which a jump goes: JumpRD goes down left.              *)
Way(j) == IF j = Jump!RD THEN Jump!LD ELSE j

JumpTypes ==
  /\ wall \subseteq Jump!Cells /\ start \in Jump!Cells /\ goal \in Jump!Cells
  /\ DOMAIN close \subseteq Jump!Cells
  /\ close \in [ DOMAIN close ->
                   [ node : [ parent : Jump!Cells \cup { Jump!None }, g : Int \X Int,
                              dir : 0 .. 8 ],
                     isOpen : BOOLEAN ] ]
  /\ \A o \in open : o.cell \in DOMAIN close
  /\ jumps \in Seq(1 .. 8) /\ dist \in Nat

(* The first node is expanded before anything else is found.               *)
StartFirst ==
  /\ start \in DOMAIN close
  /\ close[start].isOpen =>
       DOMAIN close = {start} /\ state = "searching" /\ jumps = << >>

(* A jump has come from a node that is closed, over free cells.            *)
InFlight ==
  jumps # << >> =>
    /\ cur.cell \in DOMAIN close /\ ~ close[cur.cell].isOpen
    /\ cur.g = close[cur.cell].node.g
    /\ Jump!Open(cur.cell, Way(Head(jumps)), dist)

JumpInv == JumpTypes /\ Jump!ListsAgree /\ Jump!NodesInLine /\ StartFirst /\ InFlight

LEMMA JumpStarts == Jump!Init => JumpInv
<1> SUFFICES ASSUME Jump!Init PROVE JumpInv
  OBVIOUS
<1>1. /\ wall \subseteq Jump!Cells
      /\ start \in Jump!Cells /\ goal \in Jump!Cells
  BY JumpAssumption DEF Jump!Init, Jump!Cells
<1>2. DOMAIN close = {start} /\ close[start].isOpen
  BY DEF Jump!Init
<1>3. JumpTypes
  BY <1>1, <1>2 DEF Jump!Init, JumpTypes, Jump!Node, Jump!Null
<1>4. Jump!ListsAgree
  BY DEF Jump!Init, Jump!ListsAgree
<1>5. QED
  BY <1>2, <1>3, <1>4 DEF Jump!Init, JumpInv, Jump!NodesInLine, StartFirst, InFlight

(* A line of free cells is no longer than the map.                         *)
LEMMA LineEnds ==
  ASSUME NEW d \in 1 .. 8, NEW c \in Jump!Cells, NEW k \in Nat, wall \subseteq Jump!Cells,
         Jump!Free(Jump!Ahead(c, d, k))
  PROVE  /\ Jump!Ahead(c, d, k) \in Jump!Cells
         /\ k <= GridWidth + GridHeight
<1>1. PICK r \in 0 .. GridHeight - 1, w \in 0 .. GridWidth - 1 : c = << r, w >>
  BY DEF Jump!Cells
<1>2. PICK p \in {-1, 0, 1}, q \in {-1, 0, 1} :
        p = Jump!DeltaY[d] /\ q = Jump!DeltaX[d] /\ ~ (p = 0 /\ q = 0)
  <2>1. d \in {1, 2, 3, 4, 5, 6, 7, 8}
    OBVIOUS
  <2>2. QED
    BY <2>1 DEF Jump!DeltaY, Jump!DeltaX
<1>3. Jump!Ahead(c, d, k) = << r + k * p, w + k * q >>
  BY <1>1, <1>2 DEF Jump!Ahead
<1>4. Jump!Ahead(c, d, k) \in Jump!Cells
  BY DEF Jump!Free
<1>5. r + k * p \in 0 .. GridHeight - 1 /\ w + k * q \in 0 .. GridWidth - 1
  BY <1>3, <1>4 DEF Jump!Cells
<1>6. GridWidth \in Nat /\ GridHeight \in Nat
  BY JumpAssumption
<1>7. CASE p = 1
  BY <1>4, <1>5, <1>6, <1>7
<1>8. CASE p = -1
  BY <1>4, <1>5, <1>6, <1>8
<1>9. CASE q = 1
  BY <1>4, <1>5, <1>6, <1>9
<1>10. CASE q = -1
  BY <1>4, <1>5, <1>6, <1>10
<1>11. QED
  BY <1>2, <1>7, <1>8, <1>9, <1>10

(* The next cell of a jump, when it is free.                               *)
LEMMA OneFurther ==
  ASSUME JumpInv, jumps # << >>, NEW d \in 1 .. 8, d = Way(Head(jumps)),
         Jump!Free(Jump!Here(d))
  PROVE  /\ Jump!Here(d) \in Jump!Cells
         /\ dist + 1 <= GridWidth + GridHeight
         /\ Jump!Open(cur.cell, d, dist + 1)
<1>1. cur.cell \in Jump!Cells /\ dist \in Nat /\ wall \subseteq Jump!Cells
  BY DEF JumpInv, InFlight, JumpTypes
<1>2. PICK k \in Nat : k = dist + 1
  BY <1>1
<1>3. Jump!Free(Jump!Ahead(cur.cell, d, k))
  BY <1>2 DEF Jump!Here
<1>4. Jump!Ahead(cur.cell, d, k) \in Jump!Cells /\ k <= GridWidth + GridHeight
  BY <1>1, <1>3, LineEnds
<1>5. Jump!Open(cur.cell, d, dist)
  BY DEF JumpInv, InFlight
<1>6. Jump!Open(cur.cell, d, k)
  BY <1>1, <1>2, <1>3, <1>5 DEF Jump!Open
<1>7. QED
  BY <1>2, <1>4, <1>6 DEF Jump!Here

(* A node is entered: the two lists agree about it, and it lies in line.   *)
LEMMA EnterKeeps ==
  ASSUME JumpInv, jumps # << >>, NEW d \in 1 .. 8, d = Way(Head(jumps)),
         NEW c, c = Jump!Here(d), Jump!Free(c), NEW node, node = Jump!Reached(d),
         Jump!Enters(c, node), Jump!Enter(c, node), UNCHANGED << Jump!mapVars, state, cur >>
  PROVE  /\ DOMAIN close' \subseteq Jump!Cells
         /\ close' \in [ DOMAIN close' ->
                   [ node : [ parent : Jump!Cells \cup { Jump!None }, g : Int \X Int,
                              dir : 0 .. 8 ],
                     isOpen : BOOLEAN ] ]
         /\ \A o \in open' : o.cell \in DOMAIN close'
         /\ Jump!ListsAgree' /\ Jump!NodesInLine'
         /\ start \in DOMAIN close' /\ ~ close'[start].isOpen
         /\ \A b \in DOMAIN close : ~ close[b].isOpen => b \in DOMAIN close' /\ close'[b] = close[b]
<1>1. /\ c \in Jump!Cells /\ dist + 1 <= GridWidth + GridHeight
      /\ Jump!Open(cur.cell, d, dist + 1)
  BY OneFurther
<1>2. c \in DOMAIN close => close[c].isOpen
  BY DEF Jump!Enters, Jump!Improves
<1>3. DOMAIN close' = DOMAIN close \cup {c}
  BY DEF Jump!Enter
<1>4. /\ close'[c] = [ node |-> node, isOpen |-> TRUE ]
      /\ \A b \in DOMAIN close : b # c => close'[b] = close[b]
  BY DEF Jump!Enter
<1>5. start \in DOMAIN close /\ ~ close[start].isOpen /\ start # c
  BY <1>2 DEF JumpInv, StartFirst
<1>6. /\ cur.cell \in DOMAIN close /\ ~ close[cur.cell].isOpen
      /\ cur.g = close[cur.cell].node.g /\ cur.cell # c
  BY <1>2 DEF JumpInv, InFlight
<1>7. /\ node.parent = cur.cell /\ node.dir = d
      /\ node.g = Jump!Along(cur.g, dist + 1, d \in Jump!Diagonal)
      /\ node = [ parent |-> node.parent, g |-> node.g, dir |-> node.dir ]
  BY DEF Jump!Reached, Jump!Node
<1>8. close' \in [ DOMAIN close' ->
                   [ node : [ parent : Jump!Cells \cup { Jump!None }, g : Int \X Int,
                              dir : 0 .. 8 ],
                     isOpen : BOOLEAN ] ]
  <2>1. cur.g \in Int \X Int /\ cur.cell \in Jump!Cells /\ dist \in Nat
    BY <1>6 DEF JumpInv, JumpTypes
  <2>2. node.g \in Int \X Int
    BY <1>7, <2>1 DEF Jump!Along
  <2>3. node \in [ parent : Jump!Cells \cup { Jump!None }, g : Int \X Int, dir : 0 .. 8 ]
    BY <1>7, <2>1, <2>2
  <2>4. QED
    BY <2>3 DEF Jump!Enter, JumpInv, JumpTypes
<1>9. Jump!ListsAgree'
  <2>1. /\ start' = start /\ goal' = goal
    BY DEF Jump!mapVars
  <2> DEFINE new == [ cell |-> c, node |-> node, key |-> Jump!F(node.g, c, goal) ]
             gone == IF c \in DOMAIN close THEN Jump!Replaced(c) ELSE {}
  <2>2. open' = (open \ gone) \cup {new}
    BY DEF Jump!Enter
  <2>3. \A o \in open : o.cell = c => o \in gone
    <3>1. SUFFICES ASSUME NEW o \in open, o.cell = c PROVE o \in gone
      OBVIOUS
    <3>2. c \in DOMAIN close /\ close[c].isOpen
      BY <1>2, <3>1 DEF JumpInv, JumpTypes
    <3>3. o.node = close[c].node /\ o.key = Jump!F(o.node.g, c, goal)
      BY <1>5, <3>1, <3>2 DEF JumpInv, Jump!ListsAgree
    <3>4. QED
      BY <3>1, <3>2, <3>3 DEF Jump!Replaced
  <2>4. \A o \in gone : o.cell = c
    BY DEF Jump!Replaced
  <2> HIDE DEF gone
  <2>5. ASSUME NEW b \in DOMAIN close', close'[b].isOpen
        PROVE  \E o \in open' : /\ o.cell = b /\ o.node = close'[b].node
                                /\ b # start => o.key = Jump!F(o.node.g, b, goal)
    <3>1. CASE b = c
      <4>1. new \in open' /\ new.cell = c /\ new.node = node
            /\ new.key = Jump!F(new.node.g, c, goal)
        BY <2>2
      <4>2. QED
        BY <1>4, <3>1, <4>1
    <3>2. CASE b # c
      <4>1. b \in DOMAIN close /\ close'[b] = close[b]
        BY <1>3, <1>4, <3>2
      <4>2. PICK o \in open : /\ o.cell = b /\ o.node = close[b].node
                              /\ b # start => o.key = Jump!F(o.node.g, b, goal)
        BY <2>5, <4>1 DEF JumpInv, Jump!ListsAgree
      <4>3. o \in open'
        BY <2>2, <2>4, <3>2, <4>2
      <4>4. QED
        BY <4>1, <4>2, <4>3
    <3>3. QED
      BY <3>1, <3>2
  <2>6. ASSUME NEW o \in open' PROVE close'[o.cell].isOpen
    <3>1. CASE o = new
      BY <1>4, <3>1
    <3>2. CASE o # new
      <4>1. o \in open /\ o.cell # c
        BY <2>2, <2>3, <3>2
      <4>2. close[o.cell].isOpen /\ o.cell \in DOMAIN close
        BY <4>1 DEF JumpInv, Jump!ListsAgree, JumpTypes
      <4>3. QED
        BY <1>4, <4>1, <4>2
    <3>3. QED
      BY <3>1, <3>2
  <2>7. ASSUME NEW o \in open', NEW u \in open', o.cell = u.cell PROVE o = u
    <3>1. \A v \in open' : v = new \/ (v \in open /\ v.cell # c)
      BY <2>2, <2>3
    <3>2. new.cell = c
      OBVIOUS
    <3>3. QED
      BY <2>7, <3>1, <3>2 DEF JumpInv, Jump!ListsAgree
  <2>8. QED
    BY <2>1, <2>5, <2>6, <2>7 DEF Jump!ListsAgree
<1>10. Jump!NodesInLine'
  <2>1. start' = start /\ wall' = wall /\ dist \in Nat
    BY DEF Jump!mapVars, JumpInv, JumpTypes
  <2>2. \A a, b, k : Jump!Open(a, b, k)' = Jump!Open(a, b, k)
    BY <2>1 DEF Jump!Open, Jump!Free
  <2>3. SUFFICES ASSUME NEW b \in DOMAIN close' \ {start}
                 PROVE  LET n == close'[b].node
                        IN  /\ n.parent \in DOMAIN close' /\ ~ close'[n.parent].isOpen
                            /\ \E k \in 1 .. GridWidth + GridHeight :
                                 /\ b = Jump!Ahead(n.parent, n.dir, k)
                                 /\ Jump!Open(n.parent, n.dir, k)
                                 /\ n.g = Jump!Along(close'[n.parent].node.g, k,
                                                     n.dir \in Jump!Diagonal)
    BY <2>1, <2>2 DEF Jump!NodesInLine
  <2>4. CASE b = c
    <3>1. close'[b].node = node /\ close'[cur.cell] = close[cur.cell]
      BY <1>4, <1>6, <2>4
    <3>2. dist + 1 \in 1 .. GridWidth + GridHeight
      BY <1>1, <2>1, JumpAssumption
    <3>3. b = Jump!Ahead(cur.cell, d, dist + 1)
      BY <2>4 DEF Jump!Here
    <3>4. QED
      BY <1>1, <1>3, <1>6, <1>7, <3>1, <3>2, <3>3
  <2>5. CASE b # c
    <3>1. b \in DOMAIN close \ {start} /\ close'[b] = close[b]
      BY <1>3, <1>4, <2>5
    <3>2. PICK n : n = close[b].node
      OBVIOUS
    <3>3. /\ n.parent \in DOMAIN close /\ ~ close[n.parent].isOpen
          /\ \E k \in 1 .. GridWidth + GridHeight :
               /\ b = Jump!Ahead(n.parent, n.dir, k)
               /\ Jump!Open(n.parent, n.dir, k)
               /\ n.g = Jump!Along(close[n.parent].node.g, k, n.dir \in Jump!Diagonal)
      BY <3>1, <3>2 DEF JumpInv, Jump!NodesInLine
    <3>4. n.parent # c /\ close'[n.parent] = close[n.parent] /\ n.parent \in DOMAIN close'
      BY <1>2, <1>3, <1>4, <3>3
    <3>5. QED
      BY <3>1, <3>2, <3>3, <3>4
  <2>6. QED
    BY <2>4, <2>5
<1>11. \A o \in open' : o.cell \in DOMAIN close'
  BY <1>3 DEF JumpInv, JumpTypes, Jump!Enter
<1>12. QED
  BY <1>1, <1>2, <1>3, <1>4, <1>5, <1>8, <1>9, <1>10, <1>11 DEF JumpInv, JumpTypes

(* What an iteration of a jump does, whichever jump it is.                 *)
Flown(d) ==
  \/ Jump!Return /\ UNCHANGED Jump!listVars
  \/ Jump!Free(Jump!Here(d)) /\ Jump!Continue /\ UNCHANGED Jump!listVars
  \/ /\ Jump!Free(Jump!Here(d)) /\ (Jump!Return \/ Jump!Continue)
     /\ Jump!Enters(Jump!Here(d), Jump!Reached(d))
     /\ Jump!Enter(Jump!Here(d), Jump!Reached(d))

LEMMA FlightKeeps ==
  ASSUME JumpInv, jumps # << >>, NEW d \in 1 .. 8, d = Way(Head(jumps)), Flown(d),
         UNCHANGED << Jump!mapVars, state, cur, calls >>
  PROVE  JumpInv'
<1>1. wall' = wall /\ start' = start /\ goal' = goal
  BY DEF Jump!mapVars
<1>2. jumps \in Seq(1 .. 8) /\ dist \in Nat
  BY DEF JumpInv, JumpTypes
<1>3. ~ close[start].isOpen
  BY DEF JumpInv, StartFirst
<1>4. /\ cur.cell \in DOMAIN close /\ ~ close[cur.cell].isOpen
      /\ cur.g = close[cur.cell].node.g
      /\ Jump!Open(cur.cell, d, dist)
  BY DEF JumpInv, InFlight
<1>5. Jump!Return \/ (Jump!Continue /\ Jump!Free(Jump!Here(d)))
  BY DEF Flown
<1>6. jumps' \in Seq(1 .. 8) /\ dist' \in Nat
  <2>1. Tail(jumps) \in Seq(1 .. 8)
    BY <1>2, HeadTailProperties
  <2>2. jumps' = jumps \/ jumps' = Tail(jumps)
    BY <1>5 DEF Jump!Return, Jump!Continue
  <2>3. dist' \in Nat
    BY <1>2, <1>5 DEF Jump!Return, Jump!Continue
  <2>4. QED
    BY <1>2, <2>1, <2>2, <2>3
<1>7. ASSUME cur.cell \in DOMAIN close', close'[cur.cell] = close[cur.cell]
      PROVE  InFlight'
  <2>1. \A b, e, k : Jump!Open(b, e, k)' = Jump!Open(b, e, k)
    BY <1>1 DEF Jump!Open, Jump!Free
  <2>2. CASE Jump!Return
    <3>1. dist' = 0
      BY <2>2 DEF Jump!Return
    <3>2. \A b, e : Jump!Open(b, e, 0)
      BY DEF Jump!Open
    <3>3. QED
      BY <1>4, <1>7, <2>1, <3>1, <3>2 DEF InFlight
  <2>3. CASE Jump!Continue /\ Jump!Free(Jump!Here(d))
    <3>1. jumps' = jumps /\ dist' = dist + 1
      BY <2>3 DEF Jump!Continue
    <3>2. Jump!Open(cur.cell, d, dist + 1)
      BY <2>3, OneFurther
    <3>3. QED
      BY <1>4, <1>7, <2>1, <3>1, <3>2 DEF InFlight
  <2>4. QED
    BY <1>5, <2>2, <2>3
<1>8. CASE UNCHANGED Jump!listVars
  <2>1. open' = open /\ close' = close
    BY <1>8 DEF Jump!listVars
  <2>2. InFlight'
    BY <1>4, <1>7, <2>1
  <2>3. JumpTypes'
    BY <1>1, <1>6, <2>1 DEF JumpInv, JumpTypes
  <2>4. Jump!ListsAgree'
    BY <1>1, <2>1 DEF JumpInv, Jump!ListsAgree
  <2>5. Jump!NodesInLine'
    BY <1>1, <2>1 DEF JumpInv, Jump!NodesInLine, Jump!Open, Jump!Free
  <2>6. StartFirst'
    BY <1>1, <1>3, <2>1 DEF JumpInv, StartFirst
  <2>7. QED
    BY <2>2, <2>3, <2>4, <2>5, <2>6 DEF JumpInv
<1>9. CASE /\ Jump!Free(Jump!Here(d))
           /\ Jump!Enters(Jump!Here(d), Jump!Reached(d))
           /\ Jump!Enter(Jump!Here(d), Jump!Reached(d))
  <2>1. PICK c, node : c = Jump!Here(d) /\ node = Jump!Reached(d)
    OBVIOUS
  <2>2. /\ DOMAIN close' \subseteq Jump!Cells
        /\ close' \in [ DOMAIN close' ->
                  [ node : [ parent : Jump!Cells \cup { Jump!None }, g : Int \X Int,
                             dir : 0 .. 8 ],
                    isOpen : BOOLEAN ] ]
        /\ \A o \in open' : o.cell \in DOMAIN close'
        /\ Jump!ListsAgree' /\ Jump!NodesInLine'
        /\ start \in DOMAIN close' /\ ~ close'[start].isOpen
        /\ \A b \in DOMAIN close :
             ~ close[b].isOpen => b \in DOMAIN close' /\ close'[b] = close[b]
    BY <1>9, <2>1, EnterKeeps
  <2>3. InFlight'
    BY <1>4, <1>7, <2>2
  <2>4. JumpTypes'
    BY <1>1, <1>6, <2>2 DEF JumpInv, JumpTypes
  <2>5. StartFirst'
    BY <1>1, <2>2 DEF StartFirst
  <2>6. QED
    BY <2>2, <2>3, <2>4, <2>5 DEF JumpInv
<1>10. QED
  BY <1>8, <1>9 DEF Flown

(* Each of the eight jumps is such an iteration.                           *)
LEMMA JumpsFly ==
  ASSUME JumpInv, Jump!Jump
  PROVE  JumpInv'
<1>1. jumps # << >> /\ UNCHANGED << Jump!mapVars, state, cur, calls >>
  BY DEF Jump!Jump, Jump!JumpUU, Jump!JumpDD, Jump!JumpLL, Jump!JumpRR, Jump!JumpLU,
         Jump!JumpRU, Jump!JumpLD, Jump!JumpRD, Jump!Jumping
<1>2. \A d, corner : Jump!StraightJump(d, corner) => Flown(d)
  BY DEF Jump!StraightJump, Flown, Jump!Register
<1>3. \A d, corner, sides : Jump!DiagonalJump(d, corner, sides) => Flown(d)
  BY DEF Jump!DiagonalJump, Flown, Jump!Register
<1>4. \E d \in 1 .. 8 : d = Way(Head(jumps)) /\ Flown(d)
  <2>1. CASE Jump!JumpUU
    BY <1>2, <2>1 DEF Jump!JumpUU, Jump!Jumping, Way, Jump!UU, Jump!RD, Jump!LD
  <2>2. CASE Jump!JumpDD
    BY <1>2, <2>2 DEF Jump!JumpDD, Jump!Jumping, Way, Jump!DD, Jump!RD, Jump!LD
  <2>3. CASE Jump!JumpLL
    BY <1>2, <2>3 DEF Jump!JumpLL, Jump!Jumping, Way, Jump!LL, Jump!RD, Jump!LD
  <2>4. CASE Jump!JumpRR
    BY <1>2, <2>4 DEF Jump!JumpRR, Jump!Jumping, Way, Jump!RR, Jump!RD, Jump!LD
  <2>5. CASE Jump!JumpLU
    BY <1>3, <2>5 DEF Jump!JumpLU, Jump!Jumping, Way, Jump!LU, Jump!RD, Jump!LD
  <2>6. CASE Jump!JumpRU
    BY <1>3, <2>6 DEF Jump!JumpRU, Jump!Jumping, Way, Jump!RU, Jump!RD, Jump!LD
  <2>7. CASE Jump!JumpLD
    BY <1>3, <2>7 DEF Jump!JumpLD, Jump!Jumping, Way, Jump!RD, Jump!LD
  <2>8. CASE Jump!JumpRD
    BY <1>3, <2>8 DEF Jump!JumpRD, Jump!Jumping, Way, Jump!RD, Jump!LD
  <2>9. QED
    BY <2>1, <2>2, <2>3, <2>4, <2>5, <2>6, <2>7, <2>8 DEF Jump!Jump
<1>5. QED
  BY <1>1, <1>4, FlightKeeps

(* find closes a node: those that have it as their parent may rely on it.  *)
LEMMA FindKeeps == ASSUME JumpInv, Jump!Find PROVE JumpInv'
<1>1. PICK e \in open :
        /\ open' = open \ {e}
        /\ close' = [ close EXCEPT ![e.cell].isOpen = FALSE ]
        /\ state' = IF e.cell = goal THEN "found" ELSE "searching"
        /\ cur' = [ cell |-> e.cell, g |-> e.node.g ]
        /\ jumps' = IF e.cell # goal /\ e.node.dir = Jump!Null
                    THEN << Jump!UU, Jump!DD, Jump!LL, Jump!RR >> ELSE << >>
        /\ dist' = 0
  BY DEF Jump!Find
<1>2. wall' = wall /\ start' = start /\ goal' = goal
  BY DEF Jump!Find, Jump!mapVars
<1>3. PICK c \in DOMAIN close : c = e.cell
  BY DEF JumpInv, JumpTypes
<1>4. close[c].isOpen /\ e.node = close[c].node
  <2>1. close[c].isOpen
    BY <1>3 DEF JumpInv, Jump!ListsAgree
  <2>2. PICK o \in open : o.cell = c /\ o.node = close[c].node
    BY <2>1 DEF JumpInv, Jump!ListsAgree
  <2>3. o = e
    BY <1>3, <2>2 DEF JumpInv, Jump!ListsAgree
  <2>4. QED
    BY <2>1, <2>2, <2>3
<1>5. /\ DOMAIN close' = DOMAIN close
      /\ \A b \in DOMAIN close : b # c => close'[b] = close[b]
      /\ close'[c].node = close[c].node /\ ~ close'[c].isOpen
      /\ close'[c] = [ node |-> close[c].node, isOpen |-> FALSE ]
  BY <1>1, <1>3 DEF JumpInv, JumpTypes
<1>6. JumpTypes'
  <2>1. jumps' \in Seq(1 .. 8) /\ dist' \in Nat
    <3>1. << Jump!UU, Jump!DD, Jump!LL, Jump!RR >> \in Seq(1 .. 8)
      BY DEF Jump!UU, Jump!DD, Jump!LL, Jump!RR
    <3>2. << >> \in Seq(1 .. 8)
      BY EmptySeq
    <3>3. PICK four : four = << Jump!UU, Jump!DD, Jump!LL, Jump!RR >>
      OBVIOUS
    <3>4. jumps' = four \/ jumps' = << >>
      BY <1>1, <3>3
    <3>5. QED
      BY <1>1, <3>1, <3>2, <3>3, <3>4
  <2>2. close' \in [ DOMAIN close ->
                   [ node : [ parent : Jump!Cells \cup { Jump!None }, g : Int \X Int,
                              dir : 0 .. 8 ],
                     isOpen : BOOLEAN ] ]
    BY <1>1, <1>3 DEF JumpInv, JumpTypes
  <2>3. QED
    BY <1>1, <1>2, <1>5, <2>1, <2>2 DEF JumpInv, JumpTypes
<1>7. Jump!ListsAgree'
  <2>1. ASSUME NEW b \in DOMAIN close', close'[b].isOpen
        PROVE  \E o \in open' : /\ o.cell = b /\ o.node = close'[b].node
                                /\ b # start => o.key = Jump!F(o.node.g, b, goal)
    <3>1. b # c /\ b \in DOMAIN close /\ close'[b] = close[b]
      BY <1>5, <2>1
    <3>2. PICK o \in open : /\ o.cell = b /\ o.node = close[b].node
                            /\ b # start => o.key = Jump!F(o.node.g, b, goal)
      BY <2>1, <3>1 DEF JumpInv, Jump!ListsAgree
    <3>3. o \in open'
      BY <1>1, <1>3, <3>1, <3>2
    <3>4. QED
      BY <3>1, <3>2, <3>3
  <2>2. ASSUME NEW o \in open' PROVE close'[o.cell].isOpen
    <3>1. o \in open /\ o.cell # c
      BY <1>1, <1>3 DEF JumpInv, Jump!ListsAgree
    <3>2. QED
      BY <1>5, <3>1 DEF JumpInv, Jump!ListsAgree, JumpTypes
  <2>3. \A o, u \in open' : o.cell = u.cell => o = u
    BY <1>1 DEF JumpInv, Jump!ListsAgree
  <2>4. QED
    BY <1>2, <2>1, <2>2, <2>3 DEF Jump!ListsAgree
<1>8. Jump!NodesInLine'
  <2>1. \A a, b, k : Jump!Open(a, b, k)' = Jump!Open(a, b, k)
    BY <1>2 DEF Jump!Open, Jump!Free
  <2>2. \A b \in DOMAIN close :
          /\ close'[b].node = close[b].node
          /\ ~ close[b].isOpen => ~ close'[b].isOpen
    BY <1>5
  <2>3. QED
    BY <1>2, <1>5, <2>1, <2>2 DEF JumpInv, Jump!NodesInLine
<1>9. StartFirst'
  <2>1. ~ close'[start].isOpen
    <3>1. CASE close[start].isOpen
      BY <1>3, <1>5, <3>1 DEF JumpInv, StartFirst
    <3>2. CASE ~ close[start].isOpen
      BY <1>4, <1>5, <3>2 DEF JumpInv, StartFirst
    <3>3. QED
      BY <3>1, <3>2
  <2>2. QED
    BY <1>2, <1>5, <2>1 DEF JumpInv, StartFirst
<1>10. InFlight'
  <2>1. \A b, d : Jump!Open(b, d, 0)'
    BY DEF Jump!Open
  <2>2. QED
    BY <1>1, <1>3, <1>4, <1>5, <2>1 DEF InFlight
<1>11. QED
  BY <1>6, <1>7, <1>8, <1>9, <1>10 DEF JumpInv

LEMMA CallKeeps ==
  ASSUME JumpInv, NEW c \in DOMAIN close, NEW d \in Jump!Diagonal, Jump!Call(c, d)
  PROVE  JumpInv'
<1>1. /\ ~ close[c].isOpen /\ state # "searching"
      /\ cur' = [ cell |-> c, g |-> close[c].node.g ]
      /\ jumps' = << d >> /\ dist' = 0
      /\ wall' = wall /\ start' = start /\ goal' = goal
      /\ open' = open /\ close' = close /\ state' = state
  BY DEF Jump!Call, Jump!mapVars, Jump!listVars
<1>2. JumpTypes'
  <2>1. d \in 1 .. 8
    BY DEF Jump!Diagonal
  <2>2. QED
    BY <1>1, <2>1 DEF JumpInv, JumpTypes
<1>3. Jump!ListsAgree'
  BY <1>1 DEF JumpInv, Jump!ListsAgree
<1>4. Jump!NodesInLine'
  BY <1>1 DEF JumpInv, Jump!NodesInLine, Jump!Open, Jump!Free
<1>5. StartFirst'
  BY <1>1 DEF JumpInv, StartFirst
<1>6. InFlight'
  <2>1. \A b, e : Jump!Open(b, e, 0)'
    BY DEF Jump!Open
  <2>2. QED
    BY <1>1, <2>1 DEF InFlight
<1>7. QED
  BY <1>2, <1>3, <1>4, <1>5, <1>6 DEF JumpInv

LEMMA NotFoundKeeps == ASSUME JumpInv, Jump!NotFound PROVE JumpInv'
<1>1. /\ open = {} /\ jumps = << >>
      /\ jumps' = jumps /\ dist' = dist /\ cur' = cur
      /\ wall' = wall /\ start' = start /\ goal' = goal
      /\ open' = open /\ close' = close
  BY DEF Jump!NotFound, Jump!mapVars, Jump!listVars
<1>2. ~ close[start].isOpen
  BY <1>1 DEF JumpInv, Jump!ListsAgree, StartFirst
<1>3. JumpTypes' /\ Jump!ListsAgree' /\ StartFirst' /\ InFlight'
  BY <1>1, <1>2 DEF JumpInv, JumpTypes, Jump!ListsAgree, StartFirst, InFlight
<1>4. Jump!NodesInLine'
  BY <1>1 DEF JumpInv, Jump!NodesInLine, Jump!Open, Jump!Free
<1>5. QED
  BY <1>3, <1>4 DEF JumpInv

(* JumpPoint: the open list and the table of nodes agree, under the key a  *)
(* node will be looked up by, and every node lies on a free line from one  *)
(* that has been visited, for every size of the map and all walls on it.   *)
THEOREM TheJumpsAgree == Jump!Spec => []JumpsAgree
<1>1. JumpInv /\ [Jump!Next]_(Jump!vars) => JumpInv'
  <2> SUFFICES ASSUME JumpInv, [Jump!Next]_(Jump!vars) PROVE JumpInv'
    OBVIOUS
  <2>1. CASE UNCHANGED Jump!vars
    <3>1. /\ jumps' = jumps /\ dist' = dist /\ cur' = cur /\ state' = state
          /\ wall' = wall /\ start' = start /\ goal' = goal
          /\ open' = open /\ close' = close
      BY <2>1 DEF Jump!vars, Jump!mapVars, Jump!listVars
    <3>2. JumpTypes' /\ Jump!ListsAgree' /\ StartFirst'
      BY <3>1 DEF JumpInv, JumpTypes, Jump!ListsAgree, StartFirst
    <3>3. Jump!NodesInLine' /\ InFlight'
      BY <3>1 DEF JumpInv, Jump!NodesInLine, InFlight, Jump!Open, Jump!Free
    <3>4. QED
      BY <3>2, <3>3 DEF JumpInv
  <2>2. QED
    BY <2>1, FindKeeps, NotFoundKeeps, JumpsFly, CallKeeps DEF Jump!Next
<1>2. JumpInv => JumpsAgree
  BY DEF JumpInv, JumpsAgree
<1>3. QED
  BY <1>1, <1>2, JumpStarts, PTL DEF Jump!Spec

-----------------------------------------------------------------------------
(* LinkedList *)

(* The nodes of a list of n between its sentinels, in their order. *)
Joints == Nodes \cup { "head", "tail" }

Linked(b, n, nx, pv, us) ==
  /\ b \in [ 0 .. n + 1 -> Joints ] /\ b[0] = "head" /\ b[n + 1] = "tail"
  /\ \A i \in 1 .. n : b[i] \in Nodes
  /\ \A i, j \in 0 .. n + 1 : b[i] = b[j] => i = j
  /\ us = { b[i] : i \in 1 .. n }
  /\ nx \in [ Joints -> Joints \cup { "null" } ] /\ pv \in [ Joints -> Joints \cup { "null" } ]
  /\ \A i \in 0 .. n : nx[b[i]] = b[i + 1] /\ pv[b[i + 1]] = b[i]

(* Where an iterator stands: on a node or the end, or nowhere. *)
Spot(b, n, it, q) == \/ q \in 1 .. n + 1 /\ it = b[q]
                     \/ q = 0 /\ it = "null"

Stored == Values \cup { List!NoValue }

ListInv ==
  /\ nsize \in Nat /\ data \in [ Nodes -> Stored ]
  /\ iter \in used \cup { "tail", "null" }
  /\ \E b : Linked(b, nsize, nxt, prv, used)

(* What the definitions of the module say of such a list. *)
Shows(b) ==
  /\ List!Forward = [ i \in 1 .. nsize |-> b[i] ]
  /\ List!Items = [ i \in 1 .. nsize |-> data[b[i]] ]
  /\ \A q : Spot(b, nsize, iter, q) => List!Place = q

LEMMA OneSpot ==
  ASSUME NEW n \in Nat, NEW b, NEW nx, NEW pv, NEW us, Linked(b, n, nx, pv, us),
         NEW it, NEW q, NEW r, Spot(b, n, it, q), Spot(b, n, it, r)
  PROVE  q = r
<1>1. \A i \in 1 .. n + 1 : b[i] # "null" /\ i \in 0 .. n + 1
  <2>1. SUFFICES ASSUME NEW i \in 1 .. n + 1 PROVE b[i] # "null" /\ i \in 0 .. n + 1
    OBVIOUS
  <2>2. b[i] \in Nodes \/ b[i] = "tail"
    BY DEF Linked
  <2>3. QED
    BY <2>2, ListAssumption
<1>2. \A i, j \in 0 .. n + 1 : b[i] = b[j] => i = j
  BY DEF Linked
<1>3. QED
  BY <1>1, <1>2 DEF Spot

LEMMA Stands ==
  ASSUME NEW n \in Nat, NEW b, NEW nx, NEW pv, NEW us, Linked(b, n, nx, pv, us), NEW it
  PROVE  it \in us \cup { "tail", "null" } <=> \E q \in 0 .. n + 1 : Spot(b, n, it, q)
<1>1. ASSUME it \in us \cup { "tail", "null" } PROVE \E q \in 0 .. n + 1 : Spot(b, n, it, q)
  <2>1. CASE it \in us
    <3>1. PICK q \in 1 .. n : it = b[q]
      BY <2>1 DEF Linked
    <3>2. q \in 1 .. n + 1 /\ q \in 0 .. n + 1
      OBVIOUS
    <3>3. QED
      BY <3>1, <3>2 DEF Spot
  <2>2. CASE it = "tail"
    <3>1. n + 1 \in 1 .. n + 1 /\ n + 1 \in 0 .. n + 1 /\ b[n + 1] = "tail"
      BY DEF Linked
    <3>2. QED
      BY <2>2, <3>1 DEF Spot
  <2>3. CASE it = "null"
    BY <2>3 DEF Spot
  <2>4. QED
    BY <1>1, <2>1, <2>2, <2>3
<1>2. ASSUME NEW q \in 0 .. n + 1, Spot(b, n, it, q) PROVE it \in us \cup { "tail", "null" }
  <2>1. CASE q \in 1 .. n
    BY <1>2, <2>1 DEF Spot, Linked
  <2>2. CASE q = n + 1
    BY <1>2, <2>2 DEF Spot, Linked
  <2>3. CASE q = 0
    BY <1>2, <2>3 DEF Spot
  <2>4. q \in 1 .. n \/ q = n + 1 \/ q = 0
    OBVIOUS
  <2>5. QED
    BY <2>1, <2>2, <2>3, <2>4
<1>3. QED
  BY <1>1, <1>2

LEMMA ForwardIs ==
  ASSUME nsize \in Nat, NEW b, Linked(b, nsize, nxt, prv, used)
  PROVE  List!Forward = [ i \in 1 .. nsize |-> b[i] ]
<1> DEFINE n == nsize
           C == [ i \in 0 .. n |-> b[i] ]
           follows(f) == f = [ i \in 0 .. n |-> IF i = 0 THEN "head" ELSE nxt[f[i - 1]] ]
<1>1. n \in Nat
  OBVIOUS
<1>2. ASSUME NEW i \in 0 .. n, i # 0 PROVE i - 1 \in 0 .. n /\ b[i] = nxt[b[i - 1]]
  <2>1. i - 1 \in 0 .. n /\ i - 1 + 1 = i
    BY <1>1, <1>2
  <2>2. QED
    BY <2>1 DEF Linked
<1>3. b[0] = "head"
  BY DEF Linked
<1> HIDE DEF n
<1>4. follows(C)
  <2>1. ASSUME NEW i \in 0 .. n
        PROVE  b[i] = IF i = 0 THEN "head" ELSE nxt[C[i - 1]]
    BY <1>2, <1>3
  <2>2. QED
    BY <2>1
<1>5. ASSUME NEW f, follows(f) PROVE f = C
  <2> DEFINE g == [ i \in 0 .. n |-> IF i = 0 THEN "head" ELSE nxt[f[i - 1]] ]
  <2>1. g = [ i \in 0 .. n |-> g[i] ]
    OBVIOUS
  <2>2. f = g
    BY <1>5
  <2>3. ASSUME NEW i \in 0 .. n PROVE f[i] = IF i = 0 THEN "head" ELSE nxt[f[i - 1]]
    BY <1>5
  <2> HIDE DEF g
  <2>4. f = [ i \in 0 .. n |-> f[i] ]
    BY <2>1, <2>2
  <2>5. \A i \in 0 .. n : f[i] = b[i]
    <3> DEFINE wrong == { i \in 0 .. n : f[i] # b[i] }
    <3>1. SUFFICES ASSUME wrong # {} PROVE FALSE
      OBVIOUS
    <3>2. wrong \in SUBSET Nat
      BY <1>1
    <3>3. PICK i \in wrong : \A j \in wrong : i <= j
      BY <3>1, <3>2, LeastNumber
    <3>4. i \in 0 .. n /\ f[i] # b[i] /\ i # 0
      BY <1>3, <2>3, <3>3
    <3>5. i - 1 \in 0 .. n /\ ~ (i <= i - 1)
      BY <1>1, <3>4
    <3>6. f[i - 1] = b[i - 1]
      BY <3>3, <3>5
    <3>7. QED
      BY <1>2, <2>3, <3>4, <3>6
  <2>6. QED
    BY <2>4, <2>5
<1> DEFINE node == CHOOSE f : follows(f)
<1>6. List!Forward = [ i \in 1 .. n |-> node[i] ]
  BY Zenon DEF List!Forward, n
<1>7. node = C
  <2>1. follows(node)
    <3> HIDE DEF C, follows
    <3>1. QED
      BY <1>4, Zenon
  <2> HIDE DEF node
  <2>2. QED
    BY <1>5, <2>1
<1>8. \A i \in 1 .. n : C[i] = b[i]
  OBVIOUS
<1> HIDE DEF node, C
<1>9. QED
  BY <1>6, <1>7, <1>8 DEF n

LEMMA ListShows ==
  nsize \in Nat => \A b : Linked(b, nsize, nxt, prv, used) => Shows(b)
<1> SUFFICES ASSUME nsize \in Nat, NEW b, Linked(b, nsize, nxt, prv, used) PROVE Shows(b)
  OBVIOUS
<1>1. List!Forward = [ i \in 1 .. nsize |-> b[i] ]
  BY ForwardIs
<1>2. List!Items = [ i \in 1 .. nsize |-> data[b[i]] ]
  BY <1>1 DEF List!Items
<1>3. ASSUME NEW q, Spot(b, nsize, iter, q) PROVE List!Place = q
  <2> DEFINE s == [ i \in 1 .. nsize |-> b[i] ]
             p == CHOOSE i \in 1 .. nsize : s[i] = iter
  <2>1. List!Place = IF iter = "tail" THEN nsize + 1
                     ELSE IF \E i \in 1 .. nsize : b[i] = iter THEN p ELSE 0
    <3>1. iter \in List!Range(s) <=> \E i \in 1 .. nsize : b[i] = iter
      BY DEF List!Range
    <3>2. List!Place = IF iter = "tail" THEN nsize + 1
                       ELSE IF iter \in List!Range(s) THEN p ELSE 0
      BY <1>1 DEF List!Place
    <3> HIDE DEF s, p
    <3>3. QED
      BY <3>1, <3>2
  <2>2. CASE iter = "tail"
    <3>1. Spot(b, nsize, iter, nsize + 1)
      BY <2>2 DEF Spot, Linked
    <3>2. QED
      BY <1>3, <2>1, <2>2, <3>1, OneSpot
  <2>3. CASE iter # "tail" /\ \E i \in 1 .. nsize : b[i] = iter
    <3>1. p \in 1 .. nsize /\ s[p] = iter
      <4>1. \E i \in 1 .. nsize : s[i] = iter
        BY <2>3
      <4> HIDE DEF s
      <4>2. QED
        BY <4>1, Zenon
    <3> HIDE DEF p
    <3>2. Spot(b, nsize, iter, p)
      BY <3>1 DEF Spot
    <3>3. QED
      BY <1>3, <2>1, <2>3, <3>2, OneSpot
  <2>4. CASE iter # "tail" /\ ~ \E i \in 1 .. nsize : b[i] = iter
    <3>1. q = 0
      BY <1>3, <2>4 DEF Spot, Linked
    <3>2. QED
      BY <2>1, <2>4, <3>1
  <2>5. QED
    BY <2>2, <2>3, <2>4
<1>4. QED
  BY <1>1, <1>2, <1>3 DEF Shows

LEMMA EndsMeet == ListInv => List!EndsAgree
<1> SUFFICES ASSUME ListInv PROVE List!EndsAgree
  OBVIOUS
<1>1. PICK b : Linked(b, nsize, nxt, prv, used)
  BY DEF ListInv
<1>2. nsize \in Nat
  BY DEF ListInv
<1> DEFINE s == [ i \in 1 .. nsize |-> b[i] ]
<1>3. List!Forward = s
  BY <1>1, <1>2, ListShows DEF Shows
<1>4. Len(s) = nsize
  BY <1>2
<1>5. List!Ring(s) = b
  <2>1. List!Ring(s) = [ i \in 0 .. nsize + 1 |->
                           IF i = 0 THEN "head" ELSE IF i = nsize + 1 THEN "tail" ELSE s[i] ]
    <3> HIDE DEF s
    <3>1. QED
      BY <1>4 DEF List!Ring
  <2>2. b = [ i \in 0 .. nsize + 1 |-> b[i] ]
    BY <1>1 DEF Linked
  <2>3. ASSUME NEW i \in 0 .. nsize + 1
        PROVE  b[i] = IF i = 0 THEN "head" ELSE IF i = nsize + 1 THEN "tail" ELSE s[i]
    BY <1>1, <1>2 DEF Linked
  <2>4. QED
    BY <2>1, <2>2, <2>3
<1>6. List!Range(s) = used
  BY <1>1 DEF List!Range, Linked
<1>7. List!IsInjective(s)
  <2>1. ASSUME NEW i \in 1 .. nsize, NEW j \in 1 .. nsize, b[i] = b[j] PROVE i = j
    <3>1. i \in 0 .. nsize + 1 /\ j \in 0 .. nsize + 1
      BY <1>2
    <3>2. QED
      BY <1>1, <2>1, <3>1 DEF Linked
  <2>2. DOMAIN s = 1 .. nsize /\ \A i \in 1 .. nsize : s[i] = b[i]
    OBVIOUS
  <2> HIDE DEF s
  <2>3. QED
    BY <2>1, <2>2 DEF List!IsInjective
<1>8. ASSUME NEW i \in 1 .. nsize + 1 PROVE prv[b[i]] = b[i - 1]
  <2>1. i - 1 \in 0 .. nsize /\ i - 1 + 1 = i
    BY <1>2
  <2>2. QED
    BY <1>1, <2>1 DEF Linked
<1> HIDE DEF s
<1>9. QED
  BY <1>3, <1>5, <1>6, <1>7, <1>8 DEF List!EndsAgree

(* A row with one more at place p, and with one less.                      *)
Put(q, n, p, e) == [ i \in 1 .. n + 1 |-> IF i < p THEN q[i] ELSE IF i = p THEN e ELSE q[i - 1] ]
Cut(q, n, p) == [ i \in 1 .. n - 1 |-> IF i < p THEN q[i] ELSE q[i + 1] ]

LEMMA SameRow ==
  ASSUME NEW V, NEW s \in Seq(V), NEW f, NEW n \in Nat, f = [ i \in 1 .. n |-> f[i] ],
         Len(s) = n, \A i \in 1 .. n : s[i] = f[i]
  PROVE  s = f
<1>1. s \in [ 1 .. n -> V ]
  BY ElementOfSeq, LenProperties
<1>2. s = [ i \in 1 .. n |-> s[i] ]
  BY <1>1
<1>3. QED
  BY <1>2

(* What the operators for sequences do to a row.                           *)
PutIs(q, n, e) == << e >> \o q = Put(q, n, 1, e) /\ Append(q, e) = Put(q, n, n + 1, e)
CutIs(q, n, p) == SubSeq(q, 1, p - 1) \o SubSeq(q, p + 1, n) = Cut(q, n, p)

LEMMA RowPut ==
  ASSUME NEW V, NEW n \in Nat, NEW q \in [ 1 .. n -> V ], NEW e \in V
  PROVE  PutIs(q, n, e)
<1>1. q \in Seq(V)
  BY SeqDef
<1>2. Len(q) = n
  OBVIOUS
<1>3. << e >> \o q = Put(q, n, 1, e)
  <2>1. << e >> \in Seq(V) /\ Len(<< e >>) = 1 /\ << e >>[1] = e
    OBVIOUS
  <2>2. PICK t \in Seq(V) : t = << e >>
    BY <2>1
  <2>3. /\ t \o q \in Seq(V) /\ Len(t \o q) = Len(t) + Len(q)
        /\ \A i \in 1 .. Len(t) + Len(q) : (t \o q)[i] = IF i <= Len(t) THEN t[i] ELSE q[i - Len(t)]
    BY <1>1, ConcatProperties
  <2>4. PICK u \in Seq(V) : u = t \o q
    BY <2>3
  <2>5. Len(u) = n + 1
    BY <1>2, <2>1, <2>2, <2>3, <2>4
  <2>6. ASSUME NEW i \in 1 .. n + 1 PROVE u[i] = Put(q, n, 1, e)[i]
    <3>1. u[i] = IF i <= 1 THEN e ELSE q[i - 1]
      <4>1. u[i] = IF i <= Len(t) THEN t[i] ELSE q[i - Len(t)]
        BY <1>2, <2>1, <2>2, <2>3, <2>4, <2>6
      <4>2. Len(t) = 1 /\ t[1] = e
        BY <2>1, <2>2
      <4>3. i <= 1 => i = 1
        OBVIOUS
      <4>4. QED
        BY <4>1, <4>2, <4>3
    <3>2. QED
      BY <3>1 DEF Put
  <2>7. Put(q, n, 1, e) = [ i \in 1 .. n + 1 |-> Put(q, n, 1, e)[i] ]
    BY DEF Put
  <2>8. PICK f : f = Put(q, n, 1, e)
    OBVIOUS
  <2>9. u = f
    BY <2>5, <2>6, <2>7, <2>8, SameRow
  <2>10. QED
    BY <2>2, <2>4, <2>8, <2>9
<1>4. Append(q, e) = Put(q, n, n + 1, e)
  <2>1. /\ Append(q, e) \in Seq(V) /\ Len(Append(q, e)) = n + 1
        /\ \A i \in 1 .. n : Append(q, e)[i] = q[i]
        /\ Append(q, e)[n + 1] = e
    BY <1>1, <1>2, AppendProperties
  <2>2. PICK u \in Seq(V) : u = Append(q, e)
    BY <2>1
  <2>3. ASSUME NEW i \in 1 .. n + 1 PROVE u[i] = Put(q, n, n + 1, e)[i]
    <3>1. i \in 1 .. n \/ i = n + 1
      OBVIOUS
    <3>2. QED
      BY <2>1, <2>2, <3>1 DEF Put
  <2>4. Put(q, n, n + 1, e) = [ i \in 1 .. n + 1 |-> Put(q, n, n + 1, e)[i] ]
    BY DEF Put
  <2>5. PICK f : f = Put(q, n, n + 1, e)
    OBVIOUS
  <2>6. u = f
    BY <2>1, <2>2, <2>3, <2>4, <2>5, SameRow
  <2>7. QED
    BY <2>2, <2>5, <2>6
<1>5. QED
  BY <1>3, <1>4 DEF PutIs

LEMMA RowCut ==
  ASSUME NEW V, NEW n \in Nat, NEW q \in [ 1 .. n -> V ], NEW p \in 1 .. n
  PROVE  /\ q # << >> /\ Tail(q) = Cut(q, n, 1) /\ SubSeq(q, 1, n - 1) = Cut(q, n, n)
         /\ CutIs(q, n, p)
<1>1. q \in Seq(V)
  BY SeqDef
<1>2. Len(q) = n
  OBVIOUS
<1>3. n # 0
  OBVIOUS
<1>4. q # << >>
  BY <1>1, <1>2, <1>3, EmptySeq
<1>5. Tail(q) = Cut(q, n, 1)
  <2>1. /\ Tail(q) \in Seq(V) /\ Len(Tail(q)) = n - 1
        /\ \A i \in 1 .. n - 1 : Tail(q)[i] = q[i + 1]
    BY <1>1, <1>2, <1>4, HeadTailProperties
  <2>2. PICK u \in Seq(V) : u = Tail(q)
    BY <2>1
  <2>3. PICK f : f = Cut(q, n, 1)
    OBVIOUS
  <2>4. f = [ i \in 1 .. n - 1 |-> f[i] ] /\ \A i \in 1 .. n - 1 : f[i] = q[i + 1]
    BY <2>3 DEF Cut
  <2>5. n - 1 \in Nat
    BY <1>3
  <2>6. Len(u) = n - 1 /\ \A i \in 1 .. n - 1 : u[i] = f[i]
    BY <2>1, <2>2, <2>4
  <2>7. u = f
    BY <2>4, <2>5, <2>6, SameRow
  <2>8. QED
    BY <2>2, <2>3, <2>7
<1>6. ASSUME NEW h \in 1 .. n
      PROVE  /\ SubSeq(q, 1, h - 1) \in Seq(V) /\ Len(SubSeq(q, 1, h - 1)) = h - 1
             /\ \A i \in 1 .. h - 1 : SubSeq(q, 1, h - 1)[i] = q[i]
  <2>1. PICK k \in Int : k = h - 1
    OBVIOUS
  <2>2. \A i \in 1 .. k : q[i] \in V
    BY <2>1
  <2>3. /\ SubSeq(q, 1, k) \in Seq(V)
        /\ Len(SubSeq(q, 1, k)) = IF 1 <= k THEN k - 1 + 1 ELSE 0
        /\ \A i \in 1 .. k - 1 + 1 : SubSeq(q, 1, k)[i] = q[1 + i - 1]
    BY <2>2, SubSeqProperties
  <2>4. k \in Nat /\ k - 1 + 1 = k /\ (~ (1 <= k) => k = 0)
    BY <2>1
  <2>5. \A i \in 1 .. k : 1 + i - 1 = i
    BY <2>4
  <2>6. QED
    BY <2>1, <2>3, <2>4, <2>5
<1>7. /\ SubSeq(q, p + 1, n) \in Seq(V) /\ Len(SubSeq(q, p + 1, n)) = n - p
      /\ \A i \in 1 .. n - p : SubSeq(q, p + 1, n)[i] = q[p + i]
  <2>1. PICK m \in Int : m = p + 1
    OBVIOUS
  <2>2. \A i \in m .. n : q[i] \in V
    BY <2>1
  <2>3. /\ SubSeq(q, m, n) \in Seq(V)
        /\ Len(SubSeq(q, m, n)) = IF m <= n THEN n - m + 1 ELSE 0
        /\ \A i \in 1 .. n - m + 1 : SubSeq(q, m, n)[i] = q[m + i - 1]
    BY <2>2, SubSeqProperties
  <2>4. n - m + 1 = n - p /\ (~ (m <= n) => n - p = 0)
    BY <2>1
  <2>5. \A i \in 1 .. n - p : m + i - 1 = p + i
    BY <2>1
  <2>6. QED
    BY <2>1, <2>3, <2>4, <2>5
<1>8. SubSeq(q, 1, n - 1) = Cut(q, n, n)
  <2>1. n \in 1 .. n /\ n - 1 \in Nat
    BY <1>3
  <2>2. PICK u \in Seq(V) : u = SubSeq(q, 1, n - 1)
    BY <1>6, <2>1
  <2>3. Len(u) = n - 1 /\ \A i \in 1 .. n - 1 : u[i] = q[i]
    BY <1>6, <2>1, <2>2
  <2>4. PICK f : f = Cut(q, n, n)
    OBVIOUS
  <2>5. f = [ i \in 1 .. n - 1 |-> f[i] ] /\ \A i \in 1 .. n - 1 : f[i] = q[i]
    BY <2>4 DEF Cut
  <2>6. u = f
    BY <2>1, <2>3, <2>5, SameRow
  <2>7. QED
    BY <2>2, <2>4, <2>6
<1>9. SubSeq(q, 1, p - 1) \o SubSeq(q, p + 1, n) = Cut(q, n, p)
  <2>1. PICK s \in Seq(V) : s = SubSeq(q, 1, p - 1)
    BY <1>6
  <2>2. PICK t \in Seq(V) : t = SubSeq(q, p + 1, n)
    BY <1>7
  <2>3. /\ Len(s) = p - 1 /\ Len(t) = n - p
        /\ \A i \in 1 .. p - 1 : s[i] = q[i]
        /\ \A i \in 1 .. n - p : t[i] = q[p + i]
    BY <1>6, <1>7, <2>1, <2>2
  <2>4. /\ s \o t \in Seq(V) /\ Len(s \o t) = Len(s) + Len(t)
        /\ \A i \in 1 .. Len(s) + Len(t) : (s \o t)[i] = IF i <= Len(s) THEN s[i] ELSE t[i - Len(s)]
    BY ConcatProperties
  <2>5. PICK u \in Seq(V) : u = s \o t
    BY <2>4
  <2>6. n - 1 \in Nat /\ Len(u) = n - 1 /\ Len(s) + Len(t) = n - 1
    BY <2>3, <2>4, <2>5
  <2>7. PICK f : f = Cut(q, n, p)
    OBVIOUS
  <2>8. f = [ i \in 1 .. n - 1 |-> f[i] ]
        /\ \A i \in 1 .. n - 1 : f[i] = IF i < p THEN q[i] ELSE q[i + 1]
    BY <2>7 DEF Cut
  <2>9. ASSUME NEW i \in 1 .. n - 1 PROVE u[i] = f[i]
    <3>1. u[i] = IF i <= p - 1 THEN s[i] ELSE t[i - (p - 1)]
      BY <2>3, <2>4, <2>5, <2>6
    <3>2. CASE i < p
      <4>1. i \in 1 .. p - 1 /\ i <= p - 1
        BY <3>2
      <4>2. QED
        BY <2>3, <2>8, <3>1, <3>2, <4>1
    <3>3. CASE ~ (i < p)
      <4>1. i - (p - 1) \in 1 .. n - p /\ p + (i - (p - 1)) = i + 1 /\ ~ (i <= p - 1)
        BY <3>3
      <4>2. QED
        BY <2>3, <2>8, <3>1, <3>3, <4>1
    <3>4. QED
      BY <3>2, <3>3
  <2>10. u = f
    BY <2>6, <2>8, <2>9, SameRow
  <2>11. QED
    BY <2>1, <2>2, <2>5, <2>7, <2>10
<1>10. QED
  BY <1>4, <1>5, <1>8, <1>9 DEF CutIs

(* Nodes apart from the sentinels, and every joint in its own place.       *)
LEMMA Apart ==
  ASSUME NEW n \in Nat, NEW b, NEW nx, NEW pv, NEW us, Linked(b, n, nx, pv, us)
  PROVE  /\ \A i \in 0 .. n + 1 : b[i] \in Joints
         /\ \A i \in 0 .. n + 1 : b[i] \in us <=> i \in 1 .. n
         /\ us \subseteq Nodes
<1>1. \A i \in 0 .. n + 1 : b[i] \in Joints
  BY DEF Linked
<1>2. us \subseteq Nodes
  BY DEF Linked
<1>3. ASSUME NEW i \in 0 .. n + 1 PROVE b[i] \in us <=> i \in 1 .. n
  <2>1. ASSUME b[i] \in us PROVE i \in 1 .. n
    <3>1. PICK j \in 1 .. n : b[i] = b[j]
      BY <2>1 DEF Linked
    <3>2. j \in 0 .. n + 1
      OBVIOUS
    <3>3. QED
      BY <3>1, <3>2 DEF Linked
  <2>2. QED
    BY <2>1 DEF Linked
<1>4. QED
  BY <1>1, <1>2, <1>3

(* The row with m put at place p, with place p cut, and the links with m.  *)
RowWith(b, k, p, m) ==
  [ i \in 0 .. k + 1 |-> IF i < p THEN b[i] ELSE IF i = p THEN m ELSE b[i - 1] ]
RowWithout(b, k, p) == [ i \in 0 .. k + 1 |-> IF i < p THEN b[i] ELSE b[i + 1] ]
LinkedTo(links, m, e, f) == [ links EXCEPT ![m] = e, ![f] = m ]
LinkedPast(links, e, f) == [ links EXCEPT ![e] = f ]

LEMMA LinkedPut ==
  ASSUME NEW n \in Nat, NEW b, NEW nx, NEW pv, NEW us, Linked(b, n, nx, pv, us),
         NEW p \in 1 .. n + 1, NEW m \in Nodes, m \notin us, NEW k, k = n + 1,
         NEW nx1, nx1 = LinkedTo(nx, m, b[p], b[p - 1]),
         NEW pv1, pv1 = LinkedTo(pv, m, b[p - 1], b[p]),
         NEW c, c = RowWith(b, k, p, m)
  PROVE  Linked(c, k, nx1, pv1, us \cup { m })
<1>1. /\ b \in [ 0 .. n + 1 -> Joints ] /\ b[0] = "head" /\ b[n + 1] = "tail"
      /\ \A i \in 1 .. n : b[i] \in Nodes
      /\ \A i, j \in 0 .. n + 1 : b[i] = b[j] => i = j
      /\ us = { b[i] : i \in 1 .. n }
      /\ nx \in [ Joints -> Joints \cup { "null" } ] /\ pv \in [ Joints -> Joints \cup { "null" } ]
      /\ \A i \in 0 .. n : nx[b[i]] = b[i + 1] /\ pv[b[i + 1]] = b[i]
  BY DEF Linked
<1>2. k \in Nat /\ m \in Joints /\ p - 1 \in 0 .. n + 1 /\ p \in 0 .. n + 1
  BY DEF Joints
<1>3. \A i \in 0 .. n + 1 : b[i] \in Joints /\ b[i] # m
  <2>1. ASSUME NEW i \in 0 .. n + 1 PROVE b[i] # m
    <3>1. i = 0 \/ i = n + 1 \/ i \in 1 .. n
      OBVIOUS
    <3>2. QED
      BY <1>1, <3>1, ListAssumption
  <2>2. QED
    BY <1>1, <2>1
<1>4. /\ \A i \in 0 .. k + 1 : i < p => c[i] = b[i] /\ i \in 0 .. n + 1
      /\ c[p] = m
      /\ \A i \in 0 .. k + 1 : i > p => c[i] = b[i - 1] /\ i - 1 \in 0 .. n + 1
  BY <1>2 DEF RowWith
<1>5. c \in [ 0 .. k + 1 -> Joints ] /\ c[0] = "head" /\ c[k + 1] = "tail"
  <2>0. c = [ i \in 0 .. k + 1 |-> c[i] ]
    BY DEF RowWith
  <2>1. \A i \in 0 .. k + 1 : c[i] \in Joints
    BY <1>2, <1>3, <1>4
  <2>2. 0 < p /\ k + 1 > p /\ k + 1 - 1 = n + 1 /\ 0 \in 0 .. k + 1 /\ k + 1 \in 0 .. k + 1
    BY <1>2
  <2>3. c \in [ 0 .. k + 1 -> Joints ]
    BY <2>0, <2>1
  <2>4. c[0] = b[0] /\ c[k + 1] = b[k + 1 - 1]
    BY <1>4, <2>2
  <2>5. QED
    BY <1>1, <2>2, <2>3, <2>4
<1>6. \A i \in 1 .. k : c[i] \in Nodes
  <2>1. ASSUME NEW i \in 1 .. k PROVE c[i] \in Nodes
    <3>1. i < p => i \in 1 .. n
      OBVIOUS
    <3>2. i > p => i - 1 \in 1 .. n
      OBVIOUS
    <3>3. i < p \/ i = p \/ i > p
      OBVIOUS
    <3>4. QED
      BY <1>1, <1>2, <1>4, <3>1, <3>2, <3>3
  <2>2. QED
    BY <2>1
<1>7. ASSUME NEW i \in 0 .. k + 1, NEW j \in 0 .. k + 1, c[i] = c[j] PROVE i = j
  <2>1. (i < p \/ i = p \/ i > p) /\ (j < p \/ j = p \/ j > p)
    BY <1>2
  <2>2. (i < p /\ j < p) => i = j
    BY <1>1, <1>4, <1>7
  <2>3. (i > p /\ j > p) => i - 1 = j - 1
    BY <1>1, <1>4, <1>7
  <2>4. (i < p /\ j > p) => i = j - 1
    BY <1>1, <1>4, <1>7
  <2>5. (i > p /\ j < p) => i - 1 = j
    BY <1>1, <1>4, <1>7
  <2>6. (i = p \/ j = p) => i = p /\ j = p
    BY <1>3, <1>4, <1>7, <2>1
  <2>7. QED
    BY <1>2, <2>1, <2>2, <2>3, <2>4, <2>5, <2>6
<1>8. us \cup { m } = { c[i] : i \in 1 .. k }
  <2>1. ASSUME NEW e \in us PROVE \E i \in 1 .. k : e = c[i]
    <3>1. PICK j \in 1 .. n : e = b[j]
      BY <1>1
    <3>2. CASE j < p
      <4>1. j \in 1 .. k /\ j \in 0 .. k + 1
        OBVIOUS
      <4>2. c[j] = b[j]
        BY <1>4, <3>2, <4>1
      <4>3. QED
        BY <3>1, <4>1, <4>2
    <3>3. CASE ~ (j < p)
      <4>1. j + 1 \in 1 .. k /\ j + 1 > p /\ j + 1 - 1 = j /\ j + 1 \in 0 .. k + 1
        BY <1>2, <3>3
      <4>2. c[j + 1] = b[j]
        BY <1>4, <4>1
      <4>3. QED
        BY <3>1, <4>1, <4>2
    <3>4. QED
      BY <3>2, <3>3
  <2>2. p \in 1 .. k /\ c[p] = m
    BY <1>4
  <2>3. ASSUME NEW i \in 1 .. k PROVE c[i] \in us \cup { m }
    <3>1. i \in 0 .. k + 1
      OBVIOUS
    <3>2. CASE i < p
      <4>1. i \in 1 .. n
        BY <3>2
      <4>2. QED
        BY <1>1, <1>4, <3>1, <3>2, <4>1
    <3>3. CASE i = p
      BY <1>4, <3>3
    <3>4. CASE i > p
      <4>1. i - 1 \in 1 .. n
        BY <3>4
      <4>2. QED
        BY <1>1, <1>4, <3>1, <3>4, <4>1
    <3>5. QED
      BY <1>2, <3>2, <3>3, <3>4
  <2>4. \A e : e \in us \cup { m } <=> \E i \in 1 .. k : e = c[i]
    BY <2>1, <2>2, <2>3
  <2>5. QED
    BY <2>4
<1>9. /\ nx1 \in [ Joints -> Joints \cup { "null" } ] /\ pv1 \in [ Joints -> Joints \cup { "null" } ]
      /\ nx1[m] = b[p] /\ nx1[b[p - 1]] = m
      /\ pv1[m] = b[p - 1] /\ pv1[b[p]] = m
      /\ \A i \in 0 .. n + 1 : i # p - 1 => nx1[b[i]] = nx[b[i]]
      /\ \A i \in 0 .. n + 1 : i # p => pv1[b[i]] = pv[b[i]]
  BY <1>1, <1>2, <1>3 DEF LinkedTo
<1>10. ASSUME NEW i \in 0 .. k PROVE nx1[c[i]] = c[i + 1] /\ pv1[c[i + 1]] = c[i]
  <2>1. i \in 0 .. k + 1 /\ i + 1 \in 0 .. k + 1 /\ i + 1 - 1 = i
    BY <1>2
  <2>2. CASE i < p - 1
    <3>1. i \in 0 .. n /\ i # p - 1 /\ i + 1 # p /\ i < p /\ i + 1 < p /\ i + 1 \in 0 .. n + 1
      BY <2>2
    <3>2. nx[b[i]] = b[i + 1] /\ pv[b[i + 1]] = b[i]
      BY <1>1, <3>1
    <3>3. c[i] = b[i] /\ c[i + 1] = b[i + 1]
      BY <1>4, <2>1, <3>1
    <3>4. nx1[b[i]] = nx[b[i]]
      BY <1>9, <3>1
    <3>5. pv1[b[i + 1]] = pv[b[i + 1]]
      BY <1>9, <3>1
    <3>6. QED
      BY <3>2, <3>3, <3>4, <3>5
  <2>3. CASE i = p - 1
    <3>1. i < p /\ i + 1 = p
      BY <2>3
    <3>2. QED
      BY <1>4, <1>9, <2>1, <2>3, <3>1
  <2>4. CASE i = p
    <3>1. i + 1 > p
      BY <2>4
    <3>2. c[i] = m /\ c[i + 1] = b[i + 1 - 1]
      BY <1>4, <2>1, <2>4, <3>1
    <3>3. b[i + 1 - 1] = b[p]
      BY <2>1, <2>4
    <3>4. QED
      BY <1>9, <3>2, <3>3
  <2>5. CASE i > p
    <3>1. /\ i - 1 \in 0 .. n /\ i - 1 # p - 1 /\ i # p /\ i + 1 > p /\ i \in 0 .. n + 1
          /\ i - 1 + 1 = i /\ i - 1 \in 0 .. n + 1
      BY <1>2, <2>5
    <3>2. nx[b[i - 1]] = b[i] /\ pv[b[i]] = b[i - 1]
      BY <1>1, <3>1
    <3>3. c[i] = b[i - 1] /\ c[i + 1] = b[i]
      BY <1>4, <2>1, <2>5, <3>1
    <3>4. nx1[b[i - 1]] = nx[b[i - 1]]
      BY <1>9, <3>1
    <3>5. pv1[b[i]] = pv[b[i]]
      BY <1>9, <3>1
    <3>6. QED
      BY <3>2, <3>3, <3>4, <3>5
  <2>6. QED
    BY <2>2, <2>3, <2>4, <2>5
<1>11. QED
  BY <1>5, <1>6, <1>7, <1>8, <1>9, <1>10 DEF Linked

LEMMA LinkedCut ==
  ASSUME NEW n \in Nat, NEW b, NEW nx, NEW pv, NEW us, Linked(b, n, nx, pv, us),
         NEW p \in 1 .. n, NEW k, k = n - 1,
         NEW nx1, nx1 = LinkedPast(nx, b[p - 1], b[p + 1]),
         NEW pv1, pv1 = LinkedPast(pv, b[p + 1], b[p - 1]),
         NEW c, c = RowWithout(b, k, p)
  PROVE  Linked(c, k, nx1, pv1, us \ { b[p] })
<1>1. /\ b \in [ 0 .. n + 1 -> Joints ] /\ b[0] = "head" /\ b[n + 1] = "tail"
      /\ \A i \in 1 .. n : b[i] \in Nodes
      /\ \A i, j \in 0 .. n + 1 : b[i] = b[j] => i = j
      /\ us = { b[i] : i \in 1 .. n }
      /\ nx \in [ Joints -> Joints \cup { "null" } ] /\ pv \in [ Joints -> Joints \cup { "null" } ]
      /\ \A i \in 0 .. n : nx[b[i]] = b[i + 1] /\ pv[b[i + 1]] = b[i]
  BY DEF Linked
<1>2. k \in Nat /\ p - 1 \in 0 .. n + 1 /\ p \in 0 .. n + 1 /\ p + 1 \in 0 .. n + 1
  OBVIOUS
<1>4. /\ \A i \in 0 .. k + 1 : i < p => c[i] = b[i] /\ i \in 0 .. n + 1
      /\ \A i \in 0 .. k + 1 : i >= p => c[i] = b[i + 1] /\ i + 1 \in 0 .. n + 1
  BY <1>2 DEF RowWithout
<1>5. c \in [ 0 .. k + 1 -> Joints ] /\ c[0] = "head" /\ c[k + 1] = "tail"
  <2>0. c = [ i \in 0 .. k + 1 |-> c[i] ]
    BY DEF RowWithout
  <2>1. \A i \in 0 .. k + 1 : c[i] \in Joints
    BY <1>1, <1>2, <1>4
  <2>2. 0 < p /\ k + 1 >= p /\ k + 1 + 1 = n + 1 /\ 0 \in 0 .. k + 1 /\ k + 1 \in 0 .. k + 1
    BY <1>2
  <2>3. c \in [ 0 .. k + 1 -> Joints ]
    BY <2>0, <2>1
  <2>4. c[0] = b[0] /\ c[k + 1] = b[k + 1 + 1]
    BY <1>4, <2>2
  <2>5. QED
    BY <1>1, <2>2, <2>3, <2>4
<1>6. \A i \in 1 .. k : c[i] \in Nodes
  <2>1. ASSUME NEW i \in 1 .. k PROVE c[i] \in Nodes
    <3>1. i \in 1 .. n /\ i + 1 \in 1 .. n /\ i \in 0 .. k + 1
      OBVIOUS
    <3>2. i < p \/ i >= p
      OBVIOUS
    <3>3. QED
      BY <1>1, <1>4, <3>1, <3>2
  <2>2. QED
    BY <2>1
<1>7. ASSUME NEW i \in 0 .. k + 1, NEW j \in 0 .. k + 1, c[i] = c[j] PROVE i = j
  <2>1. (i < p \/ i >= p) /\ (j < p \/ j >= p)
    BY <1>2
  <2>2. (i < p /\ j < p) => i = j
    BY <1>1, <1>4, <1>7
  <2>3. (i >= p /\ j >= p) => i + 1 = j + 1
    BY <1>1, <1>4, <1>7
  <2>4. (i < p /\ j >= p) => i = j + 1
    BY <1>1, <1>4, <1>7
  <2>5. (i >= p /\ j < p) => i + 1 = j
    BY <1>1, <1>4, <1>7
  <2>6. QED
    BY <1>2, <2>1, <2>2, <2>3, <2>4, <2>5
<1>8. us \ { b[p] } = { c[i] : i \in 1 .. k }
  <2>1. ASSUME NEW e \in us, e # b[p] PROVE \E i \in 1 .. k : e = c[i]
    <3>1. PICK j \in 1 .. n : e = b[j]
      BY <1>1
    <3>2. CASE j < p
      <4>1. j \in 1 .. k /\ j \in 0 .. k + 1
        BY <3>2
      <4>2. QED
        BY <1>4, <3>1, <3>2, <4>1
    <3>3. CASE ~ (j < p)
      <4>1. j # p
        BY <2>1, <3>1
      <4>2. j - 1 \in 1 .. k /\ j - 1 >= p /\ j - 1 + 1 = j /\ j - 1 \in 0 .. k + 1
        BY <3>3, <4>1
      <4>3. QED
        BY <1>4, <3>1, <4>2
    <3>4. QED
      BY <3>2, <3>3
  <2>2. ASSUME NEW i \in 1 .. k PROVE c[i] \in us /\ c[i] # b[p]
    <3>1. i \in 0 .. k + 1 /\ i \in 1 .. n /\ i + 1 \in 1 .. n
      OBVIOUS
    <3>2. CASE i < p
      <4>1. i # p /\ i \in 0 .. n + 1
        BY <3>2
      <4>2. QED
        BY <1>1, <1>2, <1>4, <3>1, <3>2, <4>1
    <3>3. CASE i >= p
      <4>1. i + 1 # p /\ i + 1 \in 0 .. n + 1
        BY <3>3
      <4>2. QED
        BY <1>1, <1>2, <1>4, <3>1, <3>3, <4>1
    <3>4. QED
      BY <3>2, <3>3
  <2>3. \A e : e \in us \ { b[p] } <=> \E i \in 1 .. k : e = c[i]
    BY <2>1, <2>2
  <2>4. \A e : e \in { c[i] : i \in 1 .. k } <=> \E i \in 1 .. k : e = c[i]
    OBVIOUS
  <2>5. PICK r : r = us \ { b[p] }
    OBVIOUS
  <2>6. PICK q : q = { c[i] : i \in 1 .. k }
    OBVIOUS
  <2>7. \A e : e \in r <=> e \in q
    BY <2>3, <2>4, <2>5, <2>6
  <2>8. r = q
    BY <2>7
  <2>9. QED
    BY <2>5, <2>6, <2>8
<1>9. /\ nx1 \in [ Joints -> Joints \cup { "null" } ] /\ pv1 \in [ Joints -> Joints \cup { "null" } ]
      /\ nx1[b[p - 1]] = b[p + 1] /\ pv1[b[p + 1]] = b[p - 1]
      /\ \A i \in 0 .. n + 1 : i # p - 1 => nx1[b[i]] = nx[b[i]]
      /\ \A i \in 0 .. n + 1 : i # p + 1 => pv1[b[i]] = pv[b[i]]
  BY <1>1, <1>2 DEF LinkedPast
<1>10. ASSUME NEW i \in 0 .. k PROVE nx1[c[i]] = c[i + 1] /\ pv1[c[i + 1]] = c[i]
  <2>1. i \in 0 .. k + 1 /\ i + 1 \in 0 .. k + 1 /\ i \in 0 .. n /\ i + 1 \in 0 .. n
    BY <1>2
  <2>2. CASE i < p - 1
    <3>1. i # p - 1 /\ i + 1 # p + 1 /\ i < p /\ i + 1 < p /\ i \in 0 .. n + 1 /\ i + 1 \in 0 .. n + 1
      BY <2>2
    <3>2. nx[b[i]] = b[i + 1] /\ pv[b[i + 1]] = b[i]
      BY <1>1, <2>1
    <3>3. c[i] = b[i] /\ c[i + 1] = b[i + 1]
      BY <1>4, <2>1, <3>1
    <3>4. nx1[b[i]] = nx[b[i]] /\ pv1[b[i + 1]] = pv[b[i + 1]]
      BY <1>9, <3>1
    <3>5. QED
      BY <3>2, <3>3, <3>4
  <2>3. CASE i = p - 1
    <3>1. i < p /\ i + 1 = p /\ i + 1 >= p /\ i + 1 + 1 = p + 1
      BY <2>3
    <3>2. QED
      BY <1>4, <1>9, <2>1, <2>3, <3>1
  <2>4. CASE i >= p
    <3>1. /\ i + 1 # p - 1 /\ i + 1 + 1 # p + 1 /\ i + 1 >= p
          /\ i + 1 \in 0 .. n + 1 /\ i + 1 + 1 \in 0 .. n + 1
      BY <1>2, <2>1, <2>4
    <3>2. nx[b[i + 1]] = b[i + 1 + 1] /\ pv[b[i + 1 + 1]] = b[i + 1]
      BY <1>1, <2>1
    <3>3. c[i] = b[i + 1] /\ c[i + 1] = b[i + 1 + 1]
      BY <1>4, <2>1, <2>4, <3>1
    <3>4. nx1[b[i + 1]] = nx[b[i + 1]] /\ pv1[b[i + 1 + 1]] = pv[b[i + 1 + 1]]
      BY <1>9, <3>1
    <3>5. QED
      BY <3>2, <3>3, <3>4
  <2>5. QED
    BY <2>2, <2>3, <2>4
<1>11. QED
  BY <1>5, <1>6, <1>7, <1>8, <1>9, <1>10 DEF Linked

(* The row without those that are gone.                                    *)
RowKept(b, k, order) ==
  [ j \in 0 .. k + 1 |-> IF j = 0 THEN "head" ELSE IF j = k + 1 THEN "tail" ELSE b[order[j]] ]
Keeps(b, n, gone, k, order) ==
  /\ \A j \in 1 .. k : order[j] \in 1 .. n /\ b[order[j]] \notin gone
  /\ \A i \in 1 .. n : b[i] \notin gone => \E j \in 1 .. k : order[j] = i
  /\ \A i, j \in 1 .. k : i < j => order[i] < order[j]

LEMMA KeptRow ==
  ASSUME NEW n \in Nat, NEW b, NEW nx, NEW pv, NEW us, Linked(b, n, nx, pv, us),
         NEW gone \in SUBSET us, NEW k \in Nat, NEW order, Keeps(b, n, gone, k, order),
         NEW c, c = RowKept(b, k, order)
  PROVE  /\ c \in [ 0 .. k + 1 -> Joints ] /\ c[0] = "head" /\ c[k + 1] = "tail"
         /\ \A j \in 1 .. k : c[j] = b[order[j]] /\ c[j] \in Nodes
         /\ \A i, j \in 0 .. k + 1 : c[i] = c[j] => i = j
         /\ us \ gone = { c[j] : j \in 1 .. k }
<1>1. /\ \A i \in 1 .. n : b[i] \in Nodes /\ i \in 0 .. n + 1
      /\ \A i, j \in 0 .. n + 1 : b[i] = b[j] => i = j
      /\ us = { b[i] : i \in 1 .. n }
  BY DEF Linked
<1>2. c[0] = "head" /\ c[k + 1] = "tail" /\ \A j \in 1 .. k : c[j] = b[order[j]]
  BY DEF RowKept
<1>3. /\ \A j \in 1 .. k : order[j] \in 1 .. n /\ b[order[j]] \notin gone
      /\ \A i \in 1 .. n : b[i] \notin gone => \E j \in 1 .. k : order[j] = i
      /\ \A i, j \in 1 .. k : i < j => order[i] < order[j]
  BY DEF Keeps
<1>4. \A j \in 1 .. k : c[j] \in Nodes
  BY <1>1, <1>2, <1>3
<1>5. \A j \in 0 .. k + 1 : j = 0 \/ j = k + 1 \/ j \in 1 .. k
  OBVIOUS
<1>6. c \in [ 0 .. k + 1 -> Joints ]
  <2>1. \A j \in 0 .. k + 1 : c[j] \in Joints
    BY <1>2, <1>4, <1>5 DEF Joints
  <2>2. QED
    BY <2>1 DEF RowKept
<1>7. ASSUME NEW i \in 1 .. k, NEW j \in 1 .. k, c[i] = c[j] PROVE i = j
  <2>1. order[i] = order[j]
    BY <1>1, <1>2, <1>3, <1>7
  <2>2. order[i] \in Int /\ order[j] \in Int
    BY <1>3
  <2>3. ~ (i < j) /\ ~ (j < i)
    BY <1>3, <2>1, <2>2
  <2>4. QED
    BY <2>3
<1>8. ASSUME NEW i \in 0 .. k + 1, NEW j \in 0 .. k + 1, c[i] = c[j] PROVE i = j
  <2>1. ASSUME NEW h \in 1 .. k PROVE c[h] # "head" /\ c[h] # "tail"
    BY <1>4, <2>1, ListAssumption
  <2>2. CASE i = 0
    BY <1>2, <1>5, <1>8, <2>1, <2>2
  <2>3. CASE i = k + 1
    BY <1>2, <1>5, <1>8, <2>1, <2>3
  <2>4. CASE i \in 1 .. k
    BY <1>2, <1>5, <1>7, <1>8, <2>1, <2>4
  <2>5. QED
    BY <1>5, <2>2, <2>3, <2>4
<1>9. us \ gone = { c[j] : j \in 1 .. k }
  <2>1. ASSUME NEW e \in us, e \notin gone PROVE \E j \in 1 .. k : e = c[j]
    <3>1. PICK i \in 1 .. n : e = b[i]
      BY <1>1
    <3>2. PICK j \in 1 .. k : order[j] = i
      BY <1>3, <2>1, <3>1
    <3>3. QED
      BY <1>2, <3>1, <3>2
  <2>2. ASSUME NEW j \in 1 .. k PROVE c[j] \in us /\ c[j] \notin gone
    BY <1>1, <1>2, <1>3
  <2>3. \A e : e \in us \ gone <=> \E j \in 1 .. k : e = c[j]
    BY <2>1, <2>2
  <2>4. \A e : e \in { c[j] : j \in 1 .. k } <=> \E j \in 1 .. k : e = c[j]
    OBVIOUS
  <2>5. PICK r : r = us \ gone
    OBVIOUS
  <2>6. PICK q : q = { c[j] : j \in 1 .. k }
    OBVIOUS
  <2>7. \A e : e \in r <=> e \in q
    BY <2>3, <2>4, <2>5, <2>6
  <2>8. r = q
    BY <2>7
  <2>9. QED
    BY <2>5, <2>6, <2>8
<1>10. QED
  BY <1>2, <1>4, <1>6, <1>8, <1>9

(* There are as many nodes as the list is long.                            *)
LEMMA Counted ==
  ASSUME NEW n \in Nat, NEW b, NEW nx, NEW pv, NEW us, Linked(b, n, nx, pv, us)
  PROVE  IsFiniteSet(us) /\ Cardinality(us) = n
<1> DEFINE s == [ i \in 1 .. n |-> b[i] ]
<1>1. IsFiniteSet(1 .. n) /\ Cardinality(1 .. n) = n
  BY FS_Interval
<1>2. us = { b[i] : i \in 1 .. n } /\ \A i, j \in 1 .. n : b[i] = b[j] => i = j
  <2>1. \A i \in 1 .. n : i \in 0 .. n + 1
    OBVIOUS
  <2>2. QED
    BY <2>1 DEF Linked
<1>3. s \in Bijection(1 .. n, us)
  BY <1>2 DEF Bijection, Injection, IsInjective, Surjection
<1>4. ExistsBijection(1 .. n, us)
  BY <1>3 DEF ExistsBijection
<1>5. QED
  BY <1>1, <1>4, FS_Bijection

LEMMA ListShowsNext ==
  (nsize \in Nat => \A b : Linked(b, nsize, nxt, prv, used) => Shows(b))'
BY ListShows, PTL

(* Every step of the list is one of a row b to a row c.                    *)
LEMMA PutStep ==
  ASSUME ListInv, NEW b, Linked(b, nsize, nxt, prv, used), NEW p \in 1 .. nsize + 1,
         NEW v \in Values, List!PutBetween(b[p - 1], b[p], v), iter' = iter
  PROVE  /\ ListInv' /\ nsize < Cardinality(Nodes)
         /\ List!Items' = Put(List!Items, nsize, p, v)
         /\ List!Place' = IF List!Place >= p THEN List!Place + 1 ELSE List!Place
<1>1. nsize \in Nat /\ data \in [ Nodes -> Stored ]
  BY DEF ListInv
<1>2. PICK m \in Nodes \ used :
        /\ used' = used \cup { m } /\ data' = [ data EXCEPT ![m] = v ]
        /\ nxt' = [ nxt EXCEPT ![m] = b[p], ![b[p - 1]] = m ]
        /\ prv' = [ prv EXCEPT ![m] = b[p - 1], ![b[p]] = m ]
        /\ nsize' = nsize + 1
  BY DEF List!PutBetween
<1>3. PICK k : k = nsize'
  OBVIOUS
<1>4. PICK c : c = RowWith(b, k, p, m)
  OBVIOUS
<1>16. /\ \A i \in 0 .. k + 1 : i < p => c[i] = b[i]
       /\ \A i \in 0 .. k + 1 : i = p => c[i] = m
       /\ \A i \in 0 .. k + 1 : i > p => c[i] = b[i - 1]
  BY <1>4 DEF RowWith
<1>5. k = nsize + 1 /\ k \in Nat
  BY <1>1, <1>2, <1>3
<1>6. Linked(c, nsize', nxt', prv', used')
  <2>1. PICK nx1 : nx1 = nxt'
    OBVIOUS
  <2>2. PICK pv1 : pv1 = prv'
    OBVIOUS
  <2>3. m \in Nodes /\ m \notin used
    OBVIOUS
  <2>4. /\ nx1 = LinkedTo(nxt, m, b[p], b[p - 1])
        /\ pv1 = LinkedTo(prv, m, b[p - 1], b[p])
    BY <1>2, <2>1, <2>2 DEF LinkedTo
  <2>5. Linked(c, k, nx1, pv1, used \cup { m })
    BY <1>1, <1>4, <1>5, <2>3, <2>4, LinkedPut
  <2>6. QED
    BY <1>2, <1>3, <2>1, <2>2, <2>5
<1>7. PICK q \in 0 .. nsize + 1 : Spot(b, nsize, iter, q)
  BY <1>1, Stands DEF ListInv
<1>8. PICK r : r = IF q >= p THEN q + 1 ELSE q
  OBVIOUS
<1>9. Spot(c, nsize', iter', r)
  <2>1. CASE q = 0
    BY <1>7, <1>8, <2>1 DEF Spot
  <2>2. CASE q \in 1 .. nsize + 1
    <3>1. iter = b[q]
      BY <1>1, <1>7, <2>2 DEF Spot
    <3>2. r \in 1 .. k + 1 /\ c[r] = b[q]
      <4>1. CASE q >= p
        <5>1. r = q + 1 /\ r \in 0 .. k + 1 /\ r > p /\ r - 1 = q /\ r \in 1 .. k + 1
          BY <1>1, <1>5, <1>8, <2>2, <4>1
        <5>2. QED
          BY <1>16, <5>1
      <4>2. CASE ~ (q >= p)
        <5>1. r = q /\ r \in 0 .. k + 1 /\ r < p /\ r \in 1 .. k + 1
          BY <1>1, <1>5, <1>8, <2>2, <4>2
        <5>2. QED
          BY <1>16, <5>1
      <4>3. QED
        BY <4>1, <4>2
    <3>3. QED
      BY <1>3, <3>1, <3>2 DEF Spot
  <2>3. QED
    BY <1>1, <1>7, <2>1, <2>2
<1>10. ListInv'
  <2>1. data' \in [ Nodes -> Stored ]
    BY <1>1, <1>2 DEF Stored
  <2>2. iter' \in used' \cup { "tail", "null" }
    BY <1>2 DEF ListInv
  <2>3. QED
    BY <1>3, <1>5, <1>6, <2>1, <2>2 DEF ListInv
<1>11. nsize < Cardinality(Nodes)
  <2>1. IsFiniteSet(used) /\ Cardinality(used) = nsize
    BY <1>1, Counted
  <2>2. used \in SUBSET Nodes
    BY <1>1, Apart
  <2>3. IsFiniteSet(Nodes) /\ Cardinality(Nodes) \in Nat /\ Cardinality(used) \in Nat
    BY <2>1, ListAssumption, FS_CardinalityType
  <2>4. Cardinality(used) <= Cardinality(Nodes) /\ Cardinality(used) # Cardinality(Nodes)
    BY <1>2, <2>2, <2>3, FS_Subset
  <2>5. QED
    BY <2>1, <2>3, <2>4
<1>12. Shows(b) /\ Shows(c)'
  BY <1>1, <1>3, <1>5, <1>6, ListShows, ListShowsNext
<1>13. List!Place = q /\ List!Place' = r
  BY <1>7, <1>9, <1>12 DEF Shows
<1>14. List!Items' = Put(List!Items, nsize, p, v)
  <2>1. List!Items' = [ i \in 1 .. k |-> data'[c[i]] ]
    BY <1>3, <1>12 DEF Shows
  <2>2. List!Items = [ i \in 1 .. nsize |-> data[b[i]] ]
    BY <1>12 DEF Shows
  <2>3. \A i \in 1 .. nsize : b[i] \in Nodes /\ b[i] # m
    BY <1>1, <1>2 DEF Linked
  <2>4. \A i \in 1 .. nsize : data'[b[i]] = data[b[i]]
    BY <1>1, <1>2, <2>3
  <2>5. data'[m] = v
    BY <1>1, <1>2
  <2>6. ASSUME NEW i \in 1 .. k
        PROVE  data'[c[i]] = IF i < p THEN List!Items[i] ELSE IF i = p THEN v ELSE List!Items[i - 1]
    <3>1. CASE i < p
      <4>1. i \in 1 .. nsize /\ i \in 0 .. k + 1
        BY <1>1, <1>5, <3>1
      <4>2. c[i] = b[i]
        BY <1>16, <3>1, <4>1
      <4>3. QED
        BY <2>2, <2>4, <3>1, <4>1, <4>2
    <3>2. CASE i = p
      <4>1. c[i] = m
        BY <1>5, <1>16, <3>2
      <4>2. QED
        BY <2>5, <3>2, <4>1
    <3>3. CASE i > p
      <4>1. i - 1 \in 1 .. nsize /\ i \in 0 .. k + 1 /\ i > p
        BY <1>1, <1>5, <3>3
      <4>2. c[i] = b[i - 1]
        BY <1>16, <4>1
      <4>3. QED
        BY <2>2, <2>4, <4>1, <4>2
    <3>4. QED
      BY <3>1, <3>2, <3>3
  <2>7. QED
    BY <1>5, <2>1, <2>6 DEF Put
<1>15. QED
  BY <1>8, <1>10, <1>11, <1>13, <1>14

LEMMA CutStep ==
  ASSUME ListInv, NEW b, Linked(b, nsize, nxt, prv, used), NEW p \in 1 .. nsize,
         nxt' = [ nxt EXCEPT ![b[p - 1]] = b[p + 1] ],
         prv' = [ prv EXCEPT ![b[p + 1]] = b[p - 1] ],
         List!Given(b[p]),
         \/ iter' = IF iter = b[p] THEN "null" ELSE iter
         \/ iter = b[p] /\ iter' = b[p + 1]
  PROVE  /\ ListInv'
         /\ List!Items' = Cut(List!Items, nsize, p)
         /\ iter' = (IF iter = b[p] THEN "null" ELSE iter)
              => List!Place' = IF List!Place = p THEN 0
                               ELSE IF List!Place > p THEN List!Place - 1 ELSE List!Place
         /\ iter = b[p] /\ iter' = b[p + 1] => List!Place = p /\ List!Place' = p
<1>1. nsize \in Nat /\ data \in [ Nodes -> Stored ]
  BY DEF ListInv
<1>2. /\ used' = used \ { b[p] } /\ data' = [ data EXCEPT ![b[p]] = List!NoValue ]
      /\ nsize' = nsize - 1
  BY DEF List!Given
<1>3. PICK k : k = nsize'
  OBVIOUS
<1>4. PICK c : c = RowWithout(b, k, p)
  OBVIOUS
<1>5. k = nsize - 1 /\ k \in Nat
  BY <1>1, <1>2, <1>3
<1>6. /\ \A i \in 0 .. k + 1 : i < p => c[i] = b[i]
      /\ \A i \in 0 .. k + 1 : i >= p => c[i] = b[i + 1]
  BY <1>4 DEF RowWithout
<1>7. Linked(c, nsize', nxt', prv', used')
  <2>1. PICK nx1 : nx1 = nxt'
    OBVIOUS
  <2>2. PICK pv1 : pv1 = prv'
    OBVIOUS
  <2>3. /\ nx1 = LinkedPast(nxt, b[p - 1], b[p + 1])
        /\ pv1 = LinkedPast(prv, b[p + 1], b[p - 1])
    BY <2>1, <2>2 DEF LinkedPast
  <2>4. Linked(c, k, nx1, pv1, used \ { b[p] })
    BY <1>1, <1>4, <1>5, <2>3, LinkedCut
  <2>5. QED
    BY <1>2, <1>3, <2>1, <2>2, <2>4
<1>8. PICK q \in 0 .. nsize + 1 : Spot(b, nsize, iter, q)
  BY <1>1, Stands DEF ListInv
<1>9. p \in 0 .. nsize + 1 /\ \A i \in 0 .. nsize + 1 : b[i] = b[p] => i = p
  <2>1. p \in 0 .. nsize + 1
    BY <1>1
  <2>2. QED
    BY <2>1 DEF Linked
<1>10. iter = b[p] <=> q = p
  <2>1. b[p] # "null"
    BY <1>1, ListAssumption DEF Linked
  <2>2. QED
    BY <1>1, <1>8, <1>9, <2>1 DEF Spot
<1>11. ASSUME iter' = IF iter = b[p] THEN "null" ELSE iter
       PROVE  Spot(c, nsize', iter', IF q = p THEN 0 ELSE IF q > p THEN q - 1 ELSE q)
  <2>1. CASE q = p
    BY <1>10, <1>11, <2>1 DEF Spot
  <2>2. CASE q = 0
    BY <1>8, <1>10, <1>11, <2>2 DEF Spot
  <2>3. CASE q # p /\ q # 0
    <3>1. iter' = b[q]
      BY <1>8, <1>10, <1>11, <2>3 DEF Spot
    <3>2. CASE q > p
      <4>1. q - 1 \in 1 .. k + 1 /\ q - 1 \in 0 .. k + 1 /\ q - 1 >= p /\ q - 1 + 1 = q
        BY <1>1, <1>5, <3>2
      <4>2. c[q - 1] = b[q]
        BY <1>6, <4>1
      <4>3. QED
        BY <1>3, <2>3, <3>1, <3>2, <4>1, <4>2 DEF Spot
    <3>3. CASE ~ (q > p)
      <4>1. q \in 1 .. k + 1 /\ q \in 0 .. k + 1 /\ q < p
        BY <1>1, <1>5, <2>3, <3>3
      <4>2. c[q] = b[q]
        BY <1>6, <4>1
      <4>3. QED
        BY <1>3, <2>3, <3>1, <3>3, <4>1, <4>2 DEF Spot
    <3>4. QED
      BY <3>2, <3>3
  <2>4. QED
    BY <2>1, <2>2, <2>3
<1>12. ASSUME iter = b[p], iter' = b[p + 1]
       PROVE  q = p /\ Spot(c, nsize', iter', p)
  <2>1. p \in 1 .. k + 1 /\ p \in 0 .. k + 1 /\ p >= p
    BY <1>1, <1>5
  <2>2. c[p] = b[p + 1]
    BY <1>6, <2>1
  <2>3. QED
    BY <1>3, <1>10, <1>12, <2>1, <2>2 DEF Spot
<1>13. ListInv'
  <2>1. data' \in [ Nodes -> Stored ]
    BY <1>1, <1>2 DEF Stored
  <2>2. iter' \in used' \cup { "tail", "null" }
    <3>1. CASE iter' = IF iter = b[p] THEN "null" ELSE iter
      BY <1>2, <3>1 DEF ListInv
    <3>2. CASE iter = b[p] /\ iter' = b[p + 1]
      <4>1. p + 1 \in 0 .. nsize + 1 /\ p + 1 # p /\ (p + 1 = nsize + 1 \/ p + 1 \in 1 .. nsize)
        BY <1>1
      <4>2. b[p + 1] # b[p]
        BY <1>9, <4>1
      <4>3. b[p + 1] = "tail" \/ b[p + 1] \in used
        BY <4>1 DEF Linked
      <4>4. QED
        BY <1>2, <3>2, <4>2, <4>3
    <3>3. QED
      BY <3>1, <3>2
  <2>3. QED
    BY <1>3, <1>5, <1>7, <2>1, <2>2 DEF ListInv
<1>14. Shows(b) /\ Shows(c)'
  BY <1>1, <1>3, <1>5, <1>7, ListShows, ListShowsNext
<1>15. List!Place = q /\ \A r : Spot(c, nsize', iter', r) => List!Place' = r
  BY <1>8, <1>14 DEF Shows
<1>16. List!Items' = Cut(List!Items, nsize, p)
  <2>1. List!Items' = [ i \in 1 .. k |-> data'[c[i]] ]
    BY <1>3, <1>14 DEF Shows
  <2>2. List!Items = [ i \in 1 .. nsize |-> data[b[i]] ]
    BY <1>14 DEF Shows
  <2>3. \A i \in 1 .. nsize : i # p => data'[b[i]] = data[b[i]]
    <3>1. ASSUME NEW i \in 1 .. nsize, i # p PROVE b[i] \in Nodes /\ b[i] # b[p]
      <4>1. i \in 0 .. nsize + 1
        BY <1>1
      <4>2. QED
        BY <1>9, <3>1, <4>1 DEF Linked
    <3>2. QED
      BY <1>1, <1>2, <3>1
  <2>4. ASSUME NEW i \in 1 .. k
        PROVE  data'[c[i]] = IF i < p THEN List!Items[i] ELSE List!Items[i + 1]
    <3>1. i \in 1 .. nsize /\ i + 1 \in 1 .. nsize /\ i \in 0 .. k + 1
      BY <1>1, <1>5
    <3>2. CASE i < p
      <4>1. c[i] = b[i] /\ i # p
        BY <1>6, <3>1, <3>2
      <4>2. QED
        BY <2>2, <2>3, <3>1, <3>2, <4>1
    <3>3. CASE ~ (i < p)
      <4>1. i >= p /\ i + 1 # p
        BY <3>3
      <4>2. c[i] = b[i + 1]
        BY <1>6, <3>1, <4>1
      <4>3. QED
        BY <2>2, <2>3, <3>1, <3>3, <4>1, <4>2
    <3>4. QED
      BY <3>2, <3>3
  <2>5. QED
    BY <1>5, <2>1, <2>4 DEF Cut
<1>17. QED
  BY <1>11, <1>12, <1>13, <1>15, <1>16

(* A step that moves the iterator alone.                                   *)
LEMMA MoveStep ==
  ASSUME ListInv, NEW b, Linked(b, nsize, nxt, prv, used),
         NEW q, Spot(b, nsize, iter, q), NEW r \in 0 .. nsize + 1, Spot(b, nsize, iter', r),
         UNCHANGED << nxt, prv, data, nsize, used >>
  PROVE  ListInv' /\ List!Items' = List!Items /\ List!Place = q /\ List!Place' = r
<1>1. nsize \in Nat
  BY DEF ListInv
<1>2. iter' \in used \cup { "tail", "null" }
  <2>1. PICK it : it = iter'
    OBVIOUS
  <2>2. Spot(b, nsize, it, r)
    BY <2>1
  <2>3. it \in used \cup { "tail", "null" }
    BY <1>1, <2>2, Stands
  <2>4. QED
    BY <2>1, <2>3
<1>3. ListInv'
  BY <1>2 DEF ListInv
<1>4. Linked(b, nsize', nxt', prv', used') /\ nsize' \in Nat
  BY <1>1
<1>5. Shows(b) /\ Shows(b)'
  BY <1>1, <1>4, ListShows, ListShowsNext
<1>6. QED
  BY <1>3, <1>5 DEF Shows

ListCardinality(S) == List!Cardinality(S) = Cardinality(S) /\ List!Promise!Cardinality(S) = Cardinality(S)

LEMMA ListCardinalities == \A S : ListCardinality(S)
BY DEF ListCardinality, List!Cardinality, List!Promise!Cardinality, Cardinality

(* The iterator of the row, the elements and the length, as the promise    *)
(* speaks of them.                                                         *)
LEMMA ListSeen ==
  ASSUME ListInv, NEW b, Linked(b, nsize, nxt, prv, used)
  PROVE  /\ nsize \in Nat /\ List!Items \in [ 1 .. nsize -> Stored ]
         /\ Len(List!Items) = nsize
         /\ \E q \in 0 .. nsize + 1 : Spot(b, nsize, iter, q) /\ List!Place = q
<1>1. nsize \in Nat /\ data \in [ Nodes -> Stored ] /\ iter \in used \cup { "tail", "null" }
  BY DEF ListInv
<1>2. Shows(b)
  BY <1>1, ListShows
<1>3. List!Items = [ i \in 1 .. nsize |-> data[b[i]] ]
  BY <1>2 DEF Shows
<1>4. \A i \in 1 .. nsize : data[b[i]] \in Stored
  BY <1>1 DEF Linked
<1>5. \E q \in 0 .. nsize + 1 : Spot(b, nsize, iter, q)
  BY <1>1, Stands
<1>6. QED
  BY <1>1, <1>2, <1>3, <1>4, <1>5 DEF Shows

LEMMA push_front_keeps ==
  ASSUME ListInv, List!push_front PROVE ListInv' /\ List!Promise!PushFront
<1>1. PICK b : Linked(b, nsize, nxt, prv, used)
  BY DEF ListInv
<1>2. /\ nsize \in Nat /\ List!Items \in [ 1 .. nsize -> Stored ] /\ Len(List!Items) = nsize
      /\ List!Place \in 0 .. nsize + 1
  BY <1>1, ListSeen
<1>3. PICK v \in Values : List!PutBetween("head", nxt["head"], v) /\ iter' = iter
  BY DEF List!push_front
<1>4. b[1 - 1] = "head" /\ b[1] = nxt["head"] /\ 1 \in 1 .. nsize + 1
  <2>1. 0 \in 0 .. nsize /\ 0 + 1 = 1 /\ 1 - 1 = 0
    BY <1>2
  <2>2. nxt[b[0]] = b[0 + 1] /\ b[0] = "head"
    BY <1>1, <2>1 DEF Linked
  <2>3. QED
    BY <1>2, <2>1, <2>2
<1>5. PICK p : p = 1
  OBVIOUS
<1>6. List!PutBetween(b[p - 1], b[p], v)
  BY <1>3, <1>4, <1>5
<1>7. /\ ListInv' /\ nsize < Cardinality(Nodes)
      /\ List!Items' = Put(List!Items, nsize, p, v)
      /\ List!Place' = IF List!Place >= p THEN List!Place + 1 ELSE List!Place
  BY <1>1, <1>3, <1>4, <1>5, <1>6, PutStep
<1>8. << v >> \o List!Items = Put(List!Items, nsize, 1, v)
  <2>1. PICK q : q = List!Items
    OBVIOUS
  <2>2. v \in Stored /\ q \in [ 1 .. nsize -> Stored ]
    BY <1>2, <2>1 DEF Stored
  <2>3. PutIs(q, nsize, v)
    BY <1>2, <2>2, RowPut
  <2>4. QED
    BY <2>1, <2>3 DEF PutIs
<1>9. List!Place' = IF List!Place = 0 THEN 0 ELSE List!Place + 1
  BY <1>2, <1>5, <1>7
<1>10. Len(List!Items) < List!Cardinality(Nodes)
  BY <1>2, <1>7, ListCardinalities DEF ListCardinality
<1>11. List!Items' = << v >> \o List!Items
  BY <1>5, <1>7, <1>8
<1>12. QED
  BY <1>7, <1>9, <1>10, <1>11 DEF List!Promise!PushFront

LEMMA push_back_keeps ==
  ASSUME ListInv, List!push_back PROVE ListInv' /\ List!Promise!PushBack
<1>1. PICK b : Linked(b, nsize, nxt, prv, used)
  BY DEF ListInv
<1>2. /\ nsize \in Nat /\ List!Items \in [ 1 .. nsize -> Stored ] /\ Len(List!Items) = nsize
      /\ List!Place \in 0 .. nsize + 1
  BY <1>1, ListSeen
<1>3. PICK v \in Values : List!PutBetween(prv["tail"], "tail", v) /\ iter' = iter
  BY DEF List!push_back
<1>4. PICK p : p = nsize + 1
  OBVIOUS
<1>5. b[p - 1] = prv["tail"] /\ b[p] = "tail" /\ p \in 1 .. nsize + 1
  <2>1. nsize \in 0 .. nsize /\ p - 1 = nsize
    BY <1>2, <1>4
  <2>2. prv[b[nsize + 1]] = b[nsize] /\ b[nsize + 1] = "tail"
    BY <1>1, <2>1 DEF Linked
  <2>3. QED
    BY <1>2, <1>4, <2>1, <2>2
<1>6. List!PutBetween(b[p - 1], b[p], v)
  BY <1>3, <1>5
<1>7. /\ ListInv' /\ nsize < Cardinality(Nodes)
      /\ List!Items' = Put(List!Items, nsize, p, v)
      /\ List!Place' = IF List!Place >= p THEN List!Place + 1 ELSE List!Place
  BY <1>1, <1>3, <1>5, <1>6, PutStep
<1>8. Append(List!Items, v) = Put(List!Items, nsize, nsize + 1, v)
  <2>1. PICK q : q = List!Items
    OBVIOUS
  <2>2. v \in Stored /\ q \in [ 1 .. nsize -> Stored ]
    BY <1>2, <2>1 DEF Stored
  <2>3. PutIs(q, nsize, v)
    BY <1>2, <2>2, RowPut
  <2>4. QED
    BY <2>1, <2>3 DEF PutIs
<1>9. List!Place' = IF List!Place = Len(List!Items) + 1 THEN List!Place + 1 ELSE List!Place
  BY <1>2, <1>4, <1>7
<1>10. Len(List!Items) < List!Cardinality(Nodes)
  BY <1>2, <1>7, ListCardinalities DEF ListCardinality
<1>11. List!Items' = Append(List!Items, v)
  BY <1>4, <1>7, <1>8
<1>12. QED
  BY <1>7, <1>9, <1>10, <1>11 DEF List!Promise!PushBack

(* pop_front, pop_back and erase take out the node at place p.             *)
LEMMA Neighbours ==
  ASSUME NEW n \in Nat, NEW b, NEW nx, NEW pv, NEW us, Linked(b, n, nx, pv, us), NEW p \in 1 .. n
  PROVE  /\ nx[b[p]] = b[p + 1] /\ pv[b[p]] = b[p - 1]
         /\ nx["head"] = b[1] /\ pv["tail"] = b[n]
<1>1. p \in 0 .. n /\ p - 1 \in 0 .. n /\ p - 1 + 1 = p /\ 0 \in 0 .. n /\ 0 + 1 = 1 /\ n \in 0 .. n
  OBVIOUS
<1>2. nx[b[p]] = b[p + 1] /\ pv[b[p - 1 + 1]] = b[p - 1] /\ nx[b[0]] = b[0 + 1] /\ pv[b[n + 1]] = b[n]
  BY <1>1 DEF Linked
<1>3. b[0] = "head" /\ b[n + 1] = "tail"
  BY DEF Linked
<1>4. QED
  BY <1>1, <1>2, <1>3

LEMMA pop_front_keeps ==
  ASSUME ListInv, List!pop_front PROVE ListInv' /\ List!Promise!PopFront
<1>1. PICK b : Linked(b, nsize, nxt, prv, used)
  BY DEF ListInv
<1>2. /\ nsize \in Nat /\ List!Items \in [ 1 .. nsize -> Stored ] /\ Len(List!Items) = nsize
      /\ List!Place \in 0 .. nsize + 1
  BY <1>1, ListSeen
<1>3. PICK p : p = 1
  OBVIOUS
<1>4. nsize # 0 /\ p \in 1 .. nsize
  BY <1>2, <1>3 DEF List!pop_front
<1>5. nxt["head"] = b[p] /\ nxt[b[p]] = b[p + 1] /\ b[p - 1] = "head"
  <2>1. b[0] = "head" /\ p - 1 = 0
    BY <1>1, <1>3 DEF Linked
  <2>2. QED
    BY <1>1, <1>2, <1>3, <1>4, <2>1, Neighbours
<1>6. /\ nxt' = [ nxt EXCEPT ![b[p - 1]] = b[p + 1] ]
      /\ prv' = [ prv EXCEPT ![b[p + 1]] = b[p - 1] ]
      /\ List!Given(b[p]) /\ iter' = IF iter = b[p] THEN "null" ELSE iter
  BY <1>5 DEF List!pop_front
<1>7. /\ ListInv' /\ List!Items' = Cut(List!Items, nsize, p)
      /\ List!Place' = IF List!Place = p THEN 0
                       ELSE IF List!Place > p THEN List!Place - 1 ELSE List!Place
  BY <1>1, <1>4, <1>6, CutStep
<1>8. List!Items # << >> /\ List!Items' = Tail(List!Items)
  <2>1. PICK q \in [ 1 .. nsize -> Stored ] : q = List!Items
    BY <1>2
  <2>2. q # << >> /\ Tail(q) = Cut(q, nsize, 1)
    BY <1>2, <1>4, RowCut
  <2>3. QED
    BY <1>3, <1>7, <2>1, <2>2
<1>9. QED
  BY <1>3, <1>7, <1>8 DEF List!Promise!PopFront, List!Promise!Without

LEMMA pop_back_keeps ==
  ASSUME ListInv, List!pop_back PROVE ListInv' /\ List!Promise!PopBack
<1>1. PICK b : Linked(b, nsize, nxt, prv, used)
  BY DEF ListInv
<1>2. /\ nsize \in Nat /\ List!Items \in [ 1 .. nsize -> Stored ] /\ Len(List!Items) = nsize
      /\ List!Place \in 0 .. nsize + 1
  BY <1>1, ListSeen
<1>3. PICK p : p = nsize
  OBVIOUS
<1>4. nsize # 0 /\ p \in 1 .. nsize
  BY <1>2, <1>3 DEF List!pop_back
<1>5. prv["tail"] = b[p] /\ prv[b[p]] = b[p - 1] /\ b[p + 1] = "tail"
  <2>1. b[nsize + 1] = "tail"
    BY <1>1 DEF Linked
  <2>2. QED
    BY <1>1, <1>2, <1>3, <1>4, <2>1, Neighbours
<1>6. /\ nxt' = [ nxt EXCEPT ![b[p - 1]] = b[p + 1] ]
      /\ prv' = [ prv EXCEPT ![b[p + 1]] = b[p - 1] ]
      /\ List!Given(b[p]) /\ iter' = IF iter = b[p] THEN "null" ELSE iter
  BY <1>5 DEF List!pop_back
<1>7. /\ ListInv' /\ List!Items' = Cut(List!Items, nsize, p)
      /\ List!Place' = IF List!Place = p THEN 0
                       ELSE IF List!Place > p THEN List!Place - 1 ELSE List!Place
  BY <1>1, <1>4, <1>6, CutStep
<1>8. List!Items # << >> /\ List!Items' = List!Promise!Front(List!Items)
  <2>1. PICK q \in [ 1 .. nsize -> Stored ] : q = List!Items
    BY <1>2
  <2>2. q # << >> /\ SubSeq(q, 1, nsize - 1) = Cut(q, nsize, nsize)
    BY <1>2, <1>4, RowCut
  <2>3. List!Promise!Front(q) = SubSeq(q, 1, nsize - 1)
    BY <1>2, <2>1 DEF List!Promise!Front
  <2>4. QED
    BY <1>3, <1>7, <2>1, <2>2, <2>3
<1>9. QED
  BY <1>2, <1>3, <1>7, <1>8 DEF List!Promise!PopBack, List!Promise!Without

LEMMA erase_keeps ==
  ASSUME ListInv, List!erase PROVE ListInv' /\ List!Promise!Erase
<1>1. PICK b : Linked(b, nsize, nxt, prv, used)
  BY DEF ListInv
<1>2. /\ nsize \in Nat /\ List!Items \in [ 1 .. nsize -> Stored ] /\ Len(List!Items) = nsize
  BY <1>1, ListSeen
<1>3. PICK p \in 1 .. nsize : iter = b[p]
  BY <1>1 DEF List!erase, Linked
<1>4. prv[b[p]] = b[p - 1] /\ nxt[b[p]] = b[p + 1]
  BY <1>1, <1>2, <1>3, Neighbours
<1>5. /\ nxt' = [ nxt EXCEPT ![b[p - 1]] = b[p + 1] ]
      /\ prv' = [ prv EXCEPT ![b[p + 1]] = b[p - 1] ]
      /\ List!Given(b[p]) /\ iter' = b[p + 1]
  BY <1>3, <1>4 DEF List!erase
<1>6. ListInv' /\ List!Items' = Cut(List!Items, nsize, p) /\ List!Place = p /\ List!Place' = p
  BY <1>1, <1>3, <1>5, CutStep
<1>7. List!Items' = List!Promise!RemoveAt(List!Items, p)
  <2>1. PICK q \in [ 1 .. nsize -> Stored ] : q = List!Items
    BY <1>2
  <2>2. CutIs(q, nsize, p)
    BY <1>2, RowCut
  <2>3. List!Promise!RemoveAt(q, p) = SubSeq(q, 1, p - 1) \o SubSeq(q, p + 1, nsize)
    BY <1>2, <2>1 DEF List!Promise!RemoveAt
  <2>4. QED
    BY <1>6, <2>1, <2>2, <2>3 DEF CutIs
<1>8. QED
  BY <1>2, <1>6, <1>7 DEF List!Promise!Erase

LEMMA begin_keeps ==
  ASSUME ListInv, List!begin PROVE ListInv' /\ List!Promise!Begin
<1>1. PICK b : Linked(b, nsize, nxt, prv, used)
  BY DEF ListInv
<1>2. nsize \in Nat /\ \E q \in 0 .. nsize + 1 : Spot(b, nsize, iter, q)
  BY <1>1, ListSeen
<1>3. PICK q : Spot(b, nsize, iter, q)
  BY <1>2
<1>4. iter' = nxt["head"] /\ UNCHANGED << nxt, prv, data, nsize, used >>
  BY DEF List!begin
<1>5. nxt["head"] = b[1]
  <2>1. 0 \in 0 .. nsize /\ 0 + 1 = 1
    BY <1>2
  <2>2. nxt[b[0]] = b[0 + 1] /\ b[0] = "head"
    BY <1>1, <2>1 DEF Linked
  <2>3. QED
    BY <2>1, <2>2
<1>6. PICK r \in 0 .. nsize + 1 : r = 1
  BY <1>2
<1>7. Spot(b, nsize, iter', r)
  BY <1>2, <1>4, <1>5, <1>6 DEF Spot
<1>8. ListInv' /\ List!Items' = List!Items /\ List!Place' = r
  BY <1>1, <1>3, <1>4, <1>7, MoveStep
<1>9. QED
  BY <1>6, <1>8 DEF List!Promise!Begin

LEMMA advance_keeps ==
  ASSUME ListInv, List!advance PROVE ListInv' /\ List!Promise!Advance
<1>1. PICK b : Linked(b, nsize, nxt, prv, used)
  BY DEF ListInv
<1>2. nsize \in Nat /\ Len(List!Items) = nsize
  BY <1>1, ListSeen
<1>3. iter \in used /\ iter' = nxt[iter] /\ UNCHANGED << nxt, prv, data, nsize, used >>
  BY DEF List!advance
<1>4. PICK p \in 1 .. nsize : iter = b[p]
  BY <1>1, <1>3 DEF Linked
<1>5. nxt[b[p]] = b[p + 1]
  BY <1>1, <1>2, Neighbours
<1>6. PICK r \in 0 .. nsize + 1 : r = p + 1
  BY <1>2
<1>7. Spot(b, nsize, iter, p) /\ Spot(b, nsize, iter', r)
  BY <1>2, <1>3, <1>4, <1>5, <1>6 DEF Spot
<1>8. ListInv' /\ List!Items' = List!Items /\ List!Place = p /\ List!Place' = r
  BY <1>1, <1>3, <1>7, MoveStep
<1>9. QED
  BY <1>2, <1>6, <1>8 DEF List!Promise!Advance

LEMMA end_keeps ==
  ASSUME ListInv, List!end PROVE ListInv' /\ List!Promise!End
<1>1. PICK b : Linked(b, nsize, nxt, prv, used)
  BY DEF ListInv
<1>2. nsize \in Nat /\ Len(List!Items) = nsize /\ \E q \in 0 .. nsize + 1 : Spot(b, nsize, iter, q)
  BY <1>1, ListSeen
<1>3. PICK q : Spot(b, nsize, iter, q)
  BY <1>2
<1>4. iter' = "tail" /\ UNCHANGED << nxt, prv, data, nsize, used >>
  BY DEF List!end
<1>5. b[nsize + 1] = "tail"
  BY <1>1 DEF Linked
<1>6. PICK r \in 0 .. nsize + 1 : r = nsize + 1
  BY <1>2
<1>7. Spot(b, nsize, iter', r)
  BY <1>2, <1>4, <1>5, <1>6 DEF Spot
<1>8. ListInv' /\ List!Items' = List!Items /\ List!Place' = r
  BY <1>1, <1>3, <1>4, <1>7, MoveStep
<1>9. QED
  BY <1>2, <1>6, <1>8 DEF List!Promise!End

LEMMA retreat_keeps ==
  ASSUME ListInv, List!retreat PROVE ListInv' /\ List!Promise!Retreat
<1>1. PICK b : Linked(b, nsize, nxt, prv, used)
  BY DEF ListInv
<1>2. nsize \in Nat /\ Len(List!Items) = nsize /\ \E q \in 0 .. nsize + 1 : Spot(b, nsize, iter, q)
  BY <1>1, ListSeen
<1>3. /\ iter \in used \cup { "tail" } /\ prv[iter] # "head" /\ iter' = prv[iter]
      /\ UNCHANGED << nxt, prv, data, nsize, used >>
  BY DEF List!retreat
<1>4. PICK p \in 1 .. nsize + 1 : iter = b[p]
  <2>1. CASE iter \in used
    BY <1>1, <1>2, <2>1 DEF Linked
  <2>2. CASE iter = "tail"
    <3>1. nsize + 1 \in 1 .. nsize + 1 /\ b[nsize + 1] = "tail"
      BY <1>1, <1>2 DEF Linked
    <3>2. QED
      BY <2>2, <3>1
  <2>3. QED
    BY <1>3, <2>1, <2>2
<1>5. PICK r \in 0 .. nsize : r + 1 = p
  <2>1. p - 1 \in 0 .. nsize /\ p - 1 + 1 = p
    BY <1>2
  <2>2. QED
    BY <2>1
<1>6. prv[b[r + 1]] = b[r] /\ b[0] = "head"
  BY <1>1, <1>5 DEF Linked
<1>7. iter' = b[r] /\ r # 0
  BY <1>3, <1>4, <1>5, <1>6
<1>8. Spot(b, nsize, iter, p) /\ Spot(b, nsize, iter', r) /\ r \in 0 .. nsize + 1
  BY <1>2, <1>4, <1>5, <1>7 DEF Spot
<1>9. ListInv' /\ List!Items' = List!Items /\ List!Place = p /\ List!Place' = r
  BY <1>1, <1>3, <1>8, MoveStep
<1>10. p \in 2 .. nsize + 1 /\ r = p - 1
  BY <1>2, <1>5, <1>7
<1>11. QED
  BY <1>2, <1>9, <1>10 DEF List!Promise!Retreat

LEMMA skip_keeps ==
  ASSUME ListInv, List!skip PROVE ListInv' /\ List!Promise!Skip
<1>1. PICK b : Linked(b, nsize, nxt, prv, used)
  BY DEF ListInv
<1>2. nsize \in Nat /\ Len(List!Items) = nsize
  BY <1>1, ListSeen
<1>3. /\ iter \in used /\ nxt[iter] \in used /\ iter' = nxt[nxt[iter]]
      /\ UNCHANGED << nxt, prv, data, nsize, used >>
  BY DEF List!skip
<1>4. PICK p \in 1 .. nsize : iter = b[p]
  BY <1>1, <1>3 DEF Linked
<1>5. nxt[b[p]] = b[p + 1]
  BY <1>1, <1>2, Neighbours
<1>6. PICK m \in 1 .. nsize : m = p + 1
  <2>1. PICK i \in 1 .. nsize : b[p + 1] = b[i]
    BY <1>1, <1>3, <1>4, <1>5 DEF Linked
  <2>2. p + 1 \in 0 .. nsize + 1 /\ i \in 0 .. nsize + 1
    BY <1>2
  <2>3. p + 1 = i
    BY <1>1, <2>1, <2>2 DEF Linked
  <2>4. QED
    BY <2>3
<1>7. nxt[b[m]] = b[m + 1]
  BY <1>1, <1>2, Neighbours
<1>8. PICK r \in 0 .. nsize + 1 : r = m + 1
  BY <1>2
<1>9. iter' = b[r]
  BY <1>3, <1>4, <1>5, <1>6, <1>7, <1>8
<1>10. Spot(b, nsize, iter, p) /\ Spot(b, nsize, iter', r)
  BY <1>2, <1>4, <1>8, <1>9 DEF Spot
<1>11. ListInv' /\ List!Items' = List!Items /\ List!Place = p /\ List!Place' = r
  BY <1>1, <1>3, <1>10, MoveStep
<1>12. p \in 1 .. nsize - 1 /\ r = p + 2
  BY <1>2, <1>6, <1>8
<1>13. QED
  BY <1>2, <1>11, <1>12 DEF List!Promise!Skip

LEMMA erase_end_keeps ==
  ASSUME ListInv, List!erase_end PROVE ListInv' /\ List!Promise!EraseEnd
<1>1. PICK b : Linked(b, nsize, nxt, prv, used)
  BY DEF ListInv
<1>2. nsize \in Nat /\ Len(List!Items) = nsize
  BY <1>1, ListSeen
<1>3. iter = "tail" /\ iter' = "null" /\ UNCHANGED << nxt, prv, data, nsize, used >>
  BY DEF List!erase_end
<1>4. PICK q : q = nsize + 1
  OBVIOUS
<1>5. PICK r \in 0 .. nsize + 1 : r = 0
  BY <1>2
<1>6. Spot(b, nsize, iter, q)
  <2>1. b[nsize + 1] = "tail" /\ q \in 1 .. nsize + 1
    BY <1>1, <1>2, <1>4 DEF Linked
  <2>2. QED
    BY <1>3, <1>4, <2>1 DEF Spot
<1>7. Spot(b, nsize, iter', r)
  BY <1>3, <1>5 DEF Spot
<1>8. ListInv' /\ List!Items' = List!Items /\ List!Place = q /\ List!Place' = r
  BY <1>1, <1>3, <1>6, <1>7, MoveStep
<1>9. QED
  BY <1>2, <1>4, <1>5, <1>8 DEF List!Promise!EraseEnd

(* The links along a row, as remove leaves them.                           *)
Chosen(c, e) == CHOOSE j \in DOMAIN c : c[j] = e
Onward(links, c) ==
  [ e \in DOMAIN links |-> IF e \in List!Range(c) \ { "tail" } THEN c[Chosen(c, e) + 1]
                           ELSE links[e] ]
Backward(links, c) ==
  [ e \in DOMAIN links |-> IF e \in List!Range(c) \ { "head" } THEN c[Chosen(c, e) - 1]
                           ELSE links[e] ]

Row(c, k) == /\ c \in [ 0 .. k + 1 -> Joints ] /\ c[0] = "head" /\ c[k + 1] = "tail"
             /\ \A i, j \in 0 .. k + 1 : c[i] = c[j] => i = j
Links == [ Joints -> Joints \cup { "null" } ]

LEMMA LinksAre ==
  ASSUME NEW k \in Nat, NEW c, Row(c, k), NEW links \in Links
  PROVE  /\ Onward(links, c) \in Links /\ Backward(links, c) \in Links
         /\ \A j \in 0 .. k : Onward(links, c)[c[j]] = c[j + 1] /\ Backward(links, c)[c[j + 1]] = c[j]
<1>1. /\ c \in [ 0 .. k + 1 -> Joints ] /\ c[0] = "head" /\ c[k + 1] = "tail"
      /\ \A i, j \in 0 .. k + 1 : c[i] = c[j] => i = j
      /\ links \in [ Joints -> Joints \cup { "null" } ]
  BY DEF Row, Links
<1>2. ASSUME NEW j \in 0 .. k + 1 PROVE Chosen(c, c[j]) = j
  <2>1. j \in DOMAIN c /\ DOMAIN c = 0 .. k + 1
    BY <1>1
  <2>2. Chosen(c, c[j]) \in DOMAIN c /\ c[Chosen(c, c[j])] = c[j]
    BY <2>1, Zenon DEF Chosen
  <2>3. QED
    BY <1>1, <2>1, <2>2
<1>3. \A e : e \in List!Range(c) <=> \E j \in 0 .. k + 1 : e = c[j]
  BY <1>1 DEF List!Range
<1>4. \A j \in 0 .. k + 1 : (c[j] = "tail" => j = k + 1) /\ (c[j] = "head" => j = 0)
  <2>1. 0 \in 0 .. k + 1 /\ k + 1 \in 0 .. k + 1
    OBVIOUS
  <2>2. QED
    BY <1>1, <2>1
<1>5. ASSUME NEW e \in List!Range(c) \ { "tail" } PROVE c[Chosen(c, e) + 1] \in Joints
  <2>1. PICK j \in 0 .. k + 1 : e = c[j]
    BY <1>3
  <2>2. j # k + 1
    BY <1>1, <2>1
  <2>3. j + 1 \in 0 .. k + 1
    BY <2>2
  <2>4. QED
    BY <1>1, <1>2, <2>1, <2>3
<1>6. ASSUME NEW e \in List!Range(c) \ { "head" } PROVE c[Chosen(c, e) - 1] \in Joints
  <2>1. PICK j \in 0 .. k + 1 : e = c[j]
    BY <1>3
  <2>2. j # 0
    BY <1>1, <2>1
  <2>3. j - 1 \in 0 .. k + 1
    BY <2>2
  <2>4. QED
    BY <1>1, <1>2, <2>1, <2>3
<1>7. Onward(links, c) \in Links /\ Backward(links, c) \in Links
  BY <1>1, <1>5, <1>6 DEF Onward, Backward, Links
<1>8. ASSUME NEW j \in 0 .. k
      PROVE  Onward(links, c)[c[j]] = c[j + 1] /\ Backward(links, c)[c[j + 1]] = c[j]
  <2>1. j \in 0 .. k + 1 /\ j + 1 \in 0 .. k + 1 /\ j # k + 1 /\ j + 1 # 0 /\ j + 1 - 1 = j
    OBVIOUS
  <2>2. c[j] # "tail" /\ c[j + 1] # "head"
    BY <1>4, <2>1
  <2>3. /\ c[j] \in List!Range(c) /\ c[j + 1] \in List!Range(c)
        /\ c[j] \in Joints /\ c[j + 1] \in Joints /\ DOMAIN links = Joints
    BY <1>1, <1>3, <2>1
  <2>4. Onward(links, c)[c[j]] = c[Chosen(c, c[j]) + 1]
    BY <2>2, <2>3 DEF Onward
  <2>5. Backward(links, c)[c[j + 1]] = c[Chosen(c, c[j + 1]) - 1]
    BY <2>2, <2>3 DEF Backward
  <2>6. QED
    BY <1>2, <2>1, <2>4, <2>5
<1>9. QED
  BY <1>7, <1>8

(* An order of I and what the promise calls one.                           *)
OrderOf(order, k, I) ==
  /\ order \in List!Promise!Orders(I) /\ Len(order) = k /\ DOMAIN order = 1 .. k
  /\ \A j \in 1 .. k : order[j] \in I
  /\ \A i \in I : \E j \in 1 .. k : order[j] = i
  /\ \A i, j \in 1 .. k : i < j => order[i] < order[j]

LEMMA OrdersAre ==
  ASSUME NEW n \in Nat, NEW I \in SUBSET (1 .. n), NEW order \in List!Orders(I)
  PROVE  \E k \in Nat : OrderOf(order, k, I)
<1>1. IsFiniteSet(I) /\ Cardinality(I) \in Nat
  <2>1. IsFiniteSet(1 .. n)
    BY FS_Interval
  <2>2. IsFiniteSet(I)
    BY <2>1, FS_Subset
  <2>3. QED
    BY <2>2, FS_CardinalityType
<1>2. List!Cardinality(I) = Cardinality(I) /\ List!Promise!Cardinality(I) = Cardinality(I)
  BY ListCardinalities DEF ListCardinality
<1>3. PICK m \in Nat : m = Cardinality(I)
  BY <1>1
<1>4. /\ order \in [ 1 .. m -> I ] /\ List!Range(order) = I
      /\ \A k, l \in DOMAIN order : k < l => order[k] < order[l]
  BY <1>2, <1>3 DEF List!Orders
<1>5. Len(order) = m /\ DOMAIN order = 1 .. m
  BY <1>4
<1>6. \A i \in I : \E j \in 1 .. m : order[j] = i
  BY <1>4, <1>5 DEF List!Range
<1>7. List!Promise!Range(order) = I
  BY <1>4 DEF List!Range, List!Promise!Range
<1>8. order \in List!Promise!Orders(I)
  BY <1>2, <1>3, <1>4, <1>7 DEF List!Promise!Orders
<1>9. QED
  BY <1>3, <1>4, <1>5, <1>6, <1>8 DEF OrderOf

LEMMA remove_keeps ==
  ASSUME ListInv, List!remove PROVE ListInv' /\ List!Promise!RemoveValue
<1> DEFINE Gone(v) == { n \in used : data[n] = v }
           Staying(v) == { i \in 1 .. nsize : List!Forward[i] \notin Gone(v) }
           Ring(order) == List!Ring([ k \in DOMAIN order |-> List!Forward[order[k]] ])
<1>1. PICK b : Linked(b, nsize, nxt, prv, used)
  BY DEF ListInv
<1>2. nsize \in Nat /\ data \in [ Nodes -> Stored ] /\ Shows(b)
  BY <1>1, ListShows DEF ListInv
<1>3. PICK v \in Values :
        /\ \E order \in List!Orders(Staying(v)) :
             /\ nxt' = Onward(nxt, Ring(order)) /\ prv' = Backward(prv, Ring(order))
             /\ nsize' = Len(order)
        /\ used' = used \ Gone(v)
        /\ data' = [ n \in Nodes |-> IF n \in Gone(v) THEN List!NoValue ELSE data[n] ]
        /\ iter' = "null"
  BY Zenon DEF List!remove, Onward, Backward, Chosen
<1>4. PICK order \in List!Orders(Staying(v)) :
        /\ nxt' = Onward(nxt, Ring(order)) /\ prv' = Backward(prv, Ring(order))
        /\ nsize' = Len(order)
  BY <1>3
<1>5. PICK gone \in SUBSET used : gone = Gone(v)
  OBVIOUS
<1>6. PICK I \in SUBSET (1 .. nsize) : I = Staying(v)
  OBVIOUS
<1>7. I = { i \in 1 .. nsize : b[i] \notin gone }
  BY <1>2, <1>5, <1>6 DEF Shows
<1>8. PICK k \in Nat : OrderOf(order, k, I)
  <2> HIDE DEF Staying, Ring
  <2>1. order \in List!Orders(I)
    BY <1>4, <1>6
  <2>2. QED
    BY <1>2, <2>1, OrdersAre
<1>9. /\ order \in List!Promise!Orders(I) /\ Len(order) = k /\ DOMAIN order = 1 .. k
      /\ \A j \in 1 .. k : order[j] \in I
  BY <1>8 DEF OrderOf
<1>10. Keeps(b, nsize, gone, k, order)
  BY <1>7, <1>8 DEF OrderOf, Keeps
<1>11. PICK c : c = RowKept(b, k, order)
  OBVIOUS
<1>12. Ring(order) = c
  <2> DEFINE s == [ j \in DOMAIN order |-> List!Forward[order[j]] ]
  <2>1. s = [ j \in 1 .. k |-> b[order[j]] ]
    BY <1>2, <1>7, <1>9 DEF Shows
  <2>2. Len(s) = k /\ \A j \in 1 .. k : s[j] = b[order[j]]
    BY <2>1
  <2> HIDE DEF s
  <2>3. List!Ring(s) = [ j \in 0 .. k + 1 |-> IF j = 0 THEN "head"
                                              ELSE IF j = k + 1 THEN "tail" ELSE s[j] ]
    BY <2>2 DEF List!Ring
  <2>4. List!Ring(s) = c
    BY <1>11, <2>2, <2>3 DEF RowKept
  <2>5. QED
    BY <2>4 DEF s
<1> HIDE DEF Ring
<1>13. /\ c \in [ 0 .. k + 1 -> Joints ] /\ c[0] = "head" /\ c[k + 1] = "tail"
       /\ \A j \in 1 .. k : c[j] = b[order[j]] /\ c[j] \in Nodes
       /\ \A i, j \in 0 .. k + 1 : c[i] = c[j] => i = j
       /\ used \ gone = { c[j] : j \in 1 .. k }
  <2>1. PICK n \in Nat : n = nsize
    BY <1>2
  <2>2. PICK us : us = used
    OBVIOUS
  <2>3. PICK nx, pv : Linked(b, n, nx, pv, us)
    BY <1>1, <2>1, <2>2
  <2>4. Keeps(b, n, gone, k, order)
    BY <1>10, <2>1
  <2>5. gone \in SUBSET us
    BY <2>2
  <2>6. PICK row : row = c
    OBVIOUS
  <2>7. row = RowKept(b, k, order)
    BY <1>11, <2>6
  <2>8. /\ row \in [ 0 .. k + 1 -> Joints ] /\ row[0] = "head" /\ row[k + 1] = "tail"
        /\ \A j \in 1 .. k : row[j] = b[order[j]] /\ row[j] \in Nodes
        /\ \A i, j \in 0 .. k + 1 : row[i] = row[j] => i = j
        /\ us \ gone = { row[j] : j \in 1 .. k }
    BY <2>3, <2>4, <2>5, <2>7, KeptRow
  <2>9. QED
    BY <2>2, <2>6, <2>8
<1>14. Row(c, k)
  BY <1>13 DEF Row
<1>15. nxt \in Links /\ prv \in Links
  BY <1>1 DEF Linked, Links
<1>16. PICK nx1 \in Links : nx1 = nxt' /\ \A j \in 0 .. k : nx1[c[j]] = c[j + 1]
  <2>1. PICK nx : nx = nxt
    OBVIOUS
  <2>2. Onward(nx, c) \in Links /\ \A j \in 0 .. k : Onward(nx, c)[c[j]] = c[j + 1]
    BY <1>14, <1>15, <2>1, LinksAre
  <2>3. nxt' = Onward(nx, c)
    BY <1>4, <1>12, <2>1
  <2>4. QED
    BY <2>2, <2>3
<1>17. PICK pv1 \in Links : pv1 = prv' /\ \A j \in 0 .. k : pv1[c[j + 1]] = c[j]
  <2>1. PICK pv : pv = prv
    OBVIOUS
  <2>2. Backward(pv, c) \in Links /\ \A j \in 0 .. k : Backward(pv, c)[c[j + 1]] = c[j]
    BY <1>14, <1>15, <2>1, LinksAre
  <2>3. prv' = Backward(pv, c)
    BY <1>4, <1>12, <2>1
  <2>4. QED
    BY <2>2, <2>3
<1>18. used' = used \ gone /\ nsize' = k
  BY <1>3, <1>4, <1>5, <1>9
<1>19. Linked(c, nsize', nxt', prv', used')
  <2>1. Linked(c, k, nx1, pv1, used \ gone)
    BY <1>13, <1>16, <1>17 DEF Linked, Links
  <2>2. QED
    BY <1>16, <1>17, <1>18, <2>1
<1>20. data' = [ n \in Nodes |-> IF n \in gone THEN List!NoValue ELSE data[n] ]
  BY <1>3, <1>5
<1> HIDE DEF Gone, Staying
<1>21. ListInv'
  <2>1. data' \in [ Nodes -> Stored ]
    BY <1>2, <1>20 DEF Stored
  <2>2. nsize' \in Nat /\ iter' = "null"
    BY <1>3, <1>18
  <2>3. QED
    BY <1>19, <2>1, <2>2 DEF ListInv
<1>22. Shows(c)'
  BY <1>18, <1>19, ListShowsNext
<1>23. List!Place' = 0
  <2>1. Spot(c, nsize', iter', 0)
    BY <1>3 DEF Spot
  <2>2. QED
    BY <1>22, <2>1 DEF Shows
<1>24. List!Items = [ i \in 1 .. nsize |-> data[b[i]] ]
  BY <1>2 DEF Shows
<1>25. \A i \in 1 .. nsize : b[i] \in used /\ b[i] \in Nodes
  BY <1>1 DEF Linked
<1>26. I = { i \in DOMAIN List!Items : List!Items[i] # v }
  <2>1. \A i \in 1 .. nsize : b[i] \in gone <=> data[b[i]] = v
    BY <1>5, <1>25 DEF Gone
  <2>2. QED
    BY <1>7, <1>24, <2>1
<1>27. List!Items' = [ j \in DOMAIN order |-> List!Items[order[j]] ]
  <2>1. List!Items' = [ j \in 1 .. k |-> data'[c[j]] ]
    BY <1>18, <1>22 DEF Shows
  <2>2. ASSUME NEW j \in 1 .. k PROVE data'[c[j]] = List!Items[order[j]]
    <3>1. order[j] \in 1 .. nsize /\ b[order[j]] \notin gone
      BY <1>10 DEF Keeps
    <3>2. c[j] = b[order[j]] /\ c[j] \in Nodes /\ c[j] \notin gone
      BY <1>13, <3>1
    <3>3. data'[c[j]] = data[c[j]]
      BY <1>20, <3>2
    <3>4. QED
      BY <1>24, <3>1, <3>2, <3>3
  <2>3. QED
    BY <1>9, <2>1, <2>2
<1>28. QED
  BY <1>9, <1>21, <1>23, <1>26, <1>27 DEF List!Promise!RemoveValue

LEMMA ListStarts == List!Init => ListInv /\ List!Promise!PInit
<1> SUFFICES ASSUME List!Init PROVE ListInv /\ List!Promise!PInit
  OBVIOUS
<1>1. PICK b : b = [ i \in 0 .. 1 |-> IF i = 0 THEN "head" ELSE "tail" ]
  OBVIOUS
<1>2. /\ nxt = [ n \in Joints |-> IF n = "head" THEN "tail" ELSE "null" ]
      /\ prv = [ n \in Joints |-> IF n = "tail" THEN "head" ELSE "null" ]
      /\ data = [ n \in Nodes |-> List!NoValue ] /\ nsize = 0 /\ used = {} /\ iter = "null"
  BY DEF List!Init, List!Sentinels, Joints
<1>3. Linked(b, 0, nxt, prv, used)
  <2>1. b \in [ 0 .. 0 + 1 -> Joints ] /\ b[0] = "head" /\ b[0 + 1] = "tail"
    BY <1>1 DEF Joints
  <2>2. \A i, j \in 0 .. 0 + 1 : b[i] = b[j] => i = j
    BY <1>1
  <2>3. \A i \in 1 .. 0 : FALSE
    OBVIOUS
  <2>4. used = { b[i] : i \in 1 .. 0 }
    BY <1>2, <2>3
  <2>5. /\ nxt \in [ Joints -> Joints \cup { "null" } ] /\ prv \in [ Joints -> Joints \cup { "null" } ]
        /\ nxt["head"] = "tail" /\ prv["tail"] = "head"
    BY <1>2 DEF Joints
  <2>6. \A i \in 0 .. 0 : nxt[b[i]] = b[i + 1] /\ prv[b[i + 1]] = b[i]
    <3>1. \A i \in 0 .. 0 : i = 0 /\ b[0] = "head" /\ b[0 + 1] = "tail"
      BY <2>1
    <3>2. QED
      BY <2>5, <3>1
  <2>7. QED
    BY <2>1, <2>2, <2>3, <2>4, <2>5, <2>6 DEF Linked
<1>4. ListInv
  BY <1>2, <1>3 DEF ListInv, Stored
<1>5. Shows(b)
  BY <1>2, <1>3, ListShows
<1>6. List!Items = << >>
  <2>1. List!Items \in [ 1 .. 0 -> Stored ] /\ Len(List!Items) = 0
    BY <1>2, <1>3, <1>4, ListSeen
  <2>2. List!Items \in Seq(Stored)
    BY <2>1, SeqDef
  <2>3. QED
    BY <2>1, <2>2, EmptySeq
<1>7. List!Place = 0
  <2>1. Spot(b, nsize, iter, 0)
    BY <1>2 DEF Spot
  <2>2. QED
    BY <1>5, <2>1 DEF Shows
<1>8. QED
  BY <1>4, <1>6, <1>7 DEF List!Promise!PInit

LEMMA ListStays ==
  ASSUME ListInv, UNCHANGED List!vars PROVE ListInv' /\ UNCHANGED List!Promise!pvars
<1>1. UNCHANGED << nxt, prv, data, nsize, used, iter >>
  BY DEF List!vars
<1>2. ListInv'
  BY <1>1 DEF ListInv
<1>3. List!Forward' = List!Forward
  BY <1>1 DEF List!Forward
<1>4. List!Items' = List!Items
  BY <1>1, <1>3 DEF List!Items
<1>5. List!Place' = List!Place
  BY <1>1, <1>3 DEF List!Place, List!Range
<1>6. QED
  BY <1>2, <1>4, <1>5 DEF List!Promise!pvars

(* LinkedList: the list reads the same from either end, and implements a   *)
(* sequence with an iterator, for every set of nodes and of values.        *)
THEOREM TheListKeepsItsPromise == List!Spec => ListKeepsPromise
<1>1. List!Init => ListInv /\ List!Promise!PInit
  BY ListStarts
<1>2. ASSUME ListInv, [List!Next]_(List!vars)
      PROVE  ListInv' /\ [List!Promise!PNext]_(List!Promise!pvars)
  <2>1. CASE UNCHANGED List!vars
    BY <1>2, <2>1, ListStays
  <2>2. CASE List!push_front
    BY <1>2, <2>2, push_front_keeps DEF List!Promise!PNext
  <2>3. CASE List!push_back
    BY <1>2, <2>3, push_back_keeps DEF List!Promise!PNext
  <2>4. CASE List!pop_front
    BY <1>2, <2>4, pop_front_keeps DEF List!Promise!PNext
  <2>5. CASE List!pop_back
    BY <1>2, <2>5, pop_back_keeps DEF List!Promise!PNext
  <2>6. CASE List!begin
    BY <1>2, <2>6, begin_keeps DEF List!Promise!PNext
  <2>7. CASE List!advance
    BY <1>2, <2>7, advance_keeps DEF List!Promise!PNext
  <2>8. CASE List!erase
    BY <1>2, <2>8, erase_keeps DEF List!Promise!PNext
  <2>9. CASE List!erase_end
    BY <1>2, <2>9, erase_end_keeps DEF List!Promise!PNext
  <2>10. CASE List!remove
    BY <1>2, <2>10, remove_keeps DEF List!Promise!PNext
  <2>11. CASE List!end
    BY <1>2, <2>11, end_keeps DEF List!Promise!PNext
  <2>12. CASE List!retreat
    BY <1>2, <2>12, retreat_keeps DEF List!Promise!PNext
  <2>13. CASE List!skip
    BY <1>2, <2>13, skip_keeps DEF List!Promise!PNext
  <2>14. QED
    BY <1>2, <2>1, <2>2, <2>3, <2>4, <2>5, <2>6, <2>7, <2>8, <2>9, <2>10, <2>11, <2>12, <2>13
       DEF List!Next
<1>3. QED
  BY <1>1, <1>2, EndsMeet, PTL
     DEF List!Spec, ListKeepsPromise, List!KeepsItsPromise, List!Promise!PSpec

-----------------------------------------------------------------------------
(* SearchTree *)

Null == "nullptr"
Sides == TreeNodes \cup { Null }
TreeCells == [ key : TreeKeys \cup { Null }, pLeft : Sides, pRight : Sides ]

(* The part of a subtree S whose keys are smaller or greater than that of n. *)
Lefts(nd, S, n) == { m \in S : nd[m].key < nd[n].key }
Rights(nd, S, n) == { m \in S : nd[m].key > nd[n].key }

(* A child is null if nothing belongs there, and else has all that does. *)
Hangs(c, S, R, sub) == IF c = Null THEN S = {} ELSE c \in R /\ sub[c] = S

(* The nodes R in use form a search tree: sub has the nodes of every subtree. *)
Tame(nd, R) ==
  /\ R \in SUBSET TreeNodes
  /\ nd \in [ TreeNodes -> TreeCells ]
  /\ \A n \in TreeNodes \ R : nd[n] = Tree!Blank
  /\ \A n \in R : nd[n].key \in TreeKeys
  /\ \A m, n \in R : nd[m].key = nd[n].key => m = n
Nested(R, sub) ==
  /\ sub \in [ R -> SUBSET R ]
  /\ \A n \in R : n \in sub[n] /\ \A m \in sub[n] : sub[m] \subseteq sub[n]
Sorted(nd, R, sub) ==
  \A n \in R : /\ Hangs(nd[n].pLeft, Lefts(nd, sub[n], n), R, sub)
               /\ Hangs(nd[n].pRight, Rights(nd, sub[n], n), R, sub)
Climbs(nd, R, sub) ==
  \A n, c, q \in R : /\ c = nd[n].pLeft \/ c = nd[n].pRight
                     /\ c \in sub[q] /\ c # q
                     => n \in sub[q]
Shaped(nd, root, R, sub) ==
  /\ Tame(nd, R) /\ Nested(R, sub) /\ Sorted(nd, R, sub) /\ Climbs(nd, R, sub)
  /\ IF R = {} THEN root = Null ELSE root \in R /\ sub[root] = R

TreeInv == \E R, sub : Shaped(tnode, st_Root, R, sub)

LEMMA TreeCardinality == \A S : Tree!Cardinality(S) = Cardinality(S)
BY DEF Tree!Cardinality, Cardinality

(* What holds up to every number of a range, from one to the next.         *)
LEMMA UpTo ==
  ASSUME NEW N \in Nat, NEW T, 0 \in T, \A i \in 0 .. N : i < N /\ i \in T => i + 1 \in T
  PROVE  \A i \in 0 .. N : i \in T
<1> SUFFICES ASSUME NEW j \in 0 .. N, j \notin T PROVE FALSE
  OBVIOUS
<1> DEFINE wrong == { i \in 0 .. N : i \notin T }
<1>1. wrong \in SUBSET Nat /\ j \in wrong
  OBVIOUS
<1>2. PICK i \in wrong : \A k \in wrong : i <= k
  <2> HIDE DEF wrong
  <2>1. QED
    BY <1>1, LeastNumber
<1>3. i \in 0 .. N /\ i \notin T /\ i # 0
  BY <1>2
<1>4. i - 1 \in 0 .. N /\ i - 1 < N /\ i - 1 + 1 = i
  BY <1>3
<1>5. i - 1 \in T
  BY <1>2, <1>4
<1>6. QED
  BY <1>3, <1>4, <1>5

(* A function applied again and again.                                     *)
Iterate(f, N, P, F, base) ==
  /\ f \in [ 0 .. N -> P ] /\ f[0] = base /\ \A i \in 1 .. N : f[i] = F[f[i - 1]]

LEMMA Iterates ==
  ASSUME NEW P, NEW F \in [ P -> P ], NEW base \in P, NEW N \in Nat
  PROVE  \E f : Iterate(f, N, P, F, base)
<1> DEFINE T == { n \in Nat : \E f : Iterate(f, n, P, F, base) }
<1>1. 0 \in T
  <2>1. Iterate([ i \in 0 .. 0 |-> base ], 0, P, F, base)
    BY DEF Iterate
  <2>2. QED
    BY <2>1
<1>2. ASSUME NEW n \in 0 .. N, n \in T PROVE n + 1 \in T
  <2>1. PICK f : Iterate(f, n, P, F, base)
    BY <1>2
  <2>2. PICK g : g = [ i \in 0 .. n + 1 |-> IF i = n + 1 THEN F[f[n]] ELSE f[i] ]
    OBVIOUS
  <2>3. f \in [ 0 .. n -> P ] /\ f[0] = base /\ \A i \in 1 .. n : f[i] = F[f[i - 1]]
    BY <2>1 DEF Iterate
  <2>4. f[n] \in P /\ F[f[n]] \in P
    BY <2>3
  <2>5. \A i \in 0 .. n : g[i] = f[i]
    BY <2>2
  <2>6. g[n + 1] = F[f[n]]
    BY <2>2
  <2>7. g \in [ 0 .. n + 1 -> P ]
    BY <2>2, <2>3, <2>4
  <2>8. ASSUME NEW i \in 1 .. n + 1 PROVE g[i] = F[g[i - 1]]
    <3>1. CASE i = n + 1
      BY <2>5, <2>6, <3>1
    <3>2. CASE i # n + 1
      <4>1. i \in 1 .. n /\ i \in 0 .. n /\ i - 1 \in 0 .. n
        BY <3>2
      <4>2. QED
        BY <2>3, <2>5, <4>1
    <3>3. QED
      BY <3>1, <3>2
  <2>9. Iterate(g, n + 1, P, F, base)
    BY <2>3, <2>5, <2>7, <2>8 DEF Iterate
  <2>10. QED
    BY <2>9
<1>3. N \in T
  <2> HIDE DEF T
  <2>1. \A i \in 0 .. N : i \in T
    BY <1>1, <1>2, UpTo
  <2>2. QED
    BY <2>1
<1>4. QED
  BY <1>3

-----------------------------------------------------------------------------
LEMMA NodeFacts ==
  ASSUME NEW nd, NEW root, NEW R, NEW sub, Shaped(nd, root, R, sub), NEW n \in R
  PROVE  /\ n \in TreeNodes /\ n # Null /\ nd[n].key \in Int /\ nd[n].key \in TreeKeys
         /\ nd[n].pLeft \in R \cup { Null } /\ nd[n].pRight \in R \cup { Null }
         /\ sub[n] \subseteq R /\ n \in sub[n]
         /\ \A m \in sub[n] : m \in R /\ nd[m].key \in Int /\ sub[m] \subseteq sub[n]
         /\ root # Null /\ root \in R /\ sub[root] = R
<1>1. /\ R \in SUBSET TreeNodes /\ nd[n].key \in TreeKeys
      /\ \A m \in R : nd[m].key \in TreeKeys
  BY DEF Shaped, Tame
<1>2. n \in TreeNodes /\ n # Null /\ nd[n].key \in Int /\ \A m \in R : nd[m].key \in Int
  BY <1>1, TreeAssumption DEF Null
<1>3. sub[n] \subseteq R /\ n \in sub[n] /\ \A m \in sub[n] : sub[m] \subseteq sub[n]
  BY DEF Shaped, Nested
<1>4. nd[n].pLeft \in R \cup { Null } /\ nd[n].pRight \in R \cup { Null }
  BY DEF Shaped, Sorted, Hangs
<1>5. root # Null /\ root \in R /\ sub[root] = R
  BY <1>1, TreeAssumption DEF Shaped, Null
<1>6. QED
  BY <1>1, <1>2, <1>3, <1>4, <1>5

(* Where a node of a subtree is: at its top, or below one of the children. *)
LEMMA Turns ==
  ASSUME NEW nd, NEW root, NEW R, NEW sub, Shaped(nd, root, R, sub),
         NEW n \in R, NEW m \in sub[n], m # n
  PROVE  /\ nd[m].key # nd[n].key
         /\ nd[m].key < nd[n].key => /\ nd[n].pLeft \in R
                                     /\ m \in sub[nd[n].pLeft]
         /\ nd[m].key > nd[n].key => /\ nd[n].pRight \in R
                                     /\ m \in sub[nd[n].pRight]
<1>1. m \in R
  BY NodeFacts
<1>2. nd[m].key # nd[n].key
  BY <1>1 DEF Shaped, Tame
<1>3. /\ Hangs(nd[n].pLeft, Lefts(nd, sub[n], n), R, sub)
      /\ Hangs(nd[n].pRight, Rights(nd, sub[n], n), R, sub)
  BY DEF Shaped, Sorted
<1>4. ASSUME nd[m].key < nd[n].key PROVE nd[n].pLeft \in R /\ m \in sub[nd[n].pLeft]
  <2>1. m \in Lefts(nd, sub[n], n)
    BY <1>4 DEF Lefts
  <2>2. QED
    BY <1>3, <2>1 DEF Hangs
<1>5. ASSUME nd[m].key > nd[n].key PROVE nd[n].pRight \in R /\ m \in sub[nd[n].pRight]
  <2>1. m \in Rights(nd, sub[n], n)
    BY <1>5 DEF Rights
  <2>2. QED
    BY <1>3, <2>1 DEF Hangs
<1>6. QED
  BY <1>2, <1>4, <1>5

(* What is below a child. *)
LEMMA ChildFacts ==
  ASSUME NEW nd, NEW root, NEW R, NEW sub, Shaped(nd, root, R, sub), NEW n \in R
  PROVE  /\ nd[n].pLeft # Null => /\ nd[n].pLeft \in R /\ nd[n].pLeft \in sub[n]
                                  /\ nd[n].pLeft # n
                                  /\ \A m : m \in sub[nd[n].pLeft] <=>
                                              m \in sub[n] /\ nd[m].key < nd[n].key
         /\ nd[n].pRight # Null => /\ nd[n].pRight \in R /\ nd[n].pRight \in sub[n]
                                   /\ nd[n].pRight # n
                                   /\ \A m : m \in sub[nd[n].pRight] <=>
                                               m \in sub[n] /\ nd[m].key > nd[n].key
         /\ nd[n].pLeft = Null => \A m \in sub[n] : ~ (nd[m].key < nd[n].key)
         /\ nd[n].pRight = Null => \A m \in sub[n] : ~ (nd[m].key > nd[n].key)
<1>1. /\ Hangs(nd[n].pLeft, Lefts(nd, sub[n], n), R, sub)
      /\ Hangs(nd[n].pRight, Rights(nd, sub[n], n), R, sub)
  BY DEF Shaped, Sorted
<1>2. nd[n].key \in Int
  BY NodeFacts
<1>3. ASSUME nd[n].pLeft # Null
      PROVE  /\ nd[n].pLeft \in R /\ nd[n].pLeft \in sub[n] /\ nd[n].pLeft # n
             /\ \A m : m \in sub[nd[n].pLeft] <=> m \in sub[n] /\ nd[m].key < nd[n].key
  <2>1. PICK l \in R : l = nd[n].pLeft /\ sub[l] = Lefts(nd, sub[n], n)
    BY <1>1, <1>3 DEF Hangs
  <2>2. l \in sub[l]
    BY <2>1, NodeFacts
  <2>3. QED
    BY <1>2, <2>1, <2>2 DEF Lefts
<1>4. ASSUME nd[n].pRight # Null
      PROVE  /\ nd[n].pRight \in R /\ nd[n].pRight \in sub[n] /\ nd[n].pRight # n
             /\ \A m : m \in sub[nd[n].pRight] <=> m \in sub[n] /\ nd[m].key > nd[n].key
  <2>1. PICK l \in R : l = nd[n].pRight /\ sub[l] = Rights(nd, sub[n], n)
    BY <1>1, <1>4 DEF Hangs
  <2>2. l \in sub[l]
    BY <2>1, NodeFacts
  <2>3. QED
    BY <1>2, <2>1, <2>2 DEF Rights
<1>5. ASSUME nd[n].pLeft = Null PROVE \A m \in sub[n] : ~ (nd[m].key < nd[n].key)
  <2>1. Lefts(nd, sub[n], n) = {}
    BY <1>1, <1>5 DEF Hangs
  <2>2. QED
    BY <2>1 DEF Lefts
<1>6. ASSUME nd[n].pRight = Null PROVE \A m \in sub[n] : ~ (nd[m].key > nd[n].key)
  <2>1. Rights(nd, sub[n], n) = {}
    BY <1>1, <1>6 DEF Hangs
  <2>2. QED
    BY <2>1 DEF Rights
<1>7. QED
  BY <1>3, <1>4, <1>5, <1>6

(* Below n, everything of the subtree of p is on the side p is on. *)
LEMMA SameSide ==
  ASSUME NEW nd, NEW root, NEW R, NEW sub, Shaped(nd, root, R, sub),
         NEW q \in R, NEW p \in sub[q], p # q, NEW m \in sub[p]
  PROVE  /\ nd[m].key # nd[q].key /\ nd[p].key # nd[q].key
         /\ nd[m].key < nd[q].key <=> nd[p].key < nd[q].key
<1>1. p \in R /\ m \in R /\ nd[p].key \in Int /\ nd[m].key \in Int /\ nd[q].key \in Int
  BY NodeFacts
<1>2. nd[p].key # nd[q].key
  BY Turns
<1>3. CASE nd[p].key < nd[q].key
  <2>1. PICK l \in R : l = nd[q].pLeft /\ p \in sub[l]
    BY <1>3, Turns
  <2>2. m \in sub[l] /\ l # Null
    BY <2>1, NodeFacts
  <2>3. nd[m].key < nd[q].key
    BY <2>1, <2>2, ChildFacts
  <2>4. QED
    BY <1>1, <1>2, <1>3, <2>3
<1>4. CASE nd[p].key > nd[q].key
  <2>1. PICK l \in R : l = nd[q].pRight /\ p \in sub[l]
    BY <1>4, Turns
  <2>2. m \in sub[l] /\ l # Null
    BY <2>1, NodeFacts
  <2>3. nd[m].key > nd[q].key
    BY <2>1, <2>2, ChildFacts
  <2>4. QED
    BY <1>1, <1>2, <1>4, <2>3
<1>5. QED
  BY <1>1, <1>2, <1>3, <1>4

(* Subtrees get smaller from a node to those below. *)
LEMMA Shrinks ==
  ASSUME NEW nd, NEW root, NEW R, NEW sub, Shaped(nd, root, R, sub),
         NEW n \in R, NEW m \in sub[n], m # n
  PROVE  n \notin sub[m] /\ Cardinality(sub[m]) < Cardinality(sub[n])
<1>1. n \notin sub[m]
  <2>1. SUFFICES ASSUME n \in sub[m] PROVE FALSE
    OBVIOUS
  <2>2. nd[n].key # nd[n].key
    BY <2>1, SameSide
  <2>3. QED
    BY <2>2
<1>2. sub[m] \subseteq sub[n] /\ n \in sub[n] /\ sub[n] \subseteq R
  BY NodeFacts
<1>3. IsFiniteSet(sub[n])
  <2>1. R \in SUBSET TreeNodes
    BY DEF Shaped, Tame
  <2>2. QED
    BY <1>2, <2>1, TreeAssumption, FS_Subset
<1>4. PICK S : S = sub[n]
  OBVIOUS
<1>5. PICK T : T = sub[m]
  OBVIOUS
<1>6. T \subseteq S /\ T # S /\ IsFiniteSet(S)
  BY <1>1, <1>2, <1>3, <1>4, <1>5
<1>7. Cardinality(T) < Cardinality(S)
  BY <1>6, FS_Subset, FS_CardinalityType
<1>8. QED
  BY <1>1, <1>4, <1>5, <1>7

LEMMA Sizes ==
  ASSUME NEW nd, NEW root, NEW R, NEW sub, Shaped(nd, root, R, sub), NEW n \in R
  PROVE  /\ Cardinality(sub[n]) \in Nat /\ Cardinality(TreeNodes) \in Nat
         /\ 1 <= Cardinality(sub[n]) /\ Cardinality(sub[n]) <= Cardinality(TreeNodes)
<1>1. R \in SUBSET TreeNodes /\ n \in sub[n] /\ sub[n] \subseteq R
  BY NodeFacts DEF Shaped, Tame
<1>2. PICK S : S = sub[n]
  OBVIOUS
<1>3. S \in SUBSET TreeNodes /\ IsFiniteSet(TreeNodes) /\ n \in S
  BY <1>1, <1>2, TreeAssumption
<1>4. /\ IsFiniteSet(S) /\ Cardinality(S) \in Nat /\ Cardinality(TreeNodes) \in Nat
      /\ Cardinality(S) <= Cardinality(TreeNodes)
  BY <1>3, FS_Subset, FS_CardinalityType
<1>5. Cardinality(S) # 0
  BY <1>3, <1>4, FS_EmptySet
<1>6. QED
  BY <1>2, <1>4, <1>5

(* Of the nodes q for which n is in sub[q] and in S, one has n but nothing *)
(* of S between it and n.                                                  *)
LEMMA Lowest ==
  ASSUME NEW nd, NEW root, NEW R, NEW sub, Shaped(nd, root, R, sub),
         NEW S \in SUBSET R, S # {}
  PROVE  \E q \in S : \A m \in S : m \in sub[q] => m = q
<1> DEFINE T == { Cardinality(sub[q]) : q \in S }
<1>1. T \in SUBSET Nat /\ T # {}
  BY Sizes
<1>2. PICK c \in T : \A d \in T : c <= d
  <2> HIDE DEF T
  <2>1. QED
    BY <1>1, LeastNumber
<1>3. PICK q \in S : c = Cardinality(sub[q])
  OBVIOUS
<1>4. ASSUME NEW m \in S, m \in sub[q] PROVE m = q
  <2>1. SUFFICES ASSUME m # q PROVE FALSE
    OBVIOUS
  <2>2. Cardinality(sub[m]) < Cardinality(sub[q])
    BY <1>4, <2>1, Shrinks
  <2>3. Cardinality(sub[q]) <= Cardinality(sub[m])
    BY <1>2, <1>3
  <2>4. Cardinality(sub[q]) \in Nat /\ Cardinality(sub[m]) \in Nat
    BY Sizes
  <2>5. QED
    BY <2>2, <2>3, <2>4
<1>5. QED
  BY <1>4

(* The traversals come to all of the tree. *)
LEMMA ReachedIs ==
  ASSUME NEW R, NEW sub, Shaped(tnode, st_Root, R, sub)
  PROVE  Tree!Reached = R
<1>1. R \in SUBSET TreeNodes
  BY DEF Shaped, Tame
<1> DEFINE Full(S) == /\ st_Root \in S \cup { Null }
                      /\ \A m \in S : { tnode[m].pLeft, tnode[m].pRight } \subseteq S \cup { Null }
<1>2. Tree!Reached = { n \in TreeNodes : \A S \in SUBSET TreeNodes : Full(S) => n \in S }
  BY DEF Tree!Reached, Tree!nullptr, Null
<1>3. Full(R)
  <2>1. st_Root \in R \cup { Null }
    BY DEF Shaped
  <2>2. ASSUME NEW m \in R
        PROVE  { tnode[m].pLeft, tnode[m].pRight } \subseteq R \cup { Null }
    BY NodeFacts
  <2>3. QED
    BY <2>1, <2>2
<1>4. ASSUME NEW S \in SUBSET TreeNodes, Full(S), NEW n \in R, n \notin S PROVE FALSE
  <2> DEFINE Q == { q \in R \cap S : n \in sub[q] }
  <2>1. st_Root \in Q
    BY <1>4, NodeFacts
  <2>2. PICK q \in Q : \A m \in Q : m \in sub[q] => m = q
    <3>1. Q \in SUBSET R /\ Q # {}
      BY <2>1
    <3> HIDE DEF Q
    <3>2. QED
      BY <3>1, Lowest
  <2>3. q \in R /\ q \in S /\ n \in sub[q] /\ n # q
    BY <1>4
  <2>4. ASSUME NEW c \in R, c = tnode[q].pLeft \/ c = tnode[q].pRight, n \in sub[c] PROVE FALSE
    <3>1. c \in S /\ c # Null
      BY <1>4, <2>3, <2>4, NodeFacts
    <3>2. c \in sub[q] /\ c # q
      BY <2>3, <2>4, <3>1, ChildFacts
    <3>3. c \in Q
      BY <2>4, <3>1
    <3>4. QED
      BY <2>2, <3>2, <3>3
  <2>5. n \in R /\ tnode[n].key \in Int /\ tnode[q].key \in Int
    BY <2>3, NodeFacts
  <2>6. CASE tnode[n].key < tnode[q].key
    BY <2>3, <2>4, <2>6, Turns
  <2>7. CASE tnode[n].key > tnode[q].key
    BY <2>3, <2>4, <2>7, Turns
  <2>8. tnode[n].key # tnode[q].key
    BY <2>3, Turns
  <2>9. QED
    BY <2>5, <2>6, <2>7, <2>8
<1> HIDE DEF Full
<1>5. \A n : n \in Tree!Reached <=> n \in R
  BY <1>1, <1>2, <1>3, <1>4
<1>6. QED
  BY <1>5

-----------------------------------------------------------------------------
(* The walk for key k.                                                     *)
PlaceWalk(w, N, k) ==
  /\ w[0] = << Null, st_Root >>
  /\ \A i \in 1 .. N : w[i] = Tree!Down(k, w[i - 1])

LEMMA PlaceWalks ==
  ASSUME NEW R, NEW sub, Shaped(tnode, st_Root, R, sub), NEW k,
         NEW N \in Nat, N = Cardinality(TreeNodes)
  PROVE  \E w : PlaceWalk(w, N, k) /\ Tree!Place(k) = w[N]
<1> DEFINE P == Sides \X Sides
           F == [ at \in P |-> Tree!Down(k, at) ]
           base == << Null, st_Root >>
           follows(f) == f = [ i \in 0 .. N |-> IF i = 0 THEN base ELSE Tree!Down(k, f[i - 1]) ]
<1>1. F \in [ P -> P ]
  <2>1. ASSUME NEW at \in P PROVE Tree!Down(k, at) \in P
    <3>1. tnode \in [ TreeNodes -> TreeCells ] /\ at[1] \in Sides /\ at[2] \in Sides
      BY DEF Shaped, Tame
    <3>2. CASE at[2] = Null
      BY <3>2 DEF Tree!Down, Tree!nullptr, Null
    <3>3. CASE at[2] # Null
      <4>1. at[2] \in TreeNodes
        BY <3>1, <3>3 DEF Sides
      <4>2. tnode[at[2]].pLeft \in Sides /\ tnode[at[2]].pRight \in Sides
        BY <3>1, <4>1 DEF TreeCells
      <4>3. Tree!Down(k, at) = at \/ Tree!Down(k, at) = << at[2], tnode[at[2]].pLeft >>
            \/ Tree!Down(k, at) = << at[2], tnode[at[2]].pRight >>
        BY DEF Tree!Down
      <4>4. QED
        BY <3>1, <4>2, <4>3
    <3>4. QED
      BY <3>2, <3>3
  <2>2. QED
    BY <2>1
<1>2. base \in P
  <2>1. st_Root \in Sides
    BY DEF Shaped, Tame, Sides
  <2>2. QED
    BY <2>1 DEF Sides
<1>3. PICK g : Iterate(g, N, P, F, base)
  <2> HIDE DEF P, F, base
  <2>1. QED
    BY <1>1, <1>2, Iterates
<1>4. follows(g)
  <2>1. g \in [ 0 .. N -> P ] /\ g[0] = base /\ \A i \in 1 .. N : g[i] = F[g[i - 1]]
    BY <1>3 DEF Iterate
  <2>2. ASSUME NEW i \in 1 .. N PROVE g[i] = Tree!Down(k, g[i - 1])
    <3>1. g[i - 1] \in P
      BY <2>1
    <3>2. QED
      BY <2>1, <3>1
  <2> HIDE DEF base, P, F
  <2>3. QED
    BY <2>1, <2>2
<1> DEFINE w == CHOOSE f : follows(f)
<1>5. Tree!Place(k) = w[N]
  <2>1. Tree!Cardinality(TreeNodes) = N
    BY TreeCardinality
  <2>2. QED
    BY <2>1, Zenon DEF Tree!Place, Tree!nullptr, Null
<1>6. follows(w)
  <2> HIDE DEF follows
  <2>1. QED
    BY <1>4, Zenon
<1> HIDE DEF w
<1>7. PlaceWalk(w, N, k)
  BY <1>6 DEF PlaceWalk
<1>8. QED
  BY <1>5, <1>7

(* Where the walk is: at n below p, with all of key k in the subtree of n, *)
(* and k on the side of p for every node above p.                          *)
AtPlace(k, R, sub, p, n) ==
  /\ p \in R \cup { Null } /\ n \in R \cup { Null }
  /\ p = Null => n = st_Root
  /\ p # Null => /\ k # tnode[p].key
                 /\ n = IF k < tnode[p].key THEN tnode[p].pLeft ELSE tnode[p].pRight
  /\ \A q \in R : p \in sub[q] /\ q # p
                    => k # tnode[q].key /\ (k < tnode[q].key <=> tnode[p].key < tnode[q].key)
  /\ \A m \in R : tnode[m].key = k => n # Null /\ m \in sub[n]

LEMMA PlaceStarts ==
  ASSUME NEW R, NEW sub, Shaped(tnode, st_Root, R, sub), NEW k
  PROVE  AtPlace(k, R, sub, Null, st_Root)
<1>1. st_Root \in R \cup { Null } /\ Null \notin R
  BY TreeAssumption DEF Shaped, Tame, Null
<1>2. ASSUME NEW q \in R PROVE Null \notin sub[q]
  BY <1>1, NodeFacts
<1>3. ASSUME NEW m \in R PROVE st_Root # Null /\ m \in sub[st_Root]
  BY NodeFacts
<1>4. QED
  BY <1>1, <1>2, <1>3 DEF AtPlace

LEMMA PlaceSteps ==
  ASSUME NEW R, NEW sub, Shaped(tnode, st_Root, R, sub), NEW k \in Int,
         NEW p, NEW n, AtPlace(k, R, sub, p, n), n # Null, tnode[n].key # k,
         NEW c, c = IF k < tnode[n].key THEN tnode[n].pLeft ELSE tnode[n].pRight
  PROVE  /\ AtPlace(k, R, sub, n, c)
         /\ c # Null => Cardinality(sub[c]) < Cardinality(sub[n])
<1>1. n \in R /\ n # Null /\ tnode[n].key \in Int /\ c \in R \cup { Null } /\ n \in sub[n]
  BY NodeFacts DEF AtPlace
<1>2. ASSUME NEW q \in R, n \in sub[q], q # n
      PROVE  k # tnode[q].key /\ (k < tnode[q].key <=> tnode[n].key < tnode[q].key)
  <2>1. p # Null
    <3>1. SUFFICES ASSUME p = Null PROVE FALSE
      OBVIOUS
    <3>2. n = st_Root /\ sub[n] = R
      BY <3>1, NodeFacts DEF AtPlace
    <3>3. q \in sub[n] /\ n \notin sub[q]
      BY <1>1, <1>2, <3>2, Shrinks
    <3>4. QED
      BY <1>2, <3>3
  <2>2. p \in R /\ k # tnode[p].key /\ tnode[p].key \in Int
        /\ n = IF k < tnode[p].key THEN tnode[p].pLeft ELSE tnode[p].pRight
    BY <2>1, NodeFacts DEF AtPlace
  <2>3. p \in sub[q]
    BY <1>1, <1>2, <2>2 DEF Shaped, Climbs
  <2>4. n \in sub[p] /\ n # p
    BY <1>1, <2>2, ChildFacts
  <2>5. CASE q = p
    <3>1. CASE k < tnode[p].key
      <4>1. n = tnode[p].pLeft
        BY <2>2, <3>1
      <4>2. tnode[n].key < tnode[p].key
        BY <1>1, <2>2, <4>1, ChildFacts
      <4>3. QED
        BY <2>2, <2>5, <3>1, <4>2
    <3>2. CASE ~ (k < tnode[p].key)
      <4>1. n = tnode[p].pRight
        BY <2>2, <3>2
      <4>2. tnode[n].key > tnode[p].key
        BY <1>1, <2>2, <4>1, ChildFacts
      <4>3. QED
        BY <1>1, <2>2, <2>5, <3>2, <4>2
    <3>3. QED
      BY <3>1, <3>2
  <2>6. CASE q # p
    <3>1. k # tnode[q].key /\ (k < tnode[q].key <=> tnode[p].key < tnode[q].key)
      BY <2>3, <2>6 DEF AtPlace
    <3>2. tnode[n].key < tnode[q].key <=> tnode[p].key < tnode[q].key
      BY <2>3, <2>4, <2>6, SameSide
    <3>3. QED
      BY <3>1, <3>2
  <2>7. QED
    BY <2>5, <2>6
<1>3. ASSUME NEW m \in R, tnode[m].key = k PROVE c # Null /\ m \in sub[c]
  <2>1. m \in sub[n] /\ m # n
    BY <1>1, <1>3 DEF AtPlace
  <2>2. CASE k < tnode[n].key
    <3>1. tnode[n].pLeft \in R /\ m \in sub[tnode[n].pLeft]
      BY <1>1, <1>3, <2>1, <2>2, Turns
    <3>2. QED
      BY <2>2, <3>1, NodeFacts
  <2>3. CASE ~ (k < tnode[n].key)
    <3>1. tnode[m].key > tnode[n].key
      BY <1>1, <1>3, <2>3
    <3>2. tnode[n].pRight \in R /\ m \in sub[tnode[n].pRight]
      BY <1>1, <2>1, <3>1, Turns
    <3>3. QED
      BY <2>3, <3>2, NodeFacts
  <2>4. QED
    BY <2>2, <2>3
<1>4. AtPlace(k, R, sub, n, c)
  BY <1>1, <1>2, <1>3 DEF AtPlace
<1>5. ASSUME c # Null PROVE Cardinality(sub[c]) < Cardinality(sub[n])
  <2>1. c \in sub[n] /\ c # n
    BY <1>1, <1>5, ChildFacts
  <2>2. QED
    BY <1>1, <2>1, Shrinks
<1>6. QED
  BY <1>4, <1>5

(* The walk ends at the node of key k, or below the one it would hang on.  *)
LEMMA PlaceIs ==
  ASSUME NEW R, NEW sub, Shaped(tnode, st_Root, R, sub), NEW k \in TreeKeys
  PROVE  \E p, n : /\ Tree!Place(k) = << p, n >> /\ AtPlace(k, R, sub, p, n)
                   /\ n # Null => tnode[n].key = k
<1>1. k \in Int
  BY TreeAssumption
<1>2. PICK N \in Nat : N = Cardinality(TreeNodes)
  BY TreeAssumption, FS_CardinalityType
<1>3. PICK w : PlaceWalk(w, N, k) /\ Tree!Place(k) = w[N]
  BY <1>2, PlaceWalks
<1> DEFINE Ends(n) == n = Null \/ tnode[n].key = k
           Close(i) == \E p, n : /\ w[i] = << p, n >> /\ AtPlace(k, R, sub, p, n)
                                 /\ Ends(n) \/ Cardinality(sub[n]) <= N - i
           T == { i \in 0 .. N : Close(i) }
<1>4. 0 \in T
  <2>1. w[0] = << Null, st_Root >> /\ AtPlace(k, R, sub, Null, st_Root)
    BY <1>3, PlaceStarts DEF PlaceWalk
  <2>2. CASE st_Root = Null
    BY <2>1, <2>2
  <2>3. CASE st_Root # Null
    <3>1. st_Root \in R
      BY <2>1, <2>3 DEF AtPlace
    <3>2. Cardinality(sub[st_Root]) <= N - 0
      BY <1>2, <3>1, Sizes
    <3>3. QED
      BY <2>1, <3>2
  <2>4. QED
    BY <2>2, <2>3
<1>5. ASSUME NEW i \in 0 .. N, i < N, i \in T PROVE i + 1 \in T
  <2>1. PICK p, n : /\ w[i] = << p, n >> /\ AtPlace(k, R, sub, p, n)
                    /\ Ends(n) \/ Cardinality(sub[n]) <= N - i
    BY <1>5
  <2>2. i + 1 \in 1 .. N /\ i + 1 - 1 = i
    BY <1>5
  <2>3. w[i + 1] = Tree!Down(k, w[i])
    BY <1>3, <2>2 DEF PlaceWalk
  <2>4. CASE Ends(n)
    <3>1. w[i + 1] = << p, n >>
      BY <2>1, <2>3, <2>4 DEF Tree!Down, Tree!nullptr, Null
    <3>2. QED
      BY <2>1, <2>2, <2>4, <3>1
  <2>5. CASE ~ Ends(n)
    <3>1. PICK c : c = IF k < tnode[n].key THEN tnode[n].pLeft ELSE tnode[n].pRight
      OBVIOUS
    <3>2. w[i + 1] = << n, c >>
      BY <2>1, <2>3, <2>5, <3>1 DEF Tree!Down, Tree!nullptr, Null
    <3>3. AtPlace(k, R, sub, n, c) /\ (c # Null => Cardinality(sub[c]) < Cardinality(sub[n]))
      BY <1>1, <2>1, <2>5, <3>1, PlaceSteps
    <3>4. n \in R /\ c \in R \cup { Null }
      BY <2>1, <2>5, <3>3 DEF AtPlace
    <3>5. Ends(c) \/ Cardinality(sub[c]) <= N - (i + 1)
      <4>1. CASE c # Null
        <5>1. Cardinality(sub[c]) \in Nat /\ Cardinality(sub[n]) \in Nat
          BY <3>4, <4>1, Sizes
        <5>2. QED
          BY <2>1, <2>5, <3>3, <4>1, <5>1
      <4>2. QED
        BY <4>1
    <3> HIDE DEF Ends
    <3>6. QED
      BY <2>2, <3>2, <3>3, <3>5
  <2>6. QED
    BY <2>4, <2>5
<1>6. N \in T
  <2> HIDE DEF T
  <2>1. \A i \in 0 .. N : i \in T
    BY <1>4, <1>5, UpTo
  <2>2. QED
    BY <2>1
<1>7. PICK p, n : /\ w[N] = << p, n >> /\ AtPlace(k, R, sub, p, n)
                  /\ Ends(n) \/ Cardinality(sub[n]) <= N - N
  BY <1>6
<1>8. Ends(n)
  <2>1. SUFFICES ASSUME ~ Ends(n) PROVE FALSE
    OBVIOUS
  <2>2. n \in R
    BY <1>7, <2>1 DEF AtPlace
  <2>3. 1 <= Cardinality(sub[n]) /\ Cardinality(sub[n]) \in Nat
    BY <2>2, Sizes
  <2>4. QED
    BY <1>7, <2>1, <2>3
<1>9. QED
  BY <1>3, <1>7, <1>8

-----------------------------------------------------------------------------
(* The walk to the largest key on the left of a.                           *)
AtLargest(a, R, sub, p, s) ==
  /\ p \in R /\ s \in R /\ s \in sub[tnode[a].pLeft]
  /\ \/ p = a /\ s = tnode[a].pLeft
     \/ p # a /\ s = tnode[p].pRight /\ p \in sub[tnode[a].pLeft]
  /\ \A m \in sub[tnode[a].pLeft] : m \in sub[s] \/ tnode[m].key < tnode[s].key

LargestWalk(w, N, a) ==
  /\ w[0] = << a, tnode[a].pLeft >>
  /\ \A i \in 1 .. N : w[i] = Tree!Right(w[i - 1])

LEMMA LargestWalks ==
  ASSUME NEW R, NEW sub, Shaped(tnode, st_Root, R, sub), NEW a \in R, tnode[a].pLeft # Null,
         NEW N \in Nat, N = Cardinality(TreeNodes)
  PROVE  \E w : LargestWalk(w, N, a) /\ Tree!Largest(a) = w[N]
<1> DEFINE P == TreeNodes \X TreeNodes
           F == [ pair \in P |-> Tree!Right(pair) ]
           base == << a, tnode[a].pLeft >>
           follows(f) == f = [ i \in 0 .. N |-> IF i = 0 THEN base ELSE Tree!Right(f[i - 1]) ]
<1>1. F \in [ P -> P ]
  <2>1. ASSUME NEW pair \in P PROVE Tree!Right(pair) \in P
    <3>1. tnode \in [ TreeNodes -> TreeCells ] /\ pair[1] \in TreeNodes /\ pair[2] \in TreeNodes
      BY DEF Shaped, Tame
    <3>2. tnode[pair[2]].pRight \in Sides
      BY <3>1 DEF TreeCells
    <3>3. tnode[pair[2]].pRight # Null => tnode[pair[2]].pRight \in TreeNodes
      BY <3>2 DEF Sides
    <3>4. QED
      BY <3>1, <3>3 DEF Tree!Right, Tree!nullptr, Null
  <2>2. QED
    BY <2>1
<1>2. base \in P
  <2>1. a \in TreeNodes /\ tnode[a].pLeft \in R /\ R \in SUBSET TreeNodes
    BY NodeFacts DEF Shaped, Tame
  <2>2. QED
    BY <2>1
<1>3. PICK g : Iterate(g, N, P, F, base)
  <2> HIDE DEF P, F, base
  <2>1. QED
    BY <1>1, <1>2, Iterates
<1>4. follows(g)
  <2>1. g \in [ 0 .. N -> P ] /\ g[0] = base /\ \A i \in 1 .. N : g[i] = F[g[i - 1]]
    BY <1>3 DEF Iterate
  <2>2. ASSUME NEW i \in 1 .. N PROVE g[i] = Tree!Right(g[i - 1])
    <3>1. g[i - 1] \in P
      BY <2>1
    <3>2. QED
      BY <2>1, <3>1
  <2> HIDE DEF base, P, F
  <2>3. QED
    BY <2>1, <2>2
<1> DEFINE w == CHOOSE f : follows(f)
<1>5. Tree!Largest(a) = w[N]
  <2>1. Tree!Cardinality(TreeNodes) = N
    BY TreeCardinality
  <2>2. QED
    BY <2>1, Zenon DEF Tree!Largest
<1>6. follows(w)
  <2> HIDE DEF follows
  <2>1. QED
    BY <1>4, Zenon
<1> HIDE DEF w
<1>7. LargestWalk(w, N, a)
  BY <1>6 DEF LargestWalk
<1>8. QED
  BY <1>5, <1>7

LEMMA LargestSteps ==
  ASSUME NEW R, NEW sub, Shaped(tnode, st_Root, R, sub), NEW a \in R, tnode[a].pLeft # Null,
         NEW p, NEW s, AtLargest(a, R, sub, p, s), NEW c, c = tnode[s].pRight, c # Null
  PROVE  AtLargest(a, R, sub, s, c) /\ Cardinality(sub[c]) < Cardinality(sub[s])
<1>1. PICK l \in R : l = tnode[a].pLeft /\ l # a /\ l \in sub[a] /\ a \notin sub[l]
  <2>1. tnode[a].pLeft \in R /\ tnode[a].pLeft \in sub[a] /\ tnode[a].pLeft # a
    BY ChildFacts
  <2>2. QED
    BY <2>1, Shrinks
<1>2. s \in R /\ s \in sub[l]
  BY <1>1 DEF AtLargest
<1>3. c \in R /\ c \in sub[s] /\ c # s
  BY <1>2, ChildFacts
<1>4. c \in sub[l] /\ s # a
  BY <1>1, <1>2, <1>3, NodeFacts
<1>5. ASSUME NEW m \in sub[l] PROVE m \in sub[c] \/ tnode[m].key < tnode[c].key
  <2>1. /\ tnode[m].key \in Int /\ tnode[s].key \in Int /\ tnode[c].key \in Int
        /\ tnode[c].key > tnode[s].key
    BY <1>1, <1>2, <1>3, ChildFacts, NodeFacts
  <2>2. CASE m \in sub[s]
    <3>1. CASE m = s
      BY <2>1, <3>1
    <3>2. CASE m # s /\ tnode[m].key < tnode[s].key
      BY <2>1, <3>2
    <3>3. CASE m # s /\ tnode[m].key > tnode[s].key
      BY <1>2, <2>2, <3>3, Turns
    <3>4. m # s => tnode[m].key # tnode[s].key
      BY <1>2, <2>2, Turns
    <3>5. QED
      BY <2>1, <3>1, <3>2, <3>3, <3>4
  <2>3. CASE m \notin sub[s]
    <3>1. tnode[m].key < tnode[s].key
      BY <1>1, <1>5, <2>3 DEF AtLargest
    <3>2. QED
      BY <2>1, <3>1
  <2>4. QED
    BY <2>2, <2>3
<1>6. AtLargest(a, R, sub, s, c)
  BY <1>1, <1>2, <1>3, <1>4, <1>5 DEF AtLargest
<1>7. QED
  BY <1>2, <1>3, <1>6, Shrinks

LEMMA LargestIs ==
  ASSUME NEW R, NEW sub, Shaped(tnode, st_Root, R, sub), NEW a \in R, tnode[a].pLeft # Null
  PROVE  \E p, s : /\ Tree!Largest(a) = << p, s >> /\ AtLargest(a, R, sub, p, s)
                   /\ tnode[s].pRight = Null
<1>1. PICK N \in Nat : N = Cardinality(TreeNodes)
  BY TreeAssumption, FS_CardinalityType
<1>2. PICK w : LargestWalk(w, N, a) /\ Tree!Largest(a) = w[N]
  BY <1>1, LargestWalks
<1> DEFINE Ends(s) == tnode[s].pRight = Null
           Close(i) == \E p, s : /\ w[i] = << p, s >> /\ AtLargest(a, R, sub, p, s)
                                 /\ Ends(s) \/ Cardinality(sub[s]) <= N - i
           T == { i \in 0 .. N : Close(i) }
<1>3. 0 \in T
  <2>1. PICK l \in R : l = tnode[a].pLeft /\ l \in sub[l]
    <3>1. tnode[a].pLeft \in R
      BY ChildFacts
    <3>2. QED
      BY <3>1, NodeFacts
  <2>2. w[0] = << a, l >> /\ AtLargest(a, R, sub, a, l)
    BY <1>2, <2>1 DEF LargestWalk, AtLargest
  <2>3. Cardinality(sub[l]) <= N - 0
    BY <1>1, Sizes
  <2>4. QED
    BY <2>2, <2>3
<1>4. ASSUME NEW i \in 0 .. N, i < N, i \in T PROVE i + 1 \in T
  <2>1. PICK p, s : /\ w[i] = << p, s >> /\ AtLargest(a, R, sub, p, s)
                    /\ Ends(s) \/ Cardinality(sub[s]) <= N - i
    BY <1>4
  <2>2. i + 1 \in 1 .. N /\ i + 1 - 1 = i
    BY <1>4
  <2>3. w[i + 1] = Tree!Right(w[i])
    BY <1>2, <2>2 DEF LargestWalk
  <2>4. CASE Ends(s)
    <3>1. w[i + 1] = << p, s >>
      BY <2>1, <2>3, <2>4 DEF Tree!Right, Tree!nullptr, Null
    <3>2. QED
      BY <2>1, <2>2, <2>4, <3>1
  <2>5. CASE ~ Ends(s)
    <3>1. PICK c : c = tnode[s].pRight
      OBVIOUS
    <3>2. w[i + 1] = << s, c >>
      BY <2>1, <2>3, <2>5, <3>1 DEF Tree!Right, Tree!nullptr, Null
    <3>3. AtLargest(a, R, sub, s, c) /\ Cardinality(sub[c]) < Cardinality(sub[s])
      BY <2>1, <2>5, <3>1, LargestSteps
    <3>4. s \in R /\ c \in R
      BY <2>1, <3>3 DEF AtLargest
    <3>5. Cardinality(sub[c]) <= N - (i + 1)
      <4>1. Cardinality(sub[c]) \in Nat /\ Cardinality(sub[s]) \in Nat
        BY <3>4, Sizes
      <4>2. QED
        BY <2>1, <2>5, <3>3, <4>1
    <3> HIDE DEF Ends
    <3>6. QED
      BY <2>2, <3>2, <3>3, <3>5
  <2>6. QED
    BY <2>4, <2>5
<1>5. N \in T
  <2> HIDE DEF T
  <2>1. \A i \in 0 .. N : i \in T
    BY <1>3, <1>4, UpTo
  <2>2. QED
    BY <2>1
<1>6. PICK p, s : /\ w[N] = << p, s >> /\ AtLargest(a, R, sub, p, s)
                  /\ Ends(s) \/ Cardinality(sub[s]) <= N - N
  BY <1>5
<1>7. Ends(s)
  <2>1. SUFFICES ASSUME ~ Ends(s) PROVE FALSE
    OBVIOUS
  <2>2. s \in R
    BY <1>6 DEF AtLargest
  <2>3. 1 <= Cardinality(sub[s]) /\ Cardinality(sub[s]) \in Nat
    BY <2>2, Sizes
  <2>4. QED
    BY <1>6, <2>1, <2>3
<1>8. QED
  BY <1>2, <1>6, <1>7

-----------------------------------------------------------------------------
(* Taking out a node with at most one child, which hangs in its place.     *)
Cleared(nd, nd1, off, c) ==
  /\ nd1 \in [ TreeNodes -> TreeCells ] /\ nd1[off] = Tree!Blank
  /\ \A m \in TreeNodes \ {off} :
       /\ nd1[m].key = nd[m].key
       /\ nd1[m].pLeft = IF nd[m].pLeft = off THEN c ELSE nd[m].pLeft
       /\ nd1[m].pRight = IF nd[m].pRight = off THEN c ELSE nd[m].pRight
Without(R, sub, off) == [ m \in R \ {off} |-> sub[m] \ {off} ]
OneChild(nd, off, c) ==
  \/ nd[off].pLeft = Null /\ c = nd[off].pRight
  \/ nd[off].pRight = Null /\ c = nd[off].pLeft

LEMMA ChildBelow ==
  ASSUME NEW nd, NEW root, NEW R, NEW sub, Shaped(nd, root, R, sub),
         NEW off \in R, NEW c, OneChild(nd, off, c)
  PROVE  /\ c = Null => sub[off] = {off}
         /\ c # Null => c \in R /\ c # off /\ c \in sub[off] /\ off \notin sub[c] /\ sub[off] \ {off} = sub[c]
         /\ c = nd[off].pLeft \/ c = nd[off].pRight
<1>1. off \in sub[off] /\ \A m \in sub[off] : m \in R /\ nd[m].key \in Int /\ nd[off].key \in Int
  BY NodeFacts
<1>2. \A m \in sub[off] : m # off => nd[m].key < nd[off].key \/ nd[m].key > nd[off].key
  <2>1. SUFFICES ASSUME NEW m \in sub[off], m # off
                 PROVE  nd[m].key < nd[off].key \/ nd[m].key > nd[off].key
    OBVIOUS
  <2>2. nd[m].key # nd[off].key
    BY <2>1, Turns
  <2>3. QED
    BY <1>1, <2>2
<1>3. CASE nd[off].pLeft = Null /\ c = nd[off].pRight
  <2>1. \A m \in sub[off] : ~ (nd[m].key < nd[off].key)
    BY <1>3, ChildFacts
  <2>2. CASE c = Null
    <3>1. \A m \in sub[off] : ~ (nd[m].key > nd[off].key)
      BY <1>3, <2>2, ChildFacts
    <3>2. QED
      BY <1>1, <1>2, <1>3, <2>1, <2>2, <3>1
  <2>3. CASE c # Null
    <3>1. /\ c \in R /\ c # off /\ c \in sub[off]
          /\ \A m : m \in sub[c] <=> m \in sub[off] /\ nd[m].key > nd[off].key
      BY <1>3, <2>3, ChildFacts
    <3>2. off \notin sub[c]
      BY <3>1, Shrinks
    <3>3. sub[off] \ {off} = sub[c]
      BY <1>2, <2>1, <3>1, <3>2
    <3>4. QED
      BY <1>3, <2>3, <3>1, <3>2, <3>3
  <2>4. QED
    BY <2>2, <2>3
<1>4. CASE nd[off].pRight = Null /\ c = nd[off].pLeft
  <2>1. \A m \in sub[off] : ~ (nd[m].key > nd[off].key)
    BY <1>4, ChildFacts
  <2>2. CASE c = Null
    <3>1. \A m \in sub[off] : ~ (nd[m].key < nd[off].key)
      BY <1>4, <2>2, ChildFacts
    <3>2. QED
      BY <1>1, <1>2, <1>4, <2>1, <2>2, <3>1
  <2>3. CASE c # Null
    <3>1. /\ c \in R /\ c # off /\ c \in sub[off]
          /\ \A m : m \in sub[c] <=> m \in sub[off] /\ nd[m].key < nd[off].key
      BY <1>4, <2>3, ChildFacts
    <3>2. off \notin sub[c]
      BY <3>1, Shrinks
    <3>3. sub[off] \ {off} = sub[c]
      BY <1>2, <2>1, <3>1, <3>2
    <3>4. QED
      BY <1>4, <2>3, <3>1, <3>2, <3>3
  <2>4. QED
    BY <2>2, <2>3
<1>5. QED
  BY <1>3, <1>4 DEF OneChild

LEMMA CutHangs ==
  ASSUME NEW nd, NEW root, NEW R, NEW sub, Shaped(nd, root, R, sub),
         NEW off \in R, NEW c, OneChild(nd, off, c), NEW l, NEW S, Hangs(l, S, R, sub)
  PROVE  Hangs(IF l = off THEN c ELSE l, S \ {off}, R \ {off}, Without(R, sub, off))
<1>1. off # Null
  BY NodeFacts
<1>2. CASE l = Null
  BY <1>1, <1>2 DEF Hangs
<1>3. CASE l # Null /\ l # off
  <2>1. l \in R /\ sub[l] = S
    BY <1>3 DEF Hangs
  <2>2. QED
    BY <1>3, <2>1 DEF Hangs, Without
<1>4. CASE l = off
  <2>1. sub[off] = S
    BY <1>1, <1>4 DEF Hangs
  <2>2. CASE c = Null
    <3>1. S \ {off} = {}
      BY <2>1, <2>2, ChildBelow
    <3>2. QED
      BY <1>4, <2>2, <3>1 DEF Hangs
  <2>3. CASE c # Null
    <3>1. c \in R /\ c # off /\ off \notin sub[c] /\ S \ {off} = sub[c]
      BY <2>1, <2>3, ChildBelow
    <3>2. Without(R, sub, off)[c] = sub[c]
      BY <3>1 DEF Without
    <3>3. QED
      BY <1>4, <2>3, <3>1, <3>2 DEF Hangs
  <2>4. QED
    BY <2>2, <2>3
<1>5. QED
  BY <1>2, <1>3, <1>4

LEMMA CutShape ==
  ASSUME NEW nd, NEW root, NEW R, NEW sub, Shaped(nd, root, R, sub),
         NEW off \in R, NEW c, OneChild(nd, off, c), NEW nd1, Cleared(nd, nd1, off, c),
         NEW root1, root1 = IF root = off THEN c ELSE root
  PROVE  Shaped(nd1, root1, R \ {off}, Without(R, sub, off))
<1>1. PICK Q, sub1 : Q = R \ {off} /\ sub1 = Without(R, sub, off)
  OBVIOUS
<1>2. \A m \in Q : sub1[m] = sub[m] \ {off}
  BY <1>1 DEF Without
<1>3. off # Null /\ R \in SUBSET TreeNodes /\ Q \in SUBSET TreeNodes
  BY <1>1, NodeFacts DEF Shaped, Tame
<1>4. /\ nd \in [ TreeNodes -> TreeCells ] /\ nd1 \in [ TreeNodes -> TreeCells ]
      /\ nd1[off] = Tree!Blank
      /\ \A m \in TreeNodes \ {off} :
           /\ nd1[m].key = nd[m].key
           /\ nd1[m].pLeft = IF nd[m].pLeft = off THEN c ELSE nd[m].pLeft
           /\ nd1[m].pRight = IF nd[m].pRight = off THEN c ELSE nd[m].pRight
  BY DEF Cleared, Shaped, Tame
<1>5. Tame(nd1, Q)
  <2>1. ASSUME NEW n \in TreeNodes \ Q PROVE nd1[n] = Tree!Blank
    <3>1. CASE n = off
      BY <1>4, <3>1
    <3>2. CASE n # off
      <4>1. nd[n] = Tree!Blank
        BY <1>1, <3>2 DEF Shaped, Tame
      <4>2. nd[n].pLeft = Null /\ nd[n].pRight = Null /\ nd[n].key = Null
        BY <4>1 DEF Tree!Blank, Tree!nullptr, Null
      <4>3. nd1[n].key = Null /\ nd1[n].pLeft = Null /\ nd1[n].pRight = Null
        BY <1>3, <1>4, <3>2, <4>2
      <4>4. nd1[n] \in TreeCells
        BY <1>4
      <4>5. QED
        BY <4>3, <4>4 DEF TreeCells, Tree!Blank, Tree!nullptr, Null
    <3>3. QED
      BY <3>1, <3>2
  <2>2. \A n \in Q : nd1[n].key = nd[n].key
    BY <1>1, <1>3, <1>4
  <2>3. /\ \A n \in R : nd[n].key \in TreeKeys
        /\ \A m, n \in R : nd[m].key = nd[n].key => m = n
    BY DEF Shaped, Tame
  <2>4. QED
    BY <1>1, <1>3, <1>4, <2>1, <2>2, <2>3 DEF Tame
<1>6. Nested(Q, sub1)
  <2>1. sub \in [ R -> SUBSET R ] /\ \A n \in R : n \in sub[n] /\ \A m \in sub[n] : sub[m] \subseteq sub[n]
    BY DEF Shaped, Nested
  <2>2. sub1 \in [ Q -> SUBSET Q ]
    BY <1>1, <2>1 DEF Without
  <2>3. ASSUME NEW n \in Q PROVE n \in sub1[n] /\ \A m \in sub1[n] : sub1[m] \subseteq sub1[n]
    BY <1>1, <1>2, <2>1
  <2>4. QED
    BY <2>2, <2>3 DEF Nested
<1>7. Sorted(nd1, Q, sub1)
  <2>1. ASSUME NEW n \in Q
        PROVE  /\ Hangs(nd1[n].pLeft, Lefts(nd1, sub1[n], n), Q, sub1)
               /\ Hangs(nd1[n].pRight, Rights(nd1, sub1[n], n), Q, sub1)
    <3>1. /\ Hangs(nd[n].pLeft, Lefts(nd, sub[n], n), R, sub)
          /\ Hangs(nd[n].pRight, Rights(nd, sub[n], n), R, sub)
      BY <1>1 DEF Shaped, Sorted
    <3>2. /\ nd1[n].pLeft = IF nd[n].pLeft = off THEN c ELSE nd[n].pLeft
          /\ nd1[n].pRight = IF nd[n].pRight = off THEN c ELSE nd[n].pRight
      BY <1>1, <1>3, <1>4
    <3>3. sub[n] \subseteq R /\ sub1[n] = sub[n] \ {off}
      BY <1>1, <1>2, NodeFacts
    <3>4. \A m \in R : m # off => nd1[m].key = nd[m].key
      BY <1>3, <1>4
    <3>5. /\ Lefts(nd1, sub1[n], n) = Lefts(nd, sub[n], n) \ {off}
          /\ Rights(nd1, sub1[n], n) = Rights(nd, sub[n], n) \ {off}
      BY <1>1, <3>3, <3>4 DEF Lefts, Rights
    <3>6. /\ Hangs(IF nd[n].pLeft = off THEN c ELSE nd[n].pLeft,
                   Lefts(nd, sub[n], n) \ {off}, R \ {off}, Without(R, sub, off))
          /\ Hangs(IF nd[n].pRight = off THEN c ELSE nd[n].pRight,
                   Rights(nd, sub[n], n) \ {off}, R \ {off}, Without(R, sub, off))
      BY <3>1, CutHangs
    <3>7. QED
      BY <1>1, <3>2, <3>5, <3>6
  <2>2. QED
    BY <2>1 DEF Sorted
<1>8. Climbs(nd1, Q, sub1)
  <2>1. ASSUME NEW n \in Q, NEW d \in Q, NEW q \in Q,
               d = nd1[n].pLeft \/ d = nd1[n].pRight, d \in sub1[q], d # q
        PROVE  n \in sub1[q]
    <3>1. \A m, e, r \in R : /\ e = nd[m].pLeft \/ e = nd[m].pRight
                             /\ e \in sub[r] /\ e # r
                             => m \in sub[r]
      BY DEF Shaped, Climbs
    <3>2. /\ n \in R /\ d \in R /\ q \in R /\ n # off /\ d # off /\ q # off
          /\ d \in sub[q] /\ sub1[q] = sub[q] \ {off}
      BY <1>1, <1>2, <2>1
    <3>3. CASE d = nd[n].pLeft \/ d = nd[n].pRight
      BY <2>1, <3>1, <3>2, <3>3
    <3>4. CASE ~ (d = nd[n].pLeft \/ d = nd[n].pRight)
      <4>1. d = c /\ (nd[n].pLeft = off \/ nd[n].pRight = off)
        BY <1>3, <1>4, <2>1, <3>2, <3>4
      <4>2. d = nd[off].pLeft \/ d = nd[off].pRight
        BY <4>1, ChildBelow
      <4>3. off \in sub[q]
        BY <2>1, <3>1, <3>2, <4>2
      <4>4. n \in sub[q]
        BY <3>1, <3>2, <4>1, <4>3
      <4>5. QED
        BY <3>2, <4>4
    <3>5. QED
      BY <3>3, <3>4
  <2>2. QED
    BY <2>1 DEF Climbs
<1>9. IF Q = {} THEN root1 = Null ELSE root1 \in Q /\ sub1[root1] = Q
  <2>1. root \in R /\ sub[root] = R /\ root # Null
    BY NodeFacts
  <2>2. CASE root = off
    <3>1. CASE c = Null
      <4>1. Q = {}
        BY <1>1, <2>1, <2>2, <3>1, ChildBelow
      <4>2. QED
        BY <2>2, <3>1, <4>1
    <3>2. CASE c # Null
      <4>1. c \in R /\ c # off /\ off \notin sub[c] /\ Q = sub[c]
        BY <1>1, <2>1, <2>2, <3>2, ChildBelow
      <4>2. c \in Q /\ sub1[c] = Q
        BY <1>1, <1>2, <4>1
      <4>3. QED
        BY <2>2, <4>2
    <3>3. QED
      BY <3>1, <3>2
  <2>3. CASE root # off
    BY <1>1, <1>2, <2>1, <2>3
  <2>4. QED
    BY <2>2, <2>3
<1>10. Shaped(nd1, root1, Q, sub1)
  BY <1>5, <1>6, <1>7, <1>8, <1>9 DEF Shaped
<1>11. QED
  BY <1>1, <1>10

(* A key that moves into a node between the same neighbours.               *)
Rekeyed(nd, nd1, a, k) ==
  /\ nd1 \in [ TreeNodes -> TreeCells ] /\ nd1[a].key = k
  /\ \A m \in TreeNodes : nd1[m].pLeft = nd[m].pLeft /\ nd1[m].pRight = nd[m].pRight
  /\ \A m \in TreeNodes \ {a} : nd1[m] = nd[m]
Fits(nd, R, sub, a, k) ==
  /\ \A m \in R \ {a} : nd[m].key # k
  /\ \A m \in sub[a] \ {a} : nd[m].key < nd[a].key <=> nd[m].key < k
  /\ \A q \in R : a \in sub[q] /\ q # a => (nd[a].key < nd[q].key <=> k < nd[q].key)

LEMMA RekeyShape ==
  ASSUME NEW nd, NEW root, NEW R, NEW sub, Shaped(nd, root, R, sub),
         NEW a \in R, NEW k \in TreeKeys, Fits(nd, R, sub, a, k),
         NEW nd1, Rekeyed(nd, nd1, a, k)
  PROVE  Shaped(nd1, root, R, sub)
<1>1. /\ nd1 \in [ TreeNodes -> TreeCells ] /\ nd1[a].key = k
      /\ \A m \in TreeNodes : nd1[m].pLeft = nd[m].pLeft /\ nd1[m].pRight = nd[m].pRight
      /\ \A m \in TreeNodes \ {a} : nd1[m] = nd[m]
  BY DEF Rekeyed
<1>2. /\ R \in SUBSET TreeNodes /\ \A n \in TreeNodes \ R : nd[n] = Tree!Blank
      /\ \A n \in R : nd[n].key \in TreeKeys
      /\ \A m, n \in R : nd[m].key = nd[n].key => m = n
      /\ TreeKeys \subseteq Int
  BY TreeAssumption DEF Shaped, Tame
<1>3. /\ \A m \in R \ {a} : nd[m].key # k
      /\ \A m \in sub[a] \ {a} : nd[m].key < nd[a].key <=> nd[m].key < k
      /\ \A q \in R : a \in sub[q] /\ q # a => (nd[a].key < nd[q].key <=> k < nd[q].key)
  BY DEF Fits
<1>4. Tame(nd1, R)
  BY <1>1, <1>2, <1>3 DEF Tame
<1>5. Sorted(nd1, R, sub)
  <2>1. ASSUME NEW n \in R
        PROVE  /\ Lefts(nd1, sub[n], n) = Lefts(nd, sub[n], n)
               /\ Rights(nd1, sub[n], n) = Rights(nd, sub[n], n)
    <3>1. ASSUME NEW m \in sub[n]
          PROVE  /\ nd1[m].key < nd1[n].key <=> nd[m].key < nd[n].key
                 /\ nd1[m].key > nd1[n].key <=> nd[m].key > nd[n].key
      <4>1. m \in R /\ m \in TreeNodes /\ n \in TreeNodes
        BY <1>2, NodeFacts
      <4>2. CASE m # a /\ n # a
        BY <1>1, <4>1, <4>2
      <4>3. CASE m = a /\ n # a
        <5>1. nd1[m].key = k /\ nd1[n].key = nd[n].key /\ nd[n].key # k
          BY <1>1, <1>3, <4>1, <4>3
        <5>2. nd[a].key < nd[n].key <=> k < nd[n].key
          BY <1>3, <4>3
        <5>3. nd[a].key # nd[n].key
          BY <1>2, <4>3
        <5>4. nd[a].key \in Int /\ nd[n].key \in Int /\ k \in Int
          BY <1>2
        <5>5. QED
          BY <4>3, <5>1, <5>2, <5>3, <5>4
      <4>4. CASE m # a /\ n = a
        <5>1. nd1[n].key = k /\ nd1[m].key = nd[m].key /\ nd[m].key # k
          BY <1>1, <1>3, <4>1, <4>4
        <5>2. nd[m].key < nd[a].key <=> nd[m].key < k
          BY <1>3, <4>4
        <5>3. nd[m].key # nd[a].key
          BY <1>2, <4>1, <4>4
        <5>4. nd[a].key \in Int /\ nd[m].key \in Int /\ k \in Int
          BY <1>2, <4>1
        <5>5. QED
          BY <4>4, <5>1, <5>2, <5>3, <5>4
      <4>5. CASE m = a /\ n = a
        <5>1. nd1[n].key \in Int /\ nd[n].key \in Int
          BY <1>1, <1>2, <4>5
        <5>2. QED
          BY <4>5, <5>1
      <4>6. QED
        BY <4>2, <4>3, <4>4, <4>5
    <3>2. QED
      BY <3>1 DEF Lefts, Rights
  <2>2. Sorted(nd, R, sub)
    BY DEF Shaped
  <2>3. QED
    BY <1>1, <1>2, <2>1, <2>2 DEF Sorted
<1>6. Climbs(nd1, R, sub)
  <2>1. \A n \in R : nd1[n].pLeft = nd[n].pLeft /\ nd1[n].pRight = nd[n].pRight
    BY <1>1, <1>2
  <2>2. Climbs(nd, R, sub)
    BY DEF Shaped
  <2>3. QED
    BY <2>1, <2>2 DEF Climbs
<1>7. QED
  BY <1>4, <1>5, <1>6 DEF Shaped

-----------------------------------------------------------------------------
(* A new leaf where the walk for its key has ended.                        *)
Grown(nd, nd1, p, n, k) ==
  /\ nd1 \in [ TreeNodes -> TreeCells ]
  /\ nd1[n].key = k /\ nd1[n].pLeft = Null /\ nd1[n].pRight = Null
  /\ \A m \in TreeNodes \ {n} :
       /\ nd1[m].key = nd[m].key
       /\ nd1[m].pLeft = IF m = p /\ k < nd[p].key THEN n ELSE nd[m].pLeft
       /\ nd1[m].pRight = IF m = p /\ ~ (k < nd[p].key) THEN n ELSE nd[m].pRight
With(R, sub, p, n) ==
  [ m \in R \cup {n} |-> IF m = n THEN {n}
                         ELSE IF p \in sub[m] THEN sub[m] \cup {n} ELSE sub[m] ]

LEMMA GrowShape ==
  ASSUME NEW R, NEW sub, Shaped(tnode, st_Root, R, sub), NEW k \in TreeKeys,
         NEW p, AtPlace(k, R, sub, p, Null), NEW n \in TreeNodes \ R,
         NEW nd1, Grown(tnode, nd1, p, n, k),
         NEW root1, root1 = IF st_Root = Null THEN n ELSE st_Root
  PROVE  Shaped(nd1, root1, R \cup {n}, With(R, sub, p, n))
<1>1. PICK Q, sub1 : Q = R \cup {n} /\ sub1 = With(R, sub, p, n)
  OBVIOUS
<1>2. PICK nd : nd = tnode
  OBVIOUS
<1>3. /\ sub1[n] = {n}
      /\ \A m \in R : sub1[m] = IF p \in sub[m] THEN sub[m] \cup {n} ELSE sub[m]
  BY <1>1 DEF With
<1>4. /\ R \in SUBSET TreeNodes /\ Q \in SUBSET TreeNodes /\ n \notin R /\ n # Null
      /\ n \in Q /\ k \in Int /\ Null \notin R
  BY <1>1, TreeAssumption DEF Shaped, Tame, Null
<1>5. /\ nd1 \in [ TreeNodes -> TreeCells ]
      /\ nd1[n].key = k /\ nd1[n].pLeft = Null /\ nd1[n].pRight = Null
      /\ \A m \in TreeNodes \ {n} :
           /\ nd1[m].key = nd[m].key
           /\ nd1[m].pLeft = IF m = p /\ k < nd[p].key THEN n ELSE nd[m].pLeft
           /\ nd1[m].pRight = IF m = p /\ ~ (k < nd[p].key) THEN n ELSE nd[m].pRight
  BY <1>2 DEF Grown
<1>6. /\ p \in R \cup { Null } /\ (p = Null => st_Root = Null)
      /\ p # Null => /\ k # nd[p].key
                     /\ Null = IF k < nd[p].key THEN nd[p].pLeft ELSE nd[p].pRight
      /\ \A q \in R : p \in sub[q] /\ q # p
                        => k # nd[q].key /\ (k < nd[q].key <=> nd[p].key < nd[q].key)
      /\ \A m \in R : nd[m].key # k
  BY <1>2 DEF AtPlace
<1>7. Shaped(nd, st_Root, R, sub)
  BY <1>2
<1>8. \A m \in R : /\ nd[m].key \in TreeKeys /\ nd[m].key \in Int /\ nd1[m].key = nd[m].key
                   /\ sub[m] \subseteq R /\ m \in sub[m] /\ m # n /\ m \in TreeNodes
  BY <1>4, <1>5, <1>7, NodeFacts
<1>9. Tame(nd1, Q)
  <2>1. ASSUME NEW m \in TreeNodes \ Q PROVE nd1[m] = Tree!Blank
    <3>1. nd[m] = Tree!Blank /\ m # n /\ m # p
      BY <1>1, <1>4, <1>6, <1>7, TreeAssumption DEF Shaped, Tame, Null
    <3>2. nd[m].pLeft = Null /\ nd[m].pRight = Null /\ nd[m].key = Null
      BY <3>1 DEF Tree!Blank, Tree!nullptr, Null
    <3>3. nd1[m].key = Null /\ nd1[m].pLeft = Null /\ nd1[m].pRight = Null
      BY <1>5, <3>1, <3>2
    <3>4. nd1[m] \in TreeCells
      BY <1>5
    <3>5. QED
      BY <3>3, <3>4 DEF TreeCells, Tree!Blank, Tree!nullptr, Null
  <2>2. \A m, q \in R : nd[m].key = nd[q].key => m = q
    BY <1>7 DEF Shaped, Tame
  <2>3. \A m, q \in Q : nd1[m].key = nd1[q].key => m = q
    BY <1>1, <1>5, <1>6, <1>8, <2>2
  <2>4. \A m \in Q : nd1[m].key \in TreeKeys
    BY <1>1, <1>5, <1>8
  <2>5. QED
    BY <1>4, <1>5, <2>1, <2>3, <2>4 DEF Tame
<1>10. Nested(Q, sub1)
  <2>1. \A m \in R : \A q \in sub[m] : sub[q] \subseteq sub[m]
    BY <1>7 DEF Shaped, Nested
  <2>2. \A m \in Q : sub1[m] \in SUBSET Q /\ m \in sub1[m]
    BY <1>1, <1>3, <1>8
  <2>3. sub1 \in [ Q -> SUBSET Q ]
    <3>1. sub1 = [ m \in Q |-> sub1[m] ]
      BY <1>1 DEF With
    <3>2. QED
      BY <2>2, <3>1
  <2>4. ASSUME NEW m \in Q, NEW q \in sub1[m] PROVE sub1[q] \subseteq sub1[m]
    <3>1. CASE q = n
      BY <1>3, <2>4, <3>1
    <3>2. CASE q # n
      <4>1. m \in R /\ q \in sub[m] /\ q \in R
        BY <1>1, <1>3, <1>8, <2>4, <3>2
      <4>2. sub[q] \subseteq sub[m]
        BY <2>1, <4>1
      <4>3. QED
        BY <1>3, <4>1, <4>2
    <3>3. QED
      BY <3>1, <3>2
  <2>5. QED
    BY <2>2, <2>3, <2>4 DEF Nested
<1>11. ASSUME NEW m \in R, NEW l, NEW S, Hangs(l, S, R, sub), p \notin S, n \notin S
       PROVE  Hangs(l, S, Q, sub1)
  <2>1. CASE l = Null
    BY <1>11, <2>1 DEF Hangs
  <2>2. CASE l # Null
    <3>1. l \in R /\ sub[l] = S
      BY <1>11, <2>2 DEF Hangs
    <3>2. l \in Q /\ sub1[l] = S
      BY <1>1, <1>3, <1>11, <3>1
    <3>3. QED
      BY <2>2, <3>2 DEF Hangs
  <2>3. QED
    BY <2>1, <2>2
<1>12. ASSUME NEW m \in R, NEW l, NEW S, Hangs(l, S, R, sub), p \in S
       PROVE  Hangs(l, S \cup {n}, Q, sub1)
  <2>1. l # Null /\ l \in R /\ sub[l] = S
    BY <1>12 DEF Hangs
  <2>2. l \in Q /\ sub1[l] = S \cup {n}
    BY <1>1, <1>3, <1>12, <2>1
  <2>3. QED
    BY <2>1, <2>2 DEF Hangs
<1>13. ASSUME NEW m \in R
       PROVE  /\ Hangs(nd1[m].pLeft, Lefts(nd1, sub1[m], m), Q, sub1)
              /\ Hangs(nd1[m].pRight, Rights(nd1, sub1[m], m), Q, sub1)
  <2> DEFINE L == Lefts(nd, sub[m], m)
             G == Rights(nd, sub[m], m)
             L1 == Lefts(nd1, sub1[m], m)
             G1 == Rights(nd1, sub1[m], m)
  <2>1. Hangs(nd[m].pLeft, L, R, sub) /\ Hangs(nd[m].pRight, G, R, sub)
    BY <1>7 DEF Shaped, Sorted
  <2>2. n \notin L /\ n \notin G /\ L \subseteq sub[m] /\ G \subseteq sub[m]
    BY <1>4, <1>8 DEF Lefts, Rights
  <2>3. /\ \A e : e \in L <=> e \in sub[m] /\ nd[e].key < nd[m].key
        /\ \A e : e \in G <=> e \in sub[m] /\ nd[e].key > nd[m].key
        /\ \A e : e \in L1 <=> e \in sub1[m] /\ nd1[e].key < nd1[m].key
        /\ \A e : e \in G1 <=> e \in sub1[m] /\ nd1[e].key > nd1[m].key
    BY DEF Lefts, Rights
  <2>4. /\ nd1[m].pLeft = IF m = p /\ k < nd[p].key THEN n ELSE nd[m].pLeft
        /\ nd1[m].pRight = IF m = p /\ ~ (k < nd[p].key) THEN n ELSE nd[m].pRight
    BY <1>5, <1>8
  <2> HIDE DEF L, G, L1, G1
  <2>5. CASE p \notin sub[m]
    <3>1. m # p /\ sub1[m] = sub[m] /\ p \notin L /\ p \notin G
      BY <1>3, <1>8, <2>2, <2>5
    <3>2. \A e : (e \in L1 <=> e \in L) /\ (e \in G1 <=> e \in G)
      BY <1>8, <2>3, <3>1
    <3>3. L1 = L /\ G1 = G
      BY <3>2
    <3>4. Hangs(nd[m].pLeft, L, Q, sub1) /\ Hangs(nd[m].pRight, G, Q, sub1)
      BY <1>11, <2>1, <2>2, <3>1
    <3>5. QED
      BY <2>4, <3>1, <3>3, <3>4 DEF L1, G1
  <2>6. CASE p \in sub[m]
    <3>1. sub1[m] = sub[m] \cup {n} /\ p \in R
      BY <1>3, <1>8, <2>6
    <3>2. nd[p].key \in Int /\ nd[m].key \in Int /\ nd1[m].key = nd[m].key /\ nd1[n].key = k
          /\ nd[m].key # k
      BY <1>5, <1>6, <1>8, <3>1
    <3>3. CASE k < nd[m].key
      <4>1. \A e : e \in L1 <=> e \in L \/ e = n
        BY <1>8, <2>3, <3>1, <3>2, <3>3
      <4>2. \A e : e \in G1 <=> e \in G
        BY <1>4, <1>8, <2>3, <3>1, <3>2, <3>3
      <4>3. L1 = L \cup {n} /\ G1 = G
        BY <4>1, <4>2
      <4>4. p \notin G /\ (p # m => p \in L)
        BY <1>6, <2>3, <2>6, <3>2, <3>3
      <4>5. Hangs(nd[m].pRight, G, Q, sub1)
        BY <1>11, <2>1, <2>2, <4>4
      <4>6. nd1[m].pRight = nd[m].pRight
        BY <2>4, <3>3
      <4>7. Hangs(nd1[m].pLeft, L \cup {n}, Q, sub1)
        <5>1. CASE m = p
          <6>1. nd1[m].pLeft = n /\ nd[m].pLeft = Null
            BY <1>4, <1>6, <2>4, <3>1, <3>3, <5>1
          <6>2. L = {}
            BY <2>1, <6>1 DEF Hangs
          <6>3. QED
            BY <1>3, <1>4, <6>1, <6>2 DEF Hangs
        <5>2. CASE m # p
          BY <1>12, <2>1, <2>4, <4>4, <5>2
        <5>3. QED
          BY <5>1, <5>2
      <4>8. QED
        BY <4>3, <4>5, <4>6, <4>7 DEF L1, G1
    <3>4. CASE ~ (k < nd[m].key)
      <4>1. \A e : e \in G1 <=> e \in G \/ e = n
        BY <1>4, <1>8, <2>3, <3>1, <3>2, <3>4
      <4>2. \A e : e \in L1 <=> e \in L
        BY <1>4, <1>8, <2>3, <3>1, <3>2, <3>4
      <4>3. G1 = G \cup {n} /\ L1 = L
        BY <4>1, <4>2
      <4>4. p \notin L /\ (p # m => p \in G)
        <5>1. p # m => nd[p].key # nd[m].key
          BY <1>7, <2>6, Turns
        <5>2. QED
          BY <1>6, <2>3, <2>6, <3>2, <3>4, <5>1
      <4>5. Hangs(nd[m].pLeft, L, Q, sub1)
        BY <1>11, <2>1, <2>2, <4>4
      <4>6. nd1[m].pLeft = nd[m].pLeft
        BY <2>4, <3>4
      <4>7. Hangs(nd1[m].pRight, G \cup {n}, Q, sub1)
        <5>1. CASE m = p
          <6>1. nd1[m].pRight = n /\ nd[m].pRight = Null
            BY <1>4, <1>6, <2>4, <3>1, <3>4, <5>1
          <6>2. G = {}
            BY <2>1, <6>1 DEF Hangs
          <6>3. QED
            BY <1>3, <1>4, <6>1, <6>2 DEF Hangs
        <5>2. CASE m # p
          BY <1>12, <2>1, <2>4, <4>4, <5>2
        <5>3. QED
          BY <5>1, <5>2
      <4>8. QED
        BY <4>3, <4>5, <4>6, <4>7 DEF L1, G1
    <3>5. QED
      BY <3>3, <3>4
  <2>7. QED
    BY <2>5, <2>6
<1>14. /\ Hangs(nd1[n].pLeft, Lefts(nd1, sub1[n], n), Q, sub1)
       /\ Hangs(nd1[n].pRight, Rights(nd1, sub1[n], n), Q, sub1)
  <2>1. Lefts(nd1, sub1[n], n) = {} /\ Rights(nd1, sub1[n], n) = {}
    BY <1>3, <1>4, <1>5 DEF Lefts, Rights
  <2>2. QED
    BY <1>5, <2>1 DEF Hangs
<1>15. Sorted(nd1, Q, sub1)
  BY <1>1, <1>13, <1>14 DEF Sorted
<1>16. Climbs(nd1, Q, sub1)
  <2>1. ASSUME NEW m \in Q, NEW d \in Q, NEW q \in Q,
               d = nd1[m].pLeft \/ d = nd1[m].pRight, d \in sub1[q], d # q
        PROVE  m \in sub1[q]
    <3>1. m # n
      BY <1>1, <1>4, <1>5, <2>1
    <3>2. m \in R /\ q # n /\ q \in R
      BY <1>1, <1>3, <2>1, <3>1
    <3>3. nd[m].pLeft \in R \cup { Null } /\ nd[m].pRight \in R \cup { Null }
      BY <1>7, <3>2, NodeFacts
    <3>4. CASE d = n
      <4>1. m = p
        BY <1>4, <1>5, <1>8, <2>1, <3>2, <3>3, <3>4
      <4>2. p \in sub[q]
        BY <1>3, <1>4, <1>8, <2>1, <3>2, <3>4
      <4>3. QED
        BY <1>3, <3>2, <4>1, <4>2
    <3>5. CASE d # n
      <4>1. d \in R /\ d \in sub[q] /\ (d = nd[m].pLeft \/ d = nd[m].pRight)
        BY <1>1, <1>3, <1>5, <1>8, <2>1, <3>2, <3>5
      <4>2. m \in sub[q]
        BY <1>7, <2>1, <3>2, <4>1 DEF Shaped, Climbs
      <4>3. QED
        BY <1>3, <3>2, <4>2
    <3>6. QED
      BY <3>4, <3>5
  <2>2. QED
    BY <2>1 DEF Climbs
<1>17. root1 \in Q /\ sub1[root1] = Q
  <2>1. CASE st_Root = Null
    <3>1. R = {}
      BY <1>4, <2>1 DEF Shaped
    <3>2. QED
      BY <1>1, <1>3, <2>1, <3>1
  <2>2. CASE st_Root # Null
    <3>1. st_Root \in R /\ sub[st_Root] = R
      BY <2>2 DEF Shaped
    <3>2. p \in R
      BY <1>6, <2>2
    <3>3. QED
      BY <1>1, <1>3, <2>2, <3>1, <3>2
  <2>3. QED
    BY <2>1, <2>2
<1>18. Shaped(nd1, root1, Q, sub1)
  BY <1>4, <1>9, <1>10, <1>15, <1>16, <1>17 DEF Shaped
<1>19. QED
  BY <1>1, <1>18

-----------------------------------------------------------------------------
(* Every node hangs on one other, and on one side of it.                   *)
LEMMA OneParent ==
  ASSUME NEW nd, NEW root, NEW R, NEW sub, Shaped(nd, root, R, sub),
         NEW p \in R, NEW m \in R, NEW c \in R,
         c = nd[p].pLeft \/ c = nd[p].pRight, c = nd[m].pLeft \/ c = nd[m].pRight
  PROVE  m = p
<1>1. SUFFICES ASSUME m # p PROVE FALSE
  OBVIOUS
<1>2. c # Null
  BY NodeFacts
<1>3. c \in sub[p] /\ c # p /\ c \in sub[m] /\ c # m
  BY <1>2, ChildFacts
<1>4. m \in sub[p] /\ p \in sub[m]
  BY <1>3 DEF Shaped, Climbs
<1>5. QED
  BY <1>1, <1>4, Shrinks

LEMMA OneSide ==
  ASSUME NEW nd, NEW root, NEW R, NEW sub, Shaped(nd, root, R, sub), NEW p \in R,
         nd[p].pLeft # Null
  PROVE  nd[p].pRight # nd[p].pLeft
<1>1. SUFFICES ASSUME nd[p].pRight = nd[p].pLeft PROVE FALSE
  OBVIOUS
<1>2. PICK l \in R : l = nd[p].pLeft /\ nd[l].key < nd[p].key
  <2>1. nd[p].pLeft \in R
    BY ChildFacts
  <2>2. nd[p].pLeft \in sub[nd[p].pLeft]
    BY <2>1, NodeFacts
  <2>3. nd[nd[p].pLeft].key < nd[p].key
    BY <2>2, ChildFacts
  <2>4. QED
    BY <2>1, <2>3
<1>3. l \in sub[l] /\ nd[l].key \in Int /\ nd[p].key \in Int /\ l # Null
  BY NodeFacts
<1>4. nd[l].key > nd[p].key
  BY <1>1, <1>2, <1>3, ChildFacts
<1>5. QED
  BY <1>2, <1>3, <1>4

(* What the two assignments of erase do when off hangs on p.               *)
LEMMA CutBelow ==
  ASSUME NEW nd, NEW root, NEW R, NEW sub, Shaped(nd, root, R, sub),
         NEW p \in R, NEW off \in R, off = nd[p].pLeft \/ off = nd[p].pRight,
         NEW c, OneChild(nd, off, c), NEW side,
         side = IF nd[p].pLeft = off THEN "pLeft" ELSE "pRight",
         NEW nd1, nd1 = [ nd EXCEPT ![p][side] = c, ![off] = Tree!Blank ]
  PROVE  Cleared(nd, nd1, off, c)
<1>1. /\ nd \in [ TreeNodes -> TreeCells ] /\ R \in SUBSET TreeNodes
      /\ p \in TreeNodes /\ off \in TreeNodes
      /\ \A m \in TreeNodes \ R : nd[m].pLeft = Null /\ nd[m].pRight = Null
  BY DEF Shaped, Tame, Tree!Blank, Tree!nullptr, Null
<1>2. off # Null /\ off # p
  BY NodeFacts, ChildFacts
<1>3. c \in Sides
  <2>1. nd[off].pLeft \in R \cup { Null } /\ nd[off].pRight \in R \cup { Null }
    BY NodeFacts
  <2>2. QED
    BY <1>1, <2>1 DEF OneChild, Sides
<1>4. Tree!Blank \in TreeCells
  BY DEF Tree!Blank, Tree!nullptr, TreeCells, Sides, Null
<1>5. ASSUME NEW m \in TreeNodes, m # p PROVE nd[m].pLeft # off /\ nd[m].pRight # off
  <2>1. CASE m \in R
    BY <1>5, <2>1, OneParent
  <2>2. CASE m \notin R
    BY <1>1, <1>2, <2>2
  <2>3. QED
    BY <2>1, <2>2
<1>6. CASE nd[p].pLeft = off
  <2>1. nd[p].pRight # off
    BY <1>2, <1>6, OneSide
  <2>2. nd1 = [ nd EXCEPT ![p] = [ nd[p] EXCEPT !.pLeft = c ], ![off] = Tree!Blank ]
    BY <1>1, <1>2, <1>6
  <2>3. nd[p] \in TreeCells /\ [ nd[p] EXCEPT !.pLeft = c ] \in TreeCells
    BY <1>1, <1>3 DEF TreeCells
  <2>4. nd1 \in [ TreeNodes -> TreeCells ]
    BY <1>1, <1>4, <2>2, <2>3
  <2>5. nd1[off] = Tree!Blank /\ nd1[p] = [ nd[p] EXCEPT !.pLeft = c ]
    BY <1>1, <1>2, <2>2
  <2>6. nd1[p].key = nd[p].key /\ nd1[p].pLeft = c /\ nd1[p].pRight = nd[p].pRight
    BY <2>3, <2>5 DEF TreeCells
  <2>7. \A m \in TreeNodes : m # p /\ m # off => nd1[m] = nd[m]
    BY <1>1, <2>2
  <2>8. QED
    BY <1>5, <1>6, <2>1, <2>4, <2>5, <2>6, <2>7 DEF Cleared
<1>7. CASE nd[p].pLeft # off
  <2>1. nd[p].pRight = off
    BY <1>7
  <2>2. nd1 = [ nd EXCEPT ![p] = [ nd[p] EXCEPT !.pRight = c ], ![off] = Tree!Blank ]
    BY <1>1, <1>2, <1>7
  <2>3. nd[p] \in TreeCells /\ [ nd[p] EXCEPT !.pRight = c ] \in TreeCells
    BY <1>1, <1>3 DEF TreeCells
  <2>4. nd1 \in [ TreeNodes -> TreeCells ]
    BY <1>1, <1>4, <2>2, <2>3
  <2>5. nd1[off] = Tree!Blank /\ nd1[p] = [ nd[p] EXCEPT !.pRight = c ]
    BY <1>1, <1>2, <2>2
  <2>6. nd1[p].key = nd[p].key /\ nd1[p].pRight = c /\ nd1[p].pLeft = nd[p].pLeft
    BY <2>3, <2>5 DEF TreeCells
  <2>7. \A m \in TreeNodes : m # p /\ m # off => nd1[m] = nd[m]
    BY <1>1, <2>2
  <2>8. QED
    BY <1>5, <1>7, <2>1, <2>4, <2>5, <2>6, <2>7 DEF Cleared
<1>8. QED
  BY <1>6, <1>7

LEMMA CutRoot ==
  ASSUME NEW nd, NEW root, NEW R, NEW sub, Shaped(nd, root, R, sub), root \in R,
         NEW c, NEW nd1, nd1 = [ nd EXCEPT ![root] = Tree!Blank ]
  PROVE  Cleared(nd, nd1, root, c)
<1>1. /\ nd \in [ TreeNodes -> TreeCells ] /\ R \in SUBSET TreeNodes /\ root \in TreeNodes
      /\ \A m \in TreeNodes \ R : nd[m].pLeft = Null /\ nd[m].pRight = Null
  BY DEF Shaped, Tame, Tree!Blank, Tree!nullptr, Null
<1>2. root # Null /\ sub[root] = R
  BY NodeFacts
<1>3. Tree!Blank \in TreeCells
  BY DEF Tree!Blank, Tree!nullptr, TreeCells, Sides, Null
<1>4. ASSUME NEW m \in TreeNodes, m # root PROVE nd[m].pLeft # root /\ nd[m].pRight # root
  <2>1. CASE m \in R
    <3>1. root \notin sub[m]
      BY <1>2, <1>4, <2>1, Shrinks
    <3>2. QED
      BY <1>2, <2>1, <3>1, ChildFacts
  <2>2. CASE m \notin R
    BY <1>1, <1>2, <2>2
  <2>3. QED
    BY <2>1, <2>2
<1>5. /\ nd1 \in [ TreeNodes -> TreeCells ] /\ nd1[root] = Tree!Blank
      /\ \A m \in TreeNodes : m # root => nd1[m] = nd[m]
  BY <1>1, <1>3
<1>6. QED
  BY <1>4, <1>5 DEF Cleared

-----------------------------------------------------------------------------
LEMMA KeysAre ==
  \A R, sub : Shaped(tnode, st_Root, R, sub) =>
    { tnode[n].key : n \in Tree!Reached } = { tnode[n].key : n \in R }
<1> SUFFICES ASSUME NEW R, NEW sub, Shaped(tnode, st_Root, R, sub)
             PROVE  { tnode[n].key : n \in Tree!Reached } = { tnode[n].key : n \in R }
  OBVIOUS
<1>1. Tree!Reached = R
  BY ReachedIs
<1>2. QED
  BY <1>1

LEMMA KeysAreNext ==
  (\A R, sub : Shaped(tnode, st_Root, R, sub) =>
    { tnode[n].key : n \in Tree!Reached } = { tnode[n].key : n \in R })'
BY KeysAre, PTL

(* The set that a tree of nodes R is.                                      *)
KeySetOf(nd, R) == { nd[n].key : n \in R }

LEMMA TreeStep ==
  ASSUME NEW R, NEW sub, Shaped(tnode, st_Root, R, sub),
         NEW Q, NEW sub1, Shaped(tnode', st_Root', Q, sub1)
  PROVE  /\ TreeInv'
         /\ { tnode[n].key : n \in Tree!Reached } = KeySetOf(tnode, R)
         /\ { tnode[n].key : n \in Tree!Reached }' = KeySetOf(tnode', Q)
<1>1. TreeInv'
  BY DEF TreeInv
<1>2. QED
  BY <1>1, KeysAre, KeysAreNext DEF KeySetOf

LEMMA StaySame ==
  ASSUME NEW R, NEW sub, Shaped(tnode, st_Root, R, sub), UNCHANGED << tnode, st_Root >>
  PROVE  /\ TreeInv'
         /\ { tnode[n].key : n \in Tree!Reached } = KeySetOf(tnode, R)
         /\ { tnode[n].key : n \in Tree!Reached }' = KeySetOf(tnode, R)
<1>1. Shaped(tnode', st_Root', R, sub)
  OBVIOUS
<1>2. QED
  BY <1>1, TreeStep

LEMMA TreeInsertKeeps ==
  ASSUME TreeInv, NEW k \in TreeKeys, Tree!insert(k)
  PROVE  TreeInv' /\ Tree!Promise!Add(k)
<1>0. asked' = << "insert", k >>
  BY DEF Tree!insert
<1>1. PICK R, sub : Shaped(tnode, st_Root, R, sub)
  BY DEF TreeInv
<1>2. PICK p, n : /\ Tree!Place(k) = << p, n >> /\ AtPlace(k, R, sub, p, n)
                  /\ n # Null => tnode[n].key = k
  BY <1>1, PlaceIs
<1>3. CASE n # Null
  <2>1. UNCHANGED << tnode, st_Root, result >>
    BY <1>2, <1>3 DEF Tree!insert, Tree!nullptr, Null
  <2>2. n \in R
    BY <1>2, <1>3 DEF AtPlace
  <2>3. k \in KeySetOf(tnode, R)
    BY <1>2, <1>3, <2>2 DEF KeySetOf
  <2>4. QED
    BY <1>0, <1>1, <2>1, <2>3, StaySame DEF Tree!Promise!Add
<1>4. CASE n = Null
  <2>1. PICK m \in TreeNodes \ R :
          IF st_Root = Null
            THEN tnode' = [ tnode EXCEPT ![m].key = k ] /\ st_Root' = m
            ELSE /\ tnode' = [ tnode EXCEPT ![m].key = k,
                                            ![p][IF k < tnode[p].key THEN "pLeft" ELSE "pRight"] = m ]
                 /\ UNCHANGED st_Root
    <3>1. Tree!Reached = R
      BY <1>1, ReachedIs
    <3>2. QED
      BY <1>2, <1>4, <3>1 DEF Tree!insert, Tree!nullptr, Null
  <2>2. UNCHANGED result
    BY DEF Tree!insert
  <2>3. /\ tnode \in [ TreeNodes -> TreeCells ] /\ m \notin R /\ m \in TreeNodes
        /\ R \in SUBSET TreeNodes /\ tnode[m] = Tree!Blank
        /\ p \in R \cup { Null } /\ Null \notin TreeNodes
    BY <1>1, <1>2, TreeAssumption DEF Shaped, Tame, AtPlace, Null
  <2>4. tnode[m].pLeft = Null /\ tnode[m].pRight = Null /\ m # Null
    BY <2>3 DEF Tree!Blank, Tree!nullptr, Null
  <2>5. Grown(tnode, tnode', p, m, k)
    <3>1. CASE st_Root = Null
      <4>1. R = {} /\ p = Null
        BY <1>1, <2>3, <3>1, NodeFacts
      <4>2. tnode' = [ tnode EXCEPT ![m] = [ tnode[m] EXCEPT !.key = k ] ]
        BY <2>1, <3>1
      <4>3. [ tnode[m] EXCEPT !.key = k ] \in TreeCells
        BY <2>3 DEF TreeCells
      <4>4. /\ tnode' \in [ TreeNodes -> TreeCells ] /\ tnode'[m] = [ tnode[m] EXCEPT !.key = k ]
            /\ \A o \in TreeNodes : o # m => tnode'[o] = tnode[o] /\ o # p
        BY <2>3, <4>1, <4>2, <4>3
      <4>5. tnode'[m].key = k /\ tnode'[m].pLeft = Null /\ tnode'[m].pRight = Null
        BY <2>3, <2>4, <4>4 DEF TreeCells
      <4>6. QED
        BY <4>4, <4>5 DEF Grown
    <3>2. CASE st_Root # Null /\ k < tnode[p].key
      <4>1. p \in R /\ p \in TreeNodes /\ p # m
        BY <1>2, <1>4, <2>3, <3>2 DEF AtPlace
      <4>2. tnode' = [ tnode EXCEPT ![m] = [ tnode[m] EXCEPT !.key = k ],
                                    ![p] = [ tnode[p] EXCEPT !.pLeft = m ] ]
        BY <2>1, <2>3, <3>2, <4>1
      <4>3. [ tnode[m] EXCEPT !.key = k ] \in TreeCells /\ [ tnode[p] EXCEPT !.pLeft = m ] \in TreeCells
        BY <2>3, <4>1 DEF TreeCells, Sides
      <4>4. /\ tnode' \in [ TreeNodes -> TreeCells ] /\ tnode'[m] = [ tnode[m] EXCEPT !.key = k ]
            /\ tnode'[p] = [ tnode[p] EXCEPT !.pLeft = m ]
            /\ \A o \in TreeNodes : o # m /\ o # p => tnode'[o] = tnode[o]
        BY <2>3, <4>1, <4>2, <4>3
      <4>5. /\ tnode'[m].key = k /\ tnode'[m].pLeft = Null /\ tnode'[m].pRight = Null
            /\ tnode'[p].key = tnode[p].key /\ tnode'[p].pLeft = m
            /\ tnode'[p].pRight = tnode[p].pRight
        BY <2>3, <2>4, <4>1, <4>4 DEF TreeCells
      <4>6. QED
        BY <3>2, <4>4, <4>5 DEF Grown
    <3>3. CASE st_Root # Null /\ ~ (k < tnode[p].key)
      <4>1. p \in R /\ p \in TreeNodes /\ p # m
        BY <1>2, <1>4, <2>3, <3>3 DEF AtPlace
      <4>2. tnode' = [ tnode EXCEPT ![m] = [ tnode[m] EXCEPT !.key = k ],
                                    ![p] = [ tnode[p] EXCEPT !.pRight = m ] ]
        BY <2>1, <2>3, <3>3, <4>1
      <4>3. [ tnode[m] EXCEPT !.key = k ] \in TreeCells /\ [ tnode[p] EXCEPT !.pRight = m ] \in TreeCells
        BY <2>3, <4>1 DEF TreeCells, Sides
      <4>4. /\ tnode' \in [ TreeNodes -> TreeCells ] /\ tnode'[m] = [ tnode[m] EXCEPT !.key = k ]
            /\ tnode'[p] = [ tnode[p] EXCEPT !.pRight = m ]
            /\ \A o \in TreeNodes : o # m /\ o # p => tnode'[o] = tnode[o]
        BY <2>3, <4>1, <4>2, <4>3
      <4>5. /\ tnode'[m].key = k /\ tnode'[m].pLeft = Null /\ tnode'[m].pRight = Null
            /\ tnode'[p].key = tnode[p].key /\ tnode'[p].pRight = m
            /\ tnode'[p].pLeft = tnode[p].pLeft
        BY <2>3, <2>4, <4>1, <4>4 DEF TreeCells
      <4>6. QED
        BY <3>3, <4>4, <4>5 DEF Grown
    <3>4. QED
      BY <3>1, <3>2, <3>3
  <2>6. st_Root' = IF st_Root = Null THEN m ELSE st_Root
    BY <2>1
  <2>7. Shaped(tnode', st_Root', R \cup {m}, With(R, sub, p, m))
    BY <1>1, <1>2, <1>4, <2>3, <2>5, <2>6, GrowShape
  <2>8. KeySetOf(tnode', R \cup {m}) = KeySetOf(tnode, R) \cup {k}
    <3>1. tnode'[m].key = k /\ \A o \in R : tnode'[o].key = tnode[o].key
      BY <2>3, <2>5 DEF Grown
    <3>2. QED
      BY <3>1 DEF KeySetOf
  <2>9. PICK Q, sub1 : Q = R \cup {m} /\ sub1 = With(R, sub, p, m)
    OBVIOUS
  <2>10. /\ TreeInv'
         /\ { tnode[i].key : i \in Tree!Reached } = KeySetOf(tnode, R)
         /\ { tnode[i].key : i \in Tree!Reached }' = KeySetOf(tnode', Q)
    BY <1>1, <2>7, <2>9, TreeStep
  <2>11. QED
    BY <1>0, <2>2, <2>8, <2>9, <2>10 DEF Tree!Promise!Add
<1>5. QED
  BY <1>3, <1>4

LEMMA TreeFindKeeps ==
  ASSUME TreeInv, NEW k \in TreeKeys, Tree!find(k)
  PROVE  TreeInv' /\ Tree!Promise!Contains(k)
<1>1. PICK R, sub : Shaped(tnode, st_Root, R, sub)
  BY DEF TreeInv
<1>0. asked' = << "find", k >>
  BY DEF Tree!find
<1>2. UNCHANGED << tnode, st_Root >> /\ result' = \E n \in Tree!Reached : tnode[n].key = k
  BY DEF Tree!find
<1>3. (\E n \in Tree!Reached : tnode[n].key = k) <=> k \in KeySetOf(tnode, R)
  BY <1>1, ReachedIs DEF KeySetOf
<1>4. /\ TreeInv'
      /\ { tnode[n].key : n \in Tree!Reached } = KeySetOf(tnode, R)
      /\ { tnode[n].key : n \in Tree!Reached }' = KeySetOf(tnode, R)
  BY <1>1, <1>2, StaySame
<1>5. result' = (k \in KeySetOf(tnode, R))
  <2>1. result' = ~ (k \notin KeySetOf(tnode, R))
    BY <1>2, <1>3
  <2>2. CASE k \in KeySetOf(tnode, R)
    BY <2>1, <2>2
  <2>3. CASE k \notin KeySetOf(tnode, R)
    BY <2>1, <2>3
  <2>4. QED
    BY <2>2, <2>3
<1>6. result' = (k \in { tnode[n].key : n \in Tree!Reached })
  BY <1>4, <1>5, Zenon
<1>7. Tree!Promise!Contains(k)
  BY <1>0, <1>4, <1>6, Zenon DEF Tree!Promise!Contains
<1>8. QED
  BY <1>4, <1>7

(* Taking one node out takes its key out of the set.                       *)
LEMMA CutKeys ==
  ASSUME NEW nd, NEW root, NEW R, NEW sub, Shaped(nd, root, R, sub),
         NEW off \in R, NEW c, NEW nd1, Cleared(nd, nd1, off, c)
  PROVE  KeySetOf(nd1, R \ {off}) = KeySetOf(nd, R) \ {nd[off].key}
<1>1. R \in SUBSET TreeNodes /\ \A m, n \in R : nd[m].key = nd[n].key => m = n
  BY DEF Shaped, Tame
<1>2. \A m \in R \ {off} : nd1[m].key = nd[m].key /\ nd[m].key # nd[off].key
  BY <1>1 DEF Cleared
<1>3. QED
  BY <1>2 DEF KeySetOf

LEMMA OuterKeeps ==
  ASSUME NEW R, NEW sub, Shaped(tnode, st_Root, R, sub), NEW k,
         NEW p, NEW n, AtPlace(k, R, sub, p, n), n # Null, tnode[n].key = k,
         tnode[n].pLeft = Null \/ tnode[n].pRight = Null, Tree!EraseOuter(n, p)
  PROVE  \E Q, sub1 : /\ Shaped(tnode', st_Root', Q, sub1)
                      /\ KeySetOf(tnode', Q) = KeySetOf(tnode, R) \ {k}
<1>1. PICK c : c = IF tnode[n].pLeft # Null THEN tnode[n].pLeft ELSE tnode[n].pRight
  OBVIOUS
<1>2. n \in R /\ OneChild(tnode, n, c)
  BY <1>1 DEF AtPlace, OneChild
<1>3. Cleared(tnode, tnode', n, c) /\ st_Root' = IF st_Root = n THEN c ELSE st_Root
  <2>1. CASE p = Null
    <3>1. tnode' = [ tnode EXCEPT ![n] = Tree!Blank ] /\ st_Root' = c /\ n = st_Root
      BY <1>1, <2>1 DEF Tree!EraseOuter, Tree!nullptr, Null, AtPlace
    <3>2. QED
      BY <1>2, <3>1, CutRoot
  <2>2. CASE p # Null
    <3>1. p \in R /\ (n = tnode[p].pLeft \/ n = tnode[p].pRight)
      BY <2>2 DEF AtPlace
    <3>2. PICK side : side = IF tnode[p].pLeft = n THEN "pLeft" ELSE "pRight"
      OBVIOUS
    <3>3. /\ tnode' = [ tnode EXCEPT ![p][side] = c, ![n] = Tree!Blank ]
          /\ st_Root' = st_Root
      BY <1>1, <2>2, <3>2 DEF Tree!EraseOuter, Tree!Side, Tree!nullptr, Null
    <3>4. Cleared(tnode, tnode', n, c)
      BY <1>2, <3>1, <3>2, <3>3, CutBelow
    <3>5. n \in sub[p] /\ n # p
      BY <1>2, <3>1, ChildFacts
    <3>6. st_Root # n
      BY <3>1, <3>5, NodeFacts, Shrinks
    <3>7. QED
      BY <3>3, <3>4, <3>6
  <2>3. QED
    BY <2>1, <2>2
<1>4. Shaped(tnode', st_Root', R \ {n}, Without(R, sub, n))
  BY <1>2, <1>3, CutShape
<1>5. KeySetOf(tnode', R \ {n}) = KeySetOf(tnode, R) \ {k}
  BY <1>2, <1>3, CutKeys
<1>6. QED
  BY <1>4, <1>5

(* The largest key on the left of n may take the place of the key of n.    *)
LEMMA LargestFits ==
  ASSUME NEW R, NEW sub, Shaped(tnode, st_Root, R, sub), NEW n \in R, tnode[n].pLeft # Null,
         NEW p, NEW s, AtLargest(n, R, sub, p, s), tnode[s].pRight = Null,
         NEW c, NEW nd1, Cleared(tnode, nd1, s, c)
  PROVE  Fits(nd1, R \ {s}, Without(R, sub, s), n, tnode[s].key)
<1>1. /\ s \in sub[n] /\ s # n /\ s \in R /\ tnode[s].key < tnode[n].key
  BY ChildFacts, NodeFacts DEF AtLargest
<1>2. /\ R \in SUBSET TreeNodes /\ \A m, o \in R : tnode[m].key = tnode[o].key => m = o
      /\ \A m \in R : tnode[m].key \in Int
  BY NodeFacts DEF Shaped, Tame
<1>3. \A m \in R \ {s} : nd1[m].key = tnode[m].key /\ Without(R, sub, s)[m] = sub[m] \ {s}
  BY <1>2 DEF Cleared, Without
<1>4. ASSUME NEW m \in (R \ {s}) \ {n} PROVE nd1[m].key # tnode[s].key
  BY <1>1, <1>2, <1>3, <1>4
<1>5. ASSUME NEW m \in Without(R, sub, s)[n] \ {n}
      PROVE  nd1[m].key < nd1[n].key <=> nd1[m].key < tnode[s].key
  <2>1. m \in sub[n] /\ m # s /\ m \in R /\ m # n
    BY <1>1, <1>3, <1>5, NodeFacts
  <2>2. ASSUME tnode[m].key < tnode[n].key PROVE tnode[m].key < tnode[s].key
    <3>1. m \in sub[tnode[n].pLeft]
      BY <2>1, <2>2, ChildFacts
    <3>2. CASE m \in sub[s]
      <4>1. ~ (tnode[m].key > tnode[s].key)
        BY <1>1, <3>2, ChildFacts
      <4>2. tnode[m].key # tnode[s].key
        BY <1>1, <1>2, <2>1
      <4>3. QED
        BY <1>1, <1>2, <2>1, <4>1, <4>2
    <3>3. QED
      BY <3>1, <3>2 DEF AtLargest
  <2>3. ASSUME tnode[m].key < tnode[s].key PROVE tnode[m].key < tnode[n].key
    BY <1>1, <1>2, <2>1, <2>3
  <2>4. nd1[m].key = tnode[m].key /\ nd1[n].key = tnode[n].key
    BY <1>1, <1>3, <2>1
  <2>5. QED
    BY <2>2, <2>3, <2>4
<1>6. ASSUME NEW q \in R \ {s}, n \in Without(R, sub, s)[q], q # n
      PROVE  nd1[n].key < nd1[q].key <=> tnode[s].key < nd1[q].key
  <2>1. n \in sub[q] /\ q \in R
    BY <1>3, <1>6
  <2>2. tnode[s].key < tnode[q].key <=> tnode[n].key < tnode[q].key
    BY <1>1, <1>6, <2>1, SameSide
  <2>3. nd1[n].key = tnode[n].key /\ nd1[q].key = tnode[q].key
    BY <1>1, <1>3, <1>6
  <2>4. QED
    BY <2>2, <2>3
<1>7. QED
  BY <1>4, <1>5, <1>6 DEF Fits

LEMMA InnerKeeps ==
  ASSUME NEW R, NEW sub, Shaped(tnode, st_Root, R, sub), NEW n \in R,
         tnode[n].pLeft # Null, Tree!EraseInner(n)
  PROVE  \E Q, sub1 : /\ Shaped(tnode', st_Root', Q, sub1)
                      /\ KeySetOf(tnode', Q) = KeySetOf(tnode, R) \ {tnode[n].key}
<1>1. PICK p, s : /\ Tree!Largest(n) = << p, s >> /\ AtLargest(n, R, sub, p, s)
                  /\ tnode[s].pRight = Null
  BY LargestIs
<1>2. PICK side : side = IF tnode[p].pLeft = s THEN "pLeft" ELSE "pRight"
  OBVIOUS
<1>3. PICK c, k : c = tnode[s].pLeft /\ k = tnode[s].key
  OBVIOUS
<1>4. PICK nd0, nd1 : nd0 = [ tnode EXCEPT ![p][side] = c ] /\ nd1 = [ nd0 EXCEPT ![s] = Tree!Blank ]
  OBVIOUS
<1>5. tnode' = [ nd0 EXCEPT ![n].key = k, ![s] = Tree!Blank ] /\ st_Root' = st_Root
  BY <1>1, <1>2, <1>3, <1>4 DEF Tree!EraseInner, Tree!Side
<1>6. /\ p \in R /\ s \in R /\ s \in sub[n] /\ s # n
      /\ s = tnode[p].pLeft \/ s = tnode[p].pRight
  BY <1>1, ChildFacts, NodeFacts DEF AtLargest
<1>7. OneChild(tnode, s, c)
  BY <1>1, <1>3 DEF OneChild
<1>8. Cleared(tnode, nd1, s, c)
  <2>1. nd1 = [ tnode EXCEPT ![p][side] = c, ![s] = Tree!Blank ]
    BY <1>4
  <2>2. QED
    BY <1>2, <1>6, <1>7, <2>1, CutBelow
<1>9. st_Root # s
  BY <1>6, NodeFacts, Shrinks
<1>10. PICK Q, sub1 : Q = R \ {s} /\ sub1 = Without(R, sub, s)
  OBVIOUS
<1>11. Shaped(nd1, st_Root, Q, sub1)
  BY <1>6, <1>7, <1>8, <1>9, <1>10, CutShape
<1>12. Fits(nd1, Q, sub1, n, k)
  BY <1>1, <1>3, <1>8, <1>10, LargestFits
<1>13. k \in TreeKeys /\ n \in Q
  BY <1>3, <1>6, <1>10, NodeFacts
<1>14. Rekeyed(nd1, tnode', n, k)
  <2>1. /\ nd1 \in [ TreeNodes -> TreeCells ] /\ n \in TreeNodes /\ s \in TreeNodes
        /\ tnode \in [ TreeNodes -> TreeCells ]
    BY <1>6, <1>8, NodeFacts DEF Cleared, Shaped, Tame
  <2>2. DOMAIN nd0 = TreeNodes
    BY <1>4, <2>1
  <2>3. nd1[n] = nd0[n] /\ nd1[s] = Tree!Blank /\ \A m \in TreeNodes : m # s => nd1[m] = nd0[m]
    BY <1>4, <1>6, <2>1, <2>2
  <2>4. /\ DOMAIN tnode' = TreeNodes /\ tnode'[s] = Tree!Blank
        /\ tnode'[n] = [ nd0[n] EXCEPT !.key = k ]
        /\ \A m \in TreeNodes : m # s /\ m # n => tnode'[m] = nd0[m]
    BY <1>5, <1>6, <2>1, <2>2
  <2>5. tnode' = [ nd1 EXCEPT ![n] = [ nd1[n] EXCEPT !.key = k ] ]
    <3>1. PICK r : r = [ nd1 EXCEPT ![n] = [ nd1[n] EXCEPT !.key = k ] ]
      OBVIOUS
    <3>2. /\ DOMAIN r = TreeNodes /\ r[n] = [ nd1[n] EXCEPT !.key = k ]
          /\ \A m \in TreeNodes : m # n => r[m] = nd1[m]
      BY <2>1, <3>1
    <3>3. \A m \in TreeNodes : tnode'[m] = r[m]
      BY <1>6, <2>3, <2>4, <3>2
    <3>4. tnode' = [ m \in TreeNodes |-> tnode'[m] ] /\ r = [ m \in TreeNodes |-> r[m] ]
      <4>1. r = [ m \in TreeNodes |-> r[m] ]
        BY <2>1, <3>1
      <4>2. tnode' = [ m \in TreeNodes |-> tnode'[m] ]
        BY <1>5, <2>2
      <4>3. QED
        BY <4>1, <4>2
    <3>5. QED
      BY <3>1, <3>3, <3>4
  <2>6. nd1[n] \in TreeCells /\ [ nd1[n] EXCEPT !.key = k ] \in TreeCells
    BY <1>13, <2>1 DEF TreeCells
  <2>7. /\ tnode' \in [ TreeNodes -> TreeCells ] /\ tnode'[n] = [ nd1[n] EXCEPT !.key = k ]
        /\ \A m \in TreeNodes : m # n => tnode'[m] = nd1[m]
    BY <2>1, <2>5, <2>6
  <2>8. /\ tnode'[n].key = k /\ tnode'[n].pLeft = nd1[n].pLeft
        /\ tnode'[n].pRight = nd1[n].pRight
    BY <2>6, <2>7 DEF TreeCells
  <2>9. QED
    BY <2>7, <2>8 DEF Rekeyed
<1>15. Shaped(tnode', st_Root', Q, sub1)
  BY <1>5, <1>11, <1>12, <1>13, <1>14, RekeyShape
<1>16. KeySetOf(tnode', Q) = KeySetOf(tnode, R) \ {tnode[n].key}
  <2>1. R \in SUBSET TreeNodes /\ \A m, o \in R : tnode[m].key = tnode[o].key => m = o
    BY DEF Shaped, Tame
  <2>2. \A m \in R : m # s /\ m # n => tnode'[m].key = tnode[m].key
    BY <1>8, <1>14, <2>1 DEF Rekeyed, Cleared
  <2>3. tnode'[n].key = tnode[s].key
    BY <1>3, <1>14 DEF Rekeyed
  <2>4. PICK K1, K : K1 = KeySetOf(tnode', Q) /\ K = KeySetOf(tnode, R)
    OBVIOUS
  <2>5. \A e : e \in K1 <=> \E m \in Q : tnode'[m].key = e
    BY <2>4 DEF KeySetOf
  <2>6. \A e : e \in K <=> \E m \in R : tnode[m].key = e
    BY <2>4 DEF KeySetOf
  <2>7. ASSUME NEW e \in K1 PROVE e \in K /\ e # tnode[n].key
    BY <1>6, <1>10, <2>1, <2>2, <2>3, <2>5, <2>6, <2>7
  <2>8. ASSUME NEW e \in K, e # tnode[n].key PROVE e \in K1
    BY <1>6, <1>10, <2>1, <2>2, <2>3, <2>5, <2>6, <2>8
  <2>9. QED
    BY <2>4, <2>7, <2>8
<1>17. QED
  BY <1>15, <1>16

LEMMA TreeEraseKeeps ==
  ASSUME TreeInv, NEW k \in TreeKeys, Tree!erase(k)
  PROVE  TreeInv' /\ Tree!Promise!Delete(k)
<1>0. asked' = << "erase", k >>
  BY DEF Tree!erase
<1>1. PICK R, sub : Shaped(tnode, st_Root, R, sub)
  BY DEF TreeInv
<1>2. PICK p, n : /\ Tree!Place(k) = << p, n >> /\ AtPlace(k, R, sub, p, n)
                  /\ n # Null => tnode[n].key = k
  BY <1>1, PlaceIs
<1>3. result' = (n # Null)
  BY <1>2 DEF Tree!erase, Tree!nullptr, Null
<1>4. CASE n = Null
  <2>1. UNCHANGED << tnode, st_Root >>
    BY <1>2, <1>4 DEF Tree!erase, Tree!nullptr, Null
  <2>2. k \notin KeySetOf(tnode, R)
    BY <1>2, <1>4 DEF AtPlace, KeySetOf
  <2>3. /\ TreeInv'
        /\ { tnode[m].key : m \in Tree!Reached } = KeySetOf(tnode, R)
        /\ { tnode[m].key : m \in Tree!Reached }' = KeySetOf(tnode, R)
    BY <1>1, <2>1, StaySame
  <2>4. KeySetOf(tnode, R) = KeySetOf(tnode, R) \ {k}
    BY <2>2
  <2>5. result' = (k \in KeySetOf(tnode, R))
    BY <1>3, <1>4, <2>2
  <2>6. QED
    BY <1>0, <2>3, <2>4, <2>5 DEF Tree!Promise!Delete
<1>5. CASE n # Null
  <2>1. n \in R /\ tnode[n].key = k
    BY <1>2, <1>5 DEF AtPlace
  <2>2. k \in KeySetOf(tnode, R)
    BY <2>1 DEF KeySetOf
  <2>3. IF Null \in { tnode[n].pLeft, tnode[n].pRight } THEN Tree!EraseOuter(n, p)
        ELSE Tree!EraseInner(n)
    BY <1>2, <1>5 DEF Tree!erase, Tree!nullptr, Null
  <2>4. PICK Q, sub1 : /\ Shaped(tnode', st_Root', Q, sub1)
                       /\ KeySetOf(tnode', Q) = KeySetOf(tnode, R) \ {k}
    <3>1. CASE Null \in { tnode[n].pLeft, tnode[n].pRight }
      <4>1. Tree!EraseOuter(n, p) /\ (tnode[n].pLeft = Null \/ tnode[n].pRight = Null)
        BY <2>3, <3>1
      <4>2. QED
        BY <1>1, <1>2, <1>5, <2>1, <4>1, OuterKeeps
    <3>2. CASE Null \notin { tnode[n].pLeft, tnode[n].pRight }
      <4>1. Tree!EraseInner(n) /\ tnode[n].pLeft # Null
        BY <2>3, <3>2
      <4>2. QED
        BY <1>1, <2>1, <4>1, InnerKeeps
    <3>3. QED
      BY <3>1, <3>2
  <2>5. QED
    BY <1>0, <1>1, <1>3, <1>5, <2>2, <2>4, TreeStep DEF Tree!Promise!Delete
<1>6. QED
  BY <1>4, <1>5

LEMMA TreeStarts == Tree!Init => TreeInv /\ Tree!Promise!KInit
<1> SUFFICES ASSUME Tree!Init PROVE TreeInv /\ Tree!Promise!KInit
  OBVIOUS
<1>1. PICK R, sub : R = {} /\ sub = [ m \in R |-> {} ]
  OBVIOUS
<1>2. /\ tnode = [ n \in TreeNodes |-> Tree!Blank ] /\ st_Root = Null
      /\ asked = << >> /\ result = FALSE
  BY DEF Tree!Init, Tree!nullptr, Null
<1>3. Tree!Blank \in TreeCells
  BY DEF Tree!Blank, Tree!nullptr, TreeCells, Sides, Null
<1>4. sub \in [ R -> SUBSET R ]
  BY <1>1
<1>5. Shaped(tnode, st_Root, R, sub)
  BY <1>1, <1>2, <1>3, <1>4 DEF Shaped, Tame, Nested, Sorted, Climbs
<1>6. { tnode[n].key : n \in Tree!Reached } = { tnode[n].key : n \in R }
  BY <1>5, KeysAre
<1>7. { tnode[n].key : n \in Tree!Reached } = {}
  BY <1>1, <1>6
<1>8. QED
  BY <1>2, <1>5, <1>7 DEF TreeInv, Tree!Promise!KInit

LEMMA TreeMoves ==
  ASSUME TreeInv, [Tree!Next]_(Tree!vars)
  PROVE  TreeInv' /\ [Tree!Promise!KNext]_(Tree!Promise!kvars)
<1>1. CASE Tree!Next
  <2>1. PICK k \in TreeKeys : Tree!insert(k) \/ Tree!find(k) \/ Tree!erase(k)
    BY <1>1 DEF Tree!Next
  <2>2. TreeInv' /\ (Tree!Promise!Add(k) \/ Tree!Promise!Contains(k) \/ Tree!Promise!Delete(k))
    BY <2>1, TreeInsertKeeps, TreeFindKeeps, TreeEraseKeeps
  <2>3. QED
    BY <2>2 DEF Tree!Promise!KNext
<1>2. CASE UNCHANGED Tree!vars
  <2>1. UNCHANGED << tnode, st_Root, asked, result >>
    BY <1>2 DEF Tree!vars
  <2>2. PICK R, sub : Shaped(tnode, st_Root, R, sub)
    BY DEF TreeInv
  <2>3. QED
    BY <2>1, <2>2, StaySame DEF Tree!Promise!kvars
<1>3. QED
  BY <1>1, <1>2

(* CTREE implements a set, whatever the keys and however many nodes there   *)
(* are: insert, find and erase of a key change the set and answer of it as  *)
(* KeySet says for that key, whatever the shape the earlier calls gave the tree.                *)
THEOREM TheTreeKeepsItsPromise == Tree!Spec => TreeKeepsPromise
<1>1. Tree!Init => TreeInv /\ Tree!Promise!KInit
  BY TreeStarts
<1>2. TreeInv /\ [Tree!Next]_(Tree!vars) => TreeInv' /\ [Tree!Promise!KNext]_(Tree!Promise!kvars)
  BY TreeMoves
<1>3. QED
  BY <1>1, <1>2, PTL DEF Tree!Spec, TreeKeepsPromise, Tree!KeepsItsPromise, Tree!Promise!KSpec

=============================================================================
