---------------------------- MODULE SectorProofs ----------------------------
(***************************************************************************)
(* Facts about the sector operators for every map and sector size.         *)
(***************************************************************************)
EXTENDS Sector, TLAPS

(* The grid has at least one column and one row. *)
LEMMA GridSize ==
  /\ SectorMaxX \in Nat \ {0}
  /\ SectorMaxY \in Nat \ {0}
BY GridAssumption DEF SectorMaxX, SectorMaxY, Quotient

(* A sector is a pair of coordinates for which the range check succeeds. *)
LEMMA SectorRange ==
  ASSUME NEW a \in Int, NEW b \in Int
  PROVE  << a, b >> \in Sectors <=> CheckSectorCoordinateRange(<< a, b >>)
BY GridSize DEF Sectors, CheckSectorCoordinateRange

(* Every position on the map lies in a sector that exists. *)
LEMMA PositionHasSector ==
  ASSUME NEW x \in 0 .. MoveRight, NEW y \in 0 .. MoveBottom
  PROVE  SectorOf(x, y) \in Sectors
<1>1. x \div GridX \in 0 .. MoveRight \div GridX
  BY GridAssumption
<1>2. y \div GridY \in 0 .. MoveBottom \div GridY
  BY GridAssumption
<1>3. QED
  BY <1>1, <1>2, GridAssumption DEF SectorOf, Sectors, SectorMaxX, SectorMaxY, Quotient

(* GetSectorAround enumerates the block by the offsets dX, dY: nothing is  *)
(* missed and nothing off the map is listed.                               *)
THEOREM AroundIsBlock ==
  ASSUME NEW s \in Sectors
  PROVE  GetSectorAround(s) = Block(s)
<1>1. PICK a \in Int, b \in Int : s = << a, b >>
  BY GridSize DEF Sectors
<1>2. ASSUME NEW t \in GetSectorAround(s) PROVE t \in Block(s)
  BY <1>1, <1>2, GridSize
     DEF GetSectorAround, Near, AroundOffsets, Block, Sectors, CheckSectorCoordinateRange
<1>3. ASSUME NEW t \in Block(s) PROVE t \in GetSectorAround(s)
  <2>1. PICK c \in Int, d \in Int : t = << c, d >>
    BY <1>3, GridSize DEF Block, Sectors
  <2>2. /\ c \in {a - 1, a, a + 1}
        /\ d \in {b - 1, b, b + 1}
    BY <1>1, <1>3, <2>1 DEF Block
  <2>3. \E o \in AroundOffsets : t = << s[1] + o[1], s[2] + o[2] >>
    BY <1>1, <2>1, <2>2 DEF AroundOffsets
  <2>4. CheckSectorCoordinateRange(t)
    BY <1>3, <2>1, SectorRange DEF Block
  <2>5. QED
    BY <2>3, <2>4 DEF GetSectorAround, Near
<1>4. QED
  BY <1>2, <1>3

(* The lists that are looked up all exist: Near lists sectors, and so do   *)
(* the operators that are made of it.                                      *)
LEMMA NearInSectors ==
  ASSUME NEW s \in Sectors, NEW offsets \in SUBSET (Int \X Int)
  PROVE  Near(s, offsets) \subseteq Sectors
<1>1. PICK a \in Int, b \in Int : s = << a, b >>
  BY GridSize DEF Sectors
<1>2. ASSUME NEW t \in Near(s, offsets) PROVE t \in Sectors
  <2>1. PICK d \in offsets : t = << s[1] + d[1], s[2] + d[2] >>
    BY <1>2 DEF Near
  <2>2. CheckSectorCoordinateRange(t)
    BY <1>2 DEF Near
  <2>3. s[1] + d[1] \in Int /\ s[2] + d[2] \in Int
    BY <1>1
  <2>4. QED
    BY <2>1, <2>2, <2>3, SectorRange
<1>3. QED
  BY <1>2

LEMMA UpdateInSectors ==
  ASSUME NEW old \in Sectors, NEW cur \in Sectors
  PROVE  /\ GetUpdateSectorAround(old, cur).remove \subseteq Sectors
         /\ GetUpdateSectorAround(old, cur).add \subseteq Sectors
<1> DEFINE Listed(u) == u.remove \subseteq Sectors /\ u.add \subseteq Sectors
           nothing == [ remove |-> {}, add |-> {} ]
<1>1. /\ Listed(UpdateUp(old, cur)) /\ Listed(UpdateDown(old, cur))
      /\ Listed(UpdateLeft(old, cur)) /\ Listed(UpdateRight(old, cur))
  BY NearInSectors DEF UpdateUp, UpdateDown, UpdateLeft, UpdateRight
<1>2. /\ Listed(UpdateLeftUp(old, cur)) /\ Listed(UpdateRightUp(old, cur))
      /\ Listed(UpdateLeftDown(old, cur)) /\ Listed(UpdateRightDown(old, cur))
  BY NearInSectors DEF UpdateLeftUp, UpdateRightUp, UpdateLeftDown, UpdateRightDown
<1>3. Listed(nothing)
  OBVIOUS
<1>4. GetUpdateSectorAround(old, cur) \in
        { UpdateUp(old, cur), UpdateDown(old, cur), UpdateLeft(old, cur),
          UpdateRight(old, cur), UpdateLeftUp(old, cur), UpdateRightUp(old, cur),
          UpdateLeftDown(old, cur), UpdateRightDown(old, cur), nothing }
  BY GridSize DEF GetUpdateSectorAround, Sectors
<1>5. QED
  BY <1>1, <1>2, <1>3, <1>4

(* Being in one another's 3x3 block is mutual: what A sees of B, B sees of A. *)
LEMMA AroundSymmetric ==
  ASSUME NEW s \in Sectors, NEW t \in Sectors
  PROVE  s \in GetSectorAround(t) <=> t \in GetSectorAround(s)
BY AroundIsBlock, GridSize DEF Block, Sectors

-----------------------------------------------------------------------------
(* GetUpdateSectorAround: for a player that has moved to an adjacent       *)
(* sector, on a map of any size and in each of the eight directions, the   *)
(* sectors withdrawn are those that only the old 3x3 block has and the     *)
(* sectors announced are those that only the new one has.                  *)
THEOREM UpdateIsDifference ==
  ASSUME NEW old \in Sectors, NEW cur \in Block(old)
  PROVE  /\ GetUpdateSectorAround(old, cur).remove = Block(old) \ Block(cur)
         /\ GetUpdateSectorAround(old, cur).add    = Block(cur) \ Block(old)
<1>1. PICK a \in Int, b \in Int : old = << a, b >>
  BY GridSize DEF Sectors
<1>2. PICK c \in Int, d \in Int : cur = << c, d >>
  BY GridSize DEF Sectors, Block
<1>3. /\ c \in {a - 1, a, a + 1}
      /\ d \in {b - 1, b, b + 1}
  BY <1>1, <1>2 DEF Block
<1> DEFINE U == GetUpdateSectorAround(old, cur)
<1>4. /\ U.remove \subseteq Int \X Int
      /\ U.add \subseteq Int \X Int
  BY <1>1, <1>2 DEF GetUpdateSectorAround, Near, UpdateUp, UpdateDown, UpdateLeft, UpdateRight,
            UpdateLeftUp, UpdateRightUp, UpdateLeftDown, UpdateRightDown
<1>5. ASSUME NEW p \in Int, NEW q \in Int
      PROVE  /\ << p, q >> \in U.remove <=> << p, q >> \in Block(old) \ Block(cur)
             /\ << p, q >> \in U.add    <=> << p, q >> \in Block(cur) \ Block(old)
  <2> DEFINE S == << p, q >> \in Sectors
             InOld == S /\ p \in a - 1 .. a + 1 /\ q \in b - 1 .. b + 1
             InCur == S /\ p \in c - 1 .. c + 1 /\ q \in d - 1 .. d + 1
  <2>b. /\ << p, q >> \in Block(old) <=> InOld
        /\ << p, q >> \in Block(cur) <=> InCur
    BY <1>1, <1>2 DEF Block
  <2> HIDE DEF S
  <2>1. CASE c = a /\ d = b - 1
    <3>1. U = UpdateUp(old, cur)
      BY <1>1, <1>2, <2>1 DEF GetUpdateSectorAround
    <3>2. /\ << p, q >> \in U.remove <=> InOld /\ ~InCur
          /\ << p, q >> \in U.add    <=> InCur /\ ~InOld
      BY <1>1, <1>2, <2>1, <3>1, SectorRange DEF UpdateUp, Near, S
    <3>3. QED
      BY <3>2, <2>b
  <2>2. CASE c = a /\ d = b + 1
    <3>1. U = UpdateDown(old, cur)
      BY <1>1, <1>2, <2>2 DEF GetUpdateSectorAround
    <3>2. /\ << p, q >> \in U.remove <=> InOld /\ ~InCur
          /\ << p, q >> \in U.add    <=> InCur /\ ~InOld
      BY <1>1, <1>2, <2>2, <3>1, SectorRange DEF UpdateDown, Near, S
    <3>3. QED
      BY <3>2, <2>b
  <2>3. CASE c = a - 1 /\ d = b
    <3>1. U = UpdateLeft(old, cur)
      BY <1>1, <1>2, <2>3 DEF GetUpdateSectorAround
    <3>2. /\ << p, q >> \in U.remove <=> InOld /\ ~InCur
          /\ << p, q >> \in U.add    <=> InCur /\ ~InOld
      BY <1>1, <1>2, <2>3, <3>1, SectorRange DEF UpdateLeft, Near, S
    <3>3. QED
      BY <3>2, <2>b
  <2>4. CASE c = a + 1 /\ d = b
    <3>1. U = UpdateRight(old, cur)
      BY <1>1, <1>2, <2>4 DEF GetUpdateSectorAround
    <3>2. /\ << p, q >> \in U.remove <=> InOld /\ ~InCur
          /\ << p, q >> \in U.add    <=> InCur /\ ~InOld
      BY <1>1, <1>2, <2>4, <3>1, SectorRange DEF UpdateRight, Near, S
    <3>3. QED
      BY <3>2, <2>b
  <2>5. CASE c = a - 1 /\ d = b - 1
    <3>1. U = UpdateLeftUp(old, cur)
      BY <1>1, <1>2, <2>5 DEF GetUpdateSectorAround
    <3>2. /\ << p, q >> \in U.remove <=> InOld /\ ~InCur
          /\ << p, q >> \in U.add    <=> InCur /\ ~InOld
      BY <1>1, <1>2, <2>5, <3>1, SectorRange DEF UpdateLeftUp, Near, S
    <3>3. QED
      BY <3>2, <2>b
  <2>6. CASE c = a + 1 /\ d = b - 1
    <3>1. U = UpdateRightUp(old, cur)
      BY <1>1, <1>2, <2>6 DEF GetUpdateSectorAround
    <3>2. /\ << p, q >> \in U.remove <=> InOld /\ ~InCur
          /\ << p, q >> \in U.add    <=> InCur /\ ~InOld
      BY <1>1, <1>2, <2>6, <3>1, SectorRange DEF UpdateRightUp, Near, S
    <3>3. QED
      BY <3>2, <2>b
  <2>7. CASE c = a - 1 /\ d = b + 1
    <3>1. U = UpdateLeftDown(old, cur)
      BY <1>1, <1>2, <2>7 DEF GetUpdateSectorAround
    <3>2. /\ << p, q >> \in U.remove <=> InOld /\ ~InCur
          /\ << p, q >> \in U.add    <=> InCur /\ ~InOld
      BY <1>1, <1>2, <2>7, <3>1, SectorRange DEF UpdateLeftDown, Near, S
    <3>3. QED
      BY <3>2, <2>b
  <2>8. CASE c = a + 1 /\ d = b + 1
    <3>1. U = UpdateRightDown(old, cur)
      BY <1>1, <1>2, <2>8 DEF GetUpdateSectorAround
    <3>2. /\ << p, q >> \in U.remove <=> InOld /\ ~InCur
          /\ << p, q >> \in U.add    <=> InCur /\ ~InOld
      BY <1>1, <1>2, <2>8, <3>1, SectorRange DEF UpdateRightDown, Near, S
    <3>3. QED
      BY <3>2, <2>b
  <2>9. CASE c = a /\ d = b
    <3>1. U = [ remove |-> {}, add |-> {} ]
      BY <1>1, <1>2, <2>9 DEF GetUpdateSectorAround
    <3>2. QED
      BY <1>1, <1>2, <2>9, <3>1
  <2>10. QED
    BY <1>3, <2>1, <2>2, <2>3, <2>4, <2>5, <2>6, <2>7, <2>8, <2>9
<1>6. /\ Block(old) \subseteq Int \X Int
      /\ Block(cur) \subseteq Int \X Int
  BY GridSize DEF Block, Sectors
<1>7. QED
  BY <1>4, <1>5, <1>6
-----------------------------------------------------------------------------
(* A sector is in its own block, and blocks see one another. *)
LEMMA BlockFacts ==
  ASSUME NEW s \in Sectors
  PROVE  /\ s \in Block(s)
         /\ Block(s) \subseteq Sectors
         /\ \A t \in Sectors : s \in Block(t) <=> t \in Block(s)
BY GridSize DEF Block, Sectors

(* A coordinate that changes by at most a cell leads at most to the next   *)
(* cell.                                                                   *)
LEMMA NextCell ==
  ASSUME NEW g \in Nat \ {0}, NEW a \in Nat, NEW b \in Nat,
         b <= a + g, a <= b + g
  PROVE  /\ Quotient(b, g) <= Quotient(a, g) + 1
         /\ Quotient(a, g) <= Quotient(b, g) + 1
<1>1. ASSUME NEW m \in Nat, NEW n \in Nat, n <= m + g
      PROVE  n \div g <= m \div g + 1
  <2>1. (m + g) \div g = m \div g + 1
    OBVIOUS
  <2>2. n \div g <= (m + g) \div g
    BY <1>1
  <2>3. QED
    BY <2>1, <2>2
<1>2. QED
  BY <1>1 DEF Quotient

(* A player that moves by at most a cell in each direction comes to a      *)
(* sector of its block.                                                    *)
LEMMA StepStaysNear ==
  ASSUME NEW ax \in 0 .. MoveRight, NEW ay \in 0 .. MoveBottom,
         NEW bx \in 0 .. MoveRight, NEW by \in 0 .. MoveBottom,
         bx <= ax + GridX, ax <= bx + GridX, by <= ay + GridY, ay <= by + GridY
  PROVE  SectorOf(bx, by) \in Block(SectorOf(ax, ay))
<1>1. SectorOf(bx, by) \in Sectors
  BY PositionHasSector
<1>2. /\ Quotient(bx, GridX) <= Quotient(ax, GridX) + 1
      /\ Quotient(ax, GridX) <= Quotient(bx, GridX) + 1
      /\ Quotient(by, GridY) <= Quotient(ay, GridY) + 1
      /\ Quotient(ay, GridY) <= Quotient(by, GridY) + 1
  BY GridAssumption, NextCell
<1>3. /\ Quotient(ax, GridX) \in Int /\ Quotient(bx, GridX) \in Int
      /\ Quotient(ay, GridY) \in Int /\ Quotient(by, GridY) \in Int
  BY GridAssumption DEF Quotient
<1>4. QED
  BY <1>1, <1>2, <1>3 DEF SectorOf, Block

(* An attack reaches at most into the next cell: the cell that is hit is   *)
(* the attacker's or the one in which the attack's reach ends.  Division   *)
(* truncates, so a reach that leaves the map may seem to end in cell 0.    *)
LEMMA ReachAhead ==
  ASSUME NEW g \in Nat \ {0}, NEW r \in 0 .. g, NEW a \in Nat, NEW b \in a .. a + r
  PROVE  Quotient(b, g) \in { Quotient(a, g), Quotient(a + r, g) }
<1>1. /\ a \div g <= b \div g
      /\ b \div g <= (a + r) \div g
  OBVIOUS
<1>2. (a + r) \div g <= a \div g + 1
  BY NextCell DEF Quotient
<1>3. QED
  BY <1>1, <1>2 DEF Quotient

LEMMA ReachBack ==
  ASSUME NEW g \in Nat \ {0}, NEW r \in 0 .. g, NEW a \in Nat, NEW b \in Nat,
         a - r <= b, b <= a
  PROVE  Quotient(b, g) \in { Quotient(a, g), Quotient(a - r, g) }
<1>1. CASE a >= r
  <2>1. b \in (a - r) .. (a - r) + r /\ a - r \in Nat
    BY <1>1
  <2>2. a \div g <= (a - r) \div g + 1
    BY <1>1, NextCell DEF Quotient
  <2>3. (a - r) \div g <= b \div g /\ b \div g <= a \div g
    BY <2>1
  <2>4. QED
    BY <1>1, <2>2, <2>3 DEF Quotient
<1>2. CASE a < r
  <2>1. a \div g = 0 /\ b \div g = 0
    BY <1>2
  <2>2. QED
    BY <2>1 DEF Quotient
<1>3. QED
  BY <1>1, <1>2

(* GetAttackSectorAround: wherever the attacker stands, whichever way it   *)
(* faces and wherever it hits, the sector of the hit is among those that   *)
(* are searched, if an attack reaches no further than a sector.            *)
THEOREM AttackSectorsSuffice ==
  ASSUME NEW x \in 0 .. MoveRight, NEW y \in 0 .. MoveBottom, NEW left \in BOOLEAN,
         NEW rangeX \in 0 .. GridX, NEW rangeY \in 0 .. GridY,
         NEW px \in 0 .. MoveRight, NEW py \in 0 .. MoveBottom,
         InAttackRange(x, y, left, rangeX, rangeY, px, py)
  PROVE  SectorOf(px, py) \in GetAttackSectorAround(x, y, left, rangeX, rangeY)
<1> DEFINE side    == Quotient(IF left THEN x - rangeX ELSE x + rangeX, GridX)
           columns == { Quotient(x, GridX) } \cup
                      { c \in {side} :
                          CheckSectorCoordinateRange(<< c, Quotient(y, GridY) >>) }
           ends    == { Quotient(y + rangeY, GridY), Quotient(y - rangeY, GridY) }
           rows    == { r \in ends :
                          CheckSectorCoordinateRange(<< Quotient(x, GridX), r >>) }
           C == Quotient(px, GridX)
           R == Quotient(py, GridY)
<1>1. C \in { Quotient(x, GridX), side }
  BY GridAssumption, ReachAhead, ReachBack DEF InAttackRange
<1>2. R \in { Quotient(y, GridY) } \cup ends
  BY GridAssumption, ReachAhead, ReachBack DEF InAttackRange
<1>3. /\ CheckSectorCoordinateRange(<< C, Quotient(y, GridY) >>)
      /\ CheckSectorCoordinateRange(<< Quotient(x, GridX), R >>)
  <2>1. \A u \in 0 .. MoveRight, v \in 0 .. MoveBottom :
          << Quotient(u, GridX), Quotient(v, GridY) >> \in Sectors
    BY PositionHasSector DEF SectorOf
  <2>2. /\ << C, Quotient(y, GridY) >> \in Sectors
        /\ << Quotient(x, GridX), R >> \in Sectors
    BY <2>1
  <2>3. QED
    BY <2>2, GridSize DEF CheckSectorCoordinateRange, Sectors
<1>4. C \in columns /\ R \in { Quotient(y, GridY) } \cup rows
  BY <1>1, <1>2, <1>3
<1>5. QED
  BY <1>4 DEF GetAttackSectorAround, SectorOf
=============================================================================
