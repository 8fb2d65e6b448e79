------------------------------- MODULE Sector -------------------------------
(***************************************************************************)
(* The sector grid of C_Field (Field.cpp, Field.h): the map is cut into    *)
(* GridX x GridY cells, a player sees the 3x3 block of sectors around its  *)
(* own, and a player that crosses a sector border is announced to, and     *)
(* withdrawn from, only the sectors by which the two blocks differ.        *)
(*                                                                         *)
(* Everything here is a constant-level definition.  A sector is a pair     *)
(* <<x, y>>.  The order in which the code fills st_SECTOR_AROUND is not    *)
(* kept: the arrays become sets.                                           *)
(***************************************************************************)
EXTENDS Integers

CONSTANTS
  MoveRight,   \* dfRANGE_MOVE_RIGHT: the largest x coordinate on the map
  MoveBottom,  \* dfRANGE_MOVE_BOTTOM: the largest y coordinate on the map
  GridX,       \* dfGRID_X_SIZE: width of a sector
  GridY        \* dfGRID_Y_SIZE: height of a sector

ASSUME GridAssumption ==
  /\ MoveRight \in Nat
  /\ MoveBottom \in Nat
  /\ GridX \in Nat \ {0}
  /\ GridY \in Nat \ {0}

-----------------------------------------------------------------------------
(* Division of C++ ints: the quotient is truncated towards zero. *)
Quotient(a, b) == IF a >= 0 THEN a \div b ELSE -((-a) \div b)

(* Mutant: the bound Field.h had before the last column was counted. *)
MutSectorMaxX == Quotient(MoveRight, GridX)

SectorMaxX == Quotient(MoveRight, GridX) + 1
SectorMaxY == Quotient(MoveBottom, GridY) + 1

Sectors == (0 .. SectorMaxX - 1) \X (0 .. SectorMaxY - 1)

(* The sector a coordinate lies in: Init_SECTOR_POS and the two divisions  *)
(* Sector_UpdateCharacter starts with.                                     *)
SectorOf(x, y) == << Quotient(x, GridX), Quotient(y, GridY) >>

(* Mutant: the column one past the last is accepted. *)
MutCheckSectorCoordinateRange(s) ==
  s[1] >= 0 /\ s[2] >= 0 /\ s[1] <= SectorMaxX /\ s[2] < SectorMaxY

CheckSectorCoordinateRange(s) ==
  /\ s[1] >= 0
  /\ s[2] >= 0
  /\ s[1] < SectorMaxX
  /\ s[2] < SectorMaxY

(* The sectors at the given offsets from s that exist. *)
Near(s, offsets) ==
  { t \in { << s[1] + d[1], s[2] + d[2] >> : d \in offsets } :
      CheckSectorCoordinateRange(t) }

-----------------------------------------------------------------------------
(* dX, dY: the sector itself and its eight neighbours. *)
AroundOffsets ==
  { <<0, 0>>,
    <<-1, -1>>, <<0, -1>>, <<1, -1>>,
    <<-1,  0>>,            <<1,  0>>,
    <<-1,  1>>, <<0,  1>>, <<1,  1>> }

GetSectorAround(s) == Near(s, AroundOffsets)

(* What a player in sector s is meant to see, said by distance: the        *)
(* reference the operators of this module are compared with.               *)
Block(s) ==
  { t \in Sectors : /\ s[1] - 1 <= t[1] /\ t[1] <= s[1] + 1
                    /\ s[2] - 1 <= t[2] /\ t[2] <= s[2] + 1 }

-----------------------------------------------------------------------------
(* GetUpdateSectorAround has one branch for each of the eight directions   *)
(* in which the sector can have changed.  A branch lists the sectors that  *)
(* leave the block of the old sector and those the new block gains.        *)

UpdateUp(old, cur) ==
  [ remove |-> Near(old, { <<-1, 1>>, <<0, 1>>, <<1, 1>> }),
    add    |-> Near(cur, { <<-1, -1>>, <<0, -1>>, <<1, -1>> }) ]

UpdateDown(old, cur) ==
  [ remove |-> Near(old, { <<-1, -1>>, <<0, -1>>, <<1, -1>> }),
    add    |-> Near(cur, { <<-1, 1>>, <<0, 1>>, <<1, 1>> }) ]

UpdateLeft(old, cur) ==
  [ remove |-> Near(old, { <<1, -1>>, <<1, 0>>, <<1, 1>> }),
    add    |-> Near(cur, { <<-1, -1>>, <<-1, 0>>, <<-1, 1>> }) ]

UpdateRight(old, cur) ==
  [ remove |-> Near(old, { <<-1, -1>>, <<-1, 0>>, <<-1, 1>> }),
    add    |-> Near(cur, { <<1, -1>>, <<1, 0>>, <<1, 1>> }) ]

UpdateLeftUp(old, cur) ==
  [ remove |-> Near(old, { <<1, -1>>, <<1, 0>>, <<1, 1>>, <<0, 1>>, <<-1, 1>> }),
    add    |-> Near(cur, { <<1, -1>>, <<0, -1>>, <<-1, -1>>, <<-1, 0>>, <<-1, 1>> }) ]

UpdateRightUp(old, cur) ==
  [ remove |-> Near(old, { <<-1, -1>>, <<-1, 0>>, <<-1, 1>>, <<0, 1>>, <<1, 1>> }),
    add    |-> Near(cur, { <<-1, -1>>, <<0, -1>>, <<1, -1>>, <<1, 0>>, <<1, 1>> }) ]

(* Mutant: one added corner is taken from the opposite side. *)
MutUpdateLeftDown(old, cur) ==
  [ remove |-> Near(old, { <<-1, -1>>, <<0, -1>>, <<1, -1>>, <<1, 0>>, <<1, 1>> }),
    add    |-> Near(cur, { <<-1, -1>>, <<-1, 0>>, <<-1, 1>>, <<0, 1>>, <<1, -1>> }) ]

UpdateLeftDown(old, cur) ==
  [ remove |-> Near(old, { <<-1, -1>>, <<0, -1>>, <<1, -1>>, <<1, 0>>, <<1, 1>> }),
    add    |-> Near(cur, { <<-1, -1>>, <<-1, 0>>, <<-1, 1>>, <<0, 1>>, <<1, 1>> }) ]

UpdateRightDown(old, cur) ==
  [ remove |-> Near(old, { <<1, -1>>, <<0, -1>>, <<-1, -1>>, <<-1, 0>>, <<-1, 1>> }),
    add    |-> Near(cur, { <<1, -1>>, <<1, 0>>, <<1, 1>>, <<0, 1>>, <<-1, 1>> }) ]

GetUpdateSectorAround(old, cur) ==
  CASE old[2] > cur[2] /\ old[1] = cur[1] -> UpdateUp(old, cur)
    [] old[2] < cur[2] /\ old[1] = cur[1] -> UpdateDown(old, cur)
    [] old[2] = cur[2] /\ old[1] > cur[1] -> UpdateLeft(old, cur)
    [] old[2] = cur[2] /\ old[1] < cur[1] -> UpdateRight(old, cur)
    [] old[2] > cur[2] /\ old[1] > cur[1] -> UpdateLeftUp(old, cur)
    [] old[2] > cur[2] /\ old[1] < cur[1] -> UpdateRightUp(old, cur)
    [] old[2] < cur[2] /\ old[1] > cur[1] -> UpdateLeftDown(old, cur)
    [] old[2] < cur[2] /\ old[1] < cur[1] -> UpdateRightDown(old, cur)
    [] OTHER -> [ remove |-> {}, add |-> {} ]

-----------------------------------------------------------------------------
(* GetAttackSectorAround: the sectors an attack from (x, y) can reach.  It *)
(* is told only whether the attack goes left; every other direction value  *)
(* attacks to the right.                                                   *)
(* Mutant: the diagonal sectors are forgotten. *)
MutGetAttackSectorAround(x, y, left, rangeX, rangeY) ==
  LET cur  == SectorOf(x, y)
      side == Quotient(IF left THEN x - rangeX ELSE x + rangeX, GridX)
      rows == { Quotient(y + rangeY, GridY), Quotient(y - rangeY, GridY) }
  IN  { s \in {cur, << side, cur[2] >>} \cup ({ cur[1] } \X rows) :
          CheckSectorCoordinateRange(s) }

GetAttackSectorAround(x, y, left, rangeX, rangeY) ==
  LET cur     == SectorOf(x, y)
      side    == Quotient(IF left THEN x - rangeX ELSE x + rangeX, GridX)
      columns == { cur[1] } \cup
                 { c \in {side} : CheckSectorCoordinateRange(<< c, cur[2] >>) }
      rows    == { r \in { Quotient(y + rangeY, GridY), Quotient(y - rangeY, GridY) } :
                     CheckSectorCoordinateRange(<< cur[1], r >>) }
  IN  (columns \X ({ cur[2] } \cup rows))

(* The test the three attack handlers apply to a player at (px, py). *)
InAttackRange(x, y, left, rangeX, rangeY, px, py) ==
  /\ y - rangeY < py
  /\ py < y + rangeY
  /\ IF left THEN x - rangeX <= px /\ px <= x
             ELSE x <= px /\ px <= x + rangeX
=============================================================================
