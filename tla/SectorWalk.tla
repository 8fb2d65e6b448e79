----------------------------- MODULE SectorWalk -----------------------------
(***************************************************************************)
(* One player walks over the whole map in steps of at most ErrorRange per  *)
(* axis, the largest displacement a message or a tick may cause.  Every    *)
(* pair of a sector and the sector reached from it is visited, and in each *)
(* state the sector operators are compared with their definitions by       *)
(* distance.                                                               *)
(***************************************************************************)
EXTENDS Sector

CONSTANTS
  ErrorRange,        \* dfERROR_RANGE: displacement above which SYNC is sent
  RangeX, RangeY     \* dfATTACKn_RANGE_X, dfATTACKn_RANGE_Y; like ErrorRange
                     \* at most the size of a sector

VARIABLES x, y, old
vars == << x, y, old >>

Init ==
  /\ x \in 0 .. MoveRight
  /\ y \in 0 .. MoveBottom
  /\ old = SectorOf(x, y)

Walk ==
  \E dx, dy \in -ErrorRange .. ErrorRange :
    /\ x + dx \in 0 .. MoveRight
    /\ y + dy \in 0 .. MoveBottom
    /\ x' = x + dx
    /\ y' = y + dy
    /\ old' = SectorOf(x, y)

Spec == Init /\ [][Walk]_vars

-----------------------------------------------------------------------------
(* A player's sector is always one of the sectors the field has a list for. *)
TypeOK ==
  /\ old \in Sectors
  /\ SectorOf(x, y) \in Sectors

(* GetSectorAround lists every sector at most one step away, and no other: *)
(* in particular none is missing or invented at the borders of the map.    *)
AroundIsBlock ==
  GetSectorAround(old) = Block(old)

(* GetUpdateSectorAround: after a displacement of at most ErrorRange the   *)
(* sectors withdrawn and announced are exactly those by which the two 3x3  *)
(* blocks differ, whichever of the eight branches was taken.               *)
UpdateIsDifference ==
  LET cur == SectorOf(x, y)
      upd == GetUpdateSectorAround(old, cur)
  IN  /\ upd.remove = Block(old) \ Block(cur)
      /\ upd.add    = Block(cur) \ Block(old)

(* GetAttackSectorAround: wherever the attacker stands and whichever way it *)
(* faces, each map position its attack can hit lies in a scanned sector.   *)
AttackSectorsSuffice ==
  \A left \in BOOLEAN, px \in (x - RangeX .. x + RangeX) \cap (0 .. MoveRight),
     py \in (y - RangeY .. y + RangeY) \cap (0 .. MoveBottom) :
    InAttackRange(x, y, left, RangeX, RangeY, px, py) =>
      SectorOf(px, py) \in GetAttackSectorAround(x, y, left, RangeX, RangeY)

=============================================================================
