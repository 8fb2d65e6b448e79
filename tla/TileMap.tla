------------------------------- MODULE TileMap -------------------------------
(* The grid of project/PathFinder (Tile.h), its eight directions as A_STAR.h *)
(* and JumpPointSearch.h list them, and the costs of the searches.  A cell   *)
(* is << row, column >>.                                                     *)
EXTENDS Integers

CONSTANTS
  GridWidth,    \* g_GRID_WIDTH (190)
  GridHeight    \* g_GRID_HEIGHT (100)

ASSUME TileAssumption ==
  /\ GridWidth \in Nat \ {0}
  /\ GridHeight \in Nat \ {0}

Cells == (0 .. GridHeight - 1) \X (0 .. GridWidth - 1)

(* UU, DD, LL, RR, LU, RU, LD, RD. *)
Straight   == 1 .. 4
Diagonal   == 5 .. 8
Compass    == Straight \cup Diagonal
DeltaY == << -1, 1, 0, 0, -1, -1, 1, 1 >>
DeltaX == << 0, 0, -1, 1, -1, 1, -1, 1 >>

Beside(c, d) == << c[1] + DeltaY[d], c[2] + DeltaX[d] >>

(* Mutant: walls are not looked at. *)
MutNeighbours(c, wall) == { n \in Cells : \E d \in Compass : n = Beside(c, d) }

(* The cells a search may enter from c, the cells of wall being walls. *)
Neighbours(c, wall) == { n \in Cells \ wall : \E d \in Compass : n = Beside(c, d) }
-----------------------------------------------------------------------------
(* The costs of the searches.  A double that they compute is a whole number *)
(* plus a multiple of the square root of 2, kept as the pair << s, d >> for *)
(* s + d * sqrt(2).  Sums taken in different orders may differ in their     *)
(* last bit, so that of two equal costs either may turn out to be smaller.  *)
Abs(i) == IF i < 0 THEN -i ELSE i

(* s + d * sqrt(2) < t + e * sqrt(2), without the root. *)
Less(a, b) ==
  LET p == a[1] - b[1]
      q == b[2] - a[2]
  IN  \/ q >= 0 /\ p < 0
      \/ q >= 0 /\ p >= 0 /\ p * p < 2 * q * q
      \/ q < 0 /\ p < 0 /\ p * p > 2 * q * q

H(c, to) == Abs(c[1] - to[1]) + Abs(c[2] - to[2])

(* F of a node at c with cost g: H counts five times. *)
F(g, c, to) == << g[1] + 5 * H(c, to), g[2] >>

(* The G of a cell that is n steps away in a straight or diagonal line from *)
(* one whose G is g.                                                        *)
Along(g, n, diagonal) ==
  IF diagonal THEN << g[1], g[2] + n >> ELSE << g[1] + n, g[2] >>
==============================================================================
