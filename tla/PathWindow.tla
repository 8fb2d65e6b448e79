----------------------------- MODULE PathWindow ------------------------------
(***************************************************************************)
(* The window of project/PathFinder (WndProc.cpp): what mouse and keys do  *)
(* to the map, the two markers, the random caves and the search.  A step   *)
(* is one message.  find runs to its end within one message and is taken   *)
(* for what it promises (PathSearch, which AStar is shown to implement),   *)
(* and Update of the caves likewise (CaveInOnePiece of Cellular); WM_PAINT *)
(* leaves nothing changed.  The pointer may be right of the map or below   *)
(* it: no message checks that before it indexes st_GRID.                   *)
(*                                                                         *)
(* _b_Starting_Erase is false throughout: line 133 assigns it instead of   *)
(* comparing it.                                                           *)
(***************************************************************************)
EXTENDS TileMap

CONSTANTS
  Clicks,     \* bound: the points the user clicks at, as (iTileY, iTileX)
  MaxEdits    \* bound: messages after the last random cave or reset

VARIABLES
  grid,       \* g_CTile.st_GRID: 0 road, 1 wall, 2 start, 3 end
  starting,   \* _Starting_Y, _Starting_X
  ending,     \* _Ending_Y, _Ending_X
  endDrawn,   \* _b_Ending_Erase
  erasing,    \* _bErase
  drag,       \* g_bDrag
  findPath,   \* findPath
  running,    \* the process lives
  edits       \* messages since the last random cave or reset

vars == << grid, starting, ending, endDrawn, erasing, drag, findPath, running,
           edits >>

Walls == { c \in Cells : grid[c] = 1 }

(* Tile::Tile *)
Blank == /\ grid' = [ c \in Cells |-> 0 ]
         /\ starting' = << 0, 0 >> /\ ending' = << 0, 0 >>
         /\ endDrawn' = FALSE
         /\ erasing' = FALSE

Init ==
  /\ grid = [ c \in Cells |-> 0 ]
  /\ starting = << 0, 0 >> /\ ending = << 0, 0 >>
  /\ endDrawn = FALSE /\ erasing = FALSE /\ drag = FALSE
  /\ findPath = FALSE /\ running = TRUE /\ edits = 0

(* The cell that st_GRID[y][x] is in memory: right of the map the row goes  *)
(* on in the next one, below it there are other globals.                    *)
StGrid(p) == << p[1] + p[2] \div GridWidth, p[2] % GridWidth >>
Beyond(p) == StGrid(p) \notin Cells

Written(cells, p, tile) ==
  [ c \in Cells |-> IF c = StGrid(p) THEN tile ELSE cells[c] ]

(* What a write beyond the array leaves of the globals that lie there; it   *)
(* may also end the process.                                                *)
WriteAt(points) ==
  IF \E p \in points : Beyond(p)
  THEN drag' \in BOOLEAN /\ findPath' \in BOOLEAN /\ running' \in BOOLEAN
  ELSE UNCHANGED << drag, findPath, running >>

Edit == /\ running /\ edits < MaxEdits
        /\ edits' = edits + 1

(* WM_LBUTTONDBLCLK *)
LeftDoubleClick(p) ==
  /\ Edit
  /\ \/ /\ starting = p
        /\ grid' = Written(grid, p, 0) /\ WriteAt({p})
     \/ /\ starting # p
        /\ grid' = Written(Written(grid, starting, 0), p, 2)
        /\ WriteAt({starting, p})
  /\ starting' = p
  /\ UNCHANGED << ending, endDrawn, erasing >>

(* Mutant: the old marker is not taken away. *)
MutMovedEnd(p) == Written(grid, p, 3)

MovedEnd(p) == Written(Written(grid, ending, 0), p, 3)

(* WM_RBUTTONDBLCLK *)
RightDoubleClick(p) ==
  /\ Edit
  /\ \/ /\ ~ endDrawn
        /\ grid' = Written(grid, p, 3) /\ WriteAt({p})
        /\ endDrawn' = TRUE
     \/ /\ endDrawn /\ ending = p
        /\ grid' = Written(grid, p, 0) /\ WriteAt({p})
        /\ endDrawn' = FALSE
     \/ /\ endDrawn /\ ending # p
        /\ grid' = MovedEnd(p) /\ WriteAt({ending, p})
        /\ endDrawn' = endDrawn
  /\ ending' = p
  /\ UNCHANGED << starting, erasing >>

(* WM_LBUTTONDOWN, WM_LBUTTONUP *)
LeftDown(p) ==
  /\ Edit
  /\ drag' = TRUE
  /\ IF Beyond(p)
     THEN erasing' \in BOOLEAN /\ running' \in BOOLEAN
     ELSE erasing' = (grid[StGrid(p)] = 1) /\ running' = running
  /\ UNCHANGED << grid, starting, ending, endDrawn, findPath >>

LeftUp ==
  /\ Edit
  /\ drag' = FALSE
  /\ UNCHANGED << grid, starting, ending, endDrawn, erasing, findPath, running >>

(* WM_MOUSEMOVE *)
MouseMove(p) ==
  /\ Edit /\ drag
  /\ grid' = Written(grid, p, IF erasing THEN 0 ELSE 1)
  /\ WriteAt({p})
  /\ UNCHANGED << starting, ending, endDrawn, erasing >>

Search == INSTANCE PathSearch WITH
  wall <- Walls, start <- starting, goal <- ending, state <- "searching",
  iter <- << -1, -1 >>

(* VK_SPACE *)
FindKey ==
  /\ running
  /\ findPath' = Search!Reachable
  /\ UNCHANGED << grid, starting, ending, endDrawn, erasing, drag, running, edits >>

(* 'R' *)
ResetKey ==
  /\ running
  /\ findPath' = FALSE
  /\ Blank
  /\ edits' = 0
  /\ UNCHANGED << drag, running >>

Interior == (1 .. GridHeight - 2) \X (1 .. GridWidth - 2)

(* 'M': what Cellular_Automata::Update can leave.  Without any road the     *)
(* process may end.                                                         *)
CaveKey ==
  /\ running
  /\ \E road \in SUBSET Interior :
       /\ \A part \in SUBSET road \ {{}, road} :
            \E c \in part, d \in Straight : Beside(c, d) \in road \ part
       /\ grid' = [ c \in Cells |-> IF c \in road THEN 0 ELSE 1 ]
       /\ running' \in IF road = {} THEN BOOLEAN ELSE {TRUE}
  /\ edits' = 0
  /\ UNCHANGED << starting, ending, endDrawn, erasing, drag, findPath >>

Pointed ==
  \E p \in Clicks : \/ LeftDoubleClick(p) \/ RightDoubleClick(p)
                    \/ LeftDown(p) \/ MouseMove(p)

Next == Pointed \/ LeftUp \/ FindKey \/ ResetKey \/ CaveKey

Spec == Init /\ [][Next]_vars
-----------------------------------------------------------------------------
TypeOK ==
  /\ grid \in [ Cells -> 0 .. 3 ]
  /\ starting \in Nat \X Nat /\ ending \in Nat \X Nat
  /\ endDrawn \in BOOLEAN /\ erasing \in BOOLEAN /\ drag \in BOOLEAN
  /\ findPath \in BOOLEAN /\ running \in BOOLEAN
  /\ edits \in 0 .. MaxEdits

(* One start and one end are drawn at most, and each is the cell of memory  *)
(* its coordinates lead to: on the map, where the search will start or end; *)
(* off it, still the cell that the next double click takes the marker from. *)
(* However double clicks, drags, resets and caves follow one another, on    *)
(* the map and off it, no marker is left behind: they are cells of the map  *)
(* that every one of these may overwrite.                                   *)
MarkersMatch ==
  \A c \in Cells : /\ grid[c] = 2 => c = StGrid(starting)
                   /\ grid[c] = 3 => c = StGrid(ending)

==============================================================================
