------------------------------ MODULE Cellular -------------------------------
(* Cellular_Automata (project/PathFinder/PathFinder_v2): the random caves   *)
(* of Update.  A step is one generation, or searchHole.  The map is kept as *)
(* the set of its road cells; all other cells are walls.                    *)
EXTENDS TileMap, FiniteSets, Sequences

CONSTANT Generations     \* bound: generations (9)

VARIABLES
  road,     \* the road cells of g_CTile.st_GRID
  gen,      \* generations left to do
  phase     \* "smooth", "done", or "aborted" when searchHole cannot go on

vars == << road, gen, phase >>

RowMajor == [ i \in 1 .. GridWidth * GridHeight |->
                << (i - 1) \div GridWidth, (i - 1) % GridWidth >> ]

Rim      == { c \in Cells : \/ c[1] \in {0, GridHeight - 1}
                            \/ c[2] \in {0, GridWidth - 1} }
Interior == Cells \ Rim

(* GenCave: the rim is wall, every other cell as the dice fall. *)
GenCave == SUBSET Interior

Init == road \in GenCave /\ gen \in 0 .. Generations /\ phase = "smooth"

(* Of the eight cells around c those that are road, or off the map. *)
Near(c, map) ==
  Cardinality({ d \in Compass : Beside(c, d) \in map \/ Beside(c, d) \notin Cells })

(* One cell of SmoothMap.  The two tests follow one another, with the same  *)
(* count.                                                                   *)
Smoothed(map, c) ==
  LET count == Near(c, map)
      grown == IF c \notin map /\ count >= 6 THEN map \cup {c} ELSE map
  IN  IF c \in grown /\ count <= 3 THEN grown \ {c} ELSE grown

(* A generation of SmoothMap changes the map in place, in the order of the  *)
(* loops.                                                                   *)
SmoothMap ==
  LET inner == SelectSeq(RowMajor, LAMBDA c : c \in Interior)
      after[k \in 0 .. Len(inner)] ==
        IF k = 0 THEN road ELSE Smoothed(after[k - 1], inner[k])
  IN  /\ phase = "smooth" /\ gen > 0
      /\ road' = after[Len(inner)]
      /\ gen' = gen - 1
      /\ phase' = phase

(* The cells of map that are reached from c by steps in directions dirs.    *)
Flood(c, map, dirs) ==
  LET round[k \in 0 .. Cardinality(map)] ==
        IF k = 0 THEN {c}
        ELSE LET R == round[k - 1]
             IN  R \cup { n \in map : \E d \in dirs : Beside(n, d) \in R }
  IN  round[Cardinality(map)]

(* Mutant: also the diagonal neighbours. *)
MutBFS(c, map) == Flood(c, map, Compass)

(* BFS labels all that is reached over the four sides. *)
BFS(c, map) == Flood(c, map, Straight)

(* The first cells of the regions, in the order in which searchHole comes   *)
(* upon them.                                                               *)
FirstCells(map) ==
  SelectSeq(RowMajor, LAMBDA c :
    c \in map /\ \A i, j \in DOMAIN RowMajor :
                   RowMajor[i] = c /\ RowMajor[j] \in BFS(c, map) => i <= j)

(* Mutant: the default order of a multimap. *)
MutBefore(m, n) == m < n

(* The order of the multimap, std::greater. *)
Before(m, n) == m > n

(* What becomes road: the region of begin(), the first inserted under the   *)
(* biggest size.                                                            *)
Largest(map) ==
  LET first  == FirstCells(map)
      region == [ i \in DOMAIN first |-> BFS(first[i], map) ]
      size   == [ i \in DOMAIN first |-> Cardinality(region[i]) ]
  IN  region[CHOOSE i \in DOMAIN first :
               /\ \A j \in DOMAIN first : ~ Before(size[j], size[i])
               /\ \A j \in 1 .. i - 1 : Before(size[i], size[j])]

SearchHole ==
  /\ phase = "smooth" /\ gen = 0
  /\ road # {}
  /\ road' = Largest(road)
  /\ phase' = "done"
  /\ gen' = gen

(* Without a single road cell the first entry of an empty multimap is read: *)
(* the process ends there, or takes some number for a region that no cell   *)
(* belongs to.                                                              *)
SearchNothing ==
  /\ phase = "smooth" /\ gen = 0
  /\ road = {}
  /\ phase' \in {"done", "aborted"}
  /\ UNCHANGED << road, gen >>

Next == SmoothMap \/ SearchHole \/ SearchNothing

Spec == Init /\ [][Next]_vars
-----------------------------------------------------------------------------
(* A set of cells in one piece: all of it is reached from any of it. *)
OnePiece(map) == \A c \in map : map \subseteq Flood(c, map, Straight)

(* What Update leaves is enclosed by walls and in one piece, whatever       *)
(* SmoothMap has made of the dice (Cellular_Automata.cpp:98-114).           *)
CaveInOnePiece == phase = "done" => road \subseteq Interior /\ OnePiece(road)

(* It is a whole region of the smoothed map, and none is bigger.            *)
BiggestKept ==
  [][phase' = "done" =>
       /\ \A c \in road' : Flood(c, road, Straight) = road'
       /\ \A c \in road : Cardinality(Flood(c, road, Straight)) <= Cardinality(road')]_vars
==============================================================================
