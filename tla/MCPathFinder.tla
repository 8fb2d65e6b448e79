---------------------------- MODULE MCPathFinder -----------------------------
(* The search and the window of project/PathFinder for TLC, side by side on *)
(* maps of the same size: they share no state here.  A behaviour is about   *)
(* one of them; the other starts in one small state, and the window then   *)
(* stays in it.                                                            *)
EXTENDS PathFinder

VARIABLE part       \* what the behaviour is about

SomeStarts == { << 0, 0 >>, << 0, 1 >>, << 1, 1 >> }
AllCells   == Cells
\* two cells, a point whose column is past the map (it is cell << 1, 1 >> in
\* memory) and one below it
SomeClicks == { << 0, 0 >>, << 1, 1 >>, << 0, 4 >>, << 3, 0 >> }

windowVars == << grid, starting, ending, endDrawn, erasing, drag, findPath, running, edits >>

MCInit ==
  /\ part \in {"search", "window"}
  /\ part = "window" => wall = Cells /\ start = << 0, 0 >> /\ goal = start
  /\ Init /\ Window!Init

Searching == Next /\ UNCHANGED << part, windowVars >>

MCNext ==
  \/ Searching
  \/ part = "window" /\ Window!Next /\ UNCHANGED << part, vars >>

MCSpec == MCInit /\ [][MCNext]_<< part, vars, windowVars >> /\ WF_vars(Searching)
==============================================================================
