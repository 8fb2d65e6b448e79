----------------------------- MODULE PathSearch ------------------------------
(* What a search of project/PathFinder promises: it ends, it succeeds       *)
(* exactly when the goal can be reached, and the path drawn afterwards      *)
(* goes from the goal to the start over neighbouring cells, again and       *)
(* again.                                                                   *)
EXTENDS TileMap

None == << -1, -1 >>     \* the parent of the first node

VARIABLES
  wall,     \* cells of g_CTile.st_GRID that are 1
  start,    \* sY, sX
  goal,     \* eY, eX
  state,    \* "searching", "found" or "failed"
  iter      \* the cell of _PathIter, None before it is set

Init ==
  /\ wall \in SUBSET Cells
  /\ start \in Cells /\ goal \in Cells
  /\ state = "searching"
  /\ iter = None

(* A set of cells that a walk from the start cannot leave.  The start may   *)
(* itself be a wall: the search does not look at it.                        *)
Confining(S) == start \in S /\ \A c \in S : Neighbours(c, wall) \subseteq S

Reachable == \A S \in SUBSET (((Cells \ wall) \cup {start}) \ {goal}) : ~ Confining(S)

Succeed ==
  /\ state = "searching" /\ Reachable
  /\ state' = "found"
  /\ iter' = goal
  /\ UNCHANGED << wall, start, goal >>

Fail ==
  /\ state = "searching" /\ ~ Reachable
  /\ state' = "failed"
  /\ UNCHANGED << wall, start, goal, iter >>

(* One line of the path is drawn, or the drawing is over and starts again.  *)
Draw ==
  /\ state = "found"
  /\ \/ iter = start /\ iter' = goal
     \/ iter # start /\ iter \in Neighbours(iter', wall \ {iter})
  /\ UNCHANGED << wall, start, goal, state >>

Next == Succeed \/ Fail \/ Draw

PathSpec == Init /\ [][Next]_<< wall, start, goal, state, iter >>
==============================================================================
