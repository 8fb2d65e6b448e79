----------------------------- MODULE PathFinder ------------------------------
(* The search and the window of project/PathFinder, one beside the other on *)
(* maps of the same size, for AStarProofs and MCPathFinder.                 *)
EXTENDS AStar

CONSTANTS Clicks, MaxEdits                                            \* Window

(* The map starts at or before the window's corner, so that the user can   *)
(* point past its right and its lower end only.                             *)
ASSUME ClickAssumption == Clicks \subseteq Nat \X Nat

VARIABLES
  grid, starting, ending, endDrawn, erasing, drag, findPath, running, edits
                                                                      \* Window

Window == INSTANCE PathWindow
-----------------------------------------------------------------------------
(* PathWindow: every marker drawn is the one its coordinates lead to.       *)
MarkersMatch == Window!MarkersMatch
==============================================================================
