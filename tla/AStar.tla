-------------------------------- MODULE AStar --------------------------------
(***************************************************************************)
(* A_STAR (project/PathFinder/PathFinder_v2/A_STAR.cpp): find, one         *)
(* iteration of its loop per step, and GetNextPosition, with which the     *)
(* window draws the path.                                                  *)
(***************************************************************************)
EXTENDS TileMap

CONSTANTS
  Starts,      \* bound: the cells a search starts from
  Goals        \* bound: the cells a search looks for

ASSUME SearchAssumption == Starts \subseteq Cells /\ Goals \subseteq Cells

VARIABLES
  wall, start, goal,   \* the map and the arguments of find
  open,    \* _OpenList: nodes with the key they were inserted under
  close,   \* _CloseList: every cell reached -> its node
  state,   \* "searching", "found" or "failed": what find has returned
  iter     \* the cell of _PathIter, None before it is set

vars == << wall, start, goal, open, close, state, iter >>

None == << -1, -1 >>

(* The G of a cell beside one with cost g: Euclid's distance is 1, or the    *)
(* square root of 2.                                                        *)
G(g, from, to) == Along(g, 1, from[1] # to[1] /\ from[2] # to[2])

First == [ parent |-> None, g |-> << 0, 0 >>, isOpen |-> TRUE ]

(* The first node is queued under H, all others under F. *)
Init ==
  /\ wall \in SUBSET Cells
  /\ start \in Starts /\ goal \in Goals
  /\ open = { [ cell |-> start, parent |-> None, g |-> << 0, 0 >>,
                key |-> << H(start, goal), 0 >> ] }
  /\ close = [ c \in {start} |-> First ]
  /\ state = "searching"
  /\ iter = None

(* begin() of the multimap. *)
Smallest(e) == e \in open /\ \A o \in open : ~ Less(o.key, e.key)

(* Mutant: the entry stays. *)
MutPopped(e) == open

(* The open list once e is taken from it. *)
Popped(e) == open \ {e}

(* Mutant: the node stays open. *)
MutTaken(c) == close

(* The close list once cell c is taken from the open list. *)
Taken(c) == [ close EXCEPT ![c].isOpen = FALSE ]

(* A cell reached before is looked at again only while it is open. *)
Improvable(n) == close[n].isOpen

(* Mutant: the old entry stays in the open list. *)
MutReplaced(N) == {}

(* The entries of the open list whose nodes are replaced. *)
Replaced(N) == { o \in open : /\ o.cell \in N
                              /\ o.key = F(close[o.cell].g, o.cell, goal) }

Found(e) ==
  /\ e.cell = goal
  /\ open' = Popped(e)
  /\ close' = Taken(e.cell)
  /\ iter' = goal
  /\ state' = "found"
  /\ UNCHANGED << wall, start, goal >>

(* The neighbours of e: those not reached before are new, and of those that *)
(* are open the ones with a smaller F are replaced.                         *)
Expand(e) ==
  LET N      == Neighbours(e.cell, wall)
      cost   == [ n \in N |-> G(e.g, e.cell, n) ]
      new    == N \ DOMAIN close
      known  == { n \in N \cap DOMAIN close : Improvable(n) }
      better == { n \in known : Less(F(cost[n], n, goal), F(close[n].g, n, goal)) }
      tied   == { n \in known : cost[n] = close[n].g }
  IN  /\ e.cell # goal
      /\ \E luck \in SUBSET tied :
           LET set == new \cup better \cup luck
           IN  /\ open' = (Popped(e) \ Replaced(set \ new)) \cup
                          { [ cell |-> n, parent |-> e.cell, g |-> cost[n],
                              key |-> F(cost[n], n, goal) ] : n \in set }
               /\ close' = [ c \in DOMAIN close \cup new |->
                               IF c \in set
                               THEN [ parent |-> e.cell, g |-> cost[c], isOpen |-> TRUE ]
                               ELSE Taken(e.cell)[c] ]
      /\ UNCHANGED << wall, start, goal, state, iter >>

Step ==
  /\ state = "searching"
  /\ \E e \in open : Smallest(e) /\ (Found(e) \/ Expand(e))

NotFound ==
  /\ state = "searching" /\ open = {}
  /\ state' = "failed"
  /\ UNCHANGED << wall, start, goal, open, close, iter >>

(* Mutant: the drawing does not go back to the goal. *)
MutDrawnFrom(c) == close[c].parent

(* Mutant: the drawing ends at the start for good. *)
MutDrawnBack(c) == IF close[c].parent = None THEN c ELSE close[c].parent

DrawnFrom(c) == IF close[c].parent = None THEN goal ELSE close[c].parent

(* RenderPath calls GetNextPosition until it returns NULL, which is when    *)
(* _PathIter is set back to the goal; every WM_PAINT draws the path again.  *)
GetNextPosition ==
  /\ state = "found"
  /\ iter' = DrawnFrom(iter)
  /\ UNCHANGED << wall, start, goal, open, close, state >>

Next == Step \/ NotFound \/ GetNextPosition

Spec == Init /\ [][Next]_vars
FairSpec == Spec /\ WF_vars(Next)
-----------------------------------------------------------------------------
Nodes == [ parent : Cells \cup {None}, g : Nat \X Nat, isOpen : BOOLEAN ]

(* The cells reached lie on the map and, but for the first, on no wall.     *)
TypeOK ==
  /\ wall \subseteq Cells /\ start \in Cells /\ goal \in Cells
  /\ DOMAIN close \subseteq (Cells \ wall) \cup {start}
  /\ start \in DOMAIN close
  /\ \A c \in DOMAIN close : close[c] \in Nodes
  /\ open \subseteq [ cell : DOMAIN close, parent : Cells \cup {None},
                      g : Nat \X Nat, key : Nat \X Nat ]
  /\ state \in {"searching", "found", "failed"}
  /\ iter \in DOMAIN close \cup {None}

(* The two lists say the same: a node marked as open has exactly one entry  *)
(* in the open list, with the same parent and the same cost, under the key  *)
(* it will be looked up by when it is replaced; no other node has one       *)
(* (A_STAR.cpp:146-172 changes both).                                       *)
ListsAgree ==
  /\ \A c \in DOMAIN close : close[c].isOpen =>
       \E o \in open : /\ o.cell = c
                       /\ o.parent = close[c].parent
                       /\ o.g = close[c].g
                       /\ c # start => o.key = F(close[c].g, c, goal)
  /\ \A o \in open : close[o.cell].isOpen
  /\ \A o, u \in open : o.cell = u.cell => o = u

(* A parent has been taken from the open list, lies beside its child and is *)
(* one step nearer to the start: whatever nodes are replaced, following     *)
(* parents never turns in a circle and passes no wall.                      *)
ParentsLead ==
  \A c \in DOMAIN close :
    \/ c = start /\ close[c] = [ First EXCEPT !.isOpen = close[c].isOpen ]
    \/ LET p == close[c].parent
       IN  /\ p \in DOMAIN close
           /\ ~ close[p].isOpen
           /\ c \in Neighbours(p, wall)
           /\ close[c].g = G(close[p].g, p, c)

(* The search implements what it promises (PathSearch): it finds a path     *)
(* exactly when there is one, and what is drawn is one.                     *)
Promise == INSTANCE PathSearch
PromiseKept == Promise!PathSpec

(* find returns (A_STAR.cpp:66: every iteration takes a node for good), and *)
(* every drawing of the path comes to its end, with _PathIter back at the   *)
(* goal for the next (A_STAR.cpp:204).                                      *)
SearchEnds ==
  /\ <>(state # "searching")
  /\ [](iter # None => <>(iter = goal))
==============================================================================
