------------------------------ MODULE JumpPoint ------------------------------
(***************************************************************************)
(* CJumpPointSearch (project/PathFinder/PathFinder_v2/JumpPointSearch.cpp),*)
(* as far as it is written: find, whose loop expands only the first node,  *)
(* and the eight jumps.  A step is one iteration of find's loop or of the  *)
(* loop of a jump.  The diagonal jumps are public and called by nothing    *)
(* yet; after find has returned they are called here as the empty cases of *)
(* find would call them, on nodes taken from the open list.                *)
(***************************************************************************)
EXTENDS TileMap, FiniteSets, Sequences

CONSTANTS
  Starts, Goals,   \* bound: arguments of find
  MaxWalls,        \* bound: walls on the map
  MaxCalls         \* bound: calls of diagonal jumps

VARIABLES
  wall, start, goal,   \* the map and the arguments of find
  beyond,   \* whether memory outside of st_GRID reads as a wall
  open,     \* _OpenList: nodes with the key they were inserted under
  close,    \* _CloseList: cell -> node
  state,    \* "searching", "found" or "failed": what find has returned
  cur,      \* the node st_Cur_Node
  jumps,    \* the jumps that remain to be made from cur
  dist,     \* iterations the first of them has done
  calls     \* calls of diagonal jumps made

mapVars  == << wall, start, goal, beyond >>
listVars == << open, close >>
vars == << mapVars, listVars, state, cur, jumps, dist, calls >>

None == << -1, -1 >>
Null == 0     \* direction_Parents of the first node

UU == 1
DD == 2
LL == 3
RR == 4
LU == 5
RU == 6
LD == 7
RD == 8

Node(parent, g, d) == [ parent |-> parent, g |-> g, dir |-> d ]

Init ==
  /\ wall \in { W \in SUBSET Cells : Cardinality(W) <= MaxWalls }
  /\ start \in Starts /\ goal \in Goals
  /\ beyond \in BOOLEAN
  /\ open = { [ cell |-> start, node |-> Node(None, << 0, 0 >>, Null),
                key |-> << H(start, goal), 0 >> ] }
  /\ close = [ c \in {start} |->
                 [ node |-> Node(None, << 0, 0 >>, Null), isOpen |-> TRUE ] ]
  /\ state = "searching"
  /\ cur = [ cell |-> start, g |-> << 0, 0 >> ]
  /\ jumps = << >> /\ dist = 0 /\ calls = 0

Free(c) == c \in Cells \ wall

(* check: no bounds are tested, so that a column outside of the map reads   *)
(* the row before or behind, and a row outside of it other memory.          *)
Check(y, x) ==
  LET i == y * GridWidth + x
  IN  IF i \in 0 .. GridWidth * GridHeight - 1
      THEN << i \div GridWidth, i % GridWidth >> \notin wall
      ELSE ~ beyond

(* One of the two ways to be a corner: (by, bx) from c is blocked and       *)
(* (fy, fx) is not.                                                         *)
Turn(c, by, bx, fy, fx) == ~ Check(c[1] + by, c[2] + bx) /\ Check(c[1] + fy, c[2] + fx)

CornerUU(c) == Turn(c, 0, -1, -1, -1) \/ Turn(c, 0, 1, -1, 1)
CornerDD(c) == Turn(c, 0, -1, 1, -1)  \/ Turn(c, 0, 1, 1, 1)
CornerLL(c) == Turn(c, -1, 0, -1, -1) \/ Turn(c, 1, 0, 1, -1)
CornerRR(c) == Turn(c, -1, 0, -1, 1)  \/ Turn(c, 1, 0, 1, 1)
CornerLU(c) == Turn(c, 1, 0, 1, 1)    \/ Turn(c, 0, -1, -1, -1)
CornerRU(c) == Turn(c, 1, 0, 1, 1)    \/ Turn(c, 0, -1, -1, -1)
CornerLD(c) == Turn(c, -1, 0, -1, -1) \/ Turn(c, 0, 1, 1, 1)
CornerRD(c) == Turn(c, -1, 0, -1, -1) \/ Turn(c, 0, 1, 1, 1)

Corner(d, c) ==
  \/ d = UU /\ CornerUU(c)
  \/ d = DD /\ CornerDD(c)
  \/ d = LL /\ CornerLL(c)
  \/ d = RR /\ CornerRR(c)

(* The n-th cell from c in direction d, and whether all up to it are free.  *)
Ahead(c, d, n) == << c[1] + n * DeltaY[d], c[2] + n * DeltaX[d] >>
Open(c, d, n)  == \A k \in 1 .. n : Free(Ahead(c, d, k))

(* A straight jump with CreateNode = false: is there a corner ahead? *)
Meets(c, d) ==
  \E n \in 1 .. GridWidth + GridHeight : Open(c, d, n) /\ Corner(d, Ahead(c, d, n))
-----------------------------------------------------------------------------
Smallest(e) == e \in open /\ \A o \in open : ~ Less(o.key, e.key)

(* An iteration of find: of all nodes only the first is expanded, and only  *)
(* in the four straight directions.                                         *)
Find ==
  /\ state = "searching" /\ jumps = << >>
  /\ \E e \in open :
       /\ Smallest(e)
       /\ open' = open \ {e}
       /\ close' = [ close EXCEPT ![e.cell].isOpen = FALSE ]
       /\ state' = IF e.cell = goal THEN "found" ELSE "searching"
       /\ cur' = [ cell |-> e.cell, g |-> e.node.g ]
       /\ jumps' = IF e.cell # goal /\ e.node.dir = Null
                   THEN << UU, DD, LL, RR >> ELSE << >>
       /\ dist' = 0
  /\ UNCHANGED << mapVars, calls >>

NotFound ==
  /\ state = "searching" /\ jumps = << >> /\ open = {}
  /\ state' = "failed"
  /\ UNCHANGED << mapVars, listVars, cur, jumps, dist, calls >>

(* A caller of a diagonal jump. *)
Call(c, d) ==
  /\ state # "searching" /\ jumps = << >> /\ calls < MaxCalls
  /\ ~ close[c].isOpen
  /\ cur' = [ cell |-> c, g |-> close[c].node.g ]
  /\ jumps' = << d >>
  /\ dist' = 0
  /\ calls' = calls + 1
  /\ UNCHANGED << mapVars, listVars, state >>
-----------------------------------------------------------------------------
(* The iteration of a jump looks at the next cell. *)
Jumping(name)  == jumps # << >> /\ Head(jumps) = name
Here(d)        == Ahead(cur.cell, d, dist + 1)
Return         == jumps' = Tail(jumps) /\ dist' = 0
Continue       == jumps' = jumps /\ dist' = dist + 1

(* Mutant: the last step is not counted. *)
MutReached(d) == Node(cur.cell, Along(cur.g, dist, d \in Diagonal), d)

(* The node at c that a jump in direction d comes to. *)
Reached(d)     == Node(cur.cell, Along(cur.g, dist + 1, d \in Diagonal), d)

(* Mutant: the old entry stays in the open list. *)
MutReplaced(c) == {}

Replaced(c) == { o \in open : o.cell = c /\ o.key = F(close[c].node.g, c, goal) }

(* The node is put into both lists, in place of an older one if there is.   *)
Enter(c, node) ==
  /\ open' = (open \ (IF c \in DOMAIN close THEN Replaced(c) ELSE {})) \cup
             { [ cell |-> c, node |-> node, key |-> F(node.g, c, goal) ] }
  /\ close' = [ b \in DOMAIN close \cup {c} |->
                  IF b = c THEN [ node |-> node, isOpen |-> TRUE ] ELSE close[b] ]

(* A node reached before is replaced while it is open, by a smaller F; of   *)
(* equal ones either may come out as smaller.                               *)
Improves(c, node) ==
  /\ c \in DOMAIN close /\ close[c].isOpen
  /\ \/ Less(F(node.g, c, goal), F(close[c].node.g, c, goal))
     \/ node.g = close[c].node.g

Keeps(c, node) ==
  /\ c \in DOMAIN close
  /\ close[c].isOpen => ~ Less(F(node.g, c, goal), F(close[c].node.g, c, goal))

Enters(c, node) == c \notin DOMAIN close \/ Improves(c, node)

(* The end of a jump at a corner. *)
Register(c, node) ==
  \/ Enters(c, node) /\ Enter(c, node)
  \/ Keeps(c, node) /\ UNCHANGED listVars

StraightJump(d, corner) ==
  LET c == Here(d)
  IN  \/ ~ Free(c) /\ Return /\ UNCHANGED listVars
      \/ Free(c) /\ ~ corner /\ Continue /\ UNCHANGED listVars
      \/ Free(c) /\ corner /\ Return /\ Register(c, Reached(d))

(* A diagonal jump also makes a node where one of its two straight jumps    *)
(* meets a corner, and goes on behind it unless an older node stays.        *)
DiagonalJump(d, corner, sides) ==
  LET c    == Here(d)
      duty == \E s \in sides : Meets(c, s)
  IN  \/ ~ Free(c) /\ Return /\ UNCHANGED listVars
      \/ Free(c) /\ corner /\ Return /\ Register(c, Reached(d))
      \/ Free(c) /\ ~ corner /\ ~ duty /\ Continue /\ UNCHANGED listVars
      \/ /\ Free(c) /\ ~ corner /\ duty
         /\ \/ Enters(c, Reached(d)) /\ Continue /\ Enter(c, Reached(d))
            \/ Keeps(c, Reached(d)) /\ Return /\ UNCHANGED listVars

JumpUU == Jumping(UU) /\ StraightJump(UU, CornerUU(Here(UU)))
JumpDD == Jumping(DD) /\ StraightJump(DD, CornerDD(Here(DD)))
JumpLL == Jumping(LL) /\ StraightJump(LL, CornerLL(Here(LL)))
JumpRR == Jumping(RR) /\ StraightJump(RR, CornerRR(Here(RR)))
JumpLU == Jumping(LU) /\ DiagonalJump(LU, CornerLU(Here(LU)), {UU, LL})
JumpRU == Jumping(RU) /\ DiagonalJump(RU, CornerRU(Here(RU)), {UU, RR})
JumpLD == Jumping(LD) /\ DiagonalJump(LD, CornerLD(Here(LD)), {DD, LL})

(* JumpRD is a copy of JumpLD: it goes, and marks its nodes, down left. *)
JumpRD == Jumping(RD) /\ DiagonalJump(LD, CornerRD(Here(LD)), {DD, LL})

Jump ==
  /\ \/ JumpUU \/ JumpDD \/ JumpLL \/ JumpRR
     \/ JumpLU \/ JumpRU \/ JumpLD \/ JumpRD
  /\ UNCHANGED << mapVars, state, cur, calls >>

Next ==
  \/ Find \/ NotFound \/ Jump
  \/ \E c \in DOMAIN close, d \in Diagonal : Call(c, d)

Spec == Init /\ [][Next]_vars
-----------------------------------------------------------------------------
(* The two lists say the same of every node that is open, under the key     *)
(* by which it will be found when it is replaced (JumpPointSearch.cpp:40,   *)
(* 252 and 274).                                                            *)
ListsAgree ==
  /\ \A c \in DOMAIN close : close[c].isOpen =>
       \E o \in open : /\ o.cell = c
                       /\ o.node = close[c].node
                       /\ c # start => o.key = F(o.node.g, c, goal)
  /\ \A o \in open : close[o.cell].isOpen
  /\ \A o, u \in open : o.cell = u.cell => o = u

(* Every node lies on a free line from its parent, in the direction it is   *)
(* marked with and at the distance its cost says, although nodes are        *)
(* replaced by others reached from elsewhere; and parents are nodes that    *)
(* have been visited.                                                       *)
NodesInLine ==
  \A c \in DOMAIN close \ {start} :
    LET n == close[c].node
    IN  /\ n.parent \in DOMAIN close /\ ~ close[n.parent].isOpen
        /\ \E k \in 1 .. GridWidth + GridHeight :
             /\ c = Ahead(n.parent, n.dir, k)
             /\ Open(n.parent, n.dir, k)
             /\ n.g = Along(close[n.parent].node.g, k, n.dir \in Diagonal)
==============================================================================
