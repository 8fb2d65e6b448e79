----------------------------- MODULE AStarProofs -----------------------------
(***************************************************************************)
(* AStar for every size of the grid, every map, start and goal: the two    *)
(* lists agree, parents lead to the start, and the search finds a path     *)
(* exactly when there is one.                                              *)
(***************************************************************************)
EXTENDS PathFinder, TLAPS

Pairs == Nat \X Nat

(* The mark of a first node is no cell. *)
LEMMA NoneIsNoCell == None \notin Cells
BY TileAssumption DEF None, Cells

(* Costs and keys are pairs of numbers. *)
LEMMA CostsArePairs ==
  ASSUME NEW g \in Pairs, NEW c \in Cells, NEW to \in Cells
  PROVE  F(g, c, to) \in Pairs /\ G(g, c, to) \in Pairs /\ << H(c, to), 0 >> \in Pairs
<1>1. /\ c[1] \in Int /\ c[2] \in Int /\ to[1] \in Int /\ to[2] \in Int
      /\ g[1] \in Nat /\ g[2] \in Nat
  BY TileAssumption DEF Cells, Pairs
<1>2. \A i \in Int : Abs(i) \in Nat
  BY DEF Abs
<1>3. H(c, to) \in Nat
  BY <1>1, <1>2 DEF H
<1>4. F(g, c, to) \in Pairs
  BY <1>1, <1>3 DEF F, Pairs
<1>5. G(g, c, to) \in Pairs
  BY <1>1 DEF G, Along, Pairs
<1>6. QED
  BY <1>3, <1>4, <1>5 DEF Pairs

(* Neighbours are other cells, on no wall. *)
LEMMA NeighboursAreOthers ==
  ASSUME NEW c \in Cells, NEW n \in Neighbours(c, wall)
  PROVE  n \in Cells \ wall /\ n # c
<1>1. PICK d \in Compass : n = Beside(c, d)
  BY DEF Neighbours
<1>2. \A i \in 1 .. 8 : /\ DeltaY[i] \in Int /\ DeltaX[i] \in Int
                        /\ DeltaY[i] # 0 \/ DeltaX[i] # 0
  BY DEF DeltaY, DeltaX
<1>3. d \in 1 .. 8
  BY DEF Compass, Straight, Diagonal
<1>4. c[1] \in Int /\ c[2] \in Int
  BY TileAssumption DEF Cells
<1>5. n[1] # c[1] \/ n[2] # c[2]
  <2>1. PICK y \in Int, x \in Int : y = DeltaY[d] /\ x = DeltaX[d]
    BY <1>2, <1>3
  <2>2. n = << c[1] + y, c[2] + x >> /\ (y # 0 \/ x # 0)
    BY <1>1, <1>2, <1>3, <2>1 DEF Beside
  <2>3. QED
    BY <1>4, <2>1, <2>2
<1>6. QED
  BY <1>5 DEF Neighbours

(* PathSearch's grid is the same. *)
LEMMA SameNeighbours ==
  /\ Promise!Cells = Cells /\ Promise!None = None
  /\ \A c, w : Promise!Neighbours(c, w) = Neighbours(c, w)
BY DEF Promise!Cells, Cells, Promise!None, None, Promise!Neighbours, Neighbours,
       Promise!Compass, Compass, Promise!Straight, Straight, Promise!Diagonal, Diagonal,
       Promise!Beside, Beside, Promise!DeltaY, DeltaY, Promise!DeltaX, DeltaX

-----------------------------------------------------------------------------
(* The start is the first node, and open only before the first step. *)
StartFirst ==
  /\ close[start].parent = None
  /\ close[start].g = << 0, 0 >>
  /\ close[start].isOpen => DOMAIN close = {start}

(* Every other node hangs on a closed one beside it. *)
Hanging(c) ==
  LET p == close[c].parent
  IN  /\ p \in DOMAIN close
      /\ ~ close[p].isOpen
      /\ c \in Neighbours(p, wall)
      /\ close[c].g = G(close[p].g, p, c)

(* A closed cell other than the goal has all its neighbours reached. *)
Explored ==
  \A c \in DOMAIN close :
    ~ close[c].isOpen => \/ c = goal /\ state = "found"
                         \/ c # goal /\ Neighbours(c, wall) \subseteq DOMAIN close

(* What is reached can be reached. *)
Within == \A S : Promise!Confining(S) => DOMAIN close \subseteq S

IterFollows ==
  /\ state # "found" => iter = None
  /\ state = "found" => iter \in DOMAIN close /\ goal \in DOMAIN close

IInv ==
  /\ TypeOK /\ ListsAgree
  /\ StartFirst
  /\ \A c \in DOMAIN close \ {start} : Hanging(c)
  /\ Explored /\ Within /\ IterFollows

(* The invariant holds at the start. *)
LEMMA InitInv == Init => IInv
<1>1. SUFFICES ASSUME Init PROVE IInv
  OBVIOUS
<1>2. /\ wall \subseteq Cells /\ start \in Cells /\ goal \in Cells
      /\ DOMAIN close = {start} /\ close[start] = First
      /\ state = "searching" /\ iter = None
  BY <1>1, SearchAssumption DEF Init
<1>3. << H(start, goal), 0 >> \in Pairs /\ << 0, 0 >> \in Pairs
  BY <1>2, CostsArePairs DEF Pairs
<1>4. TypeOK
  <2>1. First \in Nodes
    BY <1>3 DEF First, Nodes, Pairs
  <2>2. open \subseteq [ cell : DOMAIN close, parent : Cells \cup {None},
                         g : Pairs, key : Pairs ]
    BY <1>1, <1>2, <1>3 DEF Init
  <2>3. QED
    BY <1>2, <2>1, <2>2 DEF TypeOK, Pairs
<1>5. ListsAgree
  BY <1>1, <1>2 DEF Init, ListsAgree, First
<1>6. StartFirst /\ Explored /\ IterFollows
  BY <1>2 DEF StartFirst, Explored, IterFollows, First
<1>7. Within
  BY <1>2 DEF Within, Promise!Confining
<1>8. QED
  BY <1>2, <1>4, <1>5, <1>6, <1>7 DEF IInv

-----------------------------------------------------------------------------
(* What Expand does, in terms of the cells that are given a node. *)
Entry(e, n) == [ cell |-> n, parent |-> e.cell, g |-> G(e.g, e.cell, n),
                 key |-> F(G(e.g, e.cell, n), n, goal) ]

Expanded(e, set) ==
  /\ set \subseteq Neighbours(e.cell, wall)
  /\ Neighbours(e.cell, wall) \subseteq DOMAIN close \cup set
  /\ \A n \in set \cap DOMAIN close : close[n].isOpen
  /\ DOMAIN close' = DOMAIN close \cup set
  /\ \A n \in set :
       close'[n] = [ parent |-> e.cell, g |-> G(e.g, e.cell, n), isOpen |-> TRUE ]
  /\ \A c \in DOMAIN close \ set :
       close'[c] = IF c = e.cell THEN [ close[c] EXCEPT !.isOpen = FALSE ] ELSE close[c]
  /\ \A n \in set : Entry(e, n) \in open'
  /\ \A o \in open' :
       \/ \E n \in set : o = Entry(e, n)
       \/ /\ o \in open /\ o # e
          /\ o.cell \in set \cap DOMAIN close =>
               o.key # F(close[o.cell].g, o.cell, goal)
  /\ \A o \in open : o # e /\ o.cell \notin set => o \in open'

(* An iteration of the search's loop relaxes the neighbours of its cell.   *)
LEMMA ExpandExpands ==
  ASSUME TypeOK, NEW e \in open, Expand(e)
  PROVE  \E set : Expanded(e, set)
<1> DEFINE N      == Neighbours(e.cell, wall)
           cost   == [ n \in N |-> G(e.g, e.cell, n) ]
           new    == N \ DOMAIN close
           known  == { n \in N \cap DOMAIN close : Improvable(n) }
           better == { n \in known : Less(F(cost[n], n, goal), F(close[n].g, n, goal)) }
           tied   == { n \in known : cost[n] = close[n].g }
<1>1. PICK luck \in SUBSET tied :
        LET set == new \cup better \cup luck
        IN  /\ open' = (Popped(e) \ Replaced(set \ new)) \cup
                         { [ cell |-> n, parent |-> e.cell, g |-> cost[n],
                             key |-> F(cost[n], n, goal) ] : n \in set }
            /\ close' = [ c \in DOMAIN close \cup new |->
                            IF c \in set
                            THEN [ parent |-> e.cell, g |-> cost[c], isOpen |-> TRUE ]
                            ELSE Taken(e.cell)[c] ]
  BY Zenon DEF Expand
<1> DEFINE set == new \cup better \cup luck
<1>2. /\ set \subseteq N /\ N \subseteq DOMAIN close \cup set
      /\ set \ new = set \cap DOMAIN close
      /\ DOMAIN close \cup new = DOMAIN close \cup set
  OBVIOUS
<1>3. \A n \in set \cap DOMAIN close : close[n].isOpen
  BY DEF Improvable
<1>4. \A n \in N : cost[n] = G(e.g, e.cell, n)
  OBVIOUS
<1>5. e.cell \in DOMAIN close
  BY DEF TypeOK
<1>6. open' = (Popped(e) \ Replaced(set \cap DOMAIN close)) \cup { Entry(e, n) : n \in set }
  <2>1. { [ cell |-> n, parent |-> e.cell, g |-> cost[n], key |-> F(cost[n], n, goal) ] :
            n \in set } = { Entry(e, n) : n \in set }
    BY <1>2, <1>4 DEF Entry
  <2>2. QED
    BY <1>1, <1>2, <2>1, Zenon
<1>7. close' = [ c \in DOMAIN close \cup set |->
                   IF c \in set
                   THEN [ parent |-> e.cell, g |-> cost[c], isOpen |-> TRUE ]
                   ELSE Taken(e.cell)[c] ]
  BY <1>1, <1>2, Zenon
<1> HIDE DEF set
<1>8. DOMAIN close' = DOMAIN close \cup set
  BY <1>7
<1>9. \A n \in set :
        close'[n] = [ parent |-> e.cell, g |-> G(e.g, e.cell, n), isOpen |-> TRUE ]
  BY <1>2, <1>4, <1>7
<1>10. ASSUME NEW c \in DOMAIN close \ set
       PROVE  close'[c] = IF c = e.cell THEN [ close[c] EXCEPT !.isOpen = FALSE ] ELSE close[c]
  <2>1. close'[c] = Taken(e.cell)[c]
    BY <1>7
  <2>2. QED
    BY <1>5, <2>1 DEF Taken, TypeOK, Nodes
<1>11. \A n \in set : Entry(e, n) \in open'
  BY <1>6
<1>12. \A o \in open' :
        \/ \E n \in set : o = Entry(e, n)
        \/ /\ o \in open /\ o # e
           /\ o.cell \in set \cap DOMAIN close => o.key # F(close[o.cell].g, o.cell, goal)
  BY <1>6 DEF Popped, Replaced
<1>13. \A o \in open : o # e /\ o.cell \notin set => o \in open'
  BY <1>6 DEF Popped, Replaced
<1>14. Expanded(e, set)
  BY <1>2, <1>3, <1>8, <1>9, <1>10, <1>11, <1>12, <1>13 DEF Expanded
<1>15. QED
  BY <1>14

-----------------------------------------------------------------------------
(* An iteration of the loop keeps the invariant, whichever entry it takes. *)
LEMMA ExpandInv ==
  ASSUME IInv, state = "searching", NEW e \in open, Expand(e)
  PROVE  IInv'
<1>1. PICK set : Expanded(e, set)
  BY ExpandExpands DEF IInv
<1>2. UNCHANGED << wall, start, goal, state, iter >> /\ e.cell # goal
  BY DEF Expand
<1>3. /\ wall \subseteq Cells /\ start \in Cells /\ goal \in Cells
      /\ e.cell \in DOMAIN close /\ e.cell \in Cells /\ e.g \in Pairs
      /\ DOMAIN close \subseteq (Cells \ wall) \cup {start} /\ start \in DOMAIN close
  BY DEF IInv, TypeOK, Pairs
<1>4. close[e.cell].isOpen /\ close[e.cell].g = e.g
  BY <1>3 DEF IInv, ListsAgree
<1>5. /\ set \subseteq Cells \ wall
      /\ e.cell \notin set
  BY <1>1, <1>3, NeighboursAreOthers DEF Expanded
<1>6. start \notin set
  <2>1. SUFFICES ASSUME start \in set PROVE FALSE
    OBVIOUS
  <2>2. DOMAIN close = {start}
    BY <1>1, <1>3, <2>1 DEF Expanded, IInv, StartFirst
  <2>3. QED
    BY <1>3, <1>5, <2>1, <2>2
<1>7. /\ DOMAIN close' = DOMAIN close \cup set
      /\ \A n \in set :
           close'[n] = [ parent |-> e.cell, g |-> G(e.g, e.cell, n), isOpen |-> TRUE ]
      /\ close'[e.cell] = [ close[e.cell] EXCEPT !.isOpen = FALSE ]
      /\ \A c \in DOMAIN close \ set : c # e.cell => close'[c] = close[c]
  BY <1>1, <1>3, <1>5 DEF Expanded
<1>8. ASSUME NEW o \in open'
      PROVE  \/ \E n \in set : o = Entry(e, n)
             \/ o \in open /\ o.cell # e.cell /\ o.cell \in DOMAIN close \ set
  <2>1. SUFFICES ASSUME o \in open, o # e,
                        o.cell \in set \cap DOMAIN close =>
                          o.key # F(close[o.cell].g, o.cell, goal)
                 PROVE  o.cell # e.cell /\ o.cell \in DOMAIN close \ set
    BY <1>1, <1>8 DEF Expanded
  <2>2. o.cell \in DOMAIN close /\ close[o.cell].isOpen
    BY <2>1 DEF IInv, ListsAgree, TypeOK
  <2>3. o.cell # start => o.key = F(close[o.cell].g, o.cell, goal)
    BY <2>1, <2>2 DEF IInv, ListsAgree
  <2>4. QED
    BY <1>6, <2>1, <2>2, <2>3 DEF IInv, ListsAgree
<1>9. \A n \in set : /\ G(e.g, e.cell, n) \in Pairs
                     /\ F(G(e.g, e.cell, n), n, goal) \in Pairs
  <2>1. SUFFICES ASSUME NEW n \in set
                 PROVE  /\ G(e.g, e.cell, n) \in Pairs
                        /\ F(G(e.g, e.cell, n), n, goal) \in Pairs
    OBVIOUS
  <2>2. n \in Cells /\ G(e.g, e.cell, n) \in Pairs
    BY <1>3, <1>5, CostsArePairs
  <2>3. QED
    BY <1>3, <2>2, CostsArePairs
<1>10. TypeOK'
  <2>1. \A c \in DOMAIN close' : close'[c] \in Nodes
    <3>1. SUFFICES ASSUME NEW c \in DOMAIN close' PROVE close'[c] \in Nodes
      OBVIOUS
    <3>2. CASE c \in set
      <4>1. PICK cost \in Pairs : cost = G(e.g, e.cell, c)
        BY <1>9, <3>2
      <4>2. close'[c] = [ parent |-> e.cell, g |-> cost, isOpen |-> TRUE ]
        BY <1>7, <3>2, <4>1
      <4>3. QED
        BY <1>3, <4>2 DEF Nodes, Pairs
    <3>3. CASE c \notin set
      <4>1. c \in DOMAIN close /\ close[c] \in Nodes
        BY <1>7, <3>1, <3>3 DEF IInv, TypeOK
      <4>2. close'[c] = close[c] \/ close'[c] = [ close[c] EXCEPT !.isOpen = FALSE ]
        BY <1>7, <3>3, <4>1
      <4>3. QED
        BY <4>1, <4>2 DEF Nodes
    <3>4. QED
      BY <3>2, <3>3
  <2>2. \A n \in set : Entry(e, n) \in [ cell : DOMAIN close', parent : Cells \cup {None},
                                         g : Pairs, key : Pairs ]
    BY <1>3, <1>7, <1>9 DEF Entry
  <2>3. \A o \in open : o \in [ cell : DOMAIN close', parent : Cells \cup {None},
                                g : Pairs, key : Pairs ]
    BY <1>7 DEF IInv, TypeOK, Pairs
  <2>4. open' \subseteq [ cell : DOMAIN close', parent : Cells \cup {None},
                          g : Pairs, key : Pairs ]
    BY <1>8, <2>2, <2>3
  <2>5. DOMAIN close' \subseteq (Cells \ wall) \cup {start} /\ start \in DOMAIN close'
    BY <1>3, <1>5, <1>7
  <2>6. iter \in DOMAIN close' \cup {None} /\ state \in {"searching", "found", "failed"}
    BY <1>7 DEF IInv, TypeOK
  <2>7. QED
    BY <1>2, <1>3, <2>1, <2>4, <2>5, <2>6 DEF TypeOK, Pairs
<1>11. ListsAgree'
  <2>1. ASSUME NEW c \in DOMAIN close', close'[c].isOpen
        PROVE  \E o \in open' : /\ o.cell = c
                                /\ o.parent = close'[c].parent
                                /\ o.g = close'[c].g
                                /\ c # start => o.key = F(close'[c].g, c, goal)
    <3>1. CASE c \in set
      <4>1. Entry(e, c) \in open'
        BY <1>1, <3>1 DEF Expanded
      <4>2. QED
        BY <1>7, <3>1, <4>1 DEF Entry
    <3>2. CASE c \notin set
      <4>1. c \in DOMAIN close /\ c # e.cell /\ close'[c] = close[c]
        BY <1>7, <2>1, <3>2 DEF IInv, TypeOK, Nodes
      <4>2. PICK o \in open : /\ o.cell = c
                              /\ o.parent = close[c].parent
                              /\ o.g = close[c].g
                              /\ c # start => o.key = F(close[c].g, c, goal)
        BY <2>1, <4>1 DEF IInv, ListsAgree
      <4>3. o \in open'
        BY <1>1, <3>2, <4>1, <4>2 DEF Expanded
      <4>4. QED
        BY <4>1, <4>2, <4>3
    <3>3. QED
      BY <3>1, <3>2
  <2>2. ASSUME NEW o \in open' PROVE close'[o.cell].isOpen
    BY <1>7, <1>8, <2>2 DEF Entry, IInv, ListsAgree
  <2>3. ASSUME NEW o \in open', NEW u \in open', o.cell = u.cell PROVE o = u
    <3>1. CASE o.cell \in set
      <4>1. PICK n \in set : o = Entry(e, n)
        BY <1>8, <3>1
      <4>2. PICK m \in set : u = Entry(e, m)
        BY <1>8, <2>3, <3>1
      <4>3. QED
        BY <2>3, <4>1, <4>2 DEF Entry
    <3>2. CASE o.cell \notin set
      BY <1>8, <2>3, <3>2 DEF Entry, IInv, ListsAgree
    <3>3. QED
      BY <3>1, <3>2
  <2>4. QED
    BY <1>2, <2>1, <2>2, <2>3 DEF ListsAgree
<1>12. StartFirst'
  BY <1>2, <1>3, <1>4, <1>6, <1>7 DEF IInv, StartFirst, TypeOK, Nodes
<1>13. ASSUME NEW c \in DOMAIN close' \ {start'} PROVE Hanging(c)'
  <2>1. CASE c \in set
    <3>1. /\ close'[c].parent = e.cell /\ close'[c].g = G(e.g, e.cell, c)
          /\ e.cell \in DOMAIN close' /\ ~ close'[e.cell].isOpen
          /\ close'[e.cell].g = e.g
      BY <1>3, <1>4, <1>7, <2>1 DEF IInv, TypeOK, Nodes
    <3>2. c \in Neighbours(e.cell, wall)
      BY <1>1, <2>1 DEF Expanded
    <3>3. QED
      BY <1>2, <3>1, <3>2 DEF Hanging
  <2>2. CASE c \notin set
    <3>1. c \in DOMAIN close /\ Hanging(c)
      BY <1>2, <1>7, <1>13, <2>2 DEF IInv
    <3>2. PICK p : p = close[c].parent
      OBVIOUS
    <3>3. /\ p \in DOMAIN close /\ ~ close[p].isOpen
          /\ c \in Neighbours(p, wall) /\ close[c].g = G(close[p].g, p, c)
      BY <3>1, <3>2 DEF Hanging
    <3>4. p \notin set /\ p # e.cell
      BY <1>1, <1>4, <3>3 DEF Expanded
    <3>5. close'[p] = close[p] /\ p \in DOMAIN close'
      BY <1>7, <3>3, <3>4
    <3>6. close'[c].parent = p /\ close'[c].g = close[c].g
      BY <1>7, <2>2, <3>1, <3>2 DEF IInv, TypeOK, Nodes
    <3>7. QED
      BY <1>2, <3>3, <3>5, <3>6 DEF Hanging
  <2>3. QED
    BY <2>1, <2>2
<1>14. Explored'
  <2>1. SUFFICES ASSUME NEW c \in DOMAIN close', ~ close'[c].isOpen
                 PROVE  c # goal /\ Neighbours(c, wall) \subseteq DOMAIN close'
    BY <1>2 DEF Explored
  <2>2. c \in DOMAIN close \ set
    BY <1>7, <2>1
  <2>3. CASE c = e.cell
    BY <1>1, <1>2, <1>7, <2>3 DEF Expanded
  <2>4. CASE c # e.cell
    BY <1>7, <2>1, <2>2, <2>4 DEF IInv, Explored
  <2>5. QED
    BY <2>3, <2>4
<1>15. Within'
  <2>1. SUFFICES ASSUME NEW S, Promise!Confining(S)' PROVE DOMAIN close' \subseteq S
    BY DEF Within
  <2>2. Promise!Confining(S)
    BY <1>2, <2>1 DEF Promise!Confining
  <2>3. DOMAIN close \subseteq S
    BY <2>2 DEF IInv, Within
  <2>4. Neighbours(e.cell, wall) \subseteq S
    BY <1>3, <2>2, <2>3, SameNeighbours DEF Promise!Confining
  <2>5. QED
    BY <1>1, <1>7, <2>3, <2>4 DEF Expanded
<1>16. IterFollows'
  BY <1>2 DEF IInv, IterFollows
<1>17. QED
  BY <1>10, <1>11, <1>12, <1>13, <1>14, <1>15, <1>16 DEF IInv

(* So does the iteration that finds the goal. *)
LEMMA FoundInv ==
  ASSUME IInv, state = "searching", NEW e \in open, Found(e)
  PROVE  IInv'
<1>1. /\ UNCHANGED << wall, start, goal >> /\ e.cell = goal
      /\ open' = open \ {e} /\ iter' = goal /\ state' = "found"
  BY DEF Found, Popped
<1>2. /\ DOMAIN close' = DOMAIN close /\ goal \in DOMAIN close
      /\ close'[goal] = [ close[goal] EXCEPT !.isOpen = FALSE ]
      /\ \A c \in DOMAIN close : c # goal => close'[c] = close[c]
  BY <1>1 DEF Found, Taken, IInv, TypeOK
<1>3. \A c \in DOMAIN close : /\ close'[c] \in Nodes
                              /\ close'[c].parent = close[c].parent
                              /\ close'[c].g = close[c].g
                              /\ close'[c].isOpen <=> close[c].isOpen /\ c # goal
  <2>1. TAKE c \in DOMAIN close
  <2>2. close[c] \in Nodes
    BY DEF IInv, TypeOK
  <2>3. CASE c = goal
    BY <1>2, <2>2, <2>3 DEF Nodes
  <2>4. CASE c # goal
    BY <1>2, <2>2, <2>4
  <2>5. QED
    BY <2>3, <2>4
<1>4. TypeOK'
  BY <1>1, <1>2, <1>3 DEF IInv, TypeOK
<1>5. ListsAgree'
  <2>1. ASSUME NEW c \in DOMAIN close', close'[c].isOpen
        PROVE  \E o \in open' : /\ o.cell = c
                                /\ o.parent = close'[c].parent
                                /\ o.g = close'[c].g
                                /\ c # start => o.key = F(close'[c].g, c, goal)
    <3>1. PICK o \in open : /\ o.cell = c
                            /\ o.parent = close[c].parent
                            /\ o.g = close[c].g
                            /\ c # start => o.key = F(close[c].g, c, goal)
      BY <1>2, <1>3, <2>1 DEF IInv, ListsAgree
    <3>2. o \in open'
      BY <1>1, <1>2, <1>3, <2>1, <3>1
    <3>3. QED
      BY <1>2, <1>3, <3>1, <3>2
  <2>2. ASSUME NEW o \in open' PROVE close'[o.cell].isOpen
    <3>1. o \in open /\ o.cell # goal /\ close[o.cell].isOpen /\ o.cell \in DOMAIN close
      BY <1>1, <2>2 DEF IInv, ListsAgree, TypeOK
    <3>2. QED
      BY <1>3, <3>1
  <2>3. ASSUME NEW o \in open', NEW u \in open', o.cell = u.cell PROVE o = u
    BY <1>1, <2>3 DEF IInv, ListsAgree
  <2>4. QED
    BY <1>1, <2>1, <2>2, <2>3 DEF ListsAgree
<1>6. StartFirst'
  BY <1>1, <1>2, <1>3 DEF IInv, StartFirst, TypeOK
<1>7. ASSUME NEW c \in DOMAIN close' \ {start'} PROVE Hanging(c)'
  <2>1. c \in DOMAIN close /\ Hanging(c)
    BY <1>1, <1>2, <1>7 DEF IInv
  <2>2. QED
    BY <1>1, <1>2, <1>3, <2>1 DEF Hanging
<1>8. Explored'
  BY <1>1, <1>2, <1>3 DEF IInv, Explored
<1>9. Within'
  BY <1>1, <1>2 DEF IInv, Within, Promise!Confining
<1>10. IterFollows'
  BY <1>1, <1>2 DEF IterFollows
<1>11. QED
  BY <1>4, <1>5, <1>6, <1>7, <1>8, <1>9, <1>10 DEF IInv

(* The drawing goes from a cell to its parent, and from the start back to  *)
(* the goal.                                                               *)
LEMMA DrawnStep ==
  ASSUME IInv, state = "found"
  PROVE  /\ DrawnFrom(iter) \in DOMAIN close
         /\ \/ iter = start /\ DrawnFrom(iter) = goal
            \/ iter # start /\ iter \in Neighbours(DrawnFrom(iter), wall)
<1>1. iter \in DOMAIN close /\ goal \in DOMAIN close
  BY DEF IInv, IterFollows
<1>2. CASE iter = start
  BY <1>1, <1>2 DEF DrawnFrom, IInv, StartFirst
<1>3. CASE iter # start
  <2>1. Hanging(iter)
    BY <1>1, <1>3 DEF IInv
  <2>2. close[iter].parent # None
    BY <2>1, NoneIsNoCell DEF Hanging, IInv, TypeOK
  <2>3. QED
    BY <1>3, <2>1, <2>2 DEF DrawnFrom, Hanging
<1>4. QED
  BY <1>2, <1>3

(* Every step of the search and of the drawing keeps the invariant. *)
LEMMA NextInv == IInv /\ [Next]_vars => IInv'
<1>1. SUFFICES ASSUME IInv, [Next]_vars PROVE IInv'
  OBVIOUS
<1>2. CASE Step
  BY <1>1, <1>2, FoundInv, ExpandInv DEF Step
<1>3. CASE NotFound
  <2>1. UNCHANGED << wall, start, goal, open, close, iter >> /\ state = "searching"
        /\ state' = "failed"
    BY <1>3 DEF NotFound
  <2>2. TypeOK' /\ ListsAgree' /\ StartFirst' /\ Within' /\ IterFollows'
    BY <1>1, <2>1 DEF IInv, TypeOK, ListsAgree, StartFirst, Within, Promise!Confining,
                      IterFollows
  <2>3. Explored' /\ \A c \in DOMAIN close' \ {start'} : Hanging(c)'
    BY <1>1, <2>1 DEF IInv, Explored, Hanging
  <2>4. QED
    BY <2>2, <2>3 DEF IInv
<1>4. CASE GetNextPosition
  <2>1. UNCHANGED << wall, start, goal, open, close, state >> /\ state = "found"
        /\ iter' \in DOMAIN close
    BY <1>1, <1>4, DrawnStep DEF GetNextPosition
  <2>2. TypeOK' /\ ListsAgree' /\ StartFirst' /\ Within' /\ IterFollows'
    BY <1>1, <2>1 DEF IInv, TypeOK, ListsAgree, StartFirst, Within, Promise!Confining,
                      IterFollows
  <2>3. Explored' /\ \A c \in DOMAIN close' \ {start'} : Hanging(c)'
    BY <1>1, <2>1 DEF IInv, Explored, Hanging
  <2>4. QED
    BY <2>2, <2>3 DEF IInv
<1>5. CASE UNCHANGED vars
  <2>1. TypeOK' /\ ListsAgree' /\ StartFirst' /\ Within' /\ IterFollows'
    BY <1>1, <1>5 DEF vars, IInv, TypeOK, ListsAgree, StartFirst, Within,
                      Promise!Confining, IterFollows
  <2>2. Explored' /\ \A c \in DOMAIN close' \ {start'} : Hanging(c)'
    BY <1>1, <1>5 DEF vars, IInv, Explored, Hanging
  <2>3. QED
    BY <2>1, <2>2 DEF IInv
<1>6. QED
  BY <1>1, <1>2, <1>3, <1>4, <1>5 DEF Next

-----------------------------------------------------------------------------
(* Cells, costs and entries keep their types, for every map. *)
THEOREM TypesKept == Spec => []TypeOK
<1>1. IInv => TypeOK
  BY DEF IInv
<1>2. QED
  BY <1>1, InitInv, NextInv, PTL DEF Spec

(* The open and the close list say the same of every node, however often    *)
(* costs fall (A_STAR.cpp:146-172).                                         *)
THEOREM TheListsAgree == Spec => []ListsAgree
<1>1. IInv => ListsAgree
  BY DEF IInv
<1>2. QED
  BY <1>1, InitInv, NextInv, PTL DEF Spec

(* Parents lead to the start, a cost nearer with each, through no wall.     *)
THEOREM TheParentsLead == Spec => []ParentsLead
<1>1. IInv => ParentsLead
  <2>1. SUFFICES ASSUME IInv, NEW c \in DOMAIN close, c # start \/ c = start
                 PROVE  \/ c = start /\ close[c] = [ First EXCEPT !.isOpen = close[c].isOpen ]
                        \/ LET p == close[c].parent
                           IN  /\ p \in DOMAIN close
                               /\ ~ close[p].isOpen
                               /\ c \in Neighbours(p, wall)
                               /\ close[c].g = G(close[p].g, p, c)
    BY DEF ParentsLead
  <2>2. CASE c = start
    BY <2>1, <2>2 DEF IInv, StartFirst, First, TypeOK, Nodes
  <2>3. CASE c # start
    BY <2>1, <2>3 DEF IInv, Hanging
  <2>4. QED
    BY <2>2, <2>3
<1>2. QED
  BY <1>1, InitInv, NextInv, PTL DEF Spec

-----------------------------------------------------------------------------
(* A goal that was reached can be reached. *)
LEMMA FoundIsReachable ==
  ASSUME IInv, goal \in DOMAIN close
  PROVE  Promise!Reachable
BY DEF IInv, Within, Promise!Reachable

(* When the open list is empty the cells reached are all there are. *)
LEMMA EmptyIsUnreachable ==
  ASSUME IInv, state = "searching", open = {}
  PROVE  ~ Promise!Reachable
<1>1. \A c \in DOMAIN close : ~ close[c].isOpen
  BY DEF IInv, ListsAgree
<1>2. \A c \in DOMAIN close : c # goal /\ Neighbours(c, wall) \subseteq DOMAIN close
  BY <1>1 DEF IInv, Explored
<1>3. Promise!Confining(DOMAIN close)
  BY <1>2, SameNeighbours DEF Promise!Confining, IInv, TypeOK
<1>4. DOMAIN close \subseteq ((Cells \ wall) \cup {start}) \ {goal}
  BY <1>2 DEF IInv, TypeOK
<1>5. QED
  BY <1>3, <1>4, SameNeighbours DEF Promise!Reachable

(* Every step is one of the promise or changes nothing it speaks of. *)
LEMMA StepKeepsPromise ==
  IInv /\ [Next]_vars => [Promise!Next]_<< wall, start, goal, state, iter >>
<1>1. SUFFICES ASSUME IInv, [Next]_vars
               PROVE  Promise!Next \/ UNCHANGED << wall, start, goal, state, iter >>
  OBVIOUS
<1>2. ASSUME state = "searching", NEW e \in open, Found(e) PROVE Promise!Succeed
  <2>1. goal \in DOMAIN close
    BY <1>1, <1>2 DEF Found, IInv, TypeOK
  <2>2. QED
    BY <1>1, <1>2, <2>1, FoundIsReachable DEF Found, Promise!Succeed
<1>3. ASSUME NEW e \in open, Expand(e)
      PROVE  UNCHANGED << wall, start, goal, state, iter >>
  BY <1>3 DEF Expand
<1>4. CASE NotFound
  BY <1>1, <1>4, EmptyIsUnreachable DEF NotFound, Promise!Fail, Promise!Next
<1>5. CASE GetNextPosition
  <2>1. UNCHANGED << wall, start, goal, state >> /\ state = "found"
        /\ iter' = DrawnFrom(iter)
    BY <1>5 DEF GetNextPosition
  <2>2. CASE iter = start /\ iter' = goal
    BY <2>1, <2>2 DEF Promise!Draw, Promise!Next
  <2>3. CASE iter # start /\ iter \in Neighbours(iter', wall)
    <3>1. iter \in Promise!Neighbours(iter', wall \ {iter})
      BY <2>3, SameNeighbours DEF Neighbours
    <3>2. QED
      BY <2>1, <2>3, <3>1 DEF Promise!Draw, Promise!Next
  <2>4. QED
    BY <1>1, <2>1, <2>2, <2>3, DrawnStep
<1>6. QED
  BY <1>1, <1>2, <1>3, <1>4, <1>5 DEF Next, Step, vars, Promise!Next

(* A* keeps its promise on every grid: it succeeds exactly when the goal    *)
(* can be reached, fails otherwise, and what is drawn afterwards is a path  *)
(* from the goal to the start, again and again (A_STAR.cpp:66, 204).        *)
THEOREM PromiseIsKept == Spec => PromiseKept
<1>1. Init => Promise!Init
  <2>1. SUFFICES ASSUME Init PROVE Promise!Init
    OBVIOUS
  <2>2. start \in Cells /\ goal \in Cells /\ wall \in SUBSET Cells
    BY <2>1, SearchAssumption DEF Init
  <2>3. QED
    BY <2>1, <2>2, SameNeighbours DEF Init, Promise!Init
<1>2. QED
  BY <1>1, InitInv, NextInv, StepKeepsPromise, PTL DEF Spec, PromiseKept, Promise!PathSpec

-----------------------------------------------------------------------------
(***************************************************************************)
(* PathWindow                                                              *)
(***************************************************************************)

(* A marker is only drawn in the cell its coordinates lead to; and no end   *)
(* is when the window has taken its marker away: without this the next      *)
(* double click, which then erases nothing, could leave two.                *)
WindowInv ==
  /\ grid \in [ Cells -> 0 .. 3 ]
  /\ Window!MarkersMatch
  /\ ~ endDrawn => \A c \in Cells : grid[c] # 3

LEMMA WindowStarts == Window!Init => WindowInv
<1> SUFFICES ASSUME Window!Init PROVE WindowInv
  OBVIOUS
<1>1. QED
  BY DEF Window!Init, WindowInv, Window!MarkersMatch, Cells, Window!Cells

(* A write changes the cell it reaches, and none when it is off the array.  *)
LEMMA WrittenCells ==
  ASSUME NEW cells \in [ Cells -> 0 .. 3 ], NEW p, NEW tile \in 0 .. 3
  PROVE  /\ Window!Written(cells, p, tile) \in [ Cells -> 0 .. 3 ]
         /\ \A c \in Cells : Window!Written(cells, p, tile)[c]
                              = IF c = Window!StGrid(p) THEN tile ELSE cells[c]
<1>1. Window!Cells = Cells
  BY DEF Window!Cells, Cells
<1>2. QED
  BY <1>1 DEF Window!Written

(* The old marker is taken away before the new one is drawn, in one cell of *)
(* memory or in two.                                                        *)
LEMMA MovedCells ==
  ASSUME NEW cells \in [ Cells -> 0 .. 3 ], NEW old, NEW new, NEW tile \in 0 .. 3,
         NEW moved, moved = Window!Written(Window!Written(cells, old, 0), new, tile)
  PROVE  /\ moved \in [ Cells -> 0 .. 3 ]
         /\ \A c \in Cells :
              moved[c] = IF c = Window!StGrid(new) THEN tile
                         ELSE IF c = Window!StGrid(old) THEN 0 ELSE cells[c]
<1>1. PICK cleared : cleared = Window!Written(cells, old, 0)
  OBVIOUS
<1>2. /\ cleared \in [ Cells -> 0 .. 3 ]
      /\ \A c \in Cells :
           cleared[c] = IF c = Window!StGrid(old) THEN 0 ELSE cells[c]
  BY <1>1, WrittenCells
<1>3. /\ moved \in [ Cells -> 0 .. 3 ]
      /\ \A c \in Cells :
           moved[c] = IF c = Window!StGrid(new) THEN tile ELSE cleared[c]
  BY <1>1, <1>2, WrittenCells
<1>4. QED
  BY <1>2, <1>3

LEMMA WindowStep == WindowInv /\ [Window!Next]_(Window!vars) => WindowInv'
<1> SUFFICES ASSUME WindowInv, [Window!Next]_(Window!vars) PROVE WindowInv'
  OBVIOUS
<1>1. Window!Cells = Cells
  BY DEF Window!Cells, Cells
<1>2. /\ grid \in [ Cells -> 0 .. 3 ]
      /\ \A c \in Cells : /\ grid[c] = 2 => c = Window!StGrid(starting)
                          /\ grid[c] = 3 => c = Window!StGrid(ending)
      /\ ~ endDrawn => \A c \in Cells : grid[c] # 3
  BY <1>1 DEF WindowInv, Window!MarkersMatch
<1>3. ASSUME NEW p \in Clicks, Window!LeftDoubleClick(p) PROVE WindowInv'
  <2>1. starting' = p /\ UNCHANGED << ending, endDrawn >>
    BY <1>3 DEF Window!LeftDoubleClick
  <2>2. Window!StGrid(starting)' = Window!StGrid(p)
        /\ Window!StGrid(ending)' = Window!StGrid(ending)
    BY <2>1 DEF Window!StGrid
  <2>3. CASE starting = p
    <3>1. grid' = Window!Written(grid, p, 0)
      BY <1>3, <2>3 DEF Window!LeftDoubleClick
    <3>2. /\ grid' \in [ Cells -> 0 .. 3 ]
          /\ \A c \in Cells : grid'[c] = IF c = Window!StGrid(p) THEN 0 ELSE grid[c]
      BY <1>2, <3>1, WrittenCells
    <3>3. QED
      BY <1>1, <1>2, <2>1, <2>2, <2>3, <3>2 DEF WindowInv, Window!MarkersMatch
  <2>4. CASE starting # p
    <3>1. grid' = Window!Written(Window!Written(grid, starting, 0), p, 2)
      BY <1>3, <2>4 DEF Window!LeftDoubleClick
    <3>2. /\ grid' \in [ Cells -> 0 .. 3 ]
          /\ \A c \in Cells :
               grid'[c] = IF c = Window!StGrid(p) THEN 2
                          ELSE IF c = Window!StGrid(starting) THEN 0 ELSE grid[c]
      BY <1>2, <3>1, MovedCells
    <3>3. QED
      BY <1>1, <1>2, <2>1, <2>2, <3>2 DEF WindowInv, Window!MarkersMatch
  <2>5. QED
    BY <2>3, <2>4
<1>4. ASSUME NEW p \in Clicks, Window!RightDoubleClick(p) PROVE WindowInv'
  <2>1. ending' = p /\ UNCHANGED starting
    BY <1>4 DEF Window!RightDoubleClick
  <2>2. Window!StGrid(ending)' = Window!StGrid(p)
        /\ Window!StGrid(starting)' = Window!StGrid(starting)
    BY <2>1 DEF Window!StGrid
  <2>3. CASE ~ endDrawn
    <3>1. grid' = Window!Written(grid, p, 3) /\ endDrawn' = TRUE
      BY <1>4, <2>3 DEF Window!RightDoubleClick
    <3>2. /\ grid' \in [ Cells -> 0 .. 3 ]
          /\ \A c \in Cells : grid'[c] = IF c = Window!StGrid(p) THEN 3 ELSE grid[c]
      BY <1>2, <3>1, WrittenCells
    <3>3. QED
      BY <1>1, <1>2, <2>2, <2>3, <3>1, <3>2 DEF WindowInv, Window!MarkersMatch
  <2>4. CASE endDrawn /\ ending = p
    <3>1. grid' = Window!Written(grid, p, 0)
      BY <1>4, <2>4 DEF Window!RightDoubleClick
    <3>2. /\ grid' \in [ Cells -> 0 .. 3 ]
          /\ \A c \in Cells : grid'[c] = IF c = Window!StGrid(p) THEN 0 ELSE grid[c]
      BY <1>2, <3>1, WrittenCells
    <3>3. QED
      BY <1>1, <1>2, <2>2, <2>4, <3>2 DEF WindowInv, Window!MarkersMatch
  <2>5. CASE endDrawn /\ ending # p
    <3>1. /\ grid' = Window!Written(Window!Written(grid, ending, 0), p, 3)
          /\ endDrawn' = TRUE
      BY <1>4, <2>5 DEF Window!RightDoubleClick, Window!MovedEnd
    <3>2. /\ grid' \in [ Cells -> 0 .. 3 ]
          /\ \A c \in Cells :
               grid'[c] = IF c = Window!StGrid(p) THEN 3
                          ELSE IF c = Window!StGrid(ending) THEN 0 ELSE grid[c]
      BY <1>2, <3>1, MovedCells
    <3>3. QED
      BY <1>1, <1>2, <2>2, <3>1, <3>2 DEF WindowInv, Window!MarkersMatch
  <2>6. QED
    BY <2>3, <2>4, <2>5
<1>5. ASSUME NEW p \in Clicks, Window!MouseMove(p) PROVE WindowInv'
  <2>1. UNCHANGED << starting, ending, endDrawn >>
    BY <1>5 DEF Window!MouseMove
  <2>2. PICK tile \in 0 .. 1 : grid' = Window!Written(grid, p, tile)
    BY <1>5 DEF Window!MouseMove
  <2>3. /\ grid' \in [ Cells -> 0 .. 3 ]
        /\ \A c \in Cells : grid'[c] = IF c = Window!StGrid(p) THEN tile ELSE grid[c]
    BY <1>2, <2>2, WrittenCells
  <2>4. QED
    BY <1>1, <1>2, <2>1, <2>2, <2>3 DEF WindowInv, Window!MarkersMatch, Window!StGrid
<1>6. CASE Window!ResetKey
  BY <1>1, <1>6 DEF Window!ResetKey, Window!Blank, WindowInv, Window!MarkersMatch
<1>7. CASE Window!CaveKey
  <2>1. PICK road : grid' = [ c \in Cells |-> IF c \in road THEN 0 ELSE 1 ]
    BY <1>1, <1>7 DEF Window!CaveKey
  <2>2. UNCHANGED << starting, ending, endDrawn >>
    BY <1>7 DEF Window!CaveKey
  <2>3. QED
    BY <1>1, <2>1, <2>2 DEF WindowInv, Window!MarkersMatch
<1>8. ASSUME UNCHANGED << grid, starting, ending, endDrawn >> PROVE WindowInv'
  BY <1>8 DEF WindowInv, Window!MarkersMatch, Window!StGrid
<1>9. QED
  <2>1. ASSUME NEW p \in Clicks, Window!LeftDown(p) PROVE WindowInv'
    BY <1>8, <2>1 DEF Window!LeftDown
  <2>2. Window!LeftUp => WindowInv'
    BY <1>8 DEF Window!LeftUp
  <2>3. Window!FindKey => WindowInv'
    BY <1>8 DEF Window!FindKey
  <2>4. UNCHANGED Window!vars => WindowInv'
    BY <1>8 DEF Window!vars
  <2>5. QED
    BY <1>3, <1>4, <1>5, <1>6, <1>7, <2>1, <2>2, <2>3, <2>4
       DEF Window!Next, Window!Pointed

(* However double clicks, drags, resets and caves follow one another, at    *)
(* whatever points right of the map or below it: one start and one end are  *)
(* drawn at most, each in the cell of memory its coordinates lead to, which *)
(* on the map is where the search starts or ends.                           *)
THEOREM TheMarkersMatch == Window!Spec => []MarkersMatch
<1>1. WindowInv => MarkersMatch
  BY DEF WindowInv, MarkersMatch
<1>2. QED
  BY <1>1, WindowStarts, WindowStep, PTL DEF Window!Spec
==============================================================================
