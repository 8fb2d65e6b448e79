---------------------------- MODULE RedBlackTree -----------------------------
(***************************************************************************)
(* C_RED_BLACK_TREE of Library/Red_Black_Tree: insert() and the loop of    *)
(* RBInsertFixup, one step per turn of the loop.  find, erase and traverse *)
(* are declared there without a body.                                      *)
(***************************************************************************)
EXTENDS Naturals

CONSTANTS
  MaxNodes,    \* bound: keys inserted
  Keys

VARIABLES
  node,        \* _key, _Color, _pParent, _pLeft, _pRight; 0 is _Nil
  count,       \* nodes made so far
  _st_Root,
  z            \* node the loop of RBInsertFixup is at; 0 outside insert()

vars == << node, count, _st_Root, z >>

Nil == 0

Init ==
  /\ node = [ n \in {Nil} |->
                [ key |-> 0, color |-> "BLACK", parent |-> Nil, left |-> Nil, right |-> Nil ] ]
  /\ count = 0
  /\ _st_Root = Nil
  /\ z = Nil

-----------------------------------------------------------------------------
Other(side) == IF side = "left" THEN "right" ELSE "left"
Child(cell, side) == IF side = "left" THEN cell.left ELSE cell.right
WithChild(cell, side, n) ==
  IF side = "left" THEN [ cell EXCEPT !.left = n ] ELSE [ cell EXCEPT !.right = n ]

(* A turn of the loop of insert(): from a node, with its parent, to the     *)
(* child on the side of k.  Equal keys go to the right.                     *)
Down(k, at) ==
  IF at[2] = Nil THEN at
  ELSE << at[2], IF k < node[at[2]].key THEN node[at[2]].left ELSE node[at[2]].right >>

(* The node under which key k belongs. *)
Place(k) ==
  LET Walk[i \in 0 .. count] == IF i = 0 THEN << Nil, _st_Root >> ELSE Down(k, Walk[i - 1])
  IN  Walk[count][1]

insert(k) ==
  /\ z = Nil
  /\ count < MaxNodes
  /\ LET n == count + 1
         p == Place(k)
         new == [ key |-> k, color |-> "RED", parent |-> p, left |-> Nil, right |-> Nil ]
         side == IF k < node[p].key THEN "left" ELSE "right"
         grown == [ m \in 0 .. n |-> IF m = n THEN new ELSE node[m] ]
     IN  /\ count' = n
         /\ z' = n
         /\ IF p = Nil THEN _st_Root' = n /\ node' = grown
            ELSE node' = [ grown EXCEPT ![p] = WithChild(grown[p], side, n) ] /\ UNCHANGED _st_Root

-----------------------------------------------------------------------------
Painted(nd, n, c) == [ nd EXCEPT ![n].color = c ]

(* leftRotate(x) for side "left", rightRotate(x) for "right"; a tree is the *)
(* pair of a node function and a root.                                      *)
Rotated(t, x, side) ==
  LET nd == t.node
      y == Child(nd[x], Other(side))
      inner == Child(nd[y], side)
      p == nd[x].parent
      above == IF Child(nd[p], side) = x THEN side ELSE Other(side)
      turned == [ m \in DOMAIN nd |->
                    IF m = inner /\ m # Nil THEN [ nd[m] EXCEPT !.parent = x ]
                    ELSE IF m = x THEN [ WithChild(nd[m], Other(side), inner) EXCEPT !.parent = y ]
                    ELSE IF m = y THEN [ WithChild(nd[m], side, x) EXCEPT !.parent = p ]
                    ELSE IF m = p /\ m # Nil THEN WithChild(nd[m], above, y)
                    ELSE nd[m] ]
  IN  [ node |-> turned, root |-> IF p = Nil THEN y ELSE t.root ]

Parent == node[z].parent
Grand == node[Parent].parent
PSide == IF Parent = node[Grand].left THEN "left" ELSE "right"
Uncle == Child(node[Grand], Other(PSide))

(* Case 1 that leaves the grandparent black. *)
MutRecolour ==
  /\ z # Nil
  /\ node[Parent].color = "RED"
  /\ node[Uncle].color = "RED"
  /\ node' = Painted(Painted(node, Parent, "BLACK"), Uncle, "BLACK")
  /\ z' = Grand
  /\ UNCHANGED << count, _st_Root >>

(* Case 1: the uncle is red. *)
Recolour ==
  /\ z # Nil
  /\ node[Parent].color = "RED"
  /\ node[Uncle].color = "RED"
  /\ node' = Painted(Painted(Painted(node, Parent, "BLACK"), Uncle, "BLACK"), Grand, "RED")
  /\ z' = Grand
  /\ UNCHANGED << count, _st_Root >>

(* Cases 2 and 3. *)
Turn ==
  /\ z # Nil
  /\ node[Parent].color = "RED"
  /\ node[Uncle].color # "RED"
  /\ LET before == [ node |-> node, root |-> _st_Root ]
         inner == z = Child(node[Parent], Other(PSide))
         straight == IF inner THEN Rotated(before, Parent, PSide) ELSE before
         at == IF inner THEN Parent ELSE z
         p == straight.node[at].parent
         g == straight.node[p].parent
         painted == Painted(Painted(straight.node, p, "BLACK"), g, "RED")
         after == Rotated([ node |-> painted, root |-> straight.root ], g, Other(PSide))
     IN  /\ node' = after.node
         /\ _st_Root' = after.root
         /\ z' = at
  /\ UNCHANGED count

(* The loop ends; the root is painted black. *)
Finish ==
  /\ z # Nil
  /\ node[Parent].color # "RED"
  /\ node' = Painted(node, _st_Root, "BLACK")
  /\ z' = Nil
  /\ UNCHANGED << count, _st_Root >>

Next == (\E k \in Keys : insert(k)) \/ Recolour \/ Turn \/ Finish

Spec == Init /\ [][Next]_vars

-----------------------------------------------------------------------------
WithChildren(S) ==
  S \union (({ node[m].left : m \in S } \union { node[m].right : m \in S }) \ {Nil})

(* The nodes below n, itself included. *)
Below(n) ==
  LET round[i \in 0 .. count] == IF i = 0 THEN {n} \ {Nil} ELSE WithChildren(round[i - 1])
  IN  round[count]

(* From a node, with the black nodes passed, to its left child. *)
DownLeft(at) ==
  IF at[1] = Nil THEN at
  ELSE << node[at[1]].left, at[2] + (IF node[at[1]].color = "BLACK" THEN 1 ELSE 0) >>

(* The black height of n by the left. *)
BlackHeight(n) ==
  LET Walk[i \in 0 .. count] == IF i = 0 THEN << n, 0 >> ELSE DownLeft(Walk[i - 1])
  IN  Walk[count][2]

(* The tree is one tree at every step of the loop: no node is lost, the    *)
(* parent links match the child links, and keys stay in order.             *)
Linked ==
  /\ Below(_st_Root) = 1 .. count
  /\ \A n \in 1 .. count :
       /\ \A c \in {node[n].left, node[n].right} \ {Nil} : node[c].parent = n
       /\ \A m \in Below(node[n].left) : node[m].key <= node[n].key
       /\ \A m \in Below(node[n].right) : node[m].key >= node[n].key

(* Balance: black heights agree at every step; two red nodes in a row      *)
(* there are only at the node the loop is at, and none after insert().     *)
Balanced ==
  /\ node[Nil].color = "BLACK"
  /\ z = Nil => node[_st_Root].color = "BLACK"
  /\ \A n \in 1 .. count :
       /\ BlackHeight(node[n].left) = BlackHeight(node[n].right)
       /\ node[n].color = "RED" /\ node[node[n].parent].color = "RED" => n = z

=============================================================================
