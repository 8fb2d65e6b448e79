----------------------------- MODULE SearchTree ------------------------------
(***************************************************************************)
(* CTREE of Library/Tree/Tree/Tree.h: a binary search tree of nodes linked *)
(* by pLeft and pRight.  malloc returns any node the tree does not reach;  *)
(* the node that insert() leaks for a key that is there already is not     *)
(* tracked.                                                                *)
(***************************************************************************)
EXTENDS Integers, FiniteSets

CONSTANTS
  Nodes,
  Keys        \* a set of integers

VARIABLES
  node,       \* key, pLeft and pRight of every node; Blank when not in use
  st_Root,
  asked,      \* the last call and its key
  result      \* what the last erase() or find() returned

vars == << node, st_Root, asked, result >>

nullptr == "nullptr"
Blank == [ key |-> nullptr, pLeft |-> nullptr, pRight |-> nullptr ]

Init ==
  /\ node = [ n \in Nodes |-> Blank ]
  /\ st_Root = nullptr
  /\ asked = << >> /\ result = FALSE

(* find_traverse and the other traversals come to every node that is in    *)
(* all sets that hold the root and, with a node, its children.             *)
Reached ==
  { n \in Nodes : \A S \in SUBSET Nodes :
      /\ st_Root \in S \union {nullptr}
      /\ \A m \in S : {node[m].pLeft, node[m].pRight} \subseteq S \union {nullptr}
      => n \in S }

(* A turn of the loops that look for key k: from a node, with its parent,   *)
(* to the child on the side of k.                                           *)
Down(k, at) ==
  LET n == at[2]
  IN  IF n = nullptr THEN at
      ELSE IF node[n].key = k THEN at
      ELSE << n, IF k < node[n].key THEN node[n].pLeft ELSE node[n].pRight >>

(* The node of key k and its parent, or the nullptr where it is missing and *)
(* the node above; the parent of the root is nullptr.                       *)
Place(k) ==
  LET Walk[i \in 0 .. Cardinality(Nodes)] ==
        IF i = 0 THEN << nullptr, st_Root >> ELSE Down(k, Walk[i - 1])
  IN  Walk[Cardinality(Nodes)]

-----------------------------------------------------------------------------
(* A key that is there already changes nothing. *)
insert(k) ==
  LET at == Place(k)
      p == at[1]
      side == IF k < node[p].key THEN "pLeft" ELSE "pRight"
  IN  /\ asked' = << "insert", k >> /\ UNCHANGED result
      /\ IF at[2] # nullptr THEN UNCHANGED << node, st_Root >>
         ELSE \E n \in Nodes \ Reached :
                IF st_Root = nullptr
                  THEN /\ node' = [ node EXCEPT ![n].key = k ]
                       /\ st_Root' = n
                  ELSE /\ node' = [ node EXCEPT ![n].key = k, ![p][side] = n ]
                       /\ UNCHANGED st_Root

(* find_traverse looks in both subtrees of every node. *)
find(k) ==
  /\ asked' = << "find", k >>
  /\ result' = \E n \in Reached : node[n].key = k
  /\ UNCHANGED << node, st_Root >>

(* A turn of the loop that goes right as long as it can.                    *)
Right(pair) ==
  IF node[pair[2]].pRight = nullptr THEN pair ELSE << pair[2], node[pair[2]].pRight >>

(* The left child taken for the largest key of the left subtree. *)
MutLargest(n) == << n, node[n].pLeft >>

(* The largest key of the left subtree of n, with its parent. *)
Largest(n) ==
  LET Walk[i \in 0 .. Cardinality(Nodes)] ==
        IF i = 0 THEN << n, node[n].pLeft >> ELSE Right(Walk[i - 1])
  IN  Walk[Cardinality(Nodes)]

(* The side of p on which n hangs. *)
Side(p, n) == IF node[p].pLeft = n THEN "pLeft" ELSE "pRight"

(* Two children: the successor's key moves up and the successor is freed. *)
EraseInner(n) ==
  LET pair == Largest(n)
      p == pair[1]
      s == pair[2]
  IN  /\ node' = [ [ node EXCEPT ![p][Side(p, s)] = node[s].pLeft ]
                     EXCEPT ![n].key = node[s].key, ![s] = Blank ]
      /\ UNCHANGED st_Root

(* At most one child, which takes the node's place. *)
EraseOuter(n, p) ==
  LET child == IF node[n].pLeft # nullptr THEN node[n].pLeft ELSE node[n].pRight
  IN  IF p = nullptr
        THEN node' = [ node EXCEPT ![n] = Blank ] /\ st_Root' = child
        ELSE /\ node' = [ node EXCEPT ![p][Side(p, n)] = child, ![n] = Blank ]
             /\ UNCHANGED st_Root

erase(k) ==
  LET at == Place(k)
      n == at[2]
  IN  /\ asked' = << "erase", k >>
      /\ result' = (n # nullptr)
      /\ IF n = nullptr THEN UNCHANGED << node, st_Root >>
         ELSE IF nullptr \in {node[n].pLeft, node[n].pRight} THEN EraseOuter(n, at[1])
         ELSE EraseInner(n)

Next == \E k \in Keys : insert(k) \/ find(k) \/ erase(k)

Spec == Init /\ [][Next]_vars

-----------------------------------------------------------------------------
Promise ==
  INSTANCE KeySet WITH
    keys <- { node[n].key : n \in Reached }, answer <- result

(* CTREE implements a set: insert, find and erase of a key change it and    *)
(* answer of it as KeySet says for that key, whatever the shape of the      *)
(* tree.                                                                    *)
KeepsItsPromise == Promise!KSpec

=============================================================================
