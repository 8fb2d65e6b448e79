----------------------------- MODULE LinkedList ------------------------------
(***************************************************************************)
(* CList over a CMemoryPool of nodes (Library/MemPoolList/CMemPoolList.h): *)
(* a doubly linked list between two sentinels that are members of the      *)
(* list, and one iterator of the caller.  Alloc returns any node that is   *)
(* not in use, which is what MemoryPool shows of the pool.                 *)
(***************************************************************************)
EXTENDS Naturals, Sequences, SequencesExt, FiniteSets

CONSTANTS
  Nodes,
  Values

VARIABLES
  nxt, prv,    \* _Next and _Prev of every node and sentinel
  data,        \* _data
  size,        \* _size
  used,        \* nodes that came from Alloc and did not go back
  iter         \* the node of the caller's iterator; "null" when it has none

vars == << nxt, prv, data, size, used, iter >>

NoValue == "none"
Sentinels == {"head", "tail"}

Init ==
  /\ nxt = [ n \in Nodes \union Sentinels |-> IF n = "head" THEN "tail" ELSE "null" ]
  /\ prv = [ n \in Nodes \union Sentinels |-> IF n = "tail" THEN "head" ELSE "null" ]
  /\ data = [ n \in Nodes |-> NoValue ]
  /\ size = 0
  /\ used = {}
  /\ iter = "null"

-----------------------------------------------------------------------------
(* A new node with value v between two that are neighbours. *)
PutBetween(p, q, v) ==
  \E n \in Nodes \ used :
    /\ used' = used \union {n}
    /\ data' = [ data EXCEPT ![n] = v ]
    /\ nxt' = [ nxt EXCEPT ![n] = q, ![p] = n ]
    /\ prv' = [ prv EXCEPT ![n] = p, ![q] = n ]
    /\ size' = size + 1

push_front ==
  /\ \E v \in Values : PutBetween("head", nxt["head"], v)
  /\ UNCHANGED iter

push_back ==
  /\ \E v \in Values : PutBetween(prv["tail"], "tail", v)
  /\ UNCHANGED iter

(* An iterator whose node went back to the pool must not be used again. *)
Given(n) ==
  /\ used' = used \ {n}
  /\ data' = [ data EXCEPT ![n] = NoValue ]
  /\ size' = size - 1

(* pop_front that leaves the back pointer of the new first node. *)
MutPopFront ==
  /\ size # 0
  /\ LET removed == nxt["head"]
     IN  /\ nxt' = [ nxt EXCEPT !["head"] = nxt[removed] ]
         /\ Given(removed)
         /\ iter' = IF iter = removed THEN "null" ELSE iter
  /\ UNCHANGED prv

pop_front ==
  /\ size # 0
  /\ LET removed == nxt["head"]
     IN  /\ prv' = [ prv EXCEPT ![nxt[removed]] = "head" ]
         /\ nxt' = [ nxt EXCEPT !["head"] = nxt[removed] ]
         /\ Given(removed)
         /\ iter' = IF iter = removed THEN "null" ELSE iter

pop_back ==
  /\ size # 0
  /\ LET removed == prv["tail"]
     IN  /\ nxt' = [ nxt EXCEPT ![prv[removed]] = "tail" ]
         /\ prv' = [ prv EXCEPT !["tail"] = prv[removed] ]
         /\ Given(removed)
         /\ iter' = IF iter = removed THEN "null" ELSE iter

-----------------------------------------------------------------------------
begin == iter' = nxt["head"] /\ UNCHANGED << nxt, prv, data, size, used >>
end   == iter' = "tail" /\ UNCHANGED << nxt, prv, data, size, used >>

(* The caller keeps the iterator between the first element and end(); the   *)
(* operators do not.                                                        *)
advance ==
  /\ iter \in used
  /\ iter' = nxt[iter]
  /\ UNCHANGED << nxt, prv, data, size, used >>

retreat ==
  /\ iter \in used \union {"tail"} /\ prv[iter] # "head"
  /\ iter' = prv[iter]
  /\ UNCHANGED << nxt, prv, data, size, used >>

(* operator +=, which goes on by two whatever number it is given.           *)
skip ==
  /\ iter \in used /\ nxt[iter] \in used
  /\ iter' = nxt[nxt[iter]]
  /\ UNCHANGED << nxt, prv, data, size, used >>

(* erase that returns the node before the erased one. *)
MutErase ==
  /\ iter \in used
  /\ nxt' = [ nxt EXCEPT ![prv[iter]] = nxt[iter] ]
  /\ prv' = [ prv EXCEPT ![nxt[iter]] = prv[iter] ]
  /\ Given(iter)
  /\ iter' = prv[iter]

erase ==
  /\ iter \in used
  /\ nxt' = [ nxt EXCEPT ![prv[iter]] = nxt[iter] ]
  /\ prv' = [ prv EXCEPT ![nxt[iter]] = prv[iter] ]
  /\ Given(iter)
  /\ iter' = nxt[iter]

erase_end ==
  /\ iter = "tail"
  /\ iter' = "null"
  /\ UNCHANGED << nxt, prv, data, size, used >>

(* The nodes from the first to the last, along _Next. *)
Forward ==
  LET Node[i \in 0 .. size] == IF i = 0 THEN "head" ELSE nxt[Node[i - 1]]
  IN  [ i \in 1 .. size |-> Node[i] ]

(* The same between the sentinels. *)
Ring(nodes) ==
  [ i \in 0 .. Len(nodes) + 1 |->
      IF i = 0 THEN "head" ELSE IF i = Len(nodes) + 1 THEN "tail" ELSE nodes[i] ]

(* The places in a list that stay when the others go, counted up. *)
Orders(I) ==
  { order \in [ 1 .. Cardinality(I) -> I ] :
      /\ Range(order) = I
      /\ \A k, l \in DOMAIN order : k < l => order[k] < order[l] }

(* remove(v): one pass of erase over every element equal to v. *)
remove ==
  \E v \in Values :
    LET gone  == { n \in used : data[n] = v }
        nodes == Forward
    IN  /\ \E order \in Orders({ i \in 1 .. size : nodes[i] \notin gone }) :
             LET ring == Ring([ k \in DOMAIN order |-> nodes[order[k]] ])
                 Spot(n) == CHOOSE k \in DOMAIN ring : ring[k] = n
             IN  /\ nxt' = [ n \in DOMAIN nxt |->
                               IF n \in Range(ring) \ {"tail"} THEN ring[Spot(n) + 1]
                               ELSE nxt[n] ]
                 /\ prv' = [ n \in DOMAIN prv |->
                               IF n \in Range(ring) \ {"head"} THEN ring[Spot(n) - 1]
                               ELSE prv[n] ]
                 /\ size' = Len(order)
        /\ used' = used \ gone
        /\ data' = [ n \in Nodes |-> IF n \in gone THEN NoValue ELSE data[n] ]
        /\ iter' = "null"

Next ==
  \/ push_front \/ push_back \/ pop_front \/ pop_back
  \/ begin \/ end \/ advance \/ retreat \/ skip
  \/ erase \/ erase_end \/ remove

Spec == Init /\ [][Next]_vars

-----------------------------------------------------------------------------
(* The list is the same read from either end, its size is the number of    *)
(* its nodes, and those are exactly the nodes the pool has given out.      *)
EndsAgree ==
  LET nodes == Forward
      ring  == Ring(nodes)
  IN  /\ Range(nodes) = used
      /\ IsInjective(nodes)
      /\ \A i \in 1 .. size + 1 : prv[ring[i]] = ring[i - 1]

(* The place of the caller's iterator: after the last for end(), 0 for one *)
(* that is not in the list.                                                *)
Place ==
  LET nodes == Forward
  IN  IF iter = "tail" THEN size + 1
      ELSE IF iter \in Range(nodes) THEN CHOOSE i \in 1 .. size : nodes[i] = iter
      ELSE 0

Items == LET nodes == Forward IN [ i \in 1 .. size |-> data[nodes[i]] ]

Promise ==
  INSTANCE ListPromise WITH
    MaxSize <- Cardinality(Nodes), items <- Items, at <- Place

(* CList implements its promise: every operation does to the sequence and  *)
(* to the caller's iterator what ListPromise says of it.                   *)
KeepsItsPromise == Promise!PSpec

=============================================================================
