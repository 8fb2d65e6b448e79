---------------------------- MODULE ListPromise ------------------------------
(***************************************************************************)
(* What the callers of CList rely on: a sequence, and an iterator that     *)
(* stays on its element while others come and go.                          *)
(***************************************************************************)
EXTENDS Naturals, Sequences, SequencesExt, FiniteSets

CONSTANTS Values, MaxSize

VARIABLES
  items,
  at       \* place of the iterator, Len(items) + 1 for end(), 0 for none

pvars == << items, at >>

PInit == items = << >> /\ at = 0

(* The place of the iterator after the element at i is gone. *)
Without(i) ==
  IF at = i THEN 0 ELSE IF at > i THEN at - 1 ELSE at

PushFront ==
  /\ Len(items) < MaxSize
  /\ \E v \in Values : items' = << v >> \o items
  /\ at' = IF at = 0 THEN 0 ELSE at + 1

PushBack ==
  /\ Len(items) < MaxSize
  /\ \E v \in Values : items' = Append(items, v)
  /\ at' = IF at = Len(items) + 1 THEN at + 1 ELSE at

PopFront ==
  /\ items # << >>
  /\ items' = Tail(items)
  /\ at' = Without(1)

PopBack ==
  /\ items # << >>
  /\ items' = Front(items)
  /\ at' = Without(Len(items))

Begin == at' = 1 /\ UNCHANGED items
End   == at' = Len(items) + 1 /\ UNCHANGED items

Advance == at \in 1 .. Len(items) /\ at' = at + 1 /\ UNCHANGED items
Retreat == at \in 2 .. Len(items) + 1 /\ at' = at - 1 /\ UNCHANGED items
Skip    == at \in 1 .. Len(items) - 1 /\ at' = at + 2 /\ UNCHANGED items

Erase ==
  /\ at \in 1 .. Len(items)
  /\ items' = RemoveAt(items, at)
  /\ UNCHANGED at

(* erase(end()) returns a null iterator. *)
EraseEnd == at = Len(items) + 1 /\ at' = 0 /\ UNCHANGED items

(* What is not v keeps its order: the places that stay, counted up.        *)
Orders(I) ==
  { order \in [ 1 .. Cardinality(I) -> I ] :
      /\ Range(order) = I
      /\ \A k, l \in DOMAIN order : k < l => order[k] < order[l] }

RemoveValue ==
  /\ \E v \in Values :
       \E order \in Orders({ i \in DOMAIN items : items[i] # v }) :
         items' = [ k \in DOMAIN order |-> items[order[k]] ]
  /\ at' = 0

PNext ==
  \/ PushFront \/ PushBack \/ PopFront \/ PopBack
  \/ Begin \/ End \/ Advance \/ Retreat \/ Skip
  \/ Erase \/ EraseEnd \/ RemoveValue

PSpec == PInit /\ [][PNext]_pvars

=============================================================================
