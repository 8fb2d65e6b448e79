------------------------------ MODULE SpinTable ------------------------------
(***************************************************************************)
(* Library/SpinLock: philosophers that share one fork under a spin lock    *)
(* (SpinLock, SpinUnlock; Fork::get, Fork::put; Philosopher::run).         *)
(***************************************************************************)
EXTENDS Integers, FiniteSets

CONSTANTS
  Seats,    \* the philosophers, numbered from 0
  Rounds    \* 1000 in the code

VARIABLES
  mMutex, mOner,   \* of the one fork
  pc, round

vars == << mMutex, mOner, pc, round >>

Init ==
  /\ mMutex = 0
  /\ mOner = -1
  /\ pc = [ p \in Seats |-> "get" ]
  /\ round = [ p \in Seats |-> 0 ]

(* SpinLock: while (InterlockedExchange(flag, 1) == 1) YieldProcessor(). *)
SpinLock(p) ==
  /\ pc[p] = "get"
  /\ mMutex' = 1
  /\ pc' = [ pc EXCEPT ![p] = IF mMutex = 1 THEN "get" ELSE "got" ]
  /\ UNCHANGED << mOner, round >>

PrintGet(p) ==
  /\ pc[p] = "got"
  /\ mOner' = p
  /\ pc' = [ pc EXCEPT ![p] = "eat" ]
  /\ UNCHANGED << mMutex, round >>

(* put() in the other order: the lock is released before mOner is reset.   *)
MutPut(p) ==
  \/ /\ pc[p] = "eat"
     /\ mMutex' = 0
     /\ pc' = [ pc EXCEPT ![p] = "unlock" ]
     /\ UNCHANGED << mOner, round >>
  \/ /\ pc[p] = "unlock"
     /\ mOner' = -1
     /\ pc' = [ pc EXCEPT ![p] = "think" ]
     /\ UNCHANGED << mMutex, round >>

(* put(): mOner = -1, then SpinUnlock. *)
Put(p) ==
  \/ /\ pc[p] = "eat"
     /\ mOner' = -1
     /\ pc' = [ pc EXCEPT ![p] = "unlock" ]
     /\ UNCHANGED << mMutex, round >>
  \/ /\ pc[p] = "unlock"
     /\ mMutex' = 0
     /\ pc' = [ pc EXCEPT ![p] = "think" ]
     /\ UNCHANGED << mOner, round >>

Think(p) ==
  /\ pc[p] = "think"
  /\ round' = [ round EXCEPT ![p] = @ + 1 ]
  /\ pc' = [ pc EXCEPT ![p] = IF round[p] + 1 < Rounds THEN "get" ELSE "done" ]
  /\ UNCHANGED << mMutex, mOner >>

Next == \E p \in Seats : SpinLock(p) \/ PrintGet(p) \/ Put(p) \/ Think(p)

Spec == Init /\ [][Next]_vars

(* One philosopher at a time eats, and the fork bears its name. *)
EatsAlone ==
  /\ Cardinality({ p \in Seats : pc[p] \in {"got", "eat", "unlock"} }) = mMutex
  /\ \A p \in Seats : (pc[p] = "eat") = (mOner = p)

=============================================================================
