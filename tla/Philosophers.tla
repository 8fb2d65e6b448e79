---------------------------- MODULE Philosophers -----------------------------
(***************************************************************************)
(* Library/Synchronization_Object: dining philosophers, each a thread,     *)
(* over a lock made of InterlockedExchange, WaitOnAddress and              *)
(* WakeByAddressSingle.  A philosopher waits for its own fork, tries the   *)
(* next one, and puts its own back when the next is taken.                 *)
(*                                                                         *)
(* A step is one interlocked operation, one write of mOner, or one call of *)
(* the kernel.                                                             *)
(***************************************************************************)
EXTENDS Integers

CONSTANTS
  nNum,     \* philosophers and forks
  Rounds    \* 1000 in the code

ASSUME TableAssumption == nNum \in Nat \ {0, 1} /\ Rounds \in Nat

VARIABLES
  mMutex,   \* of every fork
  mOner,    \* of every fork: -1 or the philosopher that printGet saw
  pc,       \* of every philosopher
  round     \* i of run()

vars == << mMutex, mOner, pc, round >>

Seats == 0 .. nNum - 1
NextTo(p) == (p + 1) % nNum

Init ==
  /\ mMutex = [ f \in Seats |-> 0 ]
  /\ mOner = [ f \in Seats |-> -1 ]
  /\ pc = [ p \in Seats |-> "get" ]
  /\ round = [ p \in Seats |-> 0 ]

Goto(p, where) == pc' = [ pc EXCEPT ![p] = where ]

-----------------------------------------------------------------------------
(* Lock: while (InterlockedExchange(flag, 1) == 1). *)
Lock(p) ==
  /\ pc[p] = "get"
  /\ mMutex' = [ mMutex EXCEPT ![p] = 1 ]
  /\ Goto(p, IF mMutex[p] = 1 THEN "wait" ELSE "got")
  /\ UNCHANGED << mOner, round >>

(* WaitOnAddress sleeps when the flag still has the value compared with,   *)
(* which the kernel checks and does in one go.                             *)
WaitOnAddress(p) ==
  /\ pc[p] = "wait"
  /\ Goto(p, IF mMutex[p] = 1 THEN "asleep" ELSE "get")
  /\ UNCHANGED << mMutex, mOner, round >>

(* WaitOnAddress may return although nobody called WakeByAddressSingle. *)
WakeForNothing(p) ==
  /\ pc[p] = "asleep"
  /\ Goto(p, "get")
  /\ UNCHANGED << mMutex, mOner, round >>

PrintGet(p) ==
  /\ pc[p] = "got"
  /\ mOner' = [ mOner EXCEPT ![p] = p ]
  /\ Goto(p, "try")
  /\ UNCHANGED << mMutex, round >>

(* tryGet() that asks mOner instead of the flag. *)
MutTryLock(p) ==
  /\ pc[p] = "try"
  /\ mMutex' = [ mMutex EXCEPT ![NextTo(p)] = 1 ]
  /\ Goto(p, IF mOner[NextTo(p)] # -1 THEN "back" ELSE "both")
  /\ UNCHANGED << mOner, round >>

TryLock(p) ==
  /\ pc[p] = "try"
  /\ mMutex' = [ mMutex EXCEPT ![NextTo(p)] = 1 ]
  /\ Goto(p, IF mMutex[NextTo(p)] = 1 THEN "back" ELSE "both")
  /\ UNCHANGED << mOner, round >>

(* printGet of the second fork, and the philosopher eats. *)
Eat(p) ==
  /\ pc[p] = "both"
  /\ mOner' = [ mOner EXCEPT ![NextTo(p)] = p ]
  /\ Goto(p, "eat")
  /\ UNCHANGED << mMutex, round >>

(* put() of fork f: mOner = -1, UnLock's exchange, UnLock's wake.          *)
Clear(p, f, from, to) ==
  /\ pc[p] = from
  /\ mOner' = [ mOner EXCEPT ![f] = -1 ]
  /\ Goto(p, to)
  /\ UNCHANGED << mMutex, round >>

UnLock(p, f, from, to) ==
  /\ pc[p] = from
  /\ mMutex' = [ mMutex EXCEPT ![f] = 0 ]
  /\ Goto(p, to)
  /\ UNCHANGED << mOner, round >>

(* put() that forgets to wake the philosopher the fork belongs to. *)
MutWakeByAddressSingle(p, f, from, to) ==
  /\ pc[p] = from
  /\ Goto(p, to)
  /\ UNCHANGED << mMutex, mOner, round >>

(* Only philosopher f ever sleeps on fork f. *)
WakeByAddressSingle(p, f, from, to) ==
  /\ pc[p] = from
  /\ pc' = [ pc EXCEPT ![p] = to,
                       ![f] = IF @ = "asleep" THEN "get" ELSE @ ]
  /\ UNCHANGED << mMutex, mOner, round >>

PutNext(p) ==
  \/ Clear(p, NextTo(p), "eat", "next1")
  \/ UnLock(p, NextTo(p), "next1", "next2")
  \/ WakeByAddressSingle(p, NextTo(p), "next2", "own")

PutOwn(p) ==
  \/ Clear(p, p, "own", "own1")
  \/ UnLock(p, p, "own1", "own2")
  \/ WakeByAddressSingle(p, p, "own2", "think")

PutBack(p) ==
  \/ Clear(p, p, "back", "back1")
  \/ UnLock(p, p, "back1", "back2")
  \/ WakeByAddressSingle(p, p, "back2", "get")

Think(p) ==
  /\ pc[p] = "think"
  /\ round' = [ round EXCEPT ![p] = @ + 1 ]
  /\ Goto(p, IF round[p] + 1 < Rounds THEN "get" ELSE "done")
  /\ UNCHANGED << mMutex, mOner >>

Step(p) ==
  \/ Lock(p) \/ WaitOnAddress(p) \/ PrintGet(p) \/ TryLock(p) \/ Eat(p)
  \/ PutNext(p) \/ PutOwn(p) \/ PutBack(p) \/ Think(p)

Next == \E p \in Seats : Step(p) \/ WakeForNothing(p)

Spec == Init /\ [][Next]_vars

(* The threads are scheduled; nothing wakes a philosopher for nothing. *)
Fairness == \A p \in Seats : WF_vars(Step(p))

FairSpec == Spec /\ Fairness

-----------------------------------------------------------------------------
(* Between the call that took a fork and the exchange that gives it back. *)
HasOwn(p) ==
  pc[p] \in {"got", "try", "both", "eat", "next1", "next2", "own", "own1", "back", "back1"}
HasNext(p) == pc[p] \in {"both", "eat", "next1"}

(* Of philosopher p and the fork f on its other side, which is its         *)
(* neighbour's own: it is in one hand at most, its flag is set exactly     *)
(* while it is in one, and mOner names nobody that does not have it.       *)
Held(p, f) ==
  /\ ~ (HasOwn(f) /\ HasNext(p))
  /\ mMutex[f] = 1 <=> HasOwn(f) \/ HasNext(p)
  /\ mOner[f] \in {-1, p, f}
  /\ mOner[f] = p => HasNext(p)
  /\ mOner[f] = f => HasOwn(f)

(* No fork is ever in two hands, and what its flag and its name say is so. *)
ForksHeldOnce == \A p, f \in Seats : f = NextTo(p) => Held(p, f)

(* No wake-up is lost: a philosopher that sleeps although its fork is free *)
(* is about to be woken by the one that put the fork down.                 *)
NoLostWakeup ==
  \A p \in Seats :
    pc[p] = "asleep" /\ mMutex[p] = 0 =>
      \E q \in Seats : NextTo(q) = p /\ pc[q] = "next2"

(* Who sleeps is woken: WakeByAddressSingle comes after every exchange.    *)
SleeperWakes == \A p \in Seats : pc[p] = "asleep" ~> pc[p] # "asleep"

=============================================================================
