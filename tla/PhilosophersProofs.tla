------------------------- MODULE PhilosophersProofs -------------------------
(***************************************************************************)
(* The lock of Synchronization_Object and the philosophers over it, for    *)
(* any number of them and any number of rounds.                            *)
(***************************************************************************)
EXTENDS Philosophers, TLAPS

(* The fork on the other side is another one, and no two philosophers have *)
(* the same.                                                               *)
LEMMA NextToIsAnother ==
  ASSUME NEW p \in Seats
  PROVE  /\ NextTo(p) \in Seats
         /\ NextTo(p) # p /\ p # -1
         /\ \A q \in Seats : NextTo(q) = NextTo(p) => q = p
<1>1. \A q \in Seats : NextTo(q) = IF q = nNum - 1 THEN 0 ELSE q + 1
  <2>1. SUFFICES ASSUME NEW q \in Seats
                 PROVE  NextTo(q) = IF q = nNum - 1 THEN 0 ELSE q + 1
    OBVIOUS
  <2>2. CASE q = nNum - 1
    BY <2>2, TableAssumption DEF NextTo, Seats
  <2>3. CASE q # nNum - 1
    BY <2>3, TableAssumption DEF NextTo, Seats
  <2>4. QED
    BY <2>2, <2>3
<1>2. QED
  BY <1>1, TableAssumption DEF Seats

-----------------------------------------------------------------------------
Places == { "get", "wait", "asleep", "got", "try", "both", "eat", "next1", "next2",
            "own", "own1", "own2", "back", "back1", "back2", "think", "done" }

TypeInv ==
  /\ mMutex \in [ Seats -> {0, 1} ]
  /\ mOner \in [ Seats -> Seats \union {-1} ]
  /\ pc \in [ Seats -> Places ]

(* A name is put on a fork after its flag was set and taken off before its *)
(* flag is reset.                                                          *)
Named ==
  \A p \in Seats :
    /\ mOner[p] = p => pc[p] \in {"try", "both", "eat", "next1", "next2", "own", "back"}
    /\ mOner[NextTo(p)] = p => pc[p] = "eat"

IInv == TypeInv /\ ForksHeldOnce /\ Named /\ NoLostWakeup

-----------------------------------------------------------------------------
(* Nothing is held at the start. *)
LEMMA InitInv == Init => IInv
<1>1. SUFFICES ASSUME Init PROVE IInv
  OBVIOUS
<1>2. TypeInv
  BY <1>1 DEF Init, TypeInv, Places
<1>3. -1 \notin Seats
  BY TableAssumption DEF Seats
<1>4. \A p \in Seats : /\ NextTo(p) \in Seats
                        /\ mMutex[p] # 1
                        /\ mOner[p] = -1 /\ p # -1
                        /\ pc[p] = "get"
  BY <1>1, <1>3, NextToIsAnother DEF Init
<1>5. \A p \in Seats : ~ HasOwn(p) /\ ~ HasNext(p)
  BY <1>4 DEF HasOwn, HasNext
<1>6. ForksHeldOnce
  BY <1>4, <1>5 DEF ForksHeldOnce, Held
<1>7. Named /\ NoLostWakeup
  BY <1>4 DEF Named, NoLostWakeup
<1>8. QED
  BY <1>2, <1>6, <1>7 DEF IInv
-----------------------------------------------------------------------------
(* Each action keeps the invariant. *)
LEMMA LockStep ==
  ASSUME IInv, NEW a \in Seats, Lock(a)
  PROVE  IInv'
<1>. USE NextToIsAnother DEF IInv, TypeInv, Lock, Goto
<1>1. TypeInv'
  BY DEF Places
<1>2. Named'
  BY DEF Named
<1>3. ForksHeldOnce'
  <2>1. SUFFICES ASSUME NEW p \in Seats, NEW f \in Seats, f = NextTo(p)
        PROVE  Held(p, f)'
    BY DEF ForksHeldOnce
  <2>2. Held(p, f)
    BY <2>1 DEF ForksHeldOnce
  <2>3. QED
    BY <2>1, <2>2, <1>2 DEF Held, HasOwn, HasNext, Named
<1>4. NoLostWakeup'
  BY DEF NoLostWakeup
<1>5. QED
  BY <1>1, <1>2, <1>3, <1>4

(* WaitOnAddress keeps the invariant. *)
LEMMA WaitOnAddressStep ==
  ASSUME IInv, NEW a \in Seats, WaitOnAddress(a)
  PROVE  IInv'
<1>. USE NextToIsAnother DEF IInv, TypeInv, WaitOnAddress, Goto
<1>1. TypeInv'
  BY DEF Places
<1>2. Named'
  BY DEF Named
<1>3. ForksHeldOnce'
  <2>1. SUFFICES ASSUME NEW p \in Seats, NEW f \in Seats, f = NextTo(p)
        PROVE  Held(p, f)'
    BY DEF ForksHeldOnce
  <2>2. Held(p, f)
    BY <2>1 DEF ForksHeldOnce
  <2>3. QED
    BY <2>1, <2>2, <1>2 DEF Held, HasOwn, HasNext, Named
<1>4. NoLostWakeup'
  BY DEF NoLostWakeup
<1>5. QED
  BY <1>1, <1>2, <1>3, <1>4

(* WakeForNothing keeps the invariant. *)
LEMMA WakeForNothingStep ==
  ASSUME IInv, NEW a \in Seats, WakeForNothing(a)
  PROVE  IInv'
<1>. USE NextToIsAnother DEF IInv, TypeInv, WakeForNothing, Goto
<1>1. TypeInv'
  BY DEF Places
<1>2. Named'
  BY DEF Named
<1>3. ForksHeldOnce'
  <2>1. SUFFICES ASSUME NEW p \in Seats, NEW f \in Seats, f = NextTo(p)
        PROVE  Held(p, f)'
    BY DEF ForksHeldOnce
  <2>2. Held(p, f)
    BY <2>1 DEF ForksHeldOnce
  <2>3. QED
    BY <2>1, <2>2, <1>2 DEF Held, HasOwn, HasNext, Named
<1>4. NoLostWakeup'
  BY DEF NoLostWakeup
<1>5. QED
  BY <1>1, <1>2, <1>3, <1>4

(* PrintGet keeps the invariant. *)
LEMMA PrintGetStep ==
  ASSUME IInv, NEW a \in Seats, PrintGet(a)
  PROVE  IInv'
<1>. USE NextToIsAnother DEF IInv, TypeInv, PrintGet, Goto
<1>1. TypeInv'
  BY DEF Places
<1>2. Named'
  BY DEF Named
<1>3. ForksHeldOnce'
  <2>1. SUFFICES ASSUME NEW p \in Seats, NEW f \in Seats, f = NextTo(p)
        PROVE  Held(p, f)'
    BY DEF ForksHeldOnce
  <2>2. Held(p, f)
    BY <2>1 DEF ForksHeldOnce
  <2>3. QED
    BY <2>1, <2>2, <1>2 DEF Held, HasOwn, HasNext, Named
<1>4. NoLostWakeup'
  BY DEF NoLostWakeup
<1>5. QED
  BY <1>1, <1>2, <1>3, <1>4

(* TryLock keeps the invariant. *)
LEMMA TryLockStep ==
  ASSUME IInv, NEW a \in Seats, TryLock(a)
  PROVE  IInv'
<1>. USE NextToIsAnother DEF IInv, TypeInv, TryLock, Goto
<1>1. TypeInv'
  BY DEF Places
<1>2. Named'
  BY DEF Named
<1>3. ForksHeldOnce'
  <2>1. SUFFICES ASSUME NEW p \in Seats, NEW f \in Seats, f = NextTo(p)
        PROVE  Held(p, f)'
    BY DEF ForksHeldOnce
  <2>2. Held(p, f)
    BY <2>1 DEF ForksHeldOnce
  <2>3. QED
    BY <2>1, <2>2, <1>2 DEF Held, HasOwn, HasNext, Named
<1>4. NoLostWakeup'
  BY DEF NoLostWakeup
<1>5. QED
  BY <1>1, <1>2, <1>3, <1>4

(* Eat keeps the invariant. *)
LEMMA EatStep ==
  ASSUME IInv, NEW a \in Seats, Eat(a)
  PROVE  IInv'
<1>. USE NextToIsAnother DEF IInv, TypeInv, Eat, Goto
<1>1. TypeInv'
  BY DEF Places
<1>2. Named'
  BY DEF Named
<1>3. ForksHeldOnce'
  <2>1. SUFFICES ASSUME NEW p \in Seats, NEW f \in Seats, f = NextTo(p)
        PROVE  Held(p, f)'
    BY DEF ForksHeldOnce
  <2>2. Held(p, f)
    BY <2>1 DEF ForksHeldOnce
  <2>3. QED
    BY <2>1, <2>2, <1>2 DEF Held, HasOwn, HasNext, Named
<1>4. NoLostWakeup'
  BY DEF NoLostWakeup
<1>5. QED
  BY <1>1, <1>2, <1>3, <1>4

(* Think keeps the invariant. *)
LEMMA ThinkStep ==
  ASSUME IInv, NEW a \in Seats, Think(a)
  PROVE  IInv'
<1>. USE NextToIsAnother DEF IInv, TypeInv, Think, Goto
<1>1. TypeInv'
  BY DEF Places
<1>2. Named'
  BY DEF Named
<1>3. ForksHeldOnce'
  <2>1. SUFFICES ASSUME NEW p \in Seats, NEW f \in Seats, f = NextTo(p)
        PROVE  Held(p, f)'
    BY DEF ForksHeldOnce
  <2>2. Held(p, f)
    BY <2>1 DEF ForksHeldOnce
  <2>3. QED
    BY <2>1, <2>2, <1>2 DEF Held, HasOwn, HasNext, Named
<1>4. NoLostWakeup'
  BY DEF NoLostWakeup
<1>5. QED
  BY <1>1, <1>2, <1>3, <1>4

(* PutNext keeps the invariant. *)
LEMMA PutNextStep ==
  ASSUME IInv, NEW a \in Seats, PutNext(a)
  PROVE  IInv'
<1>. USE NextToIsAnother DEF IInv, TypeInv, PutNext, Clear, UnLock, WakeByAddressSingle, Goto
<1>1. TypeInv'
  BY DEF Places
<1>2. Named'
  BY DEF Named
<1>3. ForksHeldOnce'
  <2>1. SUFFICES ASSUME NEW p \in Seats, NEW f \in Seats, f = NextTo(p)
        PROVE  Held(p, f)'
    BY DEF ForksHeldOnce
  <2>2. Held(p, f)
    BY <2>1 DEF ForksHeldOnce
  <2>3. QED
    BY <2>1, <2>2, <1>2 DEF Held, HasOwn, HasNext, Named
<1>4. NoLostWakeup'
  <2>1. SUFFICES ASSUME NEW p \in Seats, pc'[p] = "asleep", mMutex'[p] = 0
                 PROVE  \E q \in Seats : NextTo(q) = p /\ pc'[q] = "next2"
    BY DEF NoLostWakeup
  <2>2. CASE UnLock(a, NextTo(a), "next1", "next2") /\ p = NextTo(a)
    <3>1. NextTo(a) = p /\ pc'[a] = "next2"
      BY <2>2
    <3>2. QED
      BY <3>1
  <2>3. CASE ~ (UnLock(a, NextTo(a), "next1", "next2") /\ p = NextTo(a))
    <3>1. pc[p] = "asleep" /\ mMutex[p] = 0
      BY <2>1, <2>3
    <3>2. PICK q \in Seats : NextTo(q) = p /\ pc[q] = "next2"
      BY <3>1 DEF NoLostWakeup
    <3>3. NextTo(q) = p /\ pc'[q] = "next2"
      BY <2>1, <3>1, <3>2
    <3>4. QED
      BY <3>3
  <2>4. QED
    BY <2>2, <2>3
<1>5. QED
  BY <1>1, <1>2, <1>3, <1>4

(* PutOwn keeps the invariant. *)
LEMMA PutOwnStep ==
  ASSUME IInv, NEW a \in Seats, PutOwn(a)
  PROVE  IInv'
<1>. USE NextToIsAnother DEF IInv, TypeInv, PutOwn, Clear, UnLock, WakeByAddressSingle, Goto
<1>1. TypeInv'
  BY DEF Places
<1>2. Named'
  BY DEF Named
<1>3. ForksHeldOnce'
  <2>1. SUFFICES ASSUME NEW p \in Seats, NEW f \in Seats, f = NextTo(p)
        PROVE  Held(p, f)'
    BY DEF ForksHeldOnce
  <2>2. Held(p, f)
    BY <2>1 DEF ForksHeldOnce
  <2>3. QED
    BY <2>1, <2>2, <1>2 DEF Held, HasOwn, HasNext, Named
<1>4. NoLostWakeup'
  <2>1. SUFFICES ASSUME NEW p \in Seats, pc'[p] = "asleep", mMutex'[p] = 0
                 PROVE  \E q \in Seats : NextTo(q) = p /\ pc'[q] = "next2"
    BY DEF NoLostWakeup
  <2>2. p # a /\ pc[p] = "asleep" /\ mMutex[p] = 0
    BY <2>1
  <2>3. PICK q \in Seats : NextTo(q) = p /\ pc[q] = "next2"
    BY <2>2 DEF NoLostWakeup
  <2>4. NextTo(q) = p /\ pc'[q] = "next2"
    BY <2>3
  <2>5. QED
    BY <2>4
<1>5. QED
  BY <1>1, <1>2, <1>3, <1>4

(* PutBack keeps the invariant. *)
LEMMA PutBackStep ==
  ASSUME IInv, NEW a \in Seats, PutBack(a)
  PROVE  IInv'
<1>. USE NextToIsAnother DEF IInv, TypeInv, PutBack, Clear, UnLock, WakeByAddressSingle, Goto
<1>1. TypeInv'
  BY DEF Places
<1>2. Named'
  BY DEF Named
<1>3. ForksHeldOnce'
  <2>1. SUFFICES ASSUME NEW p \in Seats, NEW f \in Seats, f = NextTo(p)
        PROVE  Held(p, f)'
    BY DEF ForksHeldOnce
  <2>2. Held(p, f)
    BY <2>1 DEF ForksHeldOnce
  <2>3. QED
    BY <2>1, <2>2, <1>2 DEF Held, HasOwn, HasNext, Named
<1>4. NoLostWakeup'
  <2>1. SUFFICES ASSUME NEW p \in Seats, pc'[p] = "asleep", mMutex'[p] = 0
                 PROVE  \E q \in Seats : NextTo(q) = p /\ pc'[q] = "next2"
    BY DEF NoLostWakeup
  <2>2. p # a /\ pc[p] = "asleep" /\ mMutex[p] = 0
    BY <2>1
  <2>3. PICK q \in Seats : NextTo(q) = p /\ pc[q] = "next2"
    BY <2>2 DEF NoLostWakeup
  <2>4. NextTo(q) = p /\ pc'[q] = "next2"
    BY <2>3
  <2>5. QED
    BY <2>4
<1>5. QED
  BY <1>1, <1>2, <1>3, <1>4

-----------------------------------------------------------------------------
(* So does every step. *)
LEMMA NextInv == IInv /\ [Next]_vars => IInv'
<1>1. SUFFICES ASSUME IInv, [Next]_vars PROVE IInv'
  OBVIOUS
<1>2. CASE UNCHANGED vars
  BY <1>1, <1>2 DEF vars, IInv, TypeInv, Named, NoLostWakeup, ForksHeldOnce, Held,
                    HasOwn, HasNext
<1>3. ASSUME NEW a \in Seats, Step(a) \/ WakeForNothing(a) PROVE IInv'
  <2>1. CASE Lock(a)
    BY <1>1, <2>1, LockStep
  <2>2. CASE WaitOnAddress(a)
    BY <1>1, <2>2, WaitOnAddressStep
  <2>3. CASE PrintGet(a)
    BY <1>1, <2>3, PrintGetStep
  <2>4. CASE TryLock(a)
    BY <1>1, <2>4, TryLockStep
  <2>5. CASE Eat(a)
    BY <1>1, <2>5, EatStep
  <2>6. CASE PutNext(a)
    BY <1>1, <2>6, PutNextStep
  <2>7. CASE PutOwn(a)
    BY <1>1, <2>7, PutOwnStep
  <2>8. CASE PutBack(a)
    BY <1>1, <2>8, PutBackStep
  <2>9. CASE Think(a)
    BY <1>1, <2>9, ThinkStep
  <2>10. CASE WakeForNothing(a)
    BY <1>1, <2>10, WakeForNothingStep
  <2>11. QED
    BY <1>3, <2>1, <2>2, <2>3, <2>4, <2>5, <2>6, <2>7, <2>8, <2>9, <2>10 DEF Step
<1>4. QED
  BY <1>1, <1>2, <1>3 DEF Next

(* The lock of Synchronization_Object keeps every fork in one hand, however  *)
(* many philosophers there are and in whatever order they run.              *)
THEOREM ForksAreHeldOnce == Spec => []ForksHeldOnce
<1>1. IInv => ForksHeldOnce
  BY DEF IInv
<1>2. QED
  BY <1>1, InitInv, NextInv, PTL DEF Spec

(* No order of exchange, WaitOnAddress and WakeByAddressSingle leaves a      *)
(* philosopher asleep beside a free fork that nobody will wake it for.       *)
THEOREM NoWakeupIsLost == Spec => []NoLostWakeup
<1>1. IInv => NoLostWakeup
  BY DEF IInv
<1>2. QED
  BY <1>1, InitInv, NextInv, PTL DEF Spec
=============================================================================
