------------------------------- MODULE Servers -------------------------------
(* A session of the later fighter server, its clocks, and the first server, *)
(* one beside the other, for ServersProofs and MCSession.                   *)
EXTENDS Session

CONSTANTS
  Word, Tick, Silence, Half, FullHP, Blows, MaxTime, MaxHits,        \* Clock
  MaxId, MaxAlive, Capacity, MaxBurst, MoveLeft, MoveRight, MoveTop, \* Early
  MoveBottom, MovementX, MovementY, ErrorRange, RangeX, HalfRangeY, NewHP,
  Damages, MinHP, Directions, Claims

VARIABLES
  boot, now, start, framed, last, heardAt, hp, hits, taken, given,   \* Clock
  phase, lastId, alive, ses, socketless, eSendQ, eListed, readSet, writeSet,
  burst, told, view                                                  \* Early

(* The hit points of a new player fit in a char, and attacks only take      *)
(* some (Player.h:32, PacketDefine.h).                                      *)
ASSUME ClockAssumption ==
  /\ Word \in Nat \ {0} /\ Tick \in Nat \ {0}
  /\ Silence \in 0 .. Word - 1
  /\ Half \in Nat \ {0} /\ FullHP \in 1 .. Half - 1
  /\ Blows \subseteq Nat
  /\ MaxTime \in Nat /\ MaxHits \in Nat

ASSUME EarlyAssumption == MaxId \in Nat /\ Capacity \in Nat

Clock == INSTANCE Frames WITH
  Limit <- Silence, MaxHP <- FullHP, Damages <- Blows, heard <- heardAt, listed <- given

Early == INSTANCE EarlyServer WITH
  Limit <- MaxAlive, MaxHP <- NewHP, sendQ <- eSendQ, listed <- eListed
-----------------------------------------------------------------------------
(* Frames: no two frames in one cell of the clock's grid.                   *)
OneFramePerCell == Clock!OneFramePerCell

(* Frames: who was heard of is kept; who is silent, or has lost its hit     *)
(* points, is given up.                                                     *)
GivenUpRightly == Clock!HeardIsKept /\ Clock!SilentIsListed /\ Clock!DeadIsListed

(* EarlyServer: nobody is given up twice, and every client knows the        *)
(* sessions there are, how they move and what hit points they have left.    *)
EarlyAgrees ==
  /\ Early!ListedOnce
  /\ Early!ViewExact /\ Early!MotionKnown /\ Early!HitPointsKnown
==============================================================================
