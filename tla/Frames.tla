-------------------------------- MODULE Frames -------------------------------
(***************************************************************************)
(* The clocks and counters of the TCPFighter server that run over: the     *)
(* frame clock of main, netHeartbeat's comparison of times, and the hit    *)
(* points that attacks take from a player until the next Update looks at   *)
(* them.  One client's session, and the listening one; all handlers take   *)
(* no time, which passes a millisecond at a time between them.             *)
(***************************************************************************)
EXTENDS Integers

CONSTANTS
  Word,       \* 2^32: the clock and its arithmetic count modulo this
  Tick,       \* TICK_PER_FRAME
  Limit,      \* 32000: milliseconds that netHeartbeat tolerates
  Half,       \* 128: a char is in -Half .. Half - 1
  MaxHP,      \* _HP of a new player (100)
  Damages,    \* dfATTACKn_DAMAGE
  MaxTime,    \* bound: milliseconds
  MaxHits     \* bound: hit points taken

VARIABLES
  boot,      \* what timeGetTime returned when the server started
  now,       \* milliseconds since then
  start,     \* g_Start_Time
  framed,    \* when the last frame was
  last,      \* dwLastRecvTime
  heard,     \* when that was
  hp,        \* _HP
  hits,      \* hit points taken in all ...
  taken,     \* ... and since the last frame
  listed     \* the sessions on the disconnect list: 0 is the listening one

vars == << boot, now, start, framed, last, heard, hp, hits, taken, listed >>

timeGetTime == (boot + now) % Word

Init ==
  /\ boot \in 0 .. Word - 1
  /\ now = 0
  /\ start = boot /\ framed = 0
  /\ last = boot /\ heard = 0
  /\ hp = MaxHP /\ hits = 0 /\ taken = 0
  /\ listed = {}

Pass ==
  /\ now < MaxTime
  /\ now' = now + 1
  /\ UNCHANGED << boot, start, framed, last, heard, hp, hits, taken, listed >>

Receive ==
  /\ last' = timeGetTime
  /\ heard' = now
  /\ UNCHANGED << boot, now, start, framed, hp, hits, taken, listed >>

(* The char an int becomes. *)
Char(i) == ((i + Half) % (2 * Half)) - Half

(* netPacketProc_Attack1, 2, 3 *)
Attack(d) ==
  /\ hits < MaxHits
  /\ hp' = Char(hp - d)
  /\ hits' = hits + d /\ taken' = taken + d
  /\ UNCHANGED << boot, now, start, framed, last, heard, listed >>

(* Mutant: the listening session is watched like the others. *)
MutSince(s) == last

(* dwLastRecvTime, which is INFINITE - 32000 for the listening session.     *)
Since(s) == IF s = 0 THEN Word - 1 - Limit ELSE last

(* Mutant: one millisecond more. *)
MutOverdue(s) == (Since(s) + Limit + 1) % Word < timeGetTime

Overdue(s) == (Since(s) + Limit) % Word < timeGetTime

(* Mutant: as the comment above the test says, HP == 0. *)
MutDead == hp = 0

Dead == hp <= 0

(* Mutant: the line that is commented out. *)
MutNextStart == (start + Tick) % Word

(* The frames lie on a grid that begins at g_dwFirst. *)
NextStart == (timeGetTime - (((timeGetTime - boot) % Word) % Tick)) % Word

(* netHeartbeat, then Update, which passes over a listed player. *)
Frame ==
  /\ (timeGetTime - start) % Word >= Tick
  /\ start' = NextStart
  /\ framed' = now
  /\ listed' = listed \cup { s \in {0, 1} : Overdue(s) \/ (s = 1 /\ Dead) }
  /\ taken' = 0
  /\ UNCHANGED << boot, now, last, heard, hp, hits >>

Next == Pass \/ Receive \/ (\E d \in Damages : Attack(d)) \/ Frame

Spec == Init /\ [][Next]_vars
-----------------------------------------------------------------------------
(* However late a frame is, the frames missed are not made up for: two are  *)
(* never in the same cell of the grid, until the difference of times itself *)
(* runs over (main.cpp:108-114).                                            *)
OneFramePerCell ==
  [][framed' # framed \/ taken' < taken =>
       \/ now \div Tick > framed \div Tick
       \/ now >= Word]_vars

(* netHeartbeat gives up a session only after Limit without a message, or   *)
(* when its limit lies beyond the end of the clock; and the listening       *)
(* session never (Session.cpp:1233, 274).                                   *)
HeardIsKept ==
  [][/\ 0 \notin listed'
     /\ 1 \in listed' \ listed =>
          now - heard > Limit \/ last + Limit >= Word \/ hits >= MaxHP]_vars

(* A frame more than Limit after the last message gives the session up, if  *)
(* the clock has not run over since then.                                   *)
SilentIsListed ==
  [][framed' # framed =>
       \/ 1 \in listed'
       \/ now - heard <= Limit
       \/ (boot + heard) \div Word < (boot + now) \div Word]_vars

(* A player that has lost all its hit points is given up in the next frame, *)
(* unless more than Half of them went within one frame (Player.h:32).       *)
DeadIsListed ==
  [][framed' # framed /\ hits - taken < MaxHP /\ taken <= Half /\ hits >= MaxHP =>
       1 \in listed']_vars
==============================================================================
