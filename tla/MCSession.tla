------------------------------ MODULE MCSession ------------------------------
(* Parts of the servers side by side; a behaviour is about one of them, the *)
(* others stay in one small initial state.                                  *)
(*   "session": a session of the later server; with the constants of the    *)
(*   .cfg its rings hold seven bytes: messages of two or three bytes wrap   *)
(*   around in every way, and two connections use it.                       *)
(*   "clock": the clocks of the later server, which count modulo 13.        *)
(*   "early": the first server with three sessions and short queues.        *)
EXTENDS Servers

VARIABLE part

OneDamage == << 1 >>
Corner    == { << 0, 0 >> }

clockVars == << boot, now, start, framed, last, heardAt, hp, hits, taken, given >>
earlyVars == << phase, lastId, alive, ses, socketless, eSendQ, eListed, readSet,
                writeSet, burst, told, view >>

MCInit ==
  /\ part \in {"session", "clock", "early"}
  /\ Init /\ Early!Init
  /\ Clock!Init /\ (part # "clock" => boot = 0)

MCNext ==
  /\ UNCHANGED part
  /\ IF part = "session" THEN Next ELSE UNCHANGED vars
  /\ IF part = "clock" THEN Clock!Next ELSE UNCHANGED clockVars
  /\ IF part = "early" THEN Early!Next ELSE UNCHANGED earlyVars

MCSpec == MCInit /\ [][MCNext]_<< part, vars, clockVars, earlyVars >>
==============================================================================
