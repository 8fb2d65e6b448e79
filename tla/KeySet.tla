------------------------------- MODULE KeySet --------------------------------
(***************************************************************************)
(* What the callers of CTREE rely on: a set of keys.  The call and its key  *)
(* are part of the state, so that the change and the answer are those of    *)
(* the key that was asked for.                                              *)
(***************************************************************************)
CONSTANT Keys

VARIABLES
  keys,
  asked,      \* the last call and its key
  answer      \* what the last erase or find returned

kvars == << keys, asked, answer >>

KInit == keys = {} /\ asked = << >> /\ answer = FALSE

Add(k) ==
  /\ asked' = << "insert", k >>
  /\ keys' = keys \union {k} /\ UNCHANGED answer

Delete(k) ==
  /\ asked' = << "erase", k >>
  /\ keys' = keys \ {k} /\ answer' = (k \in keys)

Contains(k) ==
  /\ asked' = << "find", k >>
  /\ answer' = (k \in keys) /\ UNCHANGED keys

KNext == \E k \in Keys : Add(k) \/ Delete(k) \/ Contains(k)

KSpec == KInit /\ [][KNext]_kvars

=============================================================================
