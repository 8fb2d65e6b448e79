-------------------------------- MODULE Pipe --------------------------------
(***************************************************************************)
(* What a ring buffer promises its two users: a pipe that holds at most    *)
(* Capacity bytes.  Bytes are numbered in the order they are written; put  *)
(* of them have been written and got of them have been read.               *)
(***************************************************************************)
EXTENDS Integers

CONSTANT Capacity

VARIABLES put, got

Init == put = 0 /\ got = 0

Put ==
  /\ \E n \in 1 .. Capacity - (put - got) : put' = put + n
  /\ UNCHANGED got

Take ==
  /\ \E n \in 1 .. put - got : got' = got + n
  /\ UNCHANGED put

Spec == Init /\ [][Put \/ Take]_<< put, got >>
=============================================================================
