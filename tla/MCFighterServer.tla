-------------------------- MODULE MCFighterServer ---------------------------
(* Values of the constants of FighterServer that a .cfg cannot write.      *)
EXTENDS FighterServer

Anywhere == Positions
Ends     == { << 0, 0 >>, << MoveRight, 0 >> }
Corner   == { << 0, 0 >> }
NoAttack == << >>
OneKind  == << 1 >>
TwoKinds == << 1, 1 >>
=============================================================================
