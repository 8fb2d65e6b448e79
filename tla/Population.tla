------------------------------ MODULE Population ------------------------------
(* Servers whose clients come and go beside the fighter server: a session of *)
(* the IOCP library, and the star server, for PopulationProofs and           *)
(* MCPopulation.                                                             *)
EXTENDS LanSession, FiniteSets

CONSTANTS Sockets, Room, Width, PacketSize, MaxId, MaxMoves                   \* Star

VARIABLES
  star, isSet, batch, g_ID, Player_List, set_Delete_List,
  conn, inbox, outbox, me, others, missed, moves                  \* Star

(* Sockets are numbers, as many as a set of select holds; a socket takes a   *)
(* message; there is a column that a star may be in; and a packet has bytes. *)
ASSUME StarAssumption ==
  /\ Sockets \subseteq Int /\ IsFiniteSet(Sockets)
  /\ Room \in Nat \ {0} /\ Width \in Nat \ {0, 1} /\ PacketSize \in Nat \ {0}
  /\ MaxId \in Nat /\ MaxMoves \in Nat

Star == INSTANCE OnlineStar WITH phase <- star
-----------------------------------------------------------------------------
(* OnlineStar: only players are on the list of players to delete, and a     *)
(* client that nothing was kept from shows the other stars where they are.  *)
StarsShown == Star!DeletedArePlayers /\ Star!OthersShown
==============================================================================
