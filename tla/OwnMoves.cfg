\* Two sockets, three players ever, one move.  The server stops when a
\* connection is gone before it has been greeted.
CONSTANTS
  Sockets = {1, 2}
  Room = 3
  Width = 4
  PacketSize = 2
  MaxId = 3
  MaxMoves = 1
SPECIFICATION Spec
INVARIANT OwnMovesNotSent
CHECK_DEADLOCK FALSE
