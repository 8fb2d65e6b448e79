\* One echo session, three workers, two messages; two sockets and three
\* players ever, one move; the constants of the other settings are in the
\* module.  The star server stops when a connection is gone before it has been
\* greeted, and the echo session when its client has sent everything.
CONSTANTS
  Workers = {"u", "v", "w"}
  MaxBuffers = 2
  Capacity = 4
  MaxMessages = 2
  Sockets = {1, 2}
  Room = 3
  Width = 4
  PacketSize = 2
  MaxId = 3
  MaxMoves = 1
SPECIFICATION MCSpec
INVARIANTS
  ClientsInformed
  StarsShown
  EchoInOrder
  SentBeforeFreed
  NothingStranded
CHECK_DEADLOCK FALSE
