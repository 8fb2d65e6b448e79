\* One session of the later server: its process stops at an incomplete
\* message.  The clocks stop at their bound.
CONSTANTS
  FullSize = 8
  Header = 2
  Payloads = {0, 1}
  Replies = {3}
  MaxReceived = 6
  MaxSent = 3
  MaxReplies = 4
  MaxConnections = 2
\* The clocks.
  Word = 13
  Tick = 3
  Silence = 4
  Half = 3
  FullHP = 2
  Blows = {1, 2}
  MaxTime = 16
  MaxHits = 5
\* The first server.
  MaxId = 3
  MaxAlive = 2
  Capacity = 3
  MaxBurst = 1
  MoveLeft = 0
  MoveRight = 1
  MoveTop = 0
  MoveBottom = 0
  MovementX = 1
  MovementY = 1
  ErrorRange = 0
  RangeX = 2
  HalfRangeY = 1
  NewHP = 1
  Damages <- OneDamage
  MinHP = 0
  Directions = {4}
  Claims <- Corner
SPECIFICATION MCSpec
INVARIANTS
  HandledAsSent
  HeardAsQueued
  EarlyAgrees
PROPERTIES
  OneFramePerCell
  GivenUpRightly
CHECK_DEADLOCK FALSE
