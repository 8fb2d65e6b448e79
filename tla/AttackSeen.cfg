\* Two players on a strip of four sectors; an attack reports a position in
\* another sector than the attacker's.
CONSTANTS
  MoveRight = 3
  MoveBottom = 0
  GridX = 1
  GridY = 1
  MaxSession = 2
  FdSetSize = 2
  MaxBurst = 1
  SendQCap = 3
  SpeedX = 1
  SpeedY = 1
  ErrorRange = 1
  MaxHP = 2
  MinHP = 0
  AttackRangeX <- TwoKinds
  AttackRangeY <- TwoKinds
  AttackDamage <- TwoKinds
  TimeoutFrames = 1
  SpawnPositions <- Anywhere
  ClientPositions <- Anywhere
  Directions = {}
  BadDirections = {}
SPECIFICATION Spec
PROPERTIES
  AttackSeenByAll
