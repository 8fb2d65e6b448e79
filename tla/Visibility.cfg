\* Two players on a strip of three sectors: they report either end of it,
\* walk, also in a direction there is not, hit one another, and their send
\* queues fill up.
CONSTANTS
  MoveRight = 2
  MoveBottom = 0
  GridX = 1
  GridY = 1
  MaxSession = 2
  FdSetSize = 2
  MaxBurst = 1
  SendQCap = 3
  SpeedX = 1
  SpeedY = 1
  ErrorRange = 1
  MaxHP = 1
  MinHP = 0
  AttackRangeX <- OneKind
  AttackRangeY <- OneKind
  AttackDamage <- OneKind
  TimeoutFrames = 1
  SpawnPositions <- Corner
  ClientPositions <- Ends
  Directions = {4}
  BadDirections = {9}
SPECIFICATION Spec
INVARIANTS
  TypeOK
  SectorListsExact
  IdsConserved
  DisconnectListExact
  ClientsInformed
