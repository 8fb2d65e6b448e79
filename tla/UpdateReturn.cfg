\* Two players in one sector, one with a direction that does not exist.
CONSTANTS
  MoveRight = 0
  MoveBottom = 0
  GridX = 1
  GridY = 1
  MaxSession = 2
  FdSetSize = 2
  MaxBurst = 1
  SendQCap = 3
  SpeedX = 1
  SpeedY = 1
  ErrorRange = 1
  MaxHP = 1
  MinHP = 0
  AttackRangeX <- NoAttack
  AttackRangeY <- NoAttack
  AttackDamage <- NoAttack
  TimeoutFrames = 1
  SpawnPositions <- Corner
  ClientPositions <- Corner
  Directions = {}
  BadDirections = {9}
SPECIFICATION Spec
PROPERTIES
  EveryPlayerUpdated
