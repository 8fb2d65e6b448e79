\* The two threads on a buffer of five cells that is gone round more than
\* twice, and the parts of module Parts; the constants of the others are in
\* the module.  Most of them have only so much to do.
CONSTANTS
  FullSize = 5
  DirectTest = TRUE
  RandMax = 5
  SizeT = 16
  MaxBytes = 13
  MoveRight = 12
  MoveBottom = 7
  GridX = 3
  GridY = 2
  ErrorRange = 2
  RangeX = 3
  RangeY = 2
  Threads = {"s", "t"}
  Blocks = {"a", "b", "c"}
  iBlockNum = 1
  FreeReleases = TRUE
  Seats = {0, 1, 2}
  Rounds = 2
  MaxLen = 20
  MaxAlign = 6
  DefaultSize = 3
  MaxSize = 13
  Widths = {1, 2, 3}
  MaxPut = 12
  Loggers = {1, 2}
  Word = 32
  Initial = 4
  Header = 3
  Notice = 2
  Calls <- SomeCalls
  MaxCalls = 1
  MaxChanges = 1
  GridWidth = 4
  GridHeight = 4
  Starts <- SomeStarts
  Goals <- SomeGoals
  MaxWalls = 3
  MaxJumps = 2
  Nodes = {"m", "n", "o"}
  Values = {0, 1}
  TreeNodes = {"a", "b", "c", "d"}
  TreeKeys = {1, 2, 3, 4}
  MaxNodes = 8
  RedBlackKeys = {1, 2, 3}
SPECIFICATION MCSpec
INVARIANTS
  NoOverrun
  SectorsExact
  JumpsAgree
  PoolExact
  TreeBalanced
  EatsAlone
  TextFits
  TakenAsPut
  LinesInOrder
PROPERTIES
  PipeSpec
  QueueNothingRefused
  CaveKept
  ListKeepsPromise
  TreeKeepsPromise
CHECK_DEADLOCK FALSE
