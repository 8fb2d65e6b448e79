\* QueuePush and QueuePop on a buffer of five cells that is gone
\* round more than twice.
CONSTANTS
  FullSize = 5
  DirectTest = FALSE
  RandMax = 5
  SizeT = 16
  MaxBytes = 13
SPECIFICATION Spec
INVARIANTS
  ReadPosFollows
