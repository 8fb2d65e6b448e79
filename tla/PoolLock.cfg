\* The copies of Library: Free returns before it gives the lock back, after
\* which the thread itself, or another, waits for it forever.
CONSTANTS
  Threads = {"s", "t"}
  Blocks = {"a", "b", "c"}
  iBlockNum = 1
  FreeReleases = FALSE
SPECIFICATION Spec
INVARIANT LockGivenBack
CHECK_DEADLOCK FALSE
