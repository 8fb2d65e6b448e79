\* The constants of the other programs are in the module.  Philosophers and
\* loggers have only so much to do.
CONSTANTS
  nNum = 3
  Rounds = 1
SPECIFICATION MCSpec
INVARIANTS
  ForksHeldOnce
  NoLostWakeup
PROPERTIES
  SleeperWakes
  EveryCallEnds
  EveryByteTaken
  GoneAreRemoved
CHECK_DEADLOCK FALSE
