\* Every map of 3 x 3 cells; four edits of the window at two of them
\* and at two points off the map.  A
\* search that has failed stops, and the window may.
CONSTANTS
  GridWidth = 3
  GridHeight = 3
  Starts <- SomeStarts
  Goals <- AllCells
  Clicks <- SomeClicks
  MaxEdits = 4
SPECIFICATION MCSpec
INVARIANTS
  ListsAgree
  ParentsLead
  MarkersMatch
PROPERTIES
  PromiseKept
  SearchEnds
CHECK_DEADLOCK FALSE
