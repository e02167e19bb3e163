SPECIFICATION FairSpec
CONSTANTS
  MaxTasks = 3
  MaxEnds = 2
CHECK_DEADLOCK FALSE
INVARIANTS
  ListDescends
  ListExact
  FinishedNotResumed
PROPERTIES
  PassEnds
  RoundRobin
