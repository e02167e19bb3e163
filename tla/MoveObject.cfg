SPECIFICATION FairSpec
CONSTANTS
  SmallInt = SmallInt
  ActiveBase = 1
  ActiveTop = 13
  OldSpace <- MCOldSpace
  Slots = 2
  InitialHeaps <- MCHeaps
INVARIANTS
  ForwardingExact
  WayBack
  CopyIsomorphic
PROPERTY
  CollectionTerminates
CHECK_DEADLOCK FALSE
