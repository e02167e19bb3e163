SPECIFICATION Spec
CONSTANTS
  ProcCount = 2
  MaxContexts = 6
  MaxStack = 2
  WordRange = 16
  Quanta <- MCQuanta
CHECK_DEADLOCK FALSE
CONSTRAINT Explored
INVARIANTS
  TailCallsTransparent
  ChainEnds
  SavedStackExact
