SPECIFICATION FairSpec
CONSTANTS
  WordValues = 512
  Addresses <- MCAddresses
  InitialHeapSizes <- MCInitialHeapSizes
  MaxHeapSize = 192
  Requests <- MCRequests
  StaticHeapSizes <- MCStaticHeapSizes
  MaxHeaps = 3
CHECK_DEADLOCK FALSE
INVARIANTS
  SpacesFit
  LargeRequestServed
  PointerAligned
PROPERTIES
  LimitOvershotOnce
  NullMeansFull
  ImplementsMemoryManager
  RequestsAnswered
