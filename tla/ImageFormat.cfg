SPECIFICATION Spec
CONSTANTS
  Images <- MCImages
  Escape = 7
  WordSize = 2
  Orders <- MCOrders
INVARIANTS
  LoadedIsomorphic
  CutNotLoaded
PROPERTY
  LoadingEnds
