SPECIFICATION CollectorSpec
CONSTANTS
  StaticObjects = {A}
  Fields = 2
  LoadedValues <- MCAnyImageField
  MaxCount = 2
  MaxListed = 2
  Hptrs = {p1, p2, p3}
  Null = Null
SYMMETRY MCSymmetry
INVARIANTS
  BarrieredSlotsAreRoots
  NoDanglingStaticSlot
  ListIsScope
  NoDanglingHptr
