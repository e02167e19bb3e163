SPECIFICATION Spec
CONSTANTS
  Width = 6
  ByteBits = 2
  WordBytes = 3
  Short = Short
  Long = Long
  Dynamic = Dynamic
  Static = Static
  Strings = {Short, Long}
  Arrays = {Dynamic, Static, nilObject, trueObject, falseObject}
  StaticObjects = {Static, nilObject, trueObject, falseObject}
  InitialHeap <- MCHeap
  Descriptors = {0}
  Indices <- MCIndices
  MaxChanges = 1
  nilObject = nilObject
  trueObject = trueObject
  falseObject = falseObject
INVARIANTS
  MemorySafe
  ArithmeticExact
PROPERTY
  EnginesAgree
