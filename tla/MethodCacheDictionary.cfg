SPECIFICATION Spec
CONSTANTS
  object = object
  sub = sub
  selector1 = selector1
  selector2 = selector2
  m1 = m1
  m2 = m2
  n1 = n1
  k1 = k1
  Nil = Nil
  Classes <- MCClasses
  Selectors <- MCSelectors
  Methods <- MCMethods
  MethodName <- MCMethodName
  MethodClass <- MCMethodClass
  Before <- MCBefore
  ImageValues <- MCImageValues
  Strays <- MCStrays
  parentClass <- MCParentClass
  StaticAddress <- MCStaticAddress
  SpaceOne <- MCSpaceOne
  SpaceTwo <- MCSpaceTwo
  Lines <- MCLines
  Hash <- MCHash
INVARIANTS
  ValueOfItsKey
