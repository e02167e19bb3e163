SPECIFICATION Spec
CONSTANTS
  Nil = Nil
  object = object
  sub = sub
  run = run
  bar = bar
  dnu = dnu
  mRun = mRun
  mBar = mBar
  mBarNew = mBarNew
  mBarSub = mBarSub
  mDnu = mDnu
  Classes = {object, sub}
  Selectors = {run, bar, dnu}
  Methods <- MCMethods
  klass <- MCKlass
  name <- MCName
  parentClass <- MCParentClass
  Sends <- MCSends
  Installed <- MCInstalled
  Entries = {run}
  doesNotUnderstand = mDnu
  StaticAddress <- MCStaticAddress
  SpaceOne <- MCSpaceOne
  SpaceTwo <- MCSpaceTwo
  Line <- MCLine
  MaxDisturbances = 2
  MaxInvoked = 2
CONSTRAINT Explored
INVARIANTS
  DispatchExact
  
CHECK_DEADLOCK FALSE
