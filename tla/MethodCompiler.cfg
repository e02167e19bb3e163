SPECIFICATION Spec
CONSTANTS
  Exprs <- MCExprs
  Sources <- MCSources
  Padding = 1
  Childless = TRUE
INVARIANTS
  BlocksAsEmitted
  ArgumentsExact
  EdgesFollowControl
  ValuesFresh
  SendsCatchBlockReturn
  FaultsExplained
PROPERTY
  CompilationEnds
