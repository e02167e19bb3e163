SPECIFICATION Spec
CONSTANTS
  Exprs <- MCExprs
  Sources <- MCBelowCondition
  Padding = 1
  Childless = TRUE
INVARIANT
  StackSemantics
