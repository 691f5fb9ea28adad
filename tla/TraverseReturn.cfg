SPECIFICATION Spec
CONSTANTS
  NULL = NULL
  Node <- MCNode
  Kind <- MCKind
  Kids <- MCKids
  Body <- MCBody
  Else <- MCElse
  Lines <- ReturnLines
  Faults = {}
  MaxList = 3
  MaxFlag = 2
CHECK_DEADLOCK FALSE
PROPERTY ReturnLeavesFunction
