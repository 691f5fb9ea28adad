SPECIFICATION Spec
CONSTANTS
  NULL = NULL
  Node <- MCNode
  Kind <- MCKind
  Kids <- MCKids
  Body <- MCBody
  Else <- MCElse
  Lines <- ErrorLines
  Faults = {"error", "type", "silent"}
  MaxList = 6
  MaxFlag = 2
CHECK_DEADLOCK FALSE
PROPERTIES ErrorStopsLine ErrorEnds
