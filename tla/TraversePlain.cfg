SPECIFICATION Spec
CONSTANTS
  NULL = NULL
  Node <- MCNode
  Kind <- MCKind
  Kids <- MCKids
  Body <- MCBody
  Else <- MCElse
  Lines <- PlainLines
  Faults = {}
  MaxList = 6
  MaxFlag = 2
CHECK_DEADLOCK FALSE
INVARIANTS TypeOK PopsOwn NoCrash FlagsClearAtPrompt
PROPERTY JumpsObeyed
