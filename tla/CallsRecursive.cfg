SPECIFICATION Spec
CONSTANTS
  Global = Global
  NULL = NULL
  Line = Line
  Funs = {f, g}
  Tables = {t1, t2}
  Ids = {x}
  Uses = {"recursion"}
  MaxArgs = 1
  MaxCalls = 3
SYMMETRY Symmetry
CHECK_DEADLOCK FALSE
INVARIANT GlobalAtPrompt
