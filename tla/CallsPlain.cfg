SPECIFICATION Spec
CONSTANTS
  Global = Global
  NULL = NULL
  Line = Line
  Funs = {f, g}
  Tables = {t1, t2}
  Ids = {x, y}
  Uses = {}
  MaxArgs = 1
  MaxCalls = 2
SYMMETRY Symmetry
CHECK_DEADLOCK FALSE
INVARIANTS IdsResolve NamesAsParsed SitesFit
