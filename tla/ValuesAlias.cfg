SPECIFICATION Spec
CONSTANTS
  Free = Free
  Factors = Factors
  NULL = NULL
  Ids = {v, w}
  Locals = {v, w}
  Ans = ans
  Blocks = {b1, b2, b3, b4}
  Data = {p, q}
  Uses = {"alias"}
  MaxStack = 3
SYMMETRY Symmetry
CHECK_DEADLOCK FALSE
PROPERTY AssignStores
