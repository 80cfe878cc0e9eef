SPECIFICATION Spec
CONSTANTS
  Ids = {x1, x2}
  Groups = {g1, g2}
  Variants = {v1, v2}
  Callers = {c1, c2}
  MaxQuantity = 2
  MaxCauses = 1
  MaxCriteria = 2
  Limit = 1
  None = None
SYMMETRY IdSymmetry
CHECK_DEADLOCK FALSE
INVARIANTS
  TypeOK
  OrderedIsSum
  OneTaker
  ReadyIsTold
PROPERTIES
  DecisionStands
