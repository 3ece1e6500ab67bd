SPECIFICATION Spec
CHECK_DEADLOCK FALSE
CONSTANTS
  MaxOrders = 5
  PageSize = 2
  MaxErrors = 1
  Prompt = TRUE
INVARIANTS
  TypeOK
  InOrder
  NoGap
PROPERTIES
  ReachesEnd
