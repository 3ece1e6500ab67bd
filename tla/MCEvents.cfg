SPECIFICATION Spec
CHECK_DEADLOCK FALSE
CONSTANTS
  Tables = {1}
  MaxOrders = 2
  MaxBreaks = 1
  Threads = 1
  QueueMax = 1
  Previews = 0
INVARIANTS
  TypeOK
  UnseenShown
