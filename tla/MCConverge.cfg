SPECIFICATION Spec
CHECK_DEADLOCK FALSE
CONSTANTS
  Tables = {1}
  MaxOrders = 1
  MaxBreaks = 1
  Threads = 2
  QueueMax = 1
  Previews = 1
INVARIANTS
  
  StoredIsShown
PROPERTIES
  Converges
