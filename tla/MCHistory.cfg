SPECIFICATION Spec
CONSTANTS
  Tables = {1, 2}
  Hours = 3
  Offset = 1
  Days = 2
  MaxRows = 2
  Filters <- Some
INVARIANTS
  TypeOK
  RightDays
  NewestFirst
