SPECIFICATION Spec
CHECK_DEADLOCK FALSE
CONSTANTS
  Desks = {d1, d2}
  Categories = {1, 2}
  MaxForms = 4
INVARIANTS
  TypeOK
  ShownIsStored
  MovedAsAsked
  SavedOnce
PROPERTIES
  BusyEnds
