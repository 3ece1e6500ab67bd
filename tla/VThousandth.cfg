SPECIFICATION Spec
CHECK_DEADLOCK FALSE
CONSTANTS
  Base = 3
  Width = 2
  MaxSeq = 10
  Days = 1
INVARIANTS
  NextIsNew
