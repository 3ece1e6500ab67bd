SPECIFICATION Spec
CONSTANTS
  Desks = {d1, d2}
  Threads = 3
  MaxGone = 2
  MaxFailures = 2
  Lockout = 2
  Life = 2
INVARIANTS
  TypeOK
  FailuresBounded
PROPERTIES
  LockEnds
