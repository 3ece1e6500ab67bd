SPECIFICATION Spec
CHECK_DEADLOCK FALSE
CONSTANTS
  Tables = {1, 2}
  DefaultTable = 1
  MaxSessions = 2
  Ideals <- Behaviours
INVARIANTS
  TypeOK
  FollowsConfig
  SessionOfTable
PROPERTIES
  StartEnds
