SPECIFICATION Spec
CONSTANTS
    w1 = w1
    w2 = w2
    t1 = t1
    t2 = t2
    Workers <- TwoWorkers
    Tables <- TwoTables
    Exclusive <- Nobody
    MaxOrders = 2
    MaxSessions = 3
SYMMETRY Symmetry
INVARIANTS
    TypeOK
    KeysUnique
    RowsFollowSession
    ArchiveImpliesClosed
PROPERTIES
    LeftoverOnlyIfLate
    AtomicUnlessStale
