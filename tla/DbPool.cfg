SPECIFICATION FairSpec
CONSTANTS
    r1 = r1
    r2 = r2
    r3 = r3
    Request = {r1, r2, r3}
    Idle = Idle
    MayServe <- Mixed
    PoolSize = 2
INVARIANTS
    EveryDiscardCountsOnce
    RoomFirstNeverDeadlocks
PROPERTY EveryRequestEnds
