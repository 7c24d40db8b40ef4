SPECIFICATION FairSpec
CONSTANTS
    Agents = {basic}
    Requests = {r1, r2}
    Calls = {c1}
    Ops <- AllOps
    PoolSize = 3
    RedisMayFail = TRUE
INVARIANTS
    TypeOK
    NothingUncommitted
    SnapshotHasTheChange
    
PROPERTIES
    CacheConverges
    
CHECK_DEADLOCK FALSE
