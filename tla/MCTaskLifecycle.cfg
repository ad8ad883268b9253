SPECIFICATION Spec
CONSTANTS
    Requests = {r1, r2}
    Clients = {"alice", "bob"}
    GlobalCap = 2
    ClientCap = 1
    Workers = {"w1"}
    Keys = {"k"}
    NoKey = "nokey"
    NoTask = NoTask
    Shapes <- mcShapes
    Pools <- mcPools
    PoolSize <- mcPoolSize
    CategoryBudget <- mcCategoryBudget
    QueueMaxSize = 2
    Estimate = 1
    SolveTimeout = 1
    TaskTTL = 1
    ClaimTTL = 2
    MaxClock = 2
    Outages <- mcAllOutages
    MaxFaults = 1
INVARIANTS InflightIsOpenHolds HoldOutlivesOnlyCutShort
SYMMETRY symRequests
