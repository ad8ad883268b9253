SPECIFICATION FairSpec
CONSTANTS
    Requests = {r1, r2}
    Clients = {"alice"}
    GlobalCap = 2
    ClientCap = 2
    Workers = {"w1", "w2"}
    Keys = {"k"}
    NoKey = "nokey"
    NoTask = NoTask
    Shapes <- mcShapes
    Pools <- mcPools
    PoolSize <- mcPoolSize
    CategoryBudget <- mcCategoryBudget
    QueueMaxSize = 2
    Estimate = 0
    SolveTimeout = 1
    TaskTTL = 1
    ClaimTTL = 2
    MaxClock = 2
    Outages <- mcNoOutages
    MaxFaults = 1
INVARIANTS OneTaskPerKey CoalescedPayloadAgrees KeyFindsItsTask AnsweredTaskIsStored
PROPERTIES EverythingEnds
