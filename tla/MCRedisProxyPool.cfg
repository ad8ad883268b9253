SPECIFICATION SharedSpec
CONSTANTS
    Proxies = {p1}
    Solves = {u1, u2}
    NoProxy = NoProxy
    MinSamples = 1
    RateNum = 1
    RateDen = 2
    MaxFails = 1
    Cooldown = 2
    MaxBytes = 1
    Sizes = {0, 1}
    MaxLag = 1
    KindOf <- mcKindOf
    MaxLost = 1
    Pools = {u1, u2}
    PoolOf <- mcPoolOf
    MaxBoots = 1
INVARIANT LockExcludes
PROPERTIES ImplementsContract
SYMMETRY symmetry
CHECK_DEADLOCK FALSE
