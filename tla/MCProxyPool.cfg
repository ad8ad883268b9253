SPECIFICATION FairSpec
CONSTANTS
    Proxies = {"p1", "p2"}
    Solves = {u1, u2, u3}
    NoProxy = NoProxy
    MinSamples = 2
    RateNum = 1
    RateDen = 2
    MaxFails = 2
    Cooldown = 1
    MaxBytes = 2
    Sizes = {0, 1}
    MaxLag = 0
    KindOf <- mcKindOf
PROPERTIES BurnedIsFinal CooldownIsServed BackInRotation
CHECK_DEADLOCK FALSE
