SPECIFICATION Spec
CONSTANTS
    Solves = {"s1", "s2"}
    Proxies = {"p1"}
    Sessions = {"w1"}
    Plans <- MCPlans
    Retries = 2
    MaxCancels = 2
INVARIANTS SessionComesBack RecordNamesItsEgress OneProxySuccess RoutesAreTakenOff 
PROPERTY EverySolveEnds
