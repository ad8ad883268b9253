SPECIFICATION FairSpec
CONSTANTS
    Users = {u1, u2}
    Warmers = {w1, w2}
    NoSession = NoSession
    Keys = {"proxyless", "proxy1"}
    Proxyless = "proxyless"
    Size = 2
    MaxSolves = 3
    MaxReports = 1
INVARIANTS PermitsConserved LiveBounded SessionServesItsCaller
    TrackedContextsOpen
PROPERTIES CheckoutsEnd
