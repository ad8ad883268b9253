SPECIFICATION FlowSpec
CONSTANTS
    Requests = {h1, h2, h3}
    Tasks = {h1, h2, h3}
    Clients = {"alice", "bob"}
    Payers = {"alice", "bob"}
    GlobalCap = 2
    ClientCap = 1
    Estimates = {0, 1}
    MaxRecords = 2
    MaxAttempts = 4
INVARIANTS SpendWithinCaps IndexMatchesRing
SYMMETRY symFlows
