SPECIFICATION Spec
CONSTANTS
    Workers = {w1, w2}
    Tasks = {t1, t2}
    Sinks = {"accounting", "proxy"}
    Legacy = 1
    MaxIndex = 1
    MaxBuckets = 1
    MaxWrites = 2
    MaxFailures = 1
INVARIANTS OneVerdictPerTask SpendAddsUp IndexCatchesUp
SYMMETRY symmetry
