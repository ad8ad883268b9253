SPECIFICATION FairSpec
CONSTANTS
    Invocations = {i1, i2, i3}
    Threshold = 2
    Slots <- mcSlots
    CloudEnabled = TRUE
INVARIANTS LatchHasProbe ClosedBelowThreshold
PROPERTIES HalfOpenResolves
