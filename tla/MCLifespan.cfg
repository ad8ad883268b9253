SPECIFICATION Spec
CONSTANT MaxFaults = 2
INVARIANTS HealthTellsTheTruth DegradedTellsAll EverythingReleased
PROPERTY NothingOutlivesItsBrowser
