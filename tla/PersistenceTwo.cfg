\* Two sessions share the queue, the round robin and one drain.
CONSTANTS
    Sessions = {s1, s2}
    Sizes = {1}
    Budget = 2
    FinalReserve = 1
    MaxRevision = 1
    MaxTransit = 2
    MaxDrains = 1
    MaxExclusive = 0
    SlowDrain = FALSE
SPECIFICATION Spec
INVARIANTS MetadataReachable DrainOkIsDurable
CHECK_DEADLOCK FALSE
