\* One session: records of two sizes, an exclusive job, removal, failures, retries and stop.
CONSTANTS
    Sessions = {s1}
    Sizes = {1, 2}
    Budget = 3
    FinalReserve = 1
    MaxRevision = 2
    MaxTransit = 2
    MaxDrains = 0
    MaxExclusive = 1
    SlowDrain = FALSE
SPECIFICATION FairSpec
INVARIANTS
    TypeOK ReportedIsOnDisk NoResurrection FinalNeverLost QueuedBytesExact
PROPERTIES ImplementsRecordStore FinalLands
CHECK_DEADLOCK FALSE
