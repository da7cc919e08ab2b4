\* Two controllers, the old host and two more host processes, two faults.
CONSTANTS
    Controllers = {c1, c2}
    MaxHosts = 3
    MaxAsks = 2
    MaxFaults = 2
SPECIFICATION FairSpec
INVARIANTS TypeOK ServingIsOwner OwnerFindsNoServer RunningRecordStands
PROPERTIES EveryAskReturns CrashRecovered
CHECK_DEADLOCK FALSE
