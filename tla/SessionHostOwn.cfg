\* One session, two generations, a stop; storage and the child waiter may fail.
CONSTANTS
    Sessions = {s1}
    Adopted = {}
    MaxGeneration = 2
    MaxPending = 1
    Launchers = {l1}
    Stoppers = {p1}
    Requesters = {}
    MaxShutdowns = 0
    StorageMayFail = TRUE
    WaiterMayFail = TRUE
SPECIFICATION Spec
INVARIANTS TypeOK NothingOrphaned ExitedIsDead StartingHasOwner RunningIsCurrent
CHECK_DEADLOCK FALSE
