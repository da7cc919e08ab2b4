\* A child that ends before its launch is committed.
CONSTANTS
    Sessions = {s1}
    Adopted = {}
    MaxGeneration = 1
    MaxPending = 1
    Launchers = {l1}
    Stoppers = {}
    Requesters = {}
    MaxShutdowns = 0
    StorageMayFail = FALSE
    WaiterMayFail = FALSE
SPECIFICATION Spec
PROPERTY CompletedRecordKept
CHECK_DEADLOCK FALSE
