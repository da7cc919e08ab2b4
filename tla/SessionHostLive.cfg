\* A launch, a stop and a shutdown of one session, with a second requester whose shutdown is
\* refused or follows a refused one; storage may fail.
CONSTANTS
    Sessions = {s1}
    Adopted = {}
    MaxGeneration = 1
    MaxPending = 1
    Launchers = {l1}
    Stoppers = {p1}
    Requesters = {q1, q2}
    MaxShutdowns = 1
    StorageMayFail = TRUE
    WaiterMayFail = FALSE
SPECIFICATION FairSpec
INVARIANT DownOwnsNothing
PROPERTIES LaunchResolves ShutdownEnds
CHECK_DEADLOCK FALSE
