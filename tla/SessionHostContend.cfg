\* Two launchers on two sessions, one left by a previous host;
\* one place in the launch queue.
CONSTANTS
    Sessions = {s1, s2}
    Adopted = {s2}
    MaxGeneration = 2
    MaxPending = 1
    Launchers = {l1, l2}
    Stoppers = {}
    Requesters = {}
    MaxShutdowns = 0
    StorageMayFail = FALSE
    WaiterMayFail = FALSE
SPECIFICATION Spec
SYMMETRY Threads
INVARIANT LaunchesBounded
PROPERTY GenerationLaunchedOnce
CHECK_DEADLOCK FALSE
