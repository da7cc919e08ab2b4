\* Two requests, late events, one failed or abandoned write, a restart and a removal.
CONSTANTS
    Posters = {p1, p2}
    MaxReceipts = 1
    Tolerance = 1
    MaxTime = 2
    MaxPosts = 2
    MaxGeneration = 2
    MaxFailures = 1
SPECIFICATION FairSpec
INVARIANTS AckedIsOnDisk PublishedInOrder NotifiedOnce
PROPERTY EveryEventAnswered
CHECK_DEADLOCK FALSE
