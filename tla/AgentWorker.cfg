\* One event, a restart and a removal through a queue of two frames; one lost connection.
CONSTANTS
    QueueSlots = 2
    MaxEvents = 1
    MaxGeneration = 2
    MaxDrops = 1
SPECIFICATION FairSpec
INVARIANTS WorkerIsCurrent NoEventAfterRemoval
PROPERTY WorkerSettles
CHECK_DEADLOCK FALSE
