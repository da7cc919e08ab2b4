\* Three bytes, in chunks of any size, through slices of one and a tail of two: evictions, one lost connection, the end of the session.
CONSTANTS
    Capacity = 2
    InboxBytes = 2
    SliceBytes = 1
    ReadBytes = 3
    MaxBytes = 3
    MaxCheckpoints = 4
    FrameBytes = 1
    BufferBytes = 1
    BufferCount = 1
    MaxWire = 2
    MaxLosses = 1
SPECIFICATION Spec
INVARIANTS
    TypeOK TailExact CompleteIsWhole FinalOffsetStays
    FramesFollowOn MirrorFaithful EndedIsWhole
CHECK_DEADLOCK FALSE
