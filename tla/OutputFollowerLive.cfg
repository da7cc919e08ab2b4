\* Two bytes through slices and a tail of one: evictions, one lost connection, the end of the session.
CONSTANTS
    Capacity = 1
    InboxBytes = 2
    SliceBytes = 1
    ReadBytes = 1
    MaxBytes = 2
    MaxCheckpoints = 3
    FrameBytes = 1
    BufferBytes = 1
    BufferCount = 1
    MaxWire = 1
    MaxLosses = 1
SPECIFICATION FairSpec
PROPERTY MirrorCatchesUp
CHECK_DEADLOCK FALSE
