\* A second checkpoint while the first is still queued.
CONSTANTS
    Capacity = 1
    InboxBytes = 2
    SliceBytes = 2
    ReadBytes = 1
    MaxBytes = 2
    MaxCheckpoints = 3
    FrameBytes = 1
    BufferBytes = 1
    BufferCount = 1
    MaxWire = 1
    MaxLosses = 2
SPECIFICATION Spec
INVARIANT MirrorExact
CHECK_DEADLOCK FALSE
