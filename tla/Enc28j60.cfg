SPECIFICATION Spec
CONSTANTS
    RxSize = 10
    Page = 4
    Rsv = 2
    Sizes = {4}
    MaxFaults = 1
INVARIANTS
    InStep
    FramesIntact
    ListeningWhileUp
    FrameNotTouched

PROPERTIES
    WaitingPacketRead
CONSTRAINT
    Followed
