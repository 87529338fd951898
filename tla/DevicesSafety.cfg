SPECIFICATION DevicesSpec
CONSTANTS
    ActiveLow = TRUE
    RxSize = 3
    ReadSize = 2
    MaxBytes = 5
INVARIANTS
    ClosedIsReported
    ReadyMeansReleased
    NothingLostOrSwapped
