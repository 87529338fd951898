SPECIFICATION Spec
CONSTANTS
    None = None
    Nobody = Nobody
    PayloadSize = 512
    NumTransfers = 2
    FrameParts = 2
    MaxFrames = 2
    Cameras <- MCCameras
    Device <- MCDevice
    Mode <- MCMode
    MaxPlugs = 2
    MaxControls = 2
    ControlPlugs = 1
INVARIANTS
    StreamOutlivesItsUsers
    NegotiatedMode
    ControlsReadBack
PROPERTIES
    FramesWhole
    StopReturns
CHECK_DEADLOCK FALSE
