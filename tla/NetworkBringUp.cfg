SPECIFICATION Spec
CONSTANTS
    MaxEvents = 2
INVARIANTS
    ServedAfterAddress
    LoopNeverWaitsForItself
PROPERTIES
    TornDownMeansReboot
