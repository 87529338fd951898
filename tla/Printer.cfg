SPECIFICATION FairSpec
CONSTANTS
    HandleQueueSize = 2
    Rounds = 1
    MaxInFlight = 1
INVARIANTS
    OneTransportUser
    FreshAnswer
    PrintWaitsForItsTransfer
    HandleMeansDevice
PROPERTIES
    TasksReturn
