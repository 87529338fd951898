SPECIFICATION FairSpec
CONSTANTS
    HandleQueueSize = 2
    Rounds = 1
    MaxInFlight = 1
PROPERTIES
    UnpluggedIsOffline
