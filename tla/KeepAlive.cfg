SPECIFICATION FairSpec
CONSTANTS
    f1 = f1
    f2 = f2
    NoClient = NoClient
    Fds = {f1, f2}
    MaxClients = 2
    QueueSize = 1
    Period = 1
    NotAliveAfter = 2
    MinDelay = 1
    MaxDelay = 2
    MaxLate = 1
INVARIANTS
    OneEntryPerClient
    OpenSessionWatched
    AddFindsSlot
PROPERTIES
    ExpiryJustified
    WatchedSpec
    SilentClientClosed
