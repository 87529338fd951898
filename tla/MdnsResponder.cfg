SPECIFICATION FairSpec
CONSTANTS
    Services = {"a", "b"}
    AllAlike = TRUE
    Pcbs = {"sta", "eth"}
    Twin <- MCTwin
    Host = "host"
    QueueSize = 2
    MaxCalls = 3
CHECK_DEADLOCK FALSE
INVARIANTS
    ProbeOnItsWay
    NothingDangles
    OnlyProbedIsTold
PROPERTIES
    Settles
