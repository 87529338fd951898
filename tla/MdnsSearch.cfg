SPECIFICATION FairSpec
CONSTANTS
    Searches = {"q", "a"}
    Blocking = {"q"}
    Questions = {"service", "host"}
    AddressOnly = {"host"}
    Hosts = {"h1", "h2"}
    MaxResults <- MCMaxResults
    QueueSize = 2
    WholeOnly = TRUE
INVARIANTS
    FinishedIsLetGo
    EndFindsItsSearch
PROPERTIES
    OverForAReason
    QueriesEnd
