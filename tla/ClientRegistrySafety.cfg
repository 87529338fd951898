SPECIFICATION Spec
CONSTANTS
    f1 = f1
    f2 = f2
    NoFd = NoFd
    Fds = {f1, f2}
    Devices = {"trigger", "LED"}
    Sources = {"trigger"}
    Size = 2
    MaxSessions = 2
SYMMETRY Symmetry
INVARIANTS
    RegistrationsAgree
    AudienceServed
    ServedOnce
PROPERTIES
    WatchdogSparesSteadyClients
