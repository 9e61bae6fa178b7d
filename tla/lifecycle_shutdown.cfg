SPECIFICATION FairSpec
CONSTANTS
    Clients = {c1, c2, c3}
    ThreadCount = 2
    BindFails = TRUE
    MaxErrors = 1
    MaxSignals = 2
INVARIANTS TypeOK ExitAfterSessions
PROPERTIES ClientsServed ShutdownWithoutClients
