\* Clients killed and started again, the server interrupted.
CONSTANTS
    NClients = 2
    MaxValue = 3
    PipeCap = 2
    MaxRuns = 2
SPECIFICATION FairSpec
INVARIANTS
    TypeOK
    ScanInv
    Conserved
PROPERTIES
    HangupIsFinal
    ServerReturns
    ClientsEnd
CHECK_DEADLOCK FALSE
