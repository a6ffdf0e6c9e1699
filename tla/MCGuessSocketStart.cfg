\* The final ResultMsg is read as a StartMsg.
CONSTANTS
    NClients = 2
    WinScore = 2
    MaxRand = 2
    None = None
    Uninit = Uninit
SPECIFICATION Spec
INVARIANTS
    StartIsFlag
CHECK_DEADLOCK FALSE
