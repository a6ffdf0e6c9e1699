\* Two clients; any process may be interrupted, accept() may fail; refinement of GuessGame.
CONSTANTS
    NClients = 2
    WinScore = 2
    MaxRand = 2
    None = None
    Uninit = Uninit
SPECIFICATION FairSpec
INVARIANTS
    InStep
    Framing
    WinnerNeverToldLose
    ReturnCleansUp
PROPERTIES
    GameSpec
    ClientsLeave
    RoundEnds
CHECK_DEADLOCK FALSE
