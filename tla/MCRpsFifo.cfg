\* Clients killed and started again, the server killed.
CONSTANTS
    WinScore = 2
    MaxInc = 2
    None = None
SPECIFICATION FairSpec
INVARIANTS
    TypeOK
    RoundInv
    NoFalseAccusation
    PlaysThisRound
PROPERTIES
    RoundCompletes
    ClientsLeave
    GameSpec
CHECK_DEADLOCK FALSE
