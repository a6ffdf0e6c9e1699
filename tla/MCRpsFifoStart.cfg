\* A SIGUSR1 that is handled before pause() is lost.
CONSTANTS
    WinScore = 1
    MaxInc = 1
    None = None
SPECIFICATION FairSpec
PROPERTIES
    SignalStartsRound
CHECK_DEADLOCK FALSE
