\* A fork may fail, a child may die of an early signal, the parent or a child may be killed at any step.
CONSTANTS
    WinScore = 2
    None = None
    Garbage = Garbage
SPECIFICATION FairSpec
INVARIANTS
    ResultsOfThisRound
PROPERTIES
    RoundEnds
    ParentReturns
CHECK_DEADLOCK FALSE
