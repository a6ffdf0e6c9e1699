SPECIFICATION Spec
CONSTANTS
    Max = 3
    WinScore = 3
INVARIANTS JudgesGuesses NeverLeads
PROPERTIES GameEnds
CHECK_DEADLOCK FALSE
