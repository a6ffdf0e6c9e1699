SPECIFICATION Spec
CONSTANTS
    NForks = 3
    LongMax = 9
    Slow = {3, 9}
    Inputs <- MCInputs
    MaxSignals <- MCMaxSignals
INVARIANTS RangeIsCovered
CHECK_DEADLOCK FALSE
