SPECIFICATION Spec
CONSTANTS
    NForks = 3
    LongMax = 9
    Slow = {3, 9}
    Inputs <- MCInputs
    MaxSignals <- MCMaxSignals
INVARIANTS TypeOK Counts NoRequestLost EndsLast
CHECK_DEADLOCK FALSE
