SPECIFICATION Spec
CONSTANTS
    Lines  <- MCLines
    Upper  <- MCUpper
    None = None
    MaxInt = 2
INVARIANTS Token
PROPERTIES ConverterSpec Answered StopEnds
CHECK_DEADLOCK FALSE
