SPECIFICATION FamilySpec
CONSTANTS
    NumChildren = 3
    MaxValue = 2
INVARIANTS HighestIsRight
PROPERTIES FamilyEnds
CHECK_DEADLOCK FALSE
