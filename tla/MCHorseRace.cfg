SPECIFICATION FairSpec
CONSTANTS
    N = 3
    TrackLen = 2
    MaxSpeed = 3
INVARIANTS TypeOK OneAtATime WinnerFirst
PROPERTIES RaceEnds
CHECK_DEADLOCK FALSE
