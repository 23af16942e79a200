SPECIFICATION DbLogFairSpec
CONSTANTS
    Qsize = 2
    Retry = 1
    MaxRec = 5
    MaxGets = 6
    MaxRefused = 0
    MaxStops = 1
    MaxFile = 4
    MaxCrashes = 1
INVARIANT SavedFromOldest
PROPERTY ImplementsRows
PROPERTY SavedIsInserted
CHECK_DEADLOCK FALSE
