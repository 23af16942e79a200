SPECIFICATION FairSpec
CONSTANTS
    Qsize = 2
    Retry = 1
    MaxRec = 6
    MaxGets = 6
INVARIANT NoSharedSlot
PROPERTY ImplementsFifo
PROPERTY AllAreGot
CHECK_DEADLOCK FALSE
