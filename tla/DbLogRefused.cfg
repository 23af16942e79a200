SPECIFICATION DbLogFairSpec
CONSTANTS
    Qsize = 2
    Retry = 1
    MaxRec = 4
    MaxGets = 5
    MaxRefused = 2
    MaxStops = 0
    MaxFile = 4
    MaxCrashes = 0
PROPERTY MainGoesOn
PROPERTY ReceiverGoesOn
CHECK_DEADLOCK FALSE
