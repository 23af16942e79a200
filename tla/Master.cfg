CONSTANTS
    MaxProcs = 4
    MaxNights = 2
    MaxCrashes = 1
    MaxKills = 1
    MaxStops = 1
SPECIFICATION FairSpec
INVARIANTS OneInstance DumpAlone
PROPERTIES NightBringsBack ComesBack
