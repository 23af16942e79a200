CONSTANTS
    NSlots = 2
    NThreads = 2
    MaxLoops = 1
SPECIFICATION FairSpec
PROPERTIES HangIsNoticed
