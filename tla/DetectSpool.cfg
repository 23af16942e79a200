CONSTANTS
    MaxIndex = 2
    MaxSize = 2
    Chunks = 1
    MaxRec = 3
    Ordered = TRUE
    MaxThreads = 2
    MaxCheckCnt = 1
    MaxStarts = 1
    MaxKills = 1
    MaxDumps = 1
SPECIFICATION FairDetectSpec
INVARIANTS  NothingDoubled
PROPERTIES DumpIsComplete DetectCatchesUp AgentsAreAnswered WritersAgentIsAnswered
CHECK_DEADLOCK FALSE
