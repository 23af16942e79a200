SPECIFICATION FairSpec
CONSTANTS
    Daemon = "frd"
    NDetect = 2
    EarlyDeaths = FALSE
    MaxForks = 6
    MaxFailures = 1
INVARIANT RoleOfSlot
INVARIANT OneChildPerRole
PROPERTY NoneBornAtExit
PROPERTY RoleComesBack
CHECK_DEADLOCK FALSE
