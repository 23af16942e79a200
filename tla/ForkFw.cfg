SPECIFICATION Spec
CONSTANTS
    Daemon = "fw"
    NDetect = 0
    EarlyDeaths = FALSE
    MaxForks = 4
    MaxFailures = 0
INVARIANT RoleOfSlot
CHECK_DEADLOCK FALSE
