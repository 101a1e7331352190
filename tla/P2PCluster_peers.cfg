CONSTANTS
    MaxIDs = 3  MaxRetries = 2  Unreliable = TRUE
    MaxRunning = 2  MaxDials = 2  MaxMessages = 1  MaxLosses = 1
SPECIFICATION FairSpec
CHECK_DEADLOCK FALSE
INVARIANTS TypeOK ConnectionRecorded
PROPERTIES PartedForGood DialsEnd Meet
