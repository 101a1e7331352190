CONSTANTS
    MaxIDs = 2  MaxRetries = 3  Unreliable = FALSE
    MaxRunning = 2  MaxDials = 2  MaxMessages = 1  MaxLosses = 1
SPECIFICATION FairSpec
CHECK_DEADLOCK FALSE
PROPERTY KnownPeersReconnected
