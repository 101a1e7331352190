CONSTANTS
    MaxIDs = 2  MaxRetries = 3  Unreliable = FALSE
    MaxRunning = 2  MaxDials = 2  MaxMessages = 2  MaxLosses = 0
SPECIFICATION ElectionSpec
CHECK_DEADLOCK FALSE
PROPERTY LeaderElected
