CONSTANTS
    n1 = n1  n2 = n2  a = a  b = b
    Absent = Absent  NoState = NoState
    Node <- Pair  Writers <- First  Block <- Blocks  UserContent <- OneBlock
    Strategy <- ByTimestamp  TicksPerSecond = 1  RecentTicks = 1
    AllowDelete = FALSE  Lossy = FALSE
    MaxTime = 0  MaxOps = 1  MaxRequests = 2  MaxRestarts = 0
SPECIFICATION WFairSpec
CHECK_DEADLOCK FALSE
INVARIANTS TypeOK Presence  Delivered
PROPERTIES  ComesToRest
