CONSTANTS
    n1 = n1  n2 = n2  n3 = n3  a = a  b = b
    Absent = Absent  NoState = NoState
    Node <- Pair  Writers <- First  Block <- Blocks  UserContent <- OneBlock
    Strategy <- ByTimestamp  TicksPerSecond = 1  RecentTicks = 1
    AllowDelete = FALSE  Lossy = FALSE
    MaxTime = 0  MaxOps = 1  MaxRequests = 3  MaxRestarts = 0
SPECIFICATION Spec
CHECK_DEADLOCK FALSE
INVARIANT Kept
