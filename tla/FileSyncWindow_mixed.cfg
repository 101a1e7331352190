CONSTANTS
    n1 = n1  n2 = n2  a = a  b = b
    Absent = Absent  NoState = NoState
    Node <- Pair  Writers <- First  Block <- Blocks  UserContent <- OneBlock
    Strategy <- Mixed  TicksPerSecond = 1  RecentTicks = 1
    AllowDelete = FALSE  Lossy = FALSE
    MaxTime = 1  MaxOps = 1  MaxRequests = 3  MaxRestarts = 0
SPECIFICATION WFairSpec
CHECK_DEADLOCK FALSE
INVARIANT Presence
PROPERTY ComesToRest
CONSTRAINT Sighted
