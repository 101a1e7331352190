CONSTANTS
    n1 = n1  n2 = n2  n3 = n3  a = a  b = b
    Absent = Absent  NoState = NoState
    Node <- Trio  Writers <- Pair  Block <- Blocks  UserContent <- Contents
    Strategy <- ByHand  TicksPerSecond = 1  RecentTicks = 1
    AllowDelete = FALSE  Lossy = FALSE
    MaxTime = 0  MaxOps = 2  MaxRequests = 9  MaxRestarts = 0
SPECIFICATION Spec
CHECK_DEADLOCK FALSE
PROPERTY ConflictLeftAlone
