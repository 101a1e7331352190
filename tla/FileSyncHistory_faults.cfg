CONSTANTS
    n1 = n1  n2 = n2  a = a  b = b
    Absent = Absent  NoState = NoState
    Node <- Pair  Writers <- First  Block <- Blocks  UserContent <- OneBlock
    Strategy <- ByTimestamp  TicksPerSecond = 1  RecentTicks = 1
    AllowDelete = TRUE  Lossy = TRUE
    MaxTime = 1  MaxOps = 2  MaxRequests = 1  MaxRestarts = 1
SPECIFICATION HSpec
CHECK_DEADLOCK FALSE
INVARIANT WritesOpenFile
PROPERTIES ConvergedStays ImplementsReplicatedFile
