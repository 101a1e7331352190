CONSTANTS
    n1 = n1  n2 = n2  a = a  b = b
    Absent = Absent  NoState = NoState
    Node <- Pair  Writers <- Pair  Block <- Blocks  UserContent <- TwoBlocks
    Strategy <- ByTimestamp  TicksPerSecond = 1  RecentTicks = 1
    AllowDelete = FALSE  Lossy = FALSE
    MaxTime = 0  MaxOps = 2  MaxRequests = 3  MaxRestarts = 0
SPECIFICATION WSpec
CHECK_DEADLOCK FALSE
INVARIANTS RequestBudget OneWay SavedCopyLeft
CONSTRAINT Sighted
SYMMETRY Alike
