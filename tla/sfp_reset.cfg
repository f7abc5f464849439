SPECIFICATION SpecRecord
CONSTANTS
    c1 = c1
    c2 = c2
    QsfpNum = 1
    NumPorts = 2
    NumRegs = 1
    Reg <- PortOne
    Callers = {c1}
    Overlap <- NoOverlap
    Tries = 3
    MaxRestarts = 3
INVARIANTS TypeOK TxFollowsReport RecordedAnew
PROPERTIES ReleasedOnlyWhenEmpty ReinsertedAfterReset RemovalReported
