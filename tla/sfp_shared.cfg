SPECIFICATION SpecRecord
CONSTANTS
    c1 = c1
    c2 = c2
    QsfpNum = 2
    NumPorts = 2
    NumRegs = 1
    Reg <- OneReg
    Callers = {c1, c2}
    Overlap <- AnyOther
    Tries = 2
    MaxRestarts = 0
PROPERTY TrueMeansReleased
