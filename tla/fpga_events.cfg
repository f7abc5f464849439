SPECIFICATION SpecEvents
CONSTANTS
    Qsfps = {1}
    Sfps = {65}
    LastPage = 1
    Users = {u1}
    MaxCalls = 2
    MaxFaults = 1
    MaxPlugs = 1
    MaxKills = 1
INVARIANTS
    TypeOKEvents
    PageServed
    PageZeroAtRest
PROPERTIES
    PagedReported
CHECK_DEADLOCK FALSE
