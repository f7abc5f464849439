SPECIFICATION Spec
CONSTANTS
    Chans <- MCChans
    Bus <- MCBus
    Modsel <- MCModsel
    Lens = {0, 1, 5, 8}
    THROTTLE_MIN = 1
    THROTTLE_MAX = 2
    MaxBackoff = 2
    MaxFaults = 1
    MaxReloads = 1
INVARIANTS
    TypeOK
    TargetRight
    Delivered
    GapKept
PROPERTIES
    CallEnds
