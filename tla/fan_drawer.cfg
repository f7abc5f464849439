SPECIFICATION Spec
CONSTANTS
    Daemon = daemon
    Clis = {cli}
    Hwmons = {hwmon2, hwmon3}
    MaxCalls = 1
    MaxFaults = 1
    MaxPulls = 2
INVARIANTS
    TypeOK
PROPERTIES
    ArmedInTheEnd
    FanDriven
