SPECIFICATION Spec
CONSTANTS
    NumFans = 2
    FanStates = {"out", "turning", "stalled", "mute"}
    Sensors <- TwoSensors
    TempsOf <- FewTemps
    Up <- TwoUp
    Down <- TwoDown
    Speed <- TheSpeed
    AllSpeed = 100
    Policies <- ThePolicies
    MaxRestarts = 1
INVARIANTS TypeOK NotTooSlow
