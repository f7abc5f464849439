SPECIFICATION Spec
CONSTANTS
    NumFans = 1
    FanStates = {"out", "turning", "stalled", "mute"}
    Sensors <- TwoSensors
    TempsOf <- AllTemps
    Up <- TwoUp
    Down <- TwoDown
    Speed <- TheSpeed
    AllSpeed = 100
    Policies <- ThePolicies
    MaxRestarts = 1
PROPERTIES LevelIsLeastAllowed HotRaisesLevel CoolLowersLevel
