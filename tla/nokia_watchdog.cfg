SPECIFICATION Spec
CONSTANTS
    Timeout = 10
    SleepTime = 3
    MaxCheck = 2
    RebootTime = 2
    MinFailures = 3
    SkippedChecks = 2
INVARIANTS
    ResetOnlyIfFailing
PROPERTIES
    LastingFailureEnds
    DeadScriptEnds
CHECK_DEADLOCK FALSE
