SPECIFICATION Spec
CHECK_DEADLOCK FALSE
CONSTANTS
    Scenes <- MCScenes
    Users <- MCUsers
    Blank <- MCBlank
    Errors <- MCErrors
    Calls <- MCCalls
    MaxFaults <- MCMaxFaults
INVARIANTS
    TypeOK
    SettingHolds
    Bystanders
    PortsReleased
    PresenceAgrees
