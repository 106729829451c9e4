CONSTANTS
    EventLists <- MCEventLists
    CopyPeriods <- MCCopyPeriods
    CopyWindow = 7
    HeartbeatInterval = 10
    NumHeartbeats = 4
    ProductionInterval = 20
    SimTimeLimit = 30
SPECIFICATION Spec
INVARIANTS SendsPrescribed SilenceBounded NeverInThePast
CHECK_DEADLOCK FALSE
