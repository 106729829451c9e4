CONSTANTS
    NumGates <- MCNumGates
    Requests <- MCRequests
    Offsets <- MCOffsets
    DurationLists <- MCDurationLists
SPECIFICATION ConfSpec
INVARIANTS TypeOK NextChangeIsNear FollowsRequest CycleIsRequested
PROPERTY KeepsCycling
