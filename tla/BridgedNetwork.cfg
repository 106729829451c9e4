CONSTANTS
    AgingTime = 2
    BufferSize = 3
    MaxLag = 2
    MaxPackets = 3
    MaxInFlight = 2
    Networks <- MCNetworks
SPECIFICATION Spec
INVARIANTS TypeOK EntriesLeadToHost AtMostOnce ExactlyOnce
PROPERTIES FramesEnd
CHECK_DEADLOCK FALSE
