CONSTANTS
    AgingTime = 2
    BufferSize = 3
    MaxLag = 2
    MaxPackets = 3
    MaxInFlight = 2
    Networks <- MCAsymmetric
SPECIFICATION Spec
INVARIANT ConfiguredEntriesStay
CHECK_DEADLOCK FALSE
