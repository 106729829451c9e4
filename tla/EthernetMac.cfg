CONSTANTS
    Lengths <- MCLengths
    Gap = 2
    PauseTimes <- MCPauseTimes
    PacketCapacity = 3
    StopTimeout = 7
SPECIFICATION Spec
INVARIANT NoCheckFails
PROPERTIES StartsInTurn StopLosesNothing WaitingIsSent
CHECK_DEADLOCK FALSE
