CONSTANTS
    NumClasses = 2
    Lengths <- MCLengths
    MaxLength = 2
    PacketCapacity = 2
    Gap = 1
    InitiallyOpen <- MCOpen
    FirstDuration <- MCFirst
    FirstIndex <- MCIndex
    Durations <- MCDurations
    MaxArrivals = 2
SPECIFICATION ReconfigurableSpec
INVARIANT SinkIsNotified
