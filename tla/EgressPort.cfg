CONSTANTS
    NumClasses = 3
    Lengths <- MCLengths
    MaxLength = 2
    PacketCapacity = 2
    Gap = 1
    InitiallyOpen <- SharedOpen
    FirstDuration <- SharedFirst
    FirstIndex <- SharedIndex
    Durations <- SharedDurations
    MaxArrivals = 1
SPECIFICATION Spec
INVARIANTS NoOverrun NoLostWakeup UrgentWaitBounded IInv
PROPERTIES UrgentIsServed ImplementsPriorityPort
