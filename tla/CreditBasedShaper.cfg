CONSTANTS
    Lengths <- MCLengths
    MaxLength = 2
    PacketCapacity = 2
    Gap = 1
    SpendRate = 2
    Limit = 0
    MinCredit <- MCMinCredit
    MaxCredit = 4
    AccumulateCreditInGuardBand = FALSE
    Schedules <- MCSchedules
    MaxArrivals = 1
    MaxOthers = 1
SPECIFICATION Spec
INVARIANTS CreditBounded UsageBounded OpenByCredit GainRateIsCurrent
PROPERTY WaitingIsServed
