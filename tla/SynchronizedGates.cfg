SPECIFICATION Spec
CONSTANTS
    g1 = g1
    g2 = g2
    sync = sync
    Events = {g1, g2, sync}
    Gates = {g1, g2}
    Mode <- MCExecute
    InitiallyOpen <- MCInitiallyOpen
    Durations <- MCDurations
    Interval = 3
    MaxStep = 2
    MaxLeft = 8
INVARIANTS EventsAnchored DelayedEventsOnTime GatesFollowClock
PROPERTY GatesGoOn
