CONSTANTS
    FlowLists <- MCPackedLists
    Interfaces <- MCInterfaces
    GatesOfPort = {0, 1}
    Cycle = 30
    InterFrameGap = 1
    PropagationDelay = 1
SPECIFICATION EagerSpec
INVARIANTS OneSlotAtATime
CHECK_DEADLOCK FALSE
