CONSTANTS
    FlowLists <- MCFlowLists
    Interfaces <- MCInterfaces
    GatesOfPort = {0, 1}
    Cycle = 12
    InterFrameGap = 1
    PropagationDelay = 1
SPECIFICATION EagerSpec
INVARIANTS SlotsApart FirstPacketNeverWaits GatesFollowSlots
CHECK_DEADLOCK FALSE
