------------------------- MODULE EagerGateScheduler -------------------------
(***************************************************************************)
(* inet::EagerGateScheduleConfigurator (linklayer/configurator/              *)
(* gatescheduling/common): reserves a slot on every interface of the path of *)
(* every packet of every flow, and turns the slots into the schedules the    *)
(* gates are configured with (GateScheduleConfigurator).                     *)
(*                                                                         *)
(* A flow is [gate, path, duration, interval, maxLatency]: its traffic class, *)
(* the interfaces on its one path, the time its packets take on a line, the  *)
(* time between them and the latency allowed.  All lines have one datarate   *)
(* and propagation delay.  A slot is [gate, open, close].                    *)
(***************************************************************************)
EXTENDS GateSchedule, GateScheduleConfigurator

CONSTANTS
    FlowLists,          \* the configurations: sequences of flows
    Interfaces,
    GatesOfPort,        \* the indices of the gates of an interface
    Cycle,              \* gateCycleDuration
    InterFrameGap, PropagationDelay

Unset == -1             \* maxLatency of a flow that is configured without one

FlowType == [gate : GatesOfPort, path : Seq(Interfaces), duration : Nat \ {0},
             interval : Nat \ {0}, maxLatency : Int]

ASSUME EagerAssumption ==
    /\ Cycle \in Nat \ {0}
    /\ InterFrameGap \in Nat \ {0} /\ PropagationDelay \in Nat
    /\ FlowLists \subseteq Seq(FlowType)
    /\ \A list \in FlowLists : \A n \in DOMAIN list :
        /\ IsInjective(list[n].path)
        /\ Cycle % list[n].interval = 0    \* otherwise the code throws

VARIABLES
    flows,              \* input.flows
    interfaceSchedules, \* the slots of each, in the order of reservation
    starts,             \* applicationStartTimes of the flows reserved so far
    completed,          \* number of flows whose later packets are reserved
    failed              \* the reason of the exception that ended it, or "no"

eagerVars == <<flows, interfaceSchedules, starts, completed, failed>>

-----------------------------------------------------------------------------

(* The condition in the loops over the slots of an interface.                *)
Apart(slot, open, close) ==
    slot.close + InterFrameGap <= open \/ close + InterFrameGap <= slot.open

(* What becomes of a time if the step is repeated until it changes nothing.  *)
Repeat(step) ==
    LET go[t \in Nat] == IF step[t] = t THEN t ELSE go[step[t]]
    IN  go

(* The slots from the first-th on that a packet sent at open conflicts with. *)
Conflicts(reserved, first, open, duration) ==
    {i \in first..Len(reserved) : ~Apart(reserved[i], open, open + duration)}

(* A packet that conflicts with a slot is moved behind it.                   *)
MovedBehind(reserved, first, open, duration) ==
    LET conflicts == Conflicts(reserved, first, open, duration)
    IN  IF conflicts = {} THEN open ELSE reserved[Min(conflicts)].close + InterFrameGap

(* Faulty FreeTime: every slot is looked at once.                            *)
FreeTimeOnePass(reserved, open, duration) ==
    FoldLeft(LAMBDA t, slot : IF Apart(slot, t, t + duration) THEN t
                              ELSE slot.close + InterFrameGap,
             open, reserved)

(* The loop itself: after each move the walk over the slots begins again,    *)
(* with the second one: the index is set to the first and then incremented   *)
(* by the loop.                                                              *)
FreeTime(reserved, open, duration) ==
    Repeat([t \in Nat |-> MovedBehind(reserved, 2, t, duration)])
          [MovedBehind(reserved, 1, open, duration)]

(* When a packet that is sent at start and never waits gets to a hop.        *)
ArrivalAt(flow, start, hop) == start + (hop - 1) * (flow.duration + PropagationDelay)

Delay(flow, start, hop) ==
    LET time == ArrivalAt(flow, start, hop)
    IN  FreeTime(interfaceSchedules[flow.path[hop]], time, flow.duration) - time

(* computeStartOffsetForPathFragments: by how much the packet would have to  *)
(* wait at the first interface where it would have to wait.                  *)
StartOffsetShift(flow, start) ==
    LET waits == {hop \in 1..Len(flow.path) : Delay(flow, start, hop) # 0}
    IN  IF waits = {} THEN 0 ELSE Delay(flow, start, Min(waits))

(* Faulty StreamStartOffset: the shifted start is not tried again.           *)
StreamStartOffsetOnce(flow) == StartOffsetShift(flow, 0)

(* computeStreamStartOffset: shift the start until there is no waiting.      *)
StreamStartOffset(flow) ==
    Repeat([start \in Nat |-> start + StartOffsetShift(flow, start)])[0]

(* The slot on one interface for the packet sent at the time start, with     *)
(* r = [slots, time, failed] what is reserved so far and when it gets there. *)
ReserveSlot(flow, start, r, interface) ==
    LET open  == FreeTime(r.slots[interface], r.time, flow.duration)
        close == open + flow.duration
        slot  == [gate |-> flow.gate, open |-> open, close |-> close]
    IN  IF r.failed # "no" THEN r
        ELSE IF close > start + Cycle THEN [r EXCEPT !.failed = "cycle"]
        ELSE [slots  |-> [r.slots EXCEPT ![interface] = Append(@, slot)],
              time   |-> close + PropagationDelay,
              failed |-> "no"]

(* What is reserved after each hop of the path.                              *)
ReserveHops(flow, start, s) ==
    LET after[hop \in 0..Len(flow.path)] ==
            IF hop = 0 THEN [slots |-> s.slots, time |-> start, failed |-> s.failed]
            ELSE ReserveSlot(flow, start, after[hop-1], flow.path[hop])
    IN  after

(* addGateSchedulingForPathFragments.                                        *)
ReservePacket(flow, start, s) ==
    LET r    == ReserveHops(flow, start, s)[Len(flow.path)]
        late == r.failed = "no" /\ r.time - start > flow.maxLatency
    IN  [slots |-> r.slots, failed |-> IF late THEN "latency" ELSE r.failed]

(* When the packets of a flow are sent whose first is sent at start.         *)
SendTime(flow, start, index) == start + index * flow.interval

(* What is reserved after each packet from index on.                         *)
ReservePackets(flow, start, index, endIndex) ==
    LET after[n \in 0..endIndex - index] ==
            IF n = 0 THEN [slots |-> interfaceSchedules, failed |-> failed]
            ELSE ReservePacket(flow, SendTime(flow, start, index + n - 1), after[n-1])
    IN  after

(* addGateScheduling for the packets from index to endIndex-1 of a flow.     *)
AddGateScheduling(flow, start, index, endIndex) ==
    ReservePackets(flow, start, index, endIndex)[endIndex - index]

-----------------------------------------------------------------------------

EagerInit ==
    /\ flows \in FlowLists
    /\ interfaceSchedules = [i \in Interfaces |-> <<>>]
    /\ starts = <<>>
    /\ completed = 0
    /\ failed = "no"

(* The first loop of computeGateScheduling: the first packet of each flow.   *)
ReserveFirst ==
    /\ failed = "no"
    /\ Len(starts) < Len(flows)
    /\ LET flow  == flows[Len(starts) + 1]
           start == StreamStartOffset(flow)
           added == AddGateScheduling(flow, start, 0, 1)
       IN  /\ starts' = Append(starts, start)
           /\ interfaceSchedules' = added.slots
           /\ failed' = added.failed
    /\ UNCHANGED <<flows, completed>>

(* The second loop: the other packets of each flow in the cycle.             *)
ReserveOthers ==
    /\ failed = "no"
    /\ Len(starts) = Len(flows)
    /\ completed < Len(flows)
    /\ LET flow  == flows[completed + 1]
           added == AddGateScheduling(flow, starts[completed + 1], 1,
                                      Cycle \div flow.interval)
       IN  /\ interfaceSchedules' = added.slots
           /\ failed' = added.failed
    /\ completed' = completed + 1
    /\ UNCHANGED <<flows, starts>>

EagerNext == ReserveFirst \/ ReserveOthers

EagerSpec == EagerInit /\ [][EagerNext]_eagerVars

-----------------------------------------------------------------------------
(* The schedules computed from the slots, and the gates configured with them. *)

(* Faulty OutputSlots: a slot that crosses the end is cut.                   *)
OutputSlotsCut(slot) ==
    <<[start |-> slot.open % Cycle,
       duration |-> IF slot.open < Cycle /\ slot.close > Cycle
                    THEN Cycle - slot.open ELSE slot.close - slot.open]>>

(* A slot that crosses the end of the cycle is split.                        *)
OutputSlots(slot) ==
    LET duration == slot.close - slot.open
        first    == Cycle - slot.open
    IN  IF slot.open < Cycle /\ slot.close > Cycle
        THEN <<[start |-> slot.open, duration |-> first],
               [start |-> 0, duration |-> duration - first]>>
        ELSE <<[start |-> slot.open % Cycle, duration |-> duration]>>

(* The third loop, for one gate of an interface.                             *)
OutputSchedule(interface, gate) ==
    LET ofGate == SelectSeq(interfaceSchedules[interface], LAMBDA slot : slot.gate = gate)
    IN  [open |-> TRUE, cycleDuration |-> Cycle,
         slots |-> SortSeq(FlattenSeq([k \in DOMAIN ofGate |-> OutputSlots(ofGate[k])]),
                           LAMBDA a, b : a.start < b.start)]

(* The gates of the interface that are open at the time t of the cycle.      *)
OpenGates(interface, t) ==
    {gate \in GatesOfPort :
        LET p == ConfigureGateScheduling(OutputSchedule(interface, gate))
        IN  PrescribedOpen(p.initiallyOpen, p.offset, p.durations, t)}

-----------------------------------------------------------------------------

Done == completed = Len(flows) /\ failed = "no"

(* The part of the cycle a slot takes on the line, whichever cycle it is in. *)
Covers(slot, t) == \E n \in 0..slot.close \div Cycle :
                        slot.open <= t + n * Cycle /\ t + n * Cycle < slot.close

(* The slots of an interface are the gap apart in every cycle, and none      *)
(* crosses the end of a later cycle.                                         *)
FitsCycle(interface) ==
    LET reserved == interfaceSchedules[interface]
        cycles   == 0..1 + Max({0} \cup {reserved[k].close \div Cycle : k \in DOMAIN reserved})
    IN  \A j, k \in DOMAIN reserved :
            /\ \/ reserved[j].open < Cycle
               \/ reserved[j].open \div Cycle = (reserved[j].close - 1) \div Cycle
            /\ \A n \in cycles :
                j # k \/ n # 0 => Apart(reserved[j], reserved[k].open + n * Cycle,
                                                    reserved[k].close + n * Cycle)

(* Reservations do not collide.  The first slot of an interface is not       *)
(* looked at again when a packet is moved, so it may collide with a later    *)
(* reservation, but only if some packet was put before it.                   *)
SlotsApart ==
    \A i \in Interfaces :
        LET reserved == interfaceSchedules[i]
            firstIsEarliest == \A l \in DOMAIN reserved : reserved[1].open <= reserved[l].open
        IN  \A j, k \in DOMAIN reserved :
                j < k /\ (j > 1 \/ firstIsEarliest)
                    => Apart(reserved[j], reserved[k].open, reserved[k].close)

(* What the start offsets are for: the first packet of a flow has its slot   *)
(* on every interface of its path at the time it gets there, although other  *)
(* flows have slots on all of them.                                          *)
FirstPacketNeverWaits ==
    failed = "no" => \A n \in DOMAIN starts : \A h \in DOMAIN flows[n].path :
        LET open == ArrivalAt(flows[n], starts[n], h)
        IN  [gate |-> flows[n].gate, open |-> open, close |-> open + flows[n].duration]
                \in Range(interfaceSchedules[flows[n].path[h]])

(* From the slots to the gates: if the slots fit the cycle, every gate that  *)
(* is configured with them (initiallyOpen, offset, durations) is open        *)
(* exactly when one of its slots is on the line, across the end of the cycle *)
(* too.                                                                      *)
GatesFollowSlots ==
    Done => \A i \in Interfaces : FitsCycle(i) => \A t \in 0..Cycle-1 :
        OpenGates(i, t) = {slot.gate : slot \in {slot \in Range(interfaceSchedules[i]) :
                                                    Covers(slot, t)}}

(* EagerGateScheduleConfigurator.ned: "The allocation makes sure that only   *)
(* one gate (traffic category) is open in all network interfaces at any      *)
(* given moment of time."                                                    *)
OneSlotAtATime ==
    \A i \in Interfaces : \A a, b \in Range(interfaceSchedules[i]) :
        a.gate # b.gate => a.close <= b.open \/ b.close <= a.open

=============================================================================
