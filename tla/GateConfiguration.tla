-------------------------- MODULE GateConfiguration --------------------------
(***************************************************************************)
(* A PeriodicGate together with the module that writes its parameters: a     *)
(* GateControlList at the start of the simulation, or a gate schedule        *)
(* configurator at the start and whenever its configuration changes.  The    *)
(* writer sets initiallyOpen, offset and durations, in this order, in one    *)
(* event; each write restarts the gating (PeriodicGate).                     *)
(*                                                                         *)
(* A request is what the writer works from:                                  *)
(*   [kind |-> "gcl", gcl |-> rows, mapping |-> positions, gate |-> index]   *)
(*   [kind |-> "slots", schedule |-> computed schedule]                      *)
(*   [kind |-> "direct", initiallyOpen, offset, durations] (a configuration  *)
(*     file; the order of the writes is the same here)                       *)
(***************************************************************************)
EXTENDS PeriodicGate, GateControlList, GateScheduleConfigurator

CONSTANT Requests

VARIABLES
    request,    \* the request being served or served last
    written     \* how many of the three parameters have been written

cvars == <<vars, request, written>>

(* The parameters a writer derives from a request.                           *)
ParametersOf(r) ==
    CASE r.kind = "gcl" -> ParseGcl(r.gcl, r.mapping, r.gate)
      [] r.kind = "slots" -> ConfigureGateScheduling(r.schedule)
      [] r.kind = "direct" -> r

(* Gate control lists have a state for every gate in each of their rows.     *)
IsGclRequest(r) ==
    /\ r.gcl \in Seq([duration : Nat \ {0}, states : [1..NumGates -> BOOLEAN]])
    /\ r.gcl # <<>>
    /\ r.mapping \in [1..NumGates -> Gates]
    /\ \A i, j \in 1..NumGates : r.mapping[i] = r.mapping[j] => i = j
    /\ r.gate \in Gates

(* Slots lie within the cycle and are apart.                                 *)
IsSlotRequest(r) ==
    LET s == r.schedule
    IN  /\ s.open \in BOOLEAN /\ s.cycleDuration \in Nat \ {0}
        /\ s.slots \in Seq([start : Nat, duration : Nat \ {0}])
        /\ \A i \in DOMAIN s.slots : SlotEnd(s.slots[i]) <= s.cycleDuration
        /\ \A i \in 2..Len(s.slots) : SlotEnd(s.slots[i-1]) < s.slots[i].start

IsDirectRequest(r) ==
    /\ r.initiallyOpen \in BOOLEAN /\ r.offset \in Nat
    /\ IsDurationList(r.durations)

ASSUME RequestsAssumption ==
    \A r \in Requests : \/ r.kind = "gcl" /\ IsGclRequest(r)
                        \/ r.kind = "slots" /\ IsSlotRequest(r)
                        \/ r.kind = "direct" /\ IsDirectRequest(r)

Wanted == ParametersOf(request)

(* The gate has been initialised with the defaults of its NED parameters.    *)
ConfInit ==
    /\ request \in Requests
    /\ written = 0
    /\ initiallyOpen = TRUE
    /\ initialOffset = 0
    /\ durations = <<>>
    /\ isOpen = TRUE
    /\ index = 0
    /\ changeTimer = NotScheduled
    /\ phase = 0

WriteInitiallyOpen ==
    /\ written = 0
    /\ SetInitiallyOpen(Wanted.initiallyOpen)
    /\ written' = 1
    /\ UNCHANGED request

WriteOffset ==
    /\ written = 1
    /\ SetOffset(Wanted.offset)
    /\ written' = 2
    /\ UNCHANGED request

WriteDurations ==
    /\ written = 2
    /\ SetDurations(Wanted.durations)
    /\ written' = 3
    /\ UNCHANGED request

Write == WriteInitiallyOpen \/ WriteOffset \/ WriteDurations

(* GateScheduleConfiguratorBase::handleParameterChange, or another write to  *)
(* the parameters, at any time.                                              *)
Configure ==
    /\ written = 3
    /\ request.kind # "gcl"
    /\ request' \in {r \in Requests : r.kind # "gcl"}
    /\ written' = 0
    /\ UNCHANGED vars

Running == written = 3
GateStep == Running /\ (ChangeTimer \/ Tick) /\ UNCHANGED <<request, written>>

ConfNext == Write \/ Configure \/ GateStep

(* The three writes belong to one event; the event loop goes on as long as   *)
(* there are events.                                                         *)
ConfSpec ==
    ConfInit /\ [][ConfNext]_cvars /\ WF_cvars(Write) /\ WF_cvars(GateStep)

-----------------------------------------------------------------------------

(* The index of the row a gate control list is in, t after its start.        *)
RowAt(gcl, t) ==
    LET ends == EndTimes([i \in DOMAIN gcl |-> gcl[i].duration])
        p    == t % ends[Len(gcl)]
    IN  CHOOSE i \in DOMAIN gcl : ends[i-1] <= p /\ p < ends[i]

(* What the request says about the gate, t after the configuration.          *)
RequestedOpen(r, t) ==
    CASE r.kind = "gcl" ->
            \E i \in 1..NumGates :
                /\ r.mapping[i] = r.gate
                /\ r.gcl[RowAt(r.gcl, t)].states[i]
      [] r.kind = "slots" ->
            LET s == r.schedule
                p == t % s.cycleDuration
                inSlot == \E i \in DOMAIN s.slots :
                              s.slots[i].start <= p /\ p < SlotEnd(s.slots[i])
            IN  inSlot <=> s.open
      [] r.kind = "direct" ->
            PrescribedOpen(r.initiallyOpen, r.offset, r.durations, t)

RequestedOpenAt(t) == RequestedOpen(request, t)

CycleOf(r) ==
    IF r.kind = "gcl"
    THEN TotalDuration([i \in DOMAIN r.gcl |-> r.gcl[i].duration])
    ELSE r.schedule.cycleDuration

(* The gate follows the gate control list, the computed schedule or the      *)
(* parameters that were asked for, at every instant after the configuration: *)
(* the detour over run lengths, parity, offset, skipping and toggling loses  *)
(* nothing, and the restarts with half of the parameters leave no trace.     *)
FollowsRequest ==
    Running /\ changeTimer # 0 => isOpen = RequestedOpenAt(phase)

(* A gate whose requested state never changes gets no schedule, so that its  *)
(* guard band never holds back a frame; any other gate has the cycle of the  *)
(* request.                                                                  *)
CycleIsRequested ==
    Running /\ request.kind # "direct" =>
        IF \A t \in 1..CycleOf(request)-1 : RequestedOpenAt(t) = RequestedOpenAt(0)
        THEN durations = <<>>
        ELSE TotalDuration(durations) = CycleOf(request)

(* A gate that has a schedule opens and closes for ever once its parameters  *)
(* are left alone.                                                           *)
KeepsCycling ==
    <>[](Running /\ durations # <<>>) => []<>isOpen /\ []<>~isOpen

=============================================================================
