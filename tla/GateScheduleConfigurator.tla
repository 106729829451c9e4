---------------------- MODULE GateScheduleConfigurator ----------------------
(***************************************************************************)
(* GateScheduleConfiguratorBase::configureGateScheduling for one gate        *)
(* (linklayer/configurator/gatescheduling/base): a computed schedule, i.e.   *)
(* the slots of a cycle in which the gate is open (or closed), becomes the   *)
(* parameters of the PeriodicGate module.                                    *)
(*                                                                         *)
(* A schedule is [open, slots, cycleDuration], with the slots in the order   *)
(* of their start, [start, duration] each, disjoint and not abutting.        *)
(***************************************************************************)
EXTENDS Integers, Sequences, SequencesExt

SlotEnd(slot) == slot.start + slot.duration

(* Faulty EndBefore: a gap is measured from the start of the cycle.          *)
StartOfCycle(slots, i) == 0

EndBefore(slots, i) == IF i = 1 THEN 0 ELSE SlotEnd(slots[i-1])

(* The loop over the slots: the gap before each of them, and the slot.       *)
GapsAndSlotsUpTo(slots) ==
    LET list[n \in 0..Len(slots)] ==
            IF n = 0 THEN <<>>
            ELSE IF slots[n].start = 0 THEN Append(list[n-1], slots[n].duration)
            ELSE Append(Append(list[n-1], slots[n].start - EndBefore(slots, n)),
                        slots[n].duration)
    IN  list

GapsAndSlots(slots) == GapsAndSlotsUpTo(slots)[Len(slots)]

(* The rest of the cycle after the last slot, unless there is none.          *)
WholeCycle(schedule) ==
    LET slots     == schedule.slots
        remaining == schedule.cycleDuration - SlotEnd(Last(slots))
    IN  IF remaining # 0 THEN Append(GapsAndSlots(slots), remaining)
                         ELSE GapsAndSlots(slots)

(* Faulty ConfigureGateScheduling: an odd list is taken as it is.            *)
ConfigureOddList(schedule) ==
    LET slots == schedule.slots
        open  == IF slots # <<>> /\ slots[1].start = 0
                 THEN schedule.open ELSE ~schedule.open
    IN  [initiallyOpen |-> open, offset |-> 0,
         durations |-> IF slots = <<>> THEN <<>> ELSE WholeCycle(schedule)]

(* An odd list ends in the state it begins with: its last duration is merged *)
(* into its first and becomes the offset.                                    *)
ConfigureGateScheduling(schedule) ==
    LET slots == schedule.slots
        open  == IF slots # <<>> /\ slots[1].start = 0
                 THEN schedule.open ELSE ~schedule.open
        Parameters(offset, durations) ==
            [initiallyOpen |-> open, offset |-> offset, durations |-> durations]
        d     == WholeCycle(schedule)
    IN  CASE slots = <<>> -> Parameters(0, <<>>)
          [] slots # <<>> /\ Len(d) % 2 = 0 -> Parameters(0, d)
          [] slots # <<>> /\ Len(d) % 2 # 0 ->
                IF Len(d) = 1
                THEN Parameters(0, <<>>)
                ELSE Parameters(Last(d), [Front(d) EXCEPT ![1] = @ + Last(d)])

=============================================================================
