---------------------------- MODULE PeriodicGate ----------------------------
(***************************************************************************)
(* One transmission gate of a time aware shaper: inet::queueing::PeriodicGate *)
(* (queueing/gate/PeriodicGate.cc) on an ideal clock.  The gate walks a     *)
(* cyclic list of durations and toggles at the end of each of them.         *)
(*                                                                         *)
(* Time is discrete and relative: changeTimer is the time left until the    *)
(* pending change event.  Parameters may be rewritten at any time, as the   *)
(* gate schedule configurators do, and every write restarts the gating.     *)
(***************************************************************************)
EXTENDS GateSchedule

CONSTANTS
    Offsets,        \* values the "offset" parameter is given
    DurationLists   \* values the "durations" parameter is given

ASSUME OffsetsAssumption == Offsets \subseteq Nat
ASSUME DurationListsAssumption ==
    \A d \in DurationLists : IsDurationList(d)

VARIABLES
    initiallyOpen, initialOffset, durations,  \* the parameters
    index,          \* index (from 0) of the duration scheduled next
    isOpen,         \* isOpen_
    changeTimer,    \* time left until the change event, or NotScheduled
    phase           \* history: time since initializeGating, modulo the cycle

params == <<initiallyOpen, initialOffset, durations>>
vars == <<params, index, isOpen, changeTimer, phase>>

-----------------------------------------------------------------------------

InitializeGating ==
    LET s == StartOf(initiallyOpen', initialOffset', durations')
    IN  /\ isOpen' = s.isOpen
        /\ index' = s.index
        /\ changeTimer' = s.timer
        /\ phase' = 0

Init ==
    /\ initiallyOpen \in BOOLEAN
    /\ initialOffset \in Offsets
    /\ durations \in DurationLists
    /\ LET s == StartOf(initiallyOpen, initialOffset, durations)
       IN  /\ isOpen = s.isOpen
           /\ index = s.index
           /\ changeTimer = s.timer
    /\ phase = 0

(* handleParameterChange, once per parameter that is written.                *)
SetInitiallyOpen(open) ==
    /\ initiallyOpen' = open
    /\ UNCHANGED <<initialOffset, durations>>
    /\ InitializeGating

SetOffset(offset) ==
    /\ initialOffset' = offset
    /\ UNCHANGED <<initiallyOpen, durations>>
    /\ InitializeGating

SetDurations(list) ==
    /\ durations' = list
    /\ UNCHANGED <<initiallyOpen, initialOffset>>
    /\ InitializeGating

(* Faulty ChangeTimer: the list of durations is walked once.                 *)
ChangeTimerOnce ==
    /\ changeTimer = 0
    /\ changeTimer' = IF index = 0 THEN NotScheduled ELSE DurationAt(durations, index)
    /\ index' = IndexAfter(durations, index)
    /\ isOpen' = ~isOpen
    /\ UNCHANGED <<params, phase>>

(* handleMessage: the next change is scheduled, then the gate is toggled.    *)
ChangeTimer ==
    /\ changeTimer = 0
    /\ changeTimer' = DurationAt(durations, index)
    /\ index' = IndexAfter(durations, index)
    /\ isOpen' = ~isOpen
    /\ UNCHANGED <<params, phase>>

(* Time passes only when no event is due.                                    *)
Tick ==
    /\ changeTimer # 0
    /\ changeTimer' = TimerAfterTick(changeTimer)
    /\ phase' = IF durations = <<>> THEN 0
                ELSE (phase + 1) % TotalDuration(durations)
    /\ UNCHANGED <<params, index, isOpen>>

Next ==
    \/ ChangeTimer
    \/ Tick
    \/ \E open \in BOOLEAN : SetInitiallyOpen(open)
    \/ \E offset \in Offsets : SetOffset(offset)
    \/ \E list \in DurationLists : SetDurations(list)

Spec == Init /\ [][Next]_vars

-----------------------------------------------------------------------------

(* Every variable stays in its range.                                        *)
TypeOK ==
    /\ initiallyOpen \in BOOLEAN
    /\ initialOffset \in Nat
    /\ IsDurationList(durations)
    /\ index \in Nat /\ (index = 0 \/ index < Len(durations))
    /\ isOpen \in BOOLEAN
    /\ changeTimer \in Nat \cup {NotScheduled}
    /\ phase \in Nat

(* The state the parameters ask for t time units after the gating started.   *)
OpenAt(t) == PrescribedOpen(initiallyOpen, initialOffset, durations, t)

(* The arrival time of the change event is the guard band's only input: the  *)
(* gate keeps its state up to it, and changes at it.                         *)
NextChangeIsNear ==
    changeTimer > 0 =>
        /\ \A t \in 0..changeTimer-1 : OpenAt(phase + t) = OpenAt(phase)
        /\ OpenAt(phase + changeTimer) # OpenAt(phase)

=============================================================================
