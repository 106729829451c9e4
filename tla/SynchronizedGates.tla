-------------------------- MODULE SynchronizedGates --------------------------
(***************************************************************************)
(* A switch whose clock is set while it runs: the PeriodicGates of its ports *)
(* schedule their changes at clock times, other modules (gPTP's own timers)  *)
(* after clock delays, all by the one SettableClock of the switch.           *)
(***************************************************************************)
EXTENDS SettableClock, GateSchedule, SequencesExt

CONSTANTS
    Gates,          \* the events that are change events of gates
    InitiallyOpen,  \* per gate
    Durations,      \* per gate, not empty
    Interval,       \* the other events are timers of this interval
    MaxStep,        \* bound: what a setting changes the clock time by
    MaxLeft         \* bound: how far ahead setting the clock back moves an event

ASSUME GatesAssumption ==
    /\ IsFiniteSet(Events) /\ Gates \subseteq Events
    /\ Interval \in Nat \ {0} /\ MaxStep \in Nat
    /\ InitiallyOpen \in [Gates -> BOOLEAN]
    /\ DOMAIN Durations = Gates
    /\ \A g \in Gates : IsDurationList(Durations[g]) /\ Durations[g] # <<>>
    \* a larger step makes a change event later than the next one is long
    /\ \A g \in Gates : \A i \in DOMAIN Durations[g] : MaxStep <= Durations[g][i]

VARIABLES
    isOpen,     \* per gate: isOpen_
    index,      \* per gate: the index of the duration scheduled next
    phase,      \* per gate: clock time since its gating started, in its cycle
    setNow      \* the clock has been set at the present time

vars == <<events, left, relative, timer, failed, isOpen, index, phase, setNow>>

Start(g) == StartOf(InitiallyOpen[g], 0, Durations[g])

Init ==
    /\ events \in SetToSeqs(Events)
    /\ left = [e \in Events |-> IF e \in Gates THEN Start(e).timer ELSE Interval]
    /\ timer = left
    /\ relative = [e \in Events |-> e \notin Gates]
    /\ failed = "no"
    /\ isOpen = [g \in Gates |-> Start(g).isOpen]
    /\ index = [g \in Gates |-> Start(g).index]
    /\ phase = [g \in Gates |-> 0]
    /\ setNow = FALSE

(* The change event of a gate.                                               *)
ChangeGate(g) ==
    /\ failed = "no"
    /\ ExecuteAndSchedule(g, DurationAt(Durations[g], index[g]))
    /\ isOpen' = [isOpen EXCEPT ![g] = ~@]
    /\ index' = [index EXCEPT ![g] = IndexAfter(Durations[g], @)]
    /\ UNCHANGED <<phase, setNow>>

(* A timer of another module.                                                *)
ExpireTimer(e) ==
    /\ failed = "no"
    /\ ExecuteAndSchedule(e, Interval)
    /\ UNCHANGED <<isOpen, index, phase, setNow>>

(* A parameter of the gate is written: initializeGating.                     *)
Restart(g) ==
    /\ failed = "no"
    /\ Reschedule(g, Start(g).timer)
    /\ isOpen' = [isOpen EXCEPT ![g] = Start(g).isOpen]
    /\ index' = [index EXCEPT ![g] = Start(g).index]
    /\ phase' = [phase EXCEPT ![g] = 0]
    /\ UNCHANGED setNow

(* gPTP sets the clock, at most once at a time.                              *)
SetClock(delta) ==
    /\ failed = "no" /\ ~setNow
    /\ \A g \in Gates : left[g] - delta <= MaxLeft
    /\ SetClockTime(delta)
    /\ phase' = [g \in Gates |->
                     (phase[g] + delta) % TotalDuration(Durations[g])]
    /\ setNow' = TRUE
    /\ UNCHANGED <<isOpen, index>>

Tick ==
    /\ failed = "no"
    /\ TickClock
    /\ phase' = [g \in Gates |-> (phase[g] + 1) % TotalDuration(Durations[g])]
    /\ setNow' = FALSE
    /\ UNCHANGED <<isOpen, index>>

Next ==
    \/ \E g \in Gates : ChangeGate(g) \/ Restart(g)
    \/ \E e \in Events \ Gates : ExpireTimer(e)
    \/ \E delta \in -MaxStep..MaxStep : SetClock(delta)
    \/ Tick

(* The event loop executes what is due and lets time pass.                   *)
Fairness ==
    /\ \A g \in Gates : WF_vars(ChangeGate(g))
    /\ \A e \in Events \ Gates : WF_vars(ExpireTimer(e))
    /\ WF_vars(Tick)

Spec == Init /\ [][Next]_vars /\ Fairness

-----------------------------------------------------------------------------

(* The duration that ends at the change event of gate g.                     *)
CurrentDuration(g) ==
    DurationAt(Durations[g], (index[g] - 1) % Len(Durations[g]))

(* A gate follows the clock, not the time that passed, however often the     *)
(* clock was set (setClockTime, handleClockEvent): it is in the state that   *)
(* its list prescribes for the clock time, but while an event is due and for *)
(* the time the clock was set back by, which it waits out.  A change the     *)
(* clock jumped over is made up for, and never schedules the next one in the *)
(* past, as long as no step of the clock is larger than the gate's shortest  *)
(* duration (GatesAssumption).                                               *)
GatesFollowClock ==
    /\ failed = "no"
    /\ \A g \in Gates :
        timer[g] > 0 /\ left[g] <= CurrentDuration(g) =>
            isOpen[g] = PrescribedOpen(InitiallyOpen[g], 0, Durations[g], phase[g])

(* Once the clock is not set any more, and gates are not restarted for ever  *)
(* (a restart moves phase[g] back), each gate goes on opening and closing:   *)
(* setClockTime loses no change event.                                       *)
GatesGoOn ==
    \A g \in Gates :
        <>[]~setNow =>
            \/ []<>(isOpen[g]) /\ []<>(~isOpen[g])
            \/ []<>(<<Restart(g)>>_vars)

=============================================================================
