---------------------------- MODULE SettableClock ----------------------------
(***************************************************************************)
(* inet::SettableClock (clock/model/SettableClock.cc) with what it inherits  *)
(* from OscillatorBasedClock and ClockBase: a clock that modules schedule    *)
(* events by and that is set while these are scheduled.                      *)
(*                                                                         *)
(* Between settings the clock advances with the simulation time: oscillator  *)
(* without drift, no compensation, all times multiples of the tick length.   *)
(* Times are relative to now: left[e] is the arrival clock time of an event  *)
(* minus the clock time, negative when it is overdue; timer[e] is its        *)
(* arrival simulation time minus the simulation time.                        *)
(***************************************************************************)
EXTENDS Integers, Sequences

CONSTANTS
    Events,     \* the clock events of the modules that use the clock
    Mode        \* their OverdueClockEventHandlingMode

Unscheduled == -1

ASSUME ModeAssumption == Mode \in [Events -> {"execute", "skip", "error"}]

VARIABLES
    events,     \* the vector of the clock
    left,       \* per event, as above; 0 for one that is not scheduled
    relative,   \* per event: scheduled by scheduleClockEventAfter
    timer,      \* per event, as above, or Unscheduled
    failed      \* why the simulation ended with an error, or "no"

clockVars == <<events, left, relative, timer, failed>>

IsScheduled(e) == timer[e] # Unscheduled

(* erase(remove(...)) on a sequence: what is not e, in its order; Kept is    *)
(* what is left of the first elements.                                       *)
Kept(s, e) ==
    LET kept[i \in 0..Len(s)] ==
            IF i = 0 THEN <<>>
            ELSE IF s[i] = e THEN kept[i-1] ELSE Append(kept[i-1], s[i])
    IN  kept

Without(s, e) == Kept(s, e)[Len(s)]

-----------------------------------------------------------------------------

(* scheduleClockEventAt and scheduleClockEventAfter, called at a clock time  *)
(* that lies seen before the current one (see Execute), for a time delay     *)
(* after it.  OMNeT++ refuses a simulation time that is over.                *)
Schedule(e, delay, seen, isRelative) ==
    IF delay < seen
    THEN failed' = "past" /\ UNCHANGED <<events, left, relative, timer>>
    ELSE /\ events' = Append(Without(events, e), e)
         /\ left' = [left EXCEPT ![e] = delay - seen]
         /\ timer' = [timer EXCEPT ![e] = delay - seen]
         /\ relative' = [relative EXCEPT ![e] = isRelative]
         /\ UNCHANGED failed

(* cancelClockEvent, then scheduleClockEventAt.                              *)
Reschedule(e, delay) == Schedule(e, delay, 0, FALSE)

(* Faulty ExecuteAndSchedule: the handler sees the current clock time.       *)
ExecuteAndScheduleFromNow(e, delay) ==
    timer[e] = 0 /\ Schedule(e, delay, 0, relative[e])

(* handleClockEvent, for an event whose handler schedules it again: while it *)
(* is executed the clock shows its arrival clock time, so that a periodic    *)
(* event that is late loses nothing.                                         *)
ExecuteAndSchedule(e, delay) ==
    timer[e] = 0 /\ Schedule(e, delay, -left[e], relative[e])

-----------------------------------------------------------------------------
(* setClockTime visits the events in the order of the vector.  A visit is a  *)
(* step from one record [memory, size, left, timer, failed] to the next: the *)
(* storage of the vector, how much of it is in use, and the clock's state.   *)

(* erase(remove(...)) while setClockTime visits the vector: the elements move *)
(* up, the storage behind them stays.                                        *)
Erase(s, e) ==
    LET live == Without(SubSeq(s.memory, 1, s.size), e)
    IN  [s EXCEPT !.memory = live \o SubSeq(@, Len(live) + 1, Len(@)),
                  !.size = Len(live)]

(* Faulty HandleOverdue: every mode falls through to skip.                   *)
OverdueEventSkipped(s, e) == [Erase(s, e) EXCEPT !.timer[e] = Unscheduled]

(* Faulty HandleOverdue: the event is left where it is.                      *)
OverdueEventStays(s, e) == s

(* handleOverdueClockEvent and what is done with its result.                 *)
HandleOverdue(s, e) ==
    CASE Mode[e] = "execute" -> [s EXCEPT !.timer[e] = 0]
      [] Mode[e] = "skip"    -> [Erase(s, e) EXCEPT !.timer[e] = Unscheduled]
      [] Mode[e] = "error"   -> [s EXCEPT !.failed = "overdue"]

(* Faulty VisitEvent: relative events keep their arrival clock time.         *)
VisitEventUnshifted(s, e, delta) ==
    IF relative[e] THEN s
    ELSE IF s.left[e] < 0 THEN HandleOverdue(s, e)
    ELSE [s EXCEPT !.timer[e] = IF @ # Unscheduled THEN s.left[e] ELSE @]

(* The body of the loop: the simulation time of a relative event stays, the  *)
(* clock time of an absolute one.                                            *)
VisitEvent(s, e, delta) ==
    IF relative[e] THEN [s EXCEPT !.left[e] = @ + delta]
    ELSE IF s.left[e] < 0 THEN HandleOverdue(s, e)
    ELSE [s EXCEPT !.timer[e] = IF @ # Unscheduled THEN s.left[e] ELSE @]

(* One position of the vector; an error ends the loop.                       *)
Visit(s, i, delta) ==
    IF s.failed = "no" THEN VisitEvent(s, s.memory[i], delta) ELSE s

(* The records after the first positions.  The range-for has its end fixed   *)
(* when it begins and goes on by position: what Erase moves into the place   *)
(* just visited is missed, and what is left behind the new end (undefined    *)
(* behaviour: the storage is still there) is visited again.                  *)
Visited(delta) ==
    LET after[i \in 0..Len(events)] ==
            IF i = 0
            THEN [memory |-> events, size |-> Len(events), timer |-> timer,
                  left |-> [e \in Events |-> left[e] - delta], failed |-> failed]
            ELSE Visit(after[i-1], i, delta)
    IN  after

SetClockTime(delta) ==
    LET after == Visited(delta)[Len(events)]
    IN  /\ delta # 0
        /\ events' = SubSeq(after.memory, 1, after.size)
        /\ timer' = after.timer
        /\ left' = [e \in Events |->
                        IF after.timer[e] = Unscheduled THEN 0 ELSE after.left[e]]
        /\ failed' = after.failed
        /\ UNCHANGED relative

(* Time passes when no event is due.                                         *)
TickClock ==
    /\ \A e \in Events : timer[e] # 0
    /\ left' = [e \in Events |-> IF IsScheduled(e) THEN left[e] - 1 ELSE 0]
    /\ timer' = [e \in Events |-> IF IsScheduled(e) THEN timer[e] - 1 ELSE Unscheduled]
    /\ UNCHANGED <<events, relative, failed>>

-----------------------------------------------------------------------------

(* IClock.h: an event that was scheduled at a clock time "is anchored to a   *)
(* specific clock time value, so the actual simulation time when this event  *)
(* is executed will be affected if the clock time is set later".  An event   *)
(* arrives when the clock shows its time, or at once if that is over.        *)
EventsAnchored ==
    failed = "no" => \A e \in Events :
        IsScheduled(e) /\ ~relative[e] =>
            timer[e] = IF left[e] < 0 THEN 0 ELSE left[e]

(* An event that was scheduled after a delay keeps its simulation time when  *)
(* the clock is set; its clock time, which its handler takes for the present *)
(* one (handleClockEvent), is the time the clock will show by then.          *)
DelayedEventsOnTime ==
    failed = "no" => \A e \in Events :
        IsScheduled(e) /\ relative[e] => left[e] = timer[e]

=============================================================================
