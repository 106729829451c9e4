---------------------------- MODULE GateSchedule ----------------------------
(***************************************************************************)
(* The pure part of inet::queueing::PeriodicGate: where in its cyclic list  *)
(* of durations a gate starts, and what the change event of a gate does.    *)
(***************************************************************************)
EXTENDS Integers, Sequences

NotScheduled == -1

(* Only lists readDurationsPar accepts: an even number of positive values.   *)
IsPositiveList(d) == d \in Seq(Nat \ {0})
IsDurationList(d) == IsPositiveList(d) /\ Len(d) % 2 = 0

(* End of each of the first k durations of d, measured from the cycle start. *)
EndTimes(d) ==
    LET end[k \in 0..Len(d)] == IF k = 0 THEN 0 ELSE end[k-1] + d[k]
    IN  end

TotalDuration(d) == EndTimes(d)[Len(d)]

(* The loop of initializeGating: the durations that lie before the offset    *)
(* are skipped, and the gate toggled at the end of each of them.             *)
Skipped(d, offset) ==
    CHOOSE k \in 0..Len(d) : /\ EndTimes(d)[k] <= offset
                             /\ k < Len(d) => offset < EndTimes(d)[k+1]

(* Faulty StartOf: the part of the first duration that is over is not        *)
(* subtracted.                                                               *)
StartOfWholeDuration(open, offset, d) ==
    IF d = <<>>
    THEN [isOpen |-> open, index |-> 0, timer |-> NotScheduled]
    ELSE LET k == Skipped(d, offset % TotalDuration(d))
         IN  [isOpen |-> IF k % 2 = 0 THEN open ELSE ~open,
              index  |-> (k + 1) % Len(d),
              timer  |-> d[k+1]]

(* What initializeGating leaves behind: the state of the gate, the index     *)
(* (from 0) of the duration scheduled next and the time to the change event. *)
StartOf(open, offset, d) ==
    IF d = <<>>
    THEN [isOpen |-> open, index |-> 0, timer |-> NotScheduled]
    ELSE LET start == offset % TotalDuration(d)
             k     == Skipped(d, start)
         IN  [isOpen |-> IF k % 2 = 0 THEN open ELSE ~open,
              index  |-> (k + 1) % Len(d),
              timer  |-> EndTimes(d)[k+1] - start]

(* What the parameters of a gate mean: its state t after the gating started. *)
PrescribedOpen(open, offset, d, t) ==
    IF d = <<>>
    THEN open
    ELSE LET position == (offset + t) % TotalDuration(d)
             over == {k \in 1..Len(d) : EndTimes(d)[k] <= position}
         IN  IF \E n \in 0..Len(d) : over = 1..n /\ n % 2 = 0 THEN open ELSE ~open

(* scheduleChangeTimer: the duration at index i runs from now on.            *)
DurationAt(d, i) == d[i + 1]
IndexAfter(d, i) == (i + 1) % Len(d)

(* A timer that is not scheduled does not run.                               *)
TimerAfterTick(t) == IF t = NotScheduled THEN NotScheduled ELSE t - 1

=============================================================================
