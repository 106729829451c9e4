--------------------------- MODULE GateControlList ---------------------------
(***************************************************************************)
(* inet::queueing::GateControlList (queueing/gate/GateControlList.cc): how   *)
(* the rows of a gate control list become the initiallyOpen, offset and      *)
(* durations parameters of the PeriodicGate modules of the port.             *)
(*                                                                         *)
(* A row is [duration |-> positive number, states |-> sequence of BOOLEAN];  *)
(* mapping[i] is the gate that the i-th position of states speaks of.        *)
(***************************************************************************)
EXTENDS Integers, Sequences, FiniteSetsExt

CONSTANT NumGates

ASSUME NumGatesAssumption == NumGates \in Nat \ {0}

Gates == 0..NumGates-1

(* parseGclLine: positions are read from left to right, so the last one      *)
(* mapped to a gate wins; a gate no position is mapped to stays closed.      *)
ParseGclLine(states, mapping) ==
    [g \in Gates |->
        LET written == {i \in 1..NumGates : mapping[i] = g}
        IN  written # {} /\ states[Max(written)]]

(* The loop of parseGcl over the rows, for one gate: a run of rows with the  *)
(* same state becomes one duration, added when the state changes.            *)
ExtendedBy(runs, open, duration) ==
    IF open # runs.open
    THEN [open |-> open, duration |-> duration,
          durations |-> Append(runs.durations, runs.duration)]
    ELSE [runs EXCEPT !.duration = @ + duration]

RunsAfter(gcl, mapping, gate) ==
    LET open(i) == ParseGclLine(gcl[i].states, mapping)[gate]
        runs[n \in 0..Len(gcl)] ==
            IF n = 0 THEN [open |-> open(1), duration |-> 0, durations |-> <<>>]
                     ELSE ExtendedBy(runs[n-1], open(n), gcl[n].duration)
    IN  runs

RunsOf(gcl, mapping, gate) == RunsAfter(gcl, mapping, gate)[Len(gcl)]

(* Faulty ParseGcl: the last run becomes the offset, and is not merged.      *)
ParseGclUnmerged(gcl, mapping, gate) ==
    LET runs  == RunsOf(gcl, mapping, gate)
        first == ParseGclLine(gcl[1].states, mapping)[gate]
        d     == runs.durations
        Parameters(offset, durations) ==
            [initiallyOpen |-> first, offset |-> offset, durations |-> durations]
    IN  CASE Len(d) % 2 # 0 -> Parameters(0, Append(d, runs.duration))
          [] Len(d) % 2 = 0 /\ d # <<>> -> Parameters(runs.duration, d)
          [] OTHER -> Parameters(0, d)

(* The end of parseGcl: the last run closes the list, or, when it has the    *)
(* state of the first run, is merged into it and becomes the offset.         *)
ParseGcl(gcl, mapping, gate) ==
    LET runs  == RunsOf(gcl, mapping, gate)
        first == ParseGclLine(gcl[1].states, mapping)[gate]
        d     == runs.durations
        Parameters(offset, durations) ==
            [initiallyOpen |-> first, offset |-> offset, durations |-> durations]
    IN  CASE Len(d) % 2 # 0 -> Parameters(0, Append(d, runs.duration))
          [] Len(d) % 2 = 0 /\ d # <<>> ->
                Parameters(runs.duration, [d EXCEPT ![1] = @ + runs.duration])
          [] OTHER -> Parameters(0, d)

=============================================================================
