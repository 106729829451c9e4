---------------------------- MODULE MCEgressPort ----------------------------
(* Small instances of EgressPort.                                            *)
EXTENDS EgressPort, TLC

MCLengths == {1, 2}

Start(c, open, durations) == StartOf(open[c], 0, durations[c])
FirstOf(open, durations) ==
    [c \in Classes |-> Start(c, open, durations).timer]
IndexOf(open, durations) ==
    [c \in Classes |-> Start(c, open, durations).index]

(* Three classes on one line: the gate of class 0 never changes, the cycles  *)
(* of the others have different lengths, so that their windows overlap in    *)
(* every way.  The windows of the urgent class are just long enough for a    *)
(* frame of another class, the gap, and a frame of its own.                  *)
SharedDurations == (0 :> <<>> @@ 1 :> <<2, 3>> @@ 2 :> <<1, 5>>)
SharedOpen == (0 :> TRUE @@ 1 :> TRUE @@ 2 :> FALSE)
SharedFirst == FirstOf(SharedOpen, SharedDurations)
SharedIndex == IndexOf(SharedOpen, SharedDurations)

=============================================================================
