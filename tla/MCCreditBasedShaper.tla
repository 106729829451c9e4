------------------------ MODULE MCCreditBasedShaper ------------------------
(* Small instances of CreditBasedShaper: a transmission gate that is always  *)
(* open, and one with windows of four units in a cycle of seven.             *)
EXTENDS CreditBasedShaper

MCLengths == {1, 2}
MCMinCredit == -7       \* below what a frame and its gap can spend (LoCredit)

AlwaysOpenGate == [initiallyOpen |-> TRUE, offset |-> 0, durations |-> <<>>]
WindowGate == [initiallyOpen |-> TRUE, offset |-> 1, durations |-> <<4, 3>>]

MCSchedules == {AlwaysOpenGate, WindowGate}

=============================================================================
