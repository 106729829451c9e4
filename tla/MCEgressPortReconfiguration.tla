-------------------- MODULE MCEgressPortReconfiguration --------------------
(* The two exclusive windows of MCEgressPort, configured at run time.        *)
EXTENDS EgressPortReconfiguration, TLC

MCLengths == {1, 2}
MCDurations == (0 :> <<4, 3>> @@ 1 :> <<4, 3>>)
MCOpen == (0 :> TRUE @@ 1 :> FALSE)
Start(c) == StartOf(MCOpen[c], 0, MCDurations[c])
MCFirst == [c \in Classes |-> Start(c).timer]
MCIndex == [c \in Classes |-> Start(c).index]

=============================================================================
