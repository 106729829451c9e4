------------------------- MODULE MCSynchronizedGates -------------------------
(* Two gates with different cycles and a timer that is scheduled after       *)
(* delays share a clock.                                                     *)
EXTENDS SynchronizedGates

CONSTANTS g1, g2, sync

MCInitiallyOpen == g1 :> TRUE @@ g2 :> FALSE

MCDurations == g1 :> <<2, 3>> @@ g2 :> <<4, 2>>

MCExecute == [e \in Events |-> "execute"]

=============================================================================
