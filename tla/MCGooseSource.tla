--------------------------- MODULE MCGooseSource ---------------------------
(* Small instances of GooseSource: all lists of up to three events.          *)
EXTENDS GooseSource

MCCopyPeriods == <<1, 1, 2, 3>>

MCEventLists ==
    {list \in UNION {[1..n -> 1..SimTimeLimit-1] : n \in 1..3} :
        \A n \in 2..Len(list) : list[n-1] <= list[n]}

(* What the theorems of GooseSource_proofs assume.                           *)
ASSUME LimitIsCovered == HeartbeatsLast

=============================================================================
