------------------------- MODULE MCGateConfiguration -------------------------
(* Small instances of GateConfiguration: all gate control lists of up to     *)
(* four rows for two gates, with both mappings, and all schedules of up to  *)
(* two slots in a cycle of six time units, and parameters given directly.    *)
EXTENDS GateConfiguration

MCNumGates == 2
MCRows == [duration : 1..2, states : {<<a, b>> : a \in BOOLEAN, b \in BOOLEAN}]
MCGclRequests ==
    [kind : {"gcl"}, gcl : UNION {[1..n -> MCRows] : n \in 1..4},
     mapping : {<<0, 1>>, <<1, 0>>}, gate : {0}]

MCCycle == 6
MCSlots == {s \in [start : 0..MCCycle-1, duration : 1..MCCycle] :
                SlotEnd(s) <= MCCycle}
MCSlotLists ==
    {<<>>} \cup {<<s>> : s \in MCSlots}
           \cup {p \in MCSlots \X MCSlots : SlotEnd(p[1]) < p[2].start}
MCSlotRequests ==
    [kind : {"slots"},
     schedule : [open : BOOLEAN, slots : MCSlotLists, cycleDuration : {MCCycle}]]

\* offsets inside, on the edge of and beyond the cycle; lists that are empty,
\* that wrap, and that have intervals skipped once and several times
MCDirectRequests ==
    [kind : {"direct"}, initiallyOpen : BOOLEAN, offset : {0, 1, 3, 4, 8},
     durations : {<<>>, <<1, 1>>, <<3, 1>>, <<1, 2, 3, 1>>}]

MCRequests == MCGclRequests \cup MCSlotRequests \cup MCDirectRequests

\* what the writers may come up with
MCOffsets == 0..8
MCDurationLists == UNION {[1..n -> 1..8] : n \in {0, 2, 4}}

=============================================================================
