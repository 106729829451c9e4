------------------------ MODULE MCEagerGateScheduler ------------------------
(* Small instances of EagerGateScheduler: two interfaces in a row, two       *)
(* traffic classes, flows of one or two packets in a cycle.                  *)
EXTENDS EagerGateScheduler

MCInterfaces == {"a", "b"}
MCPaths == {<<"a">>, <<"b">>, <<"a", "b">>}
MCLatency == 100    \* more than any flow needs
MCShortLatency == 5 \* what the second interface of a path may exceed

Flow(gates, durations, intervals, latencies) ==
    [gate : gates, path : MCPaths, duration : durations,
     interval : intervals, maxLatency : latencies]

\* four flows, long enough for a later one to find room between, and before,
\* the slots of the others; the first has a second packet, which has to get
\* past all of them
MCFourFlows ==
    {list \in [1..4 -> Flow(0..1, 1..3, {6, 12}, {MCLatency})] :
        \A n \in 1..4 : /\ list[n].gate = n % 2
                        /\ list[n].interval = IF n = 1 THEN 6 ELSE 12}

\* up to three flows that leave room in the cycle, or overfill it
MCFlowLists ==
    MCFourFlows \cup
    UNION {[1..n -> Flow(0..1, 1..2, {6, 12}, {MCLatency, MCShortLatency, Unset})] : n \in 1..3}

\* room for all packets, the first flow late on the second interface
MCPackedLists ==
    {list \in [1..3 -> Flow(0..1, {2, 3, 7}, {5, 30}, {MCLatency})] :
        /\ list[1].duration = 7 /\ list[1].interval = 30
        /\ \A n \in 2..3 : list[n].duration < 7}

=============================================================================
