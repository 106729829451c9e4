--------------------------- MODULE MCBridgedNetwork ---------------------------
(* Small instances of BridgedNetwork.                                        *)
EXTENDS BridgedNetwork, TLC

Plain == [identified |-> <<>>, splitting |-> <<>>, merging |-> <<>>, vlan |-> <<>>]

(* Three bridges in a line, no configured entries: one host at each, room to *)
(* move at the first; a group, with members configured at two of them.       *)
LinePeer == (<<"s1", 1>> :> <<"s2", 1>> @@ <<"s2", 1>> :> <<"s1", 1>>
          @@ <<"s2", 2>> :> <<"s3", 1>> @@ <<"s3", 1>> :> <<"s2", 2>>)
LineSwitches == {"s1", "s2", "s3"}
Line(ages, kinds, flows) == Plain @@
    [switches |-> LineSwitches, hosts |-> {"A", "B"}, groups |-> {"G"},
     ports |-> {<<"s1", 1>>, <<"s1", 2>>, <<"s2", 1>>, <<"s2", 2>>, <<"s2", 3>>,
                <<"s3", 1>>, <<"s3", 2>>},
     peer |-> LinePeer,
     home |-> ("A" :> <<"s1", 2>> @@ "B" :> <<"s3", 2>>),
     configured |-> [s \in LineSwitches |-> <<>>],
     flooded |-> ("s1" :> ("G" :> {1}) @@ "s2" :> ("G" :> {}) @@ "s3" :> ("G" :> {2})),
     traffic |-> flows,
     ages |-> ages, faults |-> kinds, maxFaults |-> 1,
     mortal |-> LineSwitches]

Moving == Line(TRUE, {"move"}, {<<"A", "B">>, <<"B", "A">>})
Crashing == Line(FALSE, {"crash", "parameter", "overflow"},
                 {<<"A", "B">>, <<"B", "A">>, <<"A", "G">>})

(* The line is one of the networks the theorem about loop-free ones is for.  *)
LineToward == ("s1" :> ("A" :> 2 @@ "B" :> 1) @@ "s2" :> ("A" :> 1 @@ "B" :> 2)
            @@ "s3" :> ("A" :> 1 @@ "B" :> 2))
LineDistance == ("s1" :> ("A" :> 0 @@ "B" :> 2) @@ "s2" :> ("A" :> 1 @@ "B" :> 1)
              @@ "s3" :> ("A" :> 2 @@ "B" :> 0))
ASSUME LineIsLoopFree == LoopFree(Crashing, LineToward, LineDistance)

(* And of those for which the theorem about packets that are not delivered   *)
(* twice is, from anywhere to any port for hosts.                            *)
LinePorts(out1, out2, out3) ==
    [s \in LineSwitches |->
        CASE s = "s1" -> out1 [] s = "s2" -> out2 [] s = "s3" -> out3]
LineOut == <<"s1", 2>> :> LinePorts(2, 1, 1) @@ <<"s2", 3>> :> LinePorts(1, 3, 1)
        @@ <<"s3", 2>> :> LinePorts(1, 2, 2)
LineWays == [s \in LineSwitches |-> [e \in DOMAIN LineOut |-> LineOut[e][s]]]
ASSUME LineDeliversOnce == \A n \in {Moving, Crashing} : NoDuplicates(n, LineWays, <<>>)

(* Three bridges in a ring, as in the substation's network, one host at two  *)
(* of them; a VLAN for either way round, configured at every bridge.         *)
RingPeer == (<<"s1", 1>> :> <<"s2", 2>> @@ <<"s2", 2>> :> <<"s1", 1>>
          @@ <<"s2", 1>> :> <<"s3", 2>> @@ <<"s3", 2>> :> <<"s2", 1>>
          @@ <<"s3", 1>> :> <<"s1", 2>> @@ <<"s1", 2>> :> <<"s3", 1>>)
Ring(kinds) ==
    [switches |-> LineSwitches, hosts |-> {"A", "B"}, groups |-> {},
     ports |-> {<<"s1", 1>>, <<"s1", 2>>, <<"s1", 3>>, <<"s2", 1>>, <<"s2", 2>>,
                <<"s3", 1>>, <<"s3", 2>>, <<"s3", 3>>},
     peer |-> RingPeer,
     home |-> ("A" :> <<"s1", 3>> @@ "B" :> <<"s3", 3>>),
     configured |->
        ("s1" :> (<<1, "A">> :> 3 @@ <<2, "A">> :> 3 @@ <<1, "B">> :> 2 @@ <<2, "B">> :> 1)
      @@ "s2" :> (<<2, "A">> :> 2 @@ <<2, "B">> :> 1)
      @@ "s3" :> (<<1, "A">> :> 1 @@ <<2, "A">> :> 2 @@ <<1, "B">> :> 3 @@ <<2, "B">> :> 3)),
     flooded |-> [s \in LineSwitches |-> <<>>],
     traffic |-> {<<"A", "B">>, <<"B", "A">>},
     identified |-> (<<"A", "B">> :> "ab" @@ <<"B", "A">> :> "ba"),
     splitting |-> ("ab" :> {"ab1", "ab2"} @@ "ba" :> {"ba1", "ba2"}),
     merging |-> ("ab1" :> "ab" @@ "ab2" :> "ab" @@ "ba1" :> "ba" @@ "ba2" :> "ba"),
     vlan |-> ("ab1" :> 1 @@ "ab2" :> 2 @@ "ba1" :> 1 @@ "ba2" :> 2),
     ages |-> FALSE, faults |-> kinds, maxFaults |-> 1, mortal |-> {"s2"}]

(* The streams of the ring are eliminated, and its history has just the room *)
(* that is needed.                                                           *)
ASSUME RingEliminates ==
    /\ NoDuplicates(Ring({}), <<>>,
                    (<<"A", "B">> :> "ab" @@ <<"B", "A">> :> "ba"))
    /\ MaxLag \in Nat \ {0} /\ BufferSize = 2 * MaxLag - 1

(* A definition of its own, for TLC to evaluate it only once.                *)
AllNetworks == "moving" :> Moving @@ "crashing" :> Crashing
            @@ "ring" :> Ring({"link", "crash", "parameter", "overflow"})
MCNetworks == AllNetworks

(* The ring with VLAN 1 the other way round for the frames from B to A: they *)
(* come in at s1 and s2 where those to B are sent out, or not.               *)
Asymmetric == "asymmetric" :> [Ring({}) EXCEPT
    !.configured["s1"] = (<<1, "A">> :> 3 @@ <<2, "A">> :> 3 @@ <<1, "B">> :> 2 @@ <<2, "B">> :> 1),
    !.configured["s2"] = (<<1, "A">> :> 2 @@ <<2, "A">> :> 2 @@ <<2, "B">> :> 1),
    !.configured["s3"] = (<<1, "A">> :> 2 @@ <<2, "A">> :> 2 @@ <<1, "B">> :> 3 @@ <<2, "B">> :> 3)]
MCAsymmetric == Asymmetric

=============================================================================
