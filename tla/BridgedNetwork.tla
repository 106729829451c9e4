---------------------------- MODULE BridgedNetwork ----------------------------
(***************************************************************************)
(* Hosts and bridges (TsnSwitch, with BridgingLayer): each bridge learns     *)
(* addresses (RelayInterfaceLearner) and forwards frames                     *)
(* (RelayInterfaceSelector) by its MacForwardingTable; each host sends       *)
(* packets, replicated or not, and eliminates the copies that come back      *)
(* together (StreamRedundancy).  Bridges crash and start again, links fail,  *)
(* queues overflow, hosts are moved.                                         *)
(*                                                                         *)
(* A network is a record (the constant Networks names them):                 *)
(*   switches, hosts, groups   its nodes, and its multicast addresses        *)
(*   ports       interfaces of the switches, pairs <<switch, number>>        *)
(*   peer        the port at the other end, for a port that leads to one;    *)
(*               any other port has room for a host                          *)
(*   home        the port each host is attached to at the start              *)
(*   configured  per switch the parameter forwardingTable: the interface of  *)
(*               a key, pairs of a VLAN and a host                           *)
(*   flooded     per switch and group the interfaces of that parameter       *)
(*   traffic     pairs of a source and a destination                         *)
(*   identified  the stream of a pair, for the pairs that have one           *)
(*   splitting, merging   the parameters of StreamRedundancy                 *)
(*   vlan        the VLAN that codes a stream                                *)
(*   ages        is the simulation long enough for entries to age            *)
(*   faults, maxFaults    the kinds of disturbance, and how many of them     *)
(*   mortal      the switches that may crash                                 *)
(***************************************************************************)
EXTENDS MacForwardingTable, StreamRedundancy, FiniteSets

CONSTANTS
    Networks,       \* the networks, by name
    MaxLag,         \* bound: packets of a stream a copy may be overtaken by
    MaxPackets,     \* bound: packets sent altogether
    MaxInFlight     \* bound: packets on their way at a time

(* The records and the functions in them fit together.                       *)
WellFormed(n) ==
    /\ n.ports \subseteq n.switches \X Nat
    /\ DOMAIN n.peer \subseteq n.ports
    /\ \A p \in DOMAIN n.peer : n.peer[p] \in DOMAIN n.peer
    /\ n.home \in [n.hosts -> n.ports \ DOMAIN n.peer]
    /\ \A s \in n.switches : \A key \in DOMAIN n.configured[s] :
        <<s, n.configured[s][key]>> \in n.ports
    /\ n.traffic \subseteq n.hosts \X (n.hosts \cup n.groups)
    /\ \A flow \in DOMAIN n.identified :
        SplitStreams(n.splitting, n.identified[flow]) \subseteq DOMAIN n.vlan
    /\ n.mortal \subseteq n.switches
    /\ n.maxFaults \in Nat

ASSUME NetworksAssumption == \A x \in DOMAIN Networks : WellFormed(Networks[x])
ASSUME BoundsAssumption == MaxPackets \in Nat

VARIABLES
    name,           \* the network that is simulated
    up,             \* per switch: is the node up
    table,          \* per switch: forwardingTable
    now,            \* simulation time, up to AgingTime
    place,          \* the port each host is attached to
    failed,         \* the ports of links that have failed
    frames,         \* the frames on the links
    packets,        \* the packets sent so far
    history,        \* per host: sequenceNumbers of its StreamMerger
    faults,         \* bound: disturbances so far
    delivered,      \* history: how often a host got a packet
    disturbed,      \* history: the packets that met a disturbance
    settledFor      \* history: time since a host was moved, up to AgingTime

bridges == <<up, table>>
lines == <<place, failed, frames>>
record == <<delivered, disturbed, settledFor>>
vars == <<name, bridges, now, lines, packets, history, faults, record>>

-----------------------------------------------------------------------------
(* The network, and what is on its way in it.                               *)

net == Networks[name]
PortsOf(switch) == {port[2] : port \in {q \in net.ports : q[1] = switch}}
EdgePorts == net.ports \ DOMAIN net.peer
Vlans == {0} \cup {net.vlan[s] : s \in DOMAIN net.vlan}
Keys == Vlans \X net.hosts

Flow(packet) == <<packet.source, packet.destination>>
InFlight(n) == \E f \in frames : f.packet = n
Members(address) == IF address \in net.groups THEN net.hosts ELSE {address}
Receivers(packet) == Members(packet.destination) \ {packet.source}

Outputs == {net.merging[s] : s \in DOMAIN net.merging}

(* The streams of the copies of a packet of this flow, and their VLANs.      *)
CopiesOf(flow) == SplitStreams(net.splitting, net.identified[flow])
VlansOf(flow) ==
    IF flow \in DOMAIN net.identified
    THEN {net.vlan[s] : s \in CopiesOf(flow)}
    ELSE {0}

(* StreamDecoder: the stream of a copy, by its source and VLAN.              *)
StreamOf(packet, vlan) ==
    CHOOSE s \in CopiesOf(Flow(packet)) : net.vlan[s] = vlan

(* StreamIdentifier::incrementSequenceNumber                                 *)
NextSequenceNumber(flow) ==
    Cardinality({n \in DOMAIN packets : Flow(packets[n]) = flow})

Frame(n, vlan, port, inbound) ==
    [packet |-> n, vlan |-> vlan, port |-> port, inbound |-> inbound,
     old |-> FALSE]

(* A frame leaves a switch: over a link to the next one, or to the host that *)
(* is attached to the port.  A host that is not addressed ignores it.        *)
Leaving(n, vlan, port) ==
    IF port \in DOMAIN net.peer
    THEN IF port \in failed THEN {} ELSE {Frame(n, vlan, net.peer[port], TRUE)}
    ELSE IF \E h \in Members(packets[n].destination) : place[h] = port
         THEN {Frame(n, vlan, port, FALSE)}
         ELSE {}

-----------------------------------------------------------------------------

Init ==
    /\ name \in DOMAIN Networks
    /\ up = [s \in net.switches |-> TRUE]
    /\ table = [s \in net.switches |->
                    Initialized([key \in Keys |-> NoEntry],
                                net.configured[s], 0)]
    /\ now = 0
    /\ place = net.home
    /\ failed = {}
    /\ frames = {}
    /\ packets = <<>>
    /\ history = [h \in net.hosts |-> [s \in Outputs |-> <<>>]]
    /\ faults = 0
    /\ delivered = [d \in (1..MaxPackets) \X net.hosts |-> 0]
    /\ disturbed = {}
    /\ settledFor = AgingTime

(* A host sends a packet: StreamIdentifier, StreamSplitter and StreamEncoder *)
(* make frames of it.  A copy of an earlier packet of the stream that is     *)
(* still on its way is at most MaxLag behind.                                *)
Send(flow) ==
    LET n == Len(packets) + 1
        number == NextSequenceNumber(flow)
    IN  /\ n <= MaxPackets
        /\ Cardinality({f.packet : f \in frames}) < MaxInFlight
        /\ \A m \in DOMAIN packets :
            Flow(packets[m]) = flow /\ InFlight(m)
                => packets[m].number > number - MaxLag
        /\ packets' = Append(packets, [source |-> flow[1],
                                       destination |-> flow[2],
                                       number |-> number])
        /\ frames' = frames \cup
                {Frame(n, vlan, place[flow[1]], TRUE) : vlan \in VlansOf(flow)}
        /\ disturbed' = IF settledFor < AgingTime \/ \E s \in net.switches : ~up[s]
                        THEN disturbed \cup {n}
                        ELSE disturbed
        /\ UNCHANGED <<name, bridges, now, place, failed, history, faults,
                       delivered, settledFor>>

(* Faulty Flood: also to where the frame came from.                          *)
FloodBack(switch, in) == PortsOf(switch)

(* RelayInterfaceSelector::broadcastPacket                                   *)
Flood(switch, in) == PortsOf(switch) \ {in}

(* RelayInterfaceSelector::pushPacket                                        *)
OutInterfaces(switch, in, vlan, address, learned) ==
    IF address \in net.groups
    THEN LET members == net.flooded[switch][address]
         IN  IF members = {} THEN Flood(switch, in) ELSE members \ {in}
    ELSE LET out == Lookup(learned, <<vlan, address>>)
         IN  IF out = NoInterface THEN Flood(switch, in) ELSE {out} \ {in}

(* A frame arrives at a switch that is up: RelayInterfaceLearner, then       *)
(* RelayInterfaceSelector.                                                   *)
Relay(f) ==
    LET s == f.port[1]
        packet == packets[f.packet]
        learned == Learn(table[s], <<f.vlan, packet.source>>, f.port[2])
        out == OutInterfaces(s, f.port[2], f.vlan, packet.destination, learned)
    IN  /\ f.inbound
        /\ up[s]
        /\ table' = [table EXCEPT ![s] = learned]
        /\ frames' = (frames \ {f}) \cup
                UNION {Leaving(f.packet, f.vlan, <<s, i>>) : i \in out}
        /\ UNCHANGED <<name, up, now, place, failed, packets, history, faults,
                       record>>

(* A frame gets lost in a switch that is down.                               *)
Vanish(f) ==
    /\ f.inbound
    /\ ~up[f.port[1]]
    /\ frames' = frames \ {f}
    /\ UNCHANGED <<name, bridges, now, place, failed, packets, history, faults,
                   record>>

(* A frame arrives at a host that is addressed: StreamDecoder, StreamMerger. *)
Receive(f, host) ==
    LET packet == packets[f.packet]
        identified == Flow(packet) \in DOMAIN net.identified
        stream == StreamOf(packet, f.vlan)
        passes == identified =>
                    Matches(history[host], net.merging, stream, packet.number)
    IN  /\ ~f.inbound
        /\ place[host] = f.port
        /\ host \in Members(packet.destination)
        /\ frames' = frames \ {f}
        /\ IF passes
           THEN /\ history' = IF identified
                    THEN [history EXCEPT ![host] =
                            Merge(@, net.merging, stream, packet.number)]
                    ELSE history
                /\ delivered' = [delivered EXCEPT ![<<f.packet, host>>] = @ + 1]
           ELSE UNCHANGED <<history, delivered>>
        /\ UNCHANGED <<name, bridges, now, place, failed, packets, faults,
                       disturbed, settledFor>>

-----------------------------------------------------------------------------
(* Disturbances.                                                            *)

Disturb(kind) ==
    /\ kind \in net.faults
    /\ faults < net.maxFaults
    /\ faults' = faults + 1
    /\ disturbed' = disturbed \cup {f.packet : f \in frames}
    /\ UNCHANGED <<name, now, packets, history, delivered>>

(* A queue is full.                                                          *)
Overflow(f) ==
    /\ Disturb("overflow")
    /\ frames' = frames \ {f}
    /\ UNCHANGED <<bridges, place, failed, settledFor>>

(* A link fails, with what is on it.                                         *)
FailLink(port) ==
    /\ Disturb("link")
    /\ failed' = failed \cup {port, net.peer[port]}
    /\ frames' = {f \in frames : f.port \notin failed'}
    /\ UNCHANGED <<bridges, place, settledFor>>

(* Faulty Crash: the table survives.                                         *)
CrashKeepingTable(switch) ==
    /\ Disturb("crash")
    /\ up[switch]
    /\ up' = [up EXCEPT ![switch] = FALSE]
    /\ UNCHANGED <<table, lines, settledFor>>

(* handleCrashOperation, or handleStopOperation                              *)
Crash(switch) ==
    /\ Disturb("crash")
    /\ up[switch]
    /\ up' = [up EXCEPT ![switch] = FALSE]
    /\ table' = [table EXCEPT ![switch] = Cleared(@)]
    /\ UNCHANGED <<lines, settledFor>>

(* handleStartOperation                                                      *)
Start(switch) ==
    /\ ~up[switch]
    /\ up' = [up EXCEPT ![switch] = TRUE]
    /\ table' = [table EXCEPT ![switch] =
                    Initialized(@, net.configured[switch], now)]
    /\ UNCHANGED <<name, now, lines, packets, history, faults, record>>

(* handleParameterChange                                                     *)
Reconfigure(switch) ==
    /\ Disturb("parameter")
    /\ up[switch]
    /\ table' = [table EXCEPT ![switch] =
                    Initialized(@, net.configured[switch], now)]
    /\ UNCHANGED <<up, lines, settledFor>>

(* A host is attached to another port, which takes much longer than any      *)
(* frame is on its way.                                                      *)
Move(host, port) ==
    /\ Disturb("move")
    /\ frames = {}
    /\ \A h \in net.hosts : place[h] # port
    /\ place' = [place EXCEPT ![host] = port]
    /\ settledFor' = 0
    /\ UNCHANGED <<bridges, failed, frames>>

(* A second passes; no frame is on its way for another one.                  *)
Tick ==
    /\ net.ages
    /\ \A f \in frames : ~f.old
    /\ frames' = {[f EXCEPT !.old = TRUE] : f \in frames}
    /\ table' = [s \in net.switches |-> AgedByTick(table[s])]
    /\ now' = Older(now)
    /\ settledFor' = Older(settledFor)
    /\ UNCHANGED <<name, up, place, failed, packets, history, faults, delivered,
                   disturbed>>

Transport ==
    \E f \in frames :
        \/ Relay(f)
        \/ Vanish(f)
        \/ \E h \in net.hosts : Receive(f, h)

Disturbance ==
    \/ \E f \in frames : Overflow(f)
    \/ \E p \in DOMAIN net.peer : FailLink(p)
    \/ \E s \in net.mortal : Crash(s)
    \/ \E s \in net.switches : Reconfigure(s)
    \/ \E h \in net.hosts, p \in EdgePorts : Move(h, p)

Next ==
    \/ \E flow \in net.traffic : Send(flow)
    \/ Transport
    \/ Disturbance
    \/ \E s \in net.switches : Start(s)
    \/ Tick

(* Frames travel on: the links and bridges hold none of them back.           *)
Spec == Init /\ [][Next]_vars /\ WF_vars(Transport)

-----------------------------------------------------------------------------

(* Every variable stays in its range, and the table of a bridge that is down *)
(* is empty.                                                                 *)
BridgesOK ==
    /\ up \in [net.switches -> BOOLEAN]
    /\ table \in [net.switches -> [Keys -> Entries]]
    /\ \A s \in net.switches : ~up[s] => table[s] = Cleared(table[s])
    /\ now \in 0..AgingTime

LinesOK ==
    /\ place \in [net.hosts -> EdgePorts]
    /\ failed \subseteq DOMAIN net.peer
    /\ packets \in Seq([source : net.hosts, number : Nat,
                        destination : net.hosts \cup net.groups])
    /\ Len(packets) <= MaxPackets
    /\ frames \subseteq [packet : DOMAIN packets, vlan : Vlans, port : net.ports,
                         inbound : BOOLEAN, old : BOOLEAN]

RecordsOK ==
    /\ history \in [net.hosts -> [Outputs -> Seq(Nat)]]
    /\ \A h \in net.hosts, s \in Outputs : Len(history[h][s]) <= BufferSize
    /\ faults \in 0..net.maxFaults
    /\ delivered \in [(1..MaxPackets) \X net.hosts -> Nat]
    /\ disturbed \subseteq 1..MaxPackets
    /\ settledFor \in 0..AgingTime

TypeOK == name \in DOMAIN Networks /\ BridgesOK /\ LinesOK /\ RecordsOK

(* Where a bridge forwards the frames for a key; does the entry for the key  *)
(* lead on to one of these bridges.                                          *)
Direction(key, s) == <<s, Lookup(table[s], key)>>
LeadsInto(key, s, group) ==
    /\ up[s]
    /\ Lookup(table[s], key) # NoInterface
    /\ Direction(key, s) \in DOMAIN net.peer
    /\ net.peer[Direction(key, s)][1] \in group

(* The entries of all the bridges for a host fit together: from wherever a   *)
(* frame starts, following them does not lead in a circle, and where they    *)
(* lead out of the bridges the host is attached.  Stale entries of a host    *)
(* that was moved are gone after the ageing time.                            *)
EntriesLeadToHost ==
    settledFor = AgingTime =>
        \A key \in Keys :
            /\ \A circle \in (SUBSET net.switches) \ {{}} :
                \E s \in circle : ~LeadsInto(key, s, circle)
            /\ \A s \in net.switches :
                LET d == Direction(key, s)
                IN  \/ d[2] = NoInterface
                    \/ d \in DOMAIN net.peer
                    \/ d = place[key[2]]

(* A network in which frames to a host have only one way to go from every    *)
(* bridge, and so those from it only one way to come from; the configured    *)
(* entries agree with it, and no host is moved.                              *)
LoopFree(n, toward, distance) ==
    /\ "move" \notin n.faults
    /\ \A h \in n.hosts, s \in n.switches :
        /\ toward[s][h] \in Nat
        /\ distance[s][h] \in Nat
        /\ <<s, toward[s][h]>> \in DOMAIN n.peer \cup {n.home[h]}
        /\ s = n.home[h][1] => toward[s][h] = n.home[h][2]
    /\ \A p \in DOMAIN n.peer, h \in n.hosts :
        IF toward[p[1]][h] = p[2]
        THEN distance[n.peer[p][1]][h] < distance[p[1]][h]
        ELSE toward[n.peer[p][1]][h] = n.peer[p][2]
    /\ \A s \in n.switches : \A key \in DOMAIN n.configured[s] :
        n.configured[s][key] = toward[s][key[2]]

(* A network with no loops: from either end of a link to the other, the one  *)
(* is on the way to a port for hosts, or the other back from it.             *)
OneWay(n, toward) ==
    \A e \in n.ports \ DOMAIN n.peer :
        /\ toward[e[1]][e] = e[2]
        /\ \A p \in DOMAIN n.peer :
            toward[p[1]][e] = p[2] \/ toward[n.peer[p][1]][e] = n.peer[p][2]

(* The copies of a packet go to one history, to which those of other flows   *)
(* do not go.                                                                *)
Eliminates(n, output) ==
    \A flow \in n.traffic \cap DOMAIN n.identified :
        /\ \A s \in SplitStreams(n.splitting, n.identified[flow]) :
            s \in DOMAIN n.merging /\ n.merging[s] = output[flow]
        /\ \A other \in n.traffic \cap DOMAIN n.identified :
            output[other] = output[flow] => other = flow

(* Nothing in a network can deliver a packet twice: there is one way to go,  *)
(* or all packets have sequence numbers.                                     *)
NoDuplicates(n, toward, output) ==
    /\ Eliminates(n, output)
    /\ n.traffic \subseteq DOMAIN n.identified \/ OneWay(n, toward)

(* No host gets a packet twice, whatever is lost, cut off or restarted, and  *)
(* however far one copy is behind the other.                                 *)
AtMostOnce == \A d \in DOMAIN delivered : delivered[d] <= 1

(* A packet that met no disturbance reaches its receivers, and so does one   *)
(* that is sent over two paths in a network in which one thing went wrong.   *)
Redundant(n) ==
    Flow(packets[n]) \in DOMAIN net.identified /\ faults = 1

ExactlyOnce ==
    \A n \in DOMAIN packets :
        ~InFlight(n) /\ (n \notin disturbed \/ Redundant(n)) =>
            \A h \in Receivers(packets[n]) : delivered[n, h] = 1

(* No frame goes round for ever.                                             *)
FramesEnd == [](frames # {} => <>(frames = {}))

(* Expected of a manual entry: no frame that comes in changes it.            *)
ConfiguredEntriesStay ==
    \A s \in net.switches : up[s] =>
        \A key \in DOMAIN net.configured[s] :
            Lookup(table[s], key) = net.configured[s][key]

=============================================================================
