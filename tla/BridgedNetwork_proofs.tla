------------------------ MODULE BridgedNetwork_proofs ------------------------
(***************************************************************************)
(* Proofs about BridgedNetwork for all networks: type correctness; for       *)
(* networks without loops of any size, that the entries of the bridges lead  *)
(* to the hosts whatever crashes, is lost or ages; and for those with        *)
(* elimination too, that no packet is delivered twice.                       *)
(***************************************************************************)
EXTENDS BridgedNetwork, FiniteSetTheorems, WellFoundedInduction, TLAPS

USE DEF NoInterface

(* The least of some natural numbers.                                        *)
LEMMA LeastNumber ==
    ASSUME NEW S \in SUBSET Nat, S # {}
    PROVE  \E n \in S : \A m \in S : ~(m < n)
<1>1. IsWellFoundedOn({r \in Nat \X Nat : r[1] < r[2]}, Nat)
  BY NatLessThanWellFounded, Zenon DEF OpToRel
<1>2. PICK n \in S : \A m \in S : <<m, n>> \notin {r \in Nat \X Nat : r[1] < r[2]}
  BY <1>1, WFMin, Zenon
<1>3. \A m \in S : <<m, n>> \in Nat \X Nat
  OBVIOUS
<1> QED
  BY <1>2, <1>3

-----------------------------------------------------------------------------
(* The forwarding table: its operators keep it well-typed, and answer only   *)
(* with what they were told.                                                 *)

LEMMA NoEntryType == NoEntry \in Entries /\ NoEntry.interface = NoInterface
  BY AgingTimeAssumption DEF NoEntry, Entries

LEMMA EntryType ==
    ASSUME NEW i \in Nat, NEW age \in 0..AgingTime
    PROVE  /\ Entry(i, age) \in Entries
           /\ Entry(i, age).interface = i
           /\ Entry(i, age) # NoEntry
  BY DEF Entry, Entries, NoEntry

LEMMA OlderType == \A age \in 0..AgingTime : Older(age) \in 0..AgingTime
  BY AgingTimeAssumption DEF Older

LEMMA LookupFound ==
    ASSUME NEW K, NEW t \in [K -> Entries], NEW k \in K
    PROVE  Lookup(t, k) \in {NoInterface, t[k].interface}
  BY DEF Lookup

LEMMA ClearedFacts ==
    ASSUME NEW K, NEW t \in [K -> Entries]
    PROVE  /\ Cleared(t) \in [K -> Entries]
           /\ Cleared(Cleared(t)) = Cleared(t)
           /\ \A k \in K : Cleared(t)[k] = NoEntry /\ Lookup(Cleared(t), k) = NoInterface
  BY NoEntryType DEF Cleared, Lookup

LEMMA LearnFacts ==
    ASSUME NEW K, NEW t \in [K -> Entries], NEW key \in K, NEW i \in Nat
    PROVE  /\ Learn(t, key, i) \in [K -> Entries]
           /\ \A k \in K :
                \/ Learn(t, key, i)[k] = t[k]
                \/ k = key /\ Learn(t, key, i)[k].interface = i
<1>1. Entry(i, 0) \in Entries /\ Entry(i, 0).interface = i
  BY EntryType, AgingTimeAssumption
<1> QED
  BY <1>1 DEF Learn

LEMMA InitializedFacts ==
    ASSUME NEW K, NEW t \in [K -> Entries], NEW configured,
           NEW time \in 0..AgingTime,
           \A k \in DOMAIN configured : configured[k] \in Nat
    PROVE  /\ Initialized(t, configured, time) \in [K -> Entries]
           /\ \A k \in K :
                \/ Initialized(t, configured, time)[k] = NoEntry
                \/ /\ k \in DOMAIN configured
                   /\ Initialized(t, configured, time)[k].interface = configured[k]
<1> DEFINE r == Initialized(t, configured, time)
<1> SUFFICES ASSUME NEW k \in K
             PROVE  /\ r[k] \in Entries
                    /\ r[k] = NoEntry \/ /\ k \in DOMAIN configured
                                         /\ r[k].interface = configured[k]
  BY DEF Initialized
<1>1. CASE k \notin DOMAIN configured
  BY <1>1, NoEntryType DEF Initialized
<1>2. CASE k \in DOMAIN configured
  <2>1. Cleared(t)[k] = NoEntry /\ Cleared(t) \in [K -> Entries]
    BY ClearedFacts
  <2>2. r[k] = Entry(configured[k], Older(time))
    BY <1>2, <2>1 DEF Initialized, SetInterface
  <2> QED
    BY <1>2, <2>2, EntryType, OlderType
<1> QED
  BY <1>1, <1>2

LEMMA TickFacts ==
    ASSUME NEW K, NEW t \in [K -> Entries]
    PROVE  /\ AgedByTick(t) \in [K -> Entries]
           /\ \A k \in K : AgedByTick(t)[k].interface = t[k].interface
<1> SUFFICES ASSUME NEW k \in K
             PROVE  /\ AgedByTick(t)[k] \in Entries
                    /\ AgedByTick(t)[k].interface = t[k].interface
  BY DEF AgedByTick
<1>1. CASE t[k] = NoEntry
  BY <1>1, NoEntryType DEF AgedByTick
<1>2. CASE t[k] # NoEntry
  <2>1. t[k] \in Entries
    OBVIOUS
  <2>2. Older(t[k].age) \in 0..AgingTime
    BY <2>1, OlderType DEF Entries
  <2> QED
    BY <1>2, <2>1, <2>2 DEF AgedByTick, Entries
<1> QED
  BY <1>1, <1>2

-----------------------------------------------------------------------------
(* Type correctness.                                                        *)

LEMMA NetFacts ==
    ASSUME name \in DOMAIN Networks
    PROVE  WellFormed(net)
  BY NetworksAssumption DEF net

LEMMA NetIsFixed ==
    ASSUME name' = name
    PROVE  /\ net' = net /\ Keys' = Keys /\ Vlans' = Vlans
           /\ EdgePorts' = EdgePorts /\ Outputs' = Outputs
  BY DEF net, Keys, Vlans, EdgePorts, Outputs

LEMMA InitTypeOK == Init => TypeOK
<1> SUFFICES ASSUME Init PROVE TypeOK
  OBVIOUS
<1> USE NetFacts DEF Init, WellFormed
<1>1. BridgesOK
  <2>1. 0 \in 0..AgingTime
    BY AgingTimeAssumption
  <2>2. [key \in Keys |-> NoEntry] \in [Keys -> Entries]
    BY NoEntryType
  <2>3. ASSUME NEW s \in net.switches
        PROVE  Initialized([key \in Keys |-> NoEntry], net.configured[s], 0)
                 \in [Keys -> Entries]
    <3>1. \A k \in DOMAIN net.configured[s] : net.configured[s][k] \in Nat
      OBVIOUS
    <3> QED
      BY <2>1, <2>2, <3>1, InitializedFacts
  <2> QED
    BY <2>1, <2>3 DEF BridgesOK
<1>2. LinesOK
  BY BoundsAssumption DEF LinesOK, EdgePorts
<1>3. RecordsOK
  BY AgingTimeAssumption, BufferSizeAssumption DEF RecordsOK
<1> QED
  BY <1>1, <1>2, <1>3 DEF TypeOK

LEMMA VlansOfFlow ==
    ASSUME name \in DOMAIN Networks, NEW flow
    PROVE  VlansOf(flow) \subseteq Vlans
<1>1. CASE flow \in DOMAIN net.identified
  <2>1. CopiesOf(flow) \subseteq DOMAIN net.vlan
    BY <1>1, NetFacts DEF WellFormed, CopiesOf
  <2> QED
    BY <1>1, <2>1 DEF VlansOf, Vlans
<1>2. CASE flow \notin DOMAIN net.identified
  BY <1>2 DEF VlansOf, Vlans
<1> QED
  BY <1>1, <1>2

LEMMA SequenceNumberType ==
    ASSUME LinesOK, NEW flow
    PROVE  NextSequenceNumber(flow) \in Nat
<1> DEFINE earlier == {n \in DOMAIN packets : Flow(packets[n]) = flow}
<1>1. DOMAIN packets = 1..Len(packets) /\ Len(packets) \in Nat
  BY DEF LinesOK
<1>2. IsFiniteSet(1..Len(packets))
  BY <1>1, FS_Interval
<1>3. IsFiniteSet(earlier)
  BY <1>1, <1>2, FS_Subset
<1> QED
  BY <1>3, FS_CardinalityType DEF NextSequenceNumber

LEMMA SendTypeOK ==
    ASSUME TypeOK, NEW flow \in net.traffic, Send(flow)
    PROVE  TypeOK'
<1> DEFINE n == Len(packets) + 1
           new == [source |-> flow[1], destination |-> flow[2],
                   number |-> NextSequenceNumber(flow)]
<1>1. name' = name /\ name \in DOMAIN Networks
  BY DEF Send, TypeOK
<1>2. BridgesOK'
  BY <1>1, NetIsFixed DEF Send, TypeOK, BridgesOK, bridges
<1>3. /\ n \in 1..MaxPackets /\ Len(packets') = n
      /\ DOMAIN packets' = 1..n /\ DOMAIN packets = 1..Len(packets)
      /\ packets' = Append(packets, new)
  BY BoundsAssumption DEF Send, TypeOK, LinesOK
<1>4. flow[1] \in net.hosts /\ flow[2] \in net.hosts \cup net.groups
  BY <1>1, NetFacts DEF WellFormed
<1>5. LinesOK'
  <2>1. new \in [source : net.hosts, number : Nat,
                 destination : net.hosts \cup net.groups]
    BY <1>4, SequenceNumberType DEF TypeOK
  <2>2. packets' \in Seq([source : net.hosts, number : Nat,
                          destination : net.hosts \cup net.groups])
    BY <1>3, <2>1 DEF TypeOK, LinesOK
  <2>3. ASSUME NEW f \in frames'
        PROVE  f \in [packet : DOMAIN packets', vlan : Vlans,
                      port : net.ports, inbound : BOOLEAN, old : BOOLEAN]
    <3>1. CASE f \in frames
      <4>1. f \in [packet : DOMAIN packets, vlan : Vlans, port : net.ports,
                   inbound : BOOLEAN, old : BOOLEAN]
        BY <3>1 DEF TypeOK, LinesOK
      <4>2. DOMAIN packets \subseteq DOMAIN packets'
        BY <1>3
      <4> QED
        BY <4>1, <4>2
    <3>2. CASE f \notin frames
      <4>1. PICK vlan \in VlansOf(flow) : f = Frame(n, vlan, place[flow[1]], TRUE)
        BY <3>2 DEF Send
      <4>2. vlan \in Vlans
        BY <1>1, VlansOfFlow
      <4>3. place[flow[1]] \in net.ports
        BY <1>4 DEF TypeOK, LinesOK, EdgePorts
      <4>4. n \in DOMAIN packets'
        BY <1>3
      <4> QED
        BY <4>1, <4>2, <4>3, <4>4 DEF Frame
    <3> QED
      BY <3>1, <3>2
  <2>4. place' = place /\ failed' = failed
    BY DEF Send
  <2> QED
    BY <1>1, <1>3, <2>2, <2>3, <2>4, NetIsFixed DEF TypeOK, LinesOK
<1>6. RecordsOK'
  <2>1. disturbed' \subseteq 1..MaxPackets
    BY <1>3 DEF Send, TypeOK, RecordsOK
  <2> QED
    BY <1>1, <2>1, NetIsFixed DEF Send, TypeOK, RecordsOK
<1> QED
  BY <1>1, <1>2, <1>5, <1>6 DEF TypeOK

LEMMA PacketType ==
    ASSUME LinesOK, NEW n \in DOMAIN packets
    PROVE  /\ packets[n].source \in net.hosts
           /\ packets[n].destination \in net.hosts \cup net.groups
           /\ packets[n].number \in Nat
<1> DEFINE P == [source : net.hosts, number : Nat,
                 destination : net.hosts \cup net.groups]
<1>1. packets \in Seq(P)
  BY DEF LinesOK
<1> HIDE DEF P
<1>2. packets[n] \in P
  BY <1>1
<1> QED
  BY <1>2 DEF P

(* The frame that leaves a port is well-typed.                               *)
LEMMA LeavingType ==
    ASSUME TypeOK, NEW n \in DOMAIN packets, NEW vlan \in Vlans, NEW port,
           NEW f \in Leaving(n, vlan, port)
    PROVE  /\ f \in [packet : DOMAIN packets, vlan : Vlans, port : net.ports,
                     inbound : BOOLEAN, old : BOOLEAN]
           /\ f.packet = n /\ f.vlan = vlan
           /\ f.inbound => port \in DOMAIN net.peer /\ f.port = net.peer[port]
<1>1. CASE port \in DOMAIN net.peer
  <2>1. f = Frame(n, vlan, net.peer[port], TRUE)
    BY <1>1 DEF Leaving
  <2>2. net.peer[port] \in net.ports
    BY <1>1, NetFacts DEF TypeOK, WellFormed
  <2> QED
    BY <1>1, <2>1, <2>2 DEF Frame
<1>2. CASE port \notin DOMAIN net.peer
  <2>1. f = Frame(n, vlan, port, FALSE)
    BY <1>2 DEF Leaving
  <2>2. PICK h \in Members(packets[n].destination) : place[h] = port
    BY <1>2 DEF Leaving
  <2>3. h \in net.hosts
    <3>1. packets[n].destination \in net.hosts \cup net.groups
      BY PacketType DEF TypeOK
    <3> QED
      BY <2>2, <3>1 DEF Members
  <2>4. port \in net.ports
    BY <2>2, <2>3 DEF TypeOK, LinesOK, EdgePorts
  <2> QED
    BY <2>1, <2>4 DEF Frame
<1> QED
  BY <1>1, <1>2

LEMMA RelayTypeOK ==
    ASSUME TypeOK, NEW f \in frames, Relay(f)
    PROVE  TypeOK'
<1> DEFINE s == f.port[1]
           key == <<f.vlan, packets[f.packet].source>>
           learned == Learn(table[s], key, f.port[2])
<1>1. name' = name /\ name \in DOMAIN Networks /\ up' = up /\ up[s]
  BY DEF Relay, TypeOK
<1>2. /\ f.packet \in DOMAIN packets /\ f.vlan \in Vlans /\ f.port \in net.ports
      /\ s \in net.switches /\ f.port[2] \in Nat
  BY <1>1, NetFacts DEF TypeOK, LinesOK, WellFormed
<1>3. key \in Keys
  BY <1>2, PacketType DEF TypeOK, Keys
<1>4. learned \in [Keys -> Entries]
  BY <1>2, <1>3, LearnFacts DEF TypeOK, BridgesOK
<1>5. table' = [table EXCEPT ![s] = learned]
  BY DEF Relay
<1>6. BridgesOK'
  <2>1. table' \in [net.switches -> [Keys -> Entries]]
    BY <1>4, <1>5 DEF TypeOK, BridgesOK
  <2>2. \A t \in net.switches : ~up'[t] => table'[t] = Cleared(table'[t])
    BY <1>1, <1>5 DEF TypeOK, BridgesOK
  <2> QED
    BY <1>1, <2>1, <2>2, NetIsFixed DEF Relay, TypeOK, BridgesOK
<1>7. LinesOK'
  <2>1. ASSUME NEW g \in frames'
        PROVE  g \in [packet : DOMAIN packets, vlan : Vlans, port : net.ports,
                      inbound : BOOLEAN, old : BOOLEAN]
    <3>1. CASE g \in frames
      BY <3>1 DEF TypeOK, LinesOK
    <3>2. CASE g \notin frames
      <4>1. PICK i : g \in Leaving(f.packet, f.vlan, <<s, i>>)
        BY <3>2 DEF Relay
      <4> QED
        BY <4>1, <1>2, LeavingType
    <3> QED
      BY <3>1, <3>2
  <2> QED
    BY <1>1, <2>1, NetIsFixed DEF Relay, TypeOK, LinesOK
<1>8. RecordsOK'
  BY <1>1, NetIsFixed DEF Relay, TypeOK, RecordsOK, record
<1> QED
  BY <1>1, <1>6, <1>7, <1>8 DEF TypeOK

LEMMA VanishTypeOK ==
    ASSUME TypeOK, NEW f \in frames, Vanish(f)
    PROVE  TypeOK'
  BY NetIsFixed
     DEF Vanish, TypeOK, BridgesOK, LinesOK, RecordsOK, bridges, record

(* The history after a packet was let through.                               *)
LEMMA MergeFacts ==
    ASSUME NEW S, NEW merging, NEW stream, NEW number \in Nat,
           NEW h \in [S -> Seq(Nat)],
           \A x \in S : Len(h[x]) <= BufferSize
    PROVE  /\ Merge(h, merging, stream, number) \in [S -> Seq(Nat)]
           /\ \A x \in S : Len(Merge(h, merging, stream, number)[x]) <= BufferSize
<1>1. CASE stream \notin DOMAIN merging
  BY <1>1 DEF Merge
<1>2. CASE stream \in DOMAIN merging
  <2> DEFINE out == merging[stream]
             seen == IF Len(h[out]) + 1 > BufferSize
                     THEN Append(Tail(h[out]), number)
                     ELSE Append(h[out], number)
  <2>1. Merge(h, merging, stream, number) = [h EXCEPT ![out] = seen]
    BY <1>2 DEF Merge
  <2>2. out \in S => seen \in Seq(Nat) /\ Len(seen) <= BufferSize
    <3> SUFFICES ASSUME out \in S
                 PROVE  seen \in Seq(Nat) /\ Len(seen) <= BufferSize
      OBVIOUS
    <3>1. h[out] \in Seq(Nat) /\ Len(h[out]) \in Nat /\ Len(h[out]) <= BufferSize
      OBVIOUS
    <3>2. CASE Len(h[out]) + 1 > BufferSize
      <4>1. h[out] # <<>>
        BY <3>1, <3>2, BufferSizeAssumption
      <4>2. Tail(h[out]) \in Seq(Nat) /\ Len(Tail(h[out])) = Len(h[out]) - 1
        BY <3>1, <4>1
      <4>3. Len(Append(Tail(h[out]), number)) = Len(h[out])
        BY <3>1, <4>2
      <4> QED
        BY <3>1, <3>2, <4>2, <4>3
    <3>3. CASE ~(Len(h[out]) + 1 > BufferSize)
      <4>1. Len(Append(h[out], number)) = Len(h[out]) + 1
        BY <3>1
      <4> QED
        BY <3>1, <3>3, <4>1, BufferSizeAssumption
    <3> QED
      BY <3>2, <3>3
  <2> HIDE DEF seen
  <2> QED
    BY <2>1, <2>2
<1> QED
  BY <1>1, <1>2

LEMMA ReceiveTypeOK ==
    ASSUME TypeOK, NEW f \in frames, NEW host \in net.hosts, Receive(f, host)
    PROVE  TypeOK'
<1> DEFINE stream == StreamOf(packets[f.packet], f.vlan)
           merged == Merge(history[host], net.merging, stream,
                           packets[f.packet].number)
<1>1. name' = name /\ name \in DOMAIN Networks
  BY DEF Receive, TypeOK
<1>2. BridgesOK' /\ LinesOK'
  BY <1>1, NetIsFixed DEF Receive, TypeOK, BridgesOK, LinesOK, bridges
<1>3. packets[f.packet].number \in Nat /\ f.packet \in 1..MaxPackets
  BY PacketType, BoundsAssumption DEF TypeOK, LinesOK
<1>4. /\ merged \in [Outputs -> Seq(Nat)]
      /\ \A x \in Outputs : Len(merged[x]) <= BufferSize
  BY <1>3, MergeFacts DEF TypeOK, RecordsOK
<1>5. /\ history' \in {history, [history EXCEPT ![host] = merged]}
      /\ delivered' \in {delivered,
                        [delivered EXCEPT ![<<f.packet, host>>] = @ + 1]}
  BY DEF Receive
<1> HIDE DEF merged
<1>6. /\ history' \in [net.hosts -> [Outputs -> Seq(Nat)]]
      /\ \A h \in net.hosts, x \in Outputs : Len(history'[h][x]) <= BufferSize
  BY <1>4, <1>5 DEF TypeOK, RecordsOK
<1>7. delivered' \in [(1..MaxPackets) \X net.hosts -> Nat]
  <2> DEFINE D == (1..MaxPackets) \X net.hosts
  <2>1. delivered \in [D -> Nat] /\ <<f.packet, host>> \in D
    BY <1>3 DEF TypeOK, RecordsOK
  <2> HIDE DEF D
  <2>2. delivered[<<f.packet, host>>] + 1 \in Nat
    BY <2>1
  <2>3. delivered' \in [D -> Nat]
    BY <1>5, <2>1, <2>2
  <2> QED
    BY <2>3 DEF D
<1>8. RecordsOK'
  BY <1>1, <1>6, <1>7, NetIsFixed DEF Receive, TypeOK, RecordsOK
<1> QED
  BY <1>1, <1>2, <1>8 DEF TypeOK

(* What all disturbances have in common.                                     *)
LEMMA DisturbFacts ==
    ASSUME TypeOK, NEW kind, Disturb(kind)
    PROVE  /\ name' = name /\ name \in DOMAIN Networks
           /\ now' = now /\ packets' = packets /\ history' = history
           /\ delivered' = delivered
           /\ disturbed' \subseteq 1..MaxPackets
           /\ faults' \in 0..net.maxFaults
<1>1. name \in DOMAIN Networks /\ net.maxFaults \in Nat
  BY NetFacts DEF TypeOK, WellFormed
<1>2. \A f \in frames : f.packet \in 1..MaxPackets
  BY BoundsAssumption DEF TypeOK, LinesOK
<1>3. disturbed' \subseteq 1..MaxPackets
  BY <1>2 DEF Disturb, TypeOK, RecordsOK
<1>4. faults' \in 0..net.maxFaults
  BY <1>1 DEF Disturb, TypeOK, RecordsOK
<1> QED
  BY <1>1, <1>3, <1>4 DEF Disturb

LEMMA OverflowTypeOK ==
    ASSUME TypeOK, NEW f \in frames, Overflow(f)
    PROVE  TypeOK'
<1>1. Disturb("overflow")
  BY DEF Overflow
<1> QED
  BY <1>1, DisturbFacts, NetIsFixed
     DEF Overflow, TypeOK, BridgesOK, LinesOK, RecordsOK, bridges

LEMMA FailLinkTypeOK ==
    ASSUME TypeOK, NEW p \in DOMAIN net.peer, FailLink(p)
    PROVE  TypeOK'
<1>1. Disturb("link")
  BY DEF FailLink
<1>2. net.peer[p] \in DOMAIN net.peer
  BY NetFacts DEF TypeOK, WellFormed
<1>3. failed' \subseteq DOMAIN net.peer /\ frames' \subseteq frames
  BY <1>2 DEF FailLink, TypeOK, LinesOK
<1>4. LinesOK'
  BY <1>1, <1>3, DisturbFacts, NetIsFixed DEF FailLink, TypeOK, LinesOK
<1> QED
  BY <1>1, <1>4, DisturbFacts, NetIsFixed
     DEF FailLink, TypeOK, BridgesOK, RecordsOK, bridges

(* The table of one bridge is set anew.                                      *)
LEMMA TableReset ==
    ASSUME TypeOK, name' = name, now' = now, NEW s \in net.switches, NEW b \in BOOLEAN,
           up' = [up EXCEPT ![s] = b],
           IF b THEN table' = [table EXCEPT ![s] =
                                Initialized(@, net.configured[s], now)]
                ELSE table' = [table EXCEPT ![s] = Cleared(@)]
    PROVE  BridgesOK'
<1>1. table[s] \in [Keys -> Entries] /\ now \in 0..AgingTime
  BY DEF TypeOK, BridgesOK
<1>2. \A k \in DOMAIN net.configured[s] : net.configured[s][k] \in Nat
  BY NetFacts DEF TypeOK, WellFormed
<1>3. Initialized(table[s], net.configured[s], now) \in [Keys -> Entries]
  BY <1>1, <1>2, InitializedFacts
<1>4. /\ Cleared(table[s]) \in [Keys -> Entries]
      /\ Cleared(Cleared(table[s])) = Cleared(table[s])
  BY <1>1, ClearedFacts
<1> QED
  BY <1>3, <1>4, NetIsFixed DEF TypeOK, BridgesOK

LEMMA CrashTypeOK ==
    ASSUME TypeOK, NEW s \in net.mortal, Crash(s)
    PROVE  TypeOK'
<1>1. Disturb("crash") /\ s \in net.switches
  BY NetFacts DEF Crash, TypeOK, WellFormed
<1>2. BridgesOK'
  BY <1>1, DisturbFacts, TableReset DEF Crash
<1> QED
  BY <1>1, <1>2, DisturbFacts, NetIsFixed
     DEF Crash, TypeOK, LinesOK, RecordsOK, lines

LEMMA StartTypeOK ==
    ASSUME TypeOK, NEW s \in net.switches, Start(s)
    PROVE  TypeOK'
<1>1. BridgesOK'
  BY TableReset DEF Start
<1> QED
  BY <1>1, NetIsFixed DEF Start, TypeOK, LinesOK, RecordsOK, lines, record

LEMMA ReconfigureTypeOK ==
    ASSUME TypeOK, NEW s \in net.switches, Reconfigure(s)
    PROVE  TypeOK'
<1>1. Disturb("parameter")
  BY DEF Reconfigure
<1>2. up' = [up EXCEPT ![s] = TRUE]
  BY DEF Reconfigure, TypeOK, BridgesOK
<1>3. BridgesOK'
  BY <1>1, <1>2, DisturbFacts, TableReset DEF Reconfigure
<1> QED
  BY <1>1, <1>3, DisturbFacts, NetIsFixed
     DEF Reconfigure, TypeOK, LinesOK, RecordsOK, lines

LEMMA MoveTypeOK ==
    ASSUME TypeOK, NEW h \in net.hosts, NEW p \in EdgePorts, Move(h, p)
    PROVE  TypeOK'
<1>1. Disturb("move")
  BY DEF Move
<1>2. settledFor' \in 0..AgingTime
  BY AgingTimeAssumption DEF Move
<1> QED
  BY <1>1, <1>2, DisturbFacts, NetIsFixed
     DEF Move, TypeOK, BridgesOK, LinesOK, RecordsOK, bridges

LEMMA TickTypeOK ==
    ASSUME TypeOK, Tick
    PROVE  TypeOK'
<1>1. name' = name /\ up' = up
  BY DEF Tick
<1>2. ASSUME NEW s \in net.switches
      PROVE  /\ AgedByTick(table[s]) \in [Keys -> Entries]
             /\ table[s] = Cleared(table[s])
                  => AgedByTick(table[s]) = Cleared(AgedByTick(table[s]))
  <2>1. table[s] \in [Keys -> Entries]
    BY DEF TypeOK, BridgesOK
  <2>2. AgedByTick(table[s]) \in [Keys -> Entries]
    BY <2>1, TickFacts
  <2>3. table[s] = Cleared(table[s]) => \A k \in Keys : table[s][k] = NoEntry
    BY <2>1, ClearedFacts
  <2>4. table[s] = Cleared(table[s])
          => \A k \in Keys : AgedByTick(table[s])[k] = NoEntry
    BY <2>1, <2>3 DEF AgedByTick
  <2> QED
    BY <2>2, <2>4 DEF Cleared
<1>3. now' \in 0..AgingTime /\ settledFor' \in 0..AgingTime
  BY OlderType DEF Tick, TypeOK, BridgesOK, RecordsOK
<1>4. BridgesOK'
  BY <1>1, <1>2, <1>3, NetIsFixed DEF Tick, TypeOK, BridgesOK
<1>5. LinesOK'
  <2>1. frames' \subseteq [packet : DOMAIN packets, vlan : Vlans, port : net.ports,
                           inbound : BOOLEAN, old : BOOLEAN]
    BY DEF Tick, TypeOK, LinesOK
  <2>2. UNCHANGED <<place, failed, packets>>
    BY DEF Tick
  <2> QED
    BY <1>1, <2>1, <2>2, NetIsFixed DEF TypeOK, LinesOK
<1>6. RecordsOK'
  BY <1>1, <1>3, NetIsFixed DEF Tick, TypeOK, RecordsOK
<1> QED
  BY <1>1, <1>4, <1>5, <1>6 DEF TypeOK

LEMMA NextTypeOK == TypeOK /\ [Next]_vars => TypeOK'
<1> SUFFICES ASSUME TypeOK, [Next]_vars PROVE TypeOK'
  OBVIOUS
<1>1. ASSUME NEW flow \in net.traffic, Send(flow) PROVE TypeOK'
  BY <1>1, SendTypeOK
<1>2. CASE Transport
  BY <1>2, RelayTypeOK, VanishTypeOK, ReceiveTypeOK DEF Transport
<1>3. CASE Disturbance
  <2>1. ASSUME NEW f \in frames, Overflow(f) PROVE TypeOK'
    BY <2>1, OverflowTypeOK
  <2>2. ASSUME NEW p \in DOMAIN net.peer, FailLink(p) PROVE TypeOK'
    BY <2>2, FailLinkTypeOK
  <2>3. ASSUME NEW s \in net.mortal, Crash(s) PROVE TypeOK'
    BY <2>3, CrashTypeOK
  <2>4. ASSUME NEW s \in net.switches, Reconfigure(s) PROVE TypeOK'
    BY <2>4, ReconfigureTypeOK
  <2>5. ASSUME NEW h \in net.hosts, NEW p \in EdgePorts, Move(h, p) PROVE TypeOK'
    BY <2>5, MoveTypeOK
  <2> QED
    BY <1>3, <2>1, <2>2, <2>3, <2>4, <2>5 DEF Disturbance
<1>4. ASSUME NEW s \in net.switches, Start(s) PROVE TypeOK'
  BY <1>4, StartTypeOK
<1>5. CASE Tick
  BY <1>5, TickTypeOK
<1>6. CASE UNCHANGED vars
  BY <1>6, NetIsFixed
     DEF vars, bridges, lines, record, TypeOK, BridgesOK, LinesOK, RecordsOK
<1> QED
  BY <1>1, <1>2, <1>3, <1>4, <1>5, <1>6 DEF Next

(* Whatever the network, every variable stays in its range.                  *)
THEOREM TypeCorrectness == Spec => []TypeOK
  BY InitTypeOK, NextTypeOK, PTL DEF Spec

-----------------------------------------------------------------------------
(* In networks without loops the entries lead to the hosts.  What makes the  *)
(* argument inductive are the frames on their way: a frame comes in where    *)
(* the way back to its source is, so that is what the bridge learns, and the *)
(* bridge never sends it back there.                                         *)

FollowsPaths(toward) ==
    /\ place = net.home
    /\ \A f \in frames :
        f.inbound => f.port[2] = toward[f.port[1]][packets[f.packet].source]
    /\ \A s \in net.switches, key \in Keys :
        table[s][key].interface \in {NoInterface, toward[s][key[2]]}

LEMMA InitFollows ==
    ASSUME Init, NEW toward, NEW distance, LoopFree(net, toward, distance)
    PROVE  FollowsPaths(toward)
<1>1. WellFormed(net) /\ 0 \in 0..AgingTime
  BY NetFacts, AgingTimeAssumption DEF Init
<1>2. [key \in Keys |-> NoEntry] \in [Keys -> Entries]
  BY NoEntryType
<1>3. ASSUME NEW s \in net.switches, NEW key \in Keys
      PROVE  table[s][key].interface \in {NoInterface, toward[s][key[2]]}
  <2>1. \A k \in DOMAIN net.configured[s] : net.configured[s][k] \in Nat
    BY <1>1 DEF WellFormed
  <2>2. table[s] = Initialized([k \in Keys |-> NoEntry], net.configured[s], 0)
    BY DEF Init
  <2>3. \/ table[s][key] = NoEntry
        \/ /\ key \in DOMAIN net.configured[s]
           /\ table[s][key].interface = net.configured[s][key]
    BY <1>1, <1>2, <2>1, <2>2, InitializedFacts
  <2> QED
    BY <2>3, NoEntryType DEF LoopFree
<1> QED
  BY <1>3 DEF Init, FollowsPaths

LEMMA SendFollows ==
    ASSUME TypeOK, NEW toward, NEW distance, LoopFree(net, toward, distance),
           FollowsPaths(toward), NEW flow \in net.traffic, Send(flow)
    PROVE  FollowsPaths(toward)'
<1> DEFINE n == Len(packets) + 1
<1>1. name' = name /\ place' = place /\ table' = table
  BY DEF Send, bridges
<1>2. flow[1] \in net.hosts
  BY NetFacts DEF TypeOK, WellFormed
<1>3. /\ packets'[n].source = flow[1]
      /\ \A m \in DOMAIN packets : packets'[m] = packets[m]
  BY DEF Send, TypeOK, LinesOK
<1>4. ASSUME NEW f \in frames', f.inbound
      PROVE  f.port[2] = toward[f.port[1]][packets'[f.packet].source]
  <2>1. CASE f \in frames
    <3>1. f.packet \in DOMAIN packets
      BY <2>1 DEF TypeOK, LinesOK
    <3> QED
      BY <1>3, <1>4, <2>1, <3>1 DEF FollowsPaths
  <2>2. CASE f \notin frames
    <3>1. PICK vlan : f = Frame(n, vlan, place[flow[1]], TRUE)
      BY <2>2 DEF Send
    <3>2. f.port = net.home[flow[1]] /\ f.packet = n
      BY <3>1 DEF Frame, FollowsPaths
    <3>3. net.home[flow[1]][1] \in net.switches
      BY <1>2, NetFacts DEF TypeOK, WellFormed
    <3>4. toward[net.home[flow[1]][1]][flow[1]] = net.home[flow[1]][2]
      BY <1>2, <3>3 DEF LoopFree
    <3> QED
      BY <1>3, <3>2, <3>4
  <2> QED
    BY <2>1, <2>2
<1> QED
  BY <1>1, <1>4, NetIsFixed DEF FollowsPaths

LEMMA OutExcludesIn ==
    ASSUME NEW s, NEW in, NEW vlan, NEW address, NEW learned
    PROVE  in \notin OutInterfaces(s, in, vlan, address, learned)
  BY DEF OutInterfaces, Flood

LEMMA RelayFollows ==
    ASSUME TypeOK, NEW toward, NEW distance, LoopFree(net, toward, distance),
           FollowsPaths(toward), NEW f \in frames, Relay(f)
    PROVE  FollowsPaths(toward)'
<1> DEFINE s == f.port[1]
           source == packets[f.packet].source
           key == <<f.vlan, source>>
           learned == Learn(table[s], key, f.port[2])
<1>1. name' = name /\ place' = place /\ packets' = packets
  BY DEF Relay
<1>2. /\ f.packet \in DOMAIN packets /\ f.vlan \in Vlans /\ f.port \in net.ports
      /\ s \in net.switches /\ f.port[2] \in Nat /\ source \in net.hosts
  BY NetFacts, PacketType DEF TypeOK, LinesOK, WellFormed
<1>3. key \in Keys
  BY <1>2 DEF Keys
<1>4. f.port[2] = toward[s][source]
  BY DEF Relay, FollowsPaths
<1>5. ASSUME NEW t \in net.switches, NEW k \in Keys
      PROVE  table'[t][k].interface \in {NoInterface, toward[t][k[2]]}
  <2>1. CASE t = s
    <3>0. table[s] \in [Keys -> Entries]
      BY <1>2 DEF TypeOK, BridgesOK
    <3>1. table'[s] = learned
      <4>1. table' = [table EXCEPT ![s] = learned]
        BY DEF Relay
      <4> QED
        BY <1>2, <4>1 DEF TypeOK, BridgesOK
    <3>2. \/ learned[k] = table[s][k]
          \/ k = key /\ learned[k].interface = f.port[2]
      <4> HIDE DEF key, s
      <4> QED
        BY <1>2, <1>3, <3>0, LearnFacts
    <3>3. table[s][k].interface \in {NoInterface, toward[s][k[2]]}
      BY <1>2 DEF FollowsPaths
    <3>4. k = key => k[2] = source
      OBVIOUS
    <3> HIDE DEF learned, key, source
    <3> QED
      BY <1>4, <2>1, <3>1, <3>2, <3>3, <3>4
  <2>2. CASE t # s
    BY <2>2 DEF Relay, TypeOK, BridgesOK, FollowsPaths
  <2> QED
    BY <2>1, <2>2
<1>6. ASSUME NEW g \in frames', g.inbound
      PROVE  g.port[2] = toward[g.port[1]][packets[g.packet].source]
  <2>1. CASE g \in frames
    BY <1>6, <2>1 DEF FollowsPaths
  <2>2. CASE g \notin frames
    <3>1. PICK i \in OutInterfaces(s, f.port[2], f.vlan,
                                   packets[f.packet].destination, learned) :
            g \in Leaving(f.packet, f.vlan, <<s, i>>)
      BY <2>2 DEF Relay
    <3>2. i # toward[s][source]
      BY <1>4, <3>1, OutExcludesIn
    <3>3. /\ <<s, i>> \in DOMAIN net.peer /\ g.port = net.peer[<<s, i>>]
          /\ g.packet = f.packet
      BY <1>2, <1>6, <3>1, LeavingType
    <3> QED
      BY <1>2, <3>2, <3>3 DEF LoopFree
  <2> QED
    BY <2>1, <2>2
<1> QED
  BY <1>1, <1>5, <1>6, NetIsFixed DEF FollowsPaths

(* Frames get lost, or nothing happens to them.                              *)
LEMMA LossFollows ==
    ASSUME NEW toward, FollowsPaths(toward), name' = name, place' = place,
           packets' = packets, table' = table, frames' \subseteq frames
    PROVE  FollowsPaths(toward)'
  BY NetIsFixed DEF FollowsPaths

LEMMA ResetFollows ==
    ASSUME TypeOK, NEW toward, NEW distance, LoopFree(net, toward, distance),
           FollowsPaths(toward), NEW s \in net.switches,
           name' = name, place' = place, packets' = packets, frames' = frames,
           \/ table' = [table EXCEPT ![s] = Initialized(@, net.configured[s], now)]
           \/ table' = [table EXCEPT ![s] = Cleared(@)]
    PROVE  FollowsPaths(toward)'
<1>1. table[s] \in [Keys -> Entries] /\ now \in 0..AgingTime
  BY DEF TypeOK, BridgesOK
<1>2. \A k \in DOMAIN net.configured[s] : net.configured[s][k] \in Nat
  BY NetFacts DEF TypeOK, WellFormed
<1>3. ASSUME NEW k \in Keys
      PROVE  table'[s][k].interface \in {NoInterface, toward[s][k[2]]}
  <2>1. CASE table'[s] = Cleared(table[s])
    BY <1>1, <2>1, ClearedFacts, NoEntryType
  <2>2. CASE table'[s] = Initialized(table[s], net.configured[s], now)
    <3>1. \/ table'[s][k] = NoEntry
          \/ /\ k \in DOMAIN net.configured[s]
             /\ table'[s][k].interface = net.configured[s][k]
      BY <1>1, <1>2, <2>2, InitializedFacts
    <3> QED
      BY <3>1, NoEntryType DEF LoopFree
  <2> QED
    BY <2>1, <2>2 DEF TypeOK, BridgesOK
<1>4. \A t \in net.switches : t # s => table'[t] = table[t]
  BY DEF TypeOK, BridgesOK
<1>5. \A t \in net.switches, k \in Keys :
        table'[t][k].interface \in {NoInterface, toward[t][k[2]]}
  BY <1>3, <1>4 DEF FollowsPaths
<1> QED
  BY <1>5, NetIsFixed DEF FollowsPaths

LEMMA TickFollows ==
    ASSUME TypeOK, NEW toward, FollowsPaths(toward), Tick
    PROVE  FollowsPaths(toward)'
<1>1. ASSUME NEW g \in frames', g.inbound
      PROVE  g.port[2] = toward[g.port[1]][packets[g.packet].source]
  <2>1. PICK f \in frames : g = [f EXCEPT !.old = TRUE]
    BY DEF Tick
  <2>2. g.inbound = f.inbound /\ g.port = f.port /\ g.packet = f.packet
    BY <2>1 DEF TypeOK, LinesOK
  <2> QED
    BY <1>1, <2>2 DEF FollowsPaths
<1>2. ASSUME NEW s \in net.switches, NEW k \in Keys
      PROVE  table'[s][k].interface = table[s][k].interface
  <2>1. table[s] \in [Keys -> Entries]
    BY DEF TypeOK, BridgesOK
  <2> QED
    BY <2>1, TickFacts DEF Tick
<1> QED
  BY <1>1, <1>2, NetIsFixed DEF Tick, FollowsPaths

LEMMA NextFollows ==
    ASSUME TypeOK, NEW toward, NEW distance, LoopFree(net, toward, distance),
           FollowsPaths(toward), [Next]_vars
    PROVE  FollowsPaths(toward)'
<1>1. ASSUME NEW flow \in net.traffic, Send(flow) PROVE FollowsPaths(toward)'
  BY <1>1, SendFollows
<1>2. CASE Transport
  <2>1. ASSUME NEW f \in frames, Relay(f) PROVE FollowsPaths(toward)'
    BY <2>1, RelayFollows
  <2>2. ASSUME NEW f \in frames, NEW h, Vanish(f) \/ Receive(f, h)
        PROVE  FollowsPaths(toward)'
    BY <2>2, LossFollows DEF Vanish, Receive, bridges
  <2> QED
    BY <1>2, <2>1, <2>2 DEF Transport
<1>3. CASE Disturbance
  <2>1. ASSUME NEW f \in frames, Overflow(f) PROVE FollowsPaths(toward)'
    BY <2>1, LossFollows DEF Overflow, Disturb, bridges
  <2>2. ASSUME NEW p \in DOMAIN net.peer, FailLink(p)
        PROVE  FollowsPaths(toward)'
    BY <2>2, LossFollows DEF FailLink, Disturb, bridges
  <2>3. ASSUME NEW s \in net.mortal, Crash(s) PROVE FollowsPaths(toward)'
    <3>1. s \in net.switches
      BY NetFacts DEF TypeOK, WellFormed
    <3> QED
      BY <2>3, <3>1, ResetFollows DEF Crash, Disturb, lines
  <2>4. ASSUME NEW s \in net.switches, Reconfigure(s) PROVE FollowsPaths(toward)'
    BY <2>4, ResetFollows DEF Reconfigure, Disturb, lines
  <2>5. ASSUME NEW h, NEW p, Move(h, p) PROVE FALSE
    BY <2>5 DEF Move, Disturb, LoopFree
  <2> QED
    BY <1>3, <2>1, <2>2, <2>3, <2>4, <2>5 DEF Disturbance
<1>4. ASSUME NEW s \in net.switches, Start(s) PROVE FollowsPaths(toward)'
  BY <1>4, ResetFollows DEF Start, lines
<1>5. CASE Tick
  BY <1>5, TickFollows
<1>6. CASE UNCHANGED vars
  BY <1>6, LossFollows DEF vars, bridges, lines
<1> QED
  BY <1>1, <1>2, <1>3, <1>4, <1>5, <1>6 DEF Next

LEMMA PathsLeadToHost ==
    ASSUME TypeOK, NEW toward, NEW distance, LoopFree(net, toward, distance),
           FollowsPaths(toward)
    PROVE  EntriesLeadToHost
<1> SUFFICES ASSUME NEW key \in Keys
             PROVE  /\ \A circle \in (SUBSET net.switches) \ {{}} :
                        \E s \in circle : ~LeadsInto(key, s, circle)
                    /\ \A s \in net.switches :
                        \/ Lookup(table[s], key) = NoInterface
                        \/ Direction(key, s) \in DOMAIN net.peer
                        \/ Direction(key, s) = place[key[2]]
  BY DEF EntriesLeadToHost, Direction
<1> DEFINE h == key[2]
<1>1. h \in net.hosts
  BY DEF Keys
<1>2. \A s \in net.switches :
        Lookup(table[s], key) \in {NoInterface, toward[s][h]}
  BY LookupFound DEF TypeOK, BridgesOK, FollowsPaths
<1>3. ASSUME NEW circle \in (SUBSET net.switches) \ {{}}
      PROVE  \E s \in circle : ~LeadsInto(key, s, circle)
  <2> DEFINE D == {distance[s][h] : s \in circle}
  <2>1. D \in SUBSET Nat /\ D # {}
    <3>1. \A s \in net.switches : distance[s][h] \in Nat
      BY <1>1 DEF LoopFree
    <3> QED
      BY <3>1
  <2>2. PICK least \in D : \A m \in D : ~(m < least)
    BY <2>1, LeastNumber
  <2>3. PICK s \in circle : distance[s][h] = least
    OBVIOUS
  <2>4. SUFFICES ASSUME LeadsInto(key, s, circle) PROVE FALSE
    BY DEF LeadsInto
  <2> DEFINE p == <<s, toward[s][h]>>
  <2>5. p \in DOMAIN net.peer /\ net.peer[p][1] \in circle
    BY <1>2, <2>4 DEF LeadsInto, Direction
  <2>6. distance[net.peer[p][1]][h] < distance[s][h]
    BY <1>1, <2>5 DEF LoopFree
  <2> QED
    BY <2>2, <2>3, <2>5, <2>6
<1>4. ASSUME NEW s \in net.switches, Lookup(table[s], key) # NoInterface
      PROVE  \/ Direction(key, s) \in DOMAIN net.peer
             \/ Direction(key, s) = place[h]
  <2>1. Direction(key, s) = <<s, toward[s][h]>>
    BY <1>2, <1>4 DEF Direction
  <2>2. <<s, toward[s][h]>> \in DOMAIN net.peer \cup {net.home[h]}
    BY <1>1 DEF LoopFree
  <2> QED
    BY <2>1, <2>2 DEF FollowsPaths
<1> QED
  BY <1>3, <1>4

(* In every network without loops, of any size, the entries of the bridges   *)
(* for a host lead to that host from everywhere, whatever bridges crash,     *)
(* start again or are configured anew, whatever frames are lost and entries  *)
(* age.                                                                      *)
THEOREM LoopFreeEntriesLeadToHost ==
    ASSUME NEW CONSTANT toward, NEW CONSTANT distance,
           \A x \in DOMAIN Networks :
                LoopFree(Networks[x], toward[x], distance[x])
    PROVE  Spec => []EntriesLeadToHost
<1> DEFINE Inv == TypeOK /\ FollowsPaths(toward[name])
<1>1. TypeOK => LoopFree(net, toward[name], distance[name])
  BY DEF TypeOK, net
<1>2. Init => Inv
  BY <1>1, InitTypeOK, InitFollows
<1>3. Inv /\ [Next]_vars => Inv'
  <2> SUFFICES ASSUME Inv, [Next]_vars PROVE Inv'
    OBVIOUS
  <2>1. TypeOK'
    BY NextTypeOK
  <2>2. name' = name
    BY DEF Next, Send, Transport, Relay, Vanish, Receive, Disturbance, Overflow,
           FailLink, Crash, Reconfigure, Move, Disturb, Start, Tick, vars
  <2>3. FollowsPaths(toward[name])'
    BY <1>1, <2>2, NextFollows
  <2> QED
    BY <2>1, <2>3
<1>4. Inv => EntriesLeadToHost
  BY <1>1, PathsLeadToHost
<1> QED
  BY <1>2, <1>3, <1>4, PTL DEF Spec

-----------------------------------------------------------------------------
(* No packet is delivered twice.  Copies of an identified packet are known   *)
(* by the history of the receiver, which has room for the packets that may   *)
(* overtake a copy; a packet that is not identified has no copies, since     *)
(* there is one way to go.                                                   *)

(* No number is twice in a history.                                          *)
Different(seen) == \A i, j \in 1..Len(seen) : seen[i] = seen[j] => i = j

(* A history that knows a number has seen since only ones that are near it.  *)
Near(a, b) == a < b + MaxLag /\ b < a + MaxLag
Remembers(seen, number) ==
    \E i \in 1..Len(seen) :
        seen[i] = number /\ \A j \in i..Len(seen) : Near(seen[j], number)

(* What Merge makes of one history (StreamMerger::processPacket).            *)
Pushed(seen, number) ==
    IF Len(seen) + 1 > BufferSize THEN Append(Tail(seen), number) ELSE Append(seen, number)

(* p is seen without its first k numbers, and with x at the end.             *)
Shifted(p, seen, k, x) ==
    /\ p \in Seq(Nat)
    /\ Len(p) = Len(seen) + 1 - k
    /\ \A i \in 1..Len(seen) - k : p[i] = seen[i + k]
    /\ p[Len(seen) + 1 - k] = x

LEMMA PushedFacts ==
    ASSUME NEW seen \in Seq(Nat), Len(seen) <= BufferSize, NEW x \in Nat
    PROVE  \/ Shifted(Pushed(seen, x), seen, 0, x)
           \/ Shifted(Pushed(seen, x), seen, 1, x) /\ Len(seen) = BufferSize
<1>1. Len(seen) \in Nat /\ BufferSize \in Nat \ {0}
  BY BufferSizeAssumption
<1>2. CASE Len(seen) + 1 > BufferSize
  <2>1. Len(seen) = BufferSize /\ seen # <<>>
    BY <1>1, <1>2
  <2>2. /\ Tail(seen) \in Seq(Nat) /\ Len(Tail(seen)) = Len(seen) - 1
        /\ \A i \in 1..Len(seen) - 1 : Tail(seen)[i] = seen[i + 1]
    BY <1>1, <2>1
  <2> DEFINE tail == Tail(seen)
  <2>3. Pushed(seen, x) = Append(tail, x)
    BY <1>2 DEF Pushed
  <2> HIDE DEF tail
  <2>4. /\ Append(tail, x) \in Seq(Nat) /\ Len(Append(tail, x)) = Len(tail) + 1
        /\ \A i \in 1..Len(tail) : Append(tail, x)[i] = tail[i]
        /\ Append(tail, x)[Len(tail) + 1] = x
    BY <2>2 DEF tail
  <2>5. Len(tail) = Len(seen) - 1
    BY <2>2 DEF tail
  <2>6. /\ Len(Append(tail, x)) = Len(seen) + 1 - 1
        /\ \A i \in 1..Len(seen) - 1 : Append(tail, x)[i] = seen[i + 1]
        /\ Append(tail, x)[Len(seen) + 1 - 1] = x
    <3>1. \A i \in 1..Len(seen) - 1 : tail[i] = seen[i + 1]
      BY <2>2 DEF tail
    <3> QED
      BY <1>1, <2>4, <2>5, <3>1
  <2> QED
    BY <2>1, <2>3, <2>4, <2>6 DEF Shifted
<1>3. CASE ~(Len(seen) + 1 > BufferSize)
  <2>1. Pushed(seen, x) = Append(seen, x)
    BY <1>3 DEF Pushed
  <2>2. /\ Append(seen, x) \in Seq(Nat) /\ Len(Append(seen, x)) = Len(seen) + 1
        /\ \A i \in 1..Len(seen) : Append(seen, x)[i] = seen[i]
        /\ Append(seen, x)[Len(seen) + 1] = x
    OBVIOUS
  <2> DEFINE p == Append(seen, x)
  <2> HIDE DEF p
  <2>3. Shifted(p, seen, 0, x)
    BY <1>1, <2>2 DEF Shifted, p
  <2> QED
    BY <2>1, <2>3 DEF p
<1> QED
  BY <1>2, <1>3

(* Numbers that are near a number and differ are not many.                   *)
LEMMA FewAreNear ==
    ASSUME MaxLag \in Nat \ {0}, NEW number \in Nat, NEW seen \in Seq(Nat),
           Different(seen), \A i \in 1..Len(seen) : Near(seen[i], number)
    PROVE  Len(seen) <= 2 * MaxLag - 1
<1> DEFINE W == number - MaxLag + 1..number + MaxLag - 1
           n == Len(seen)
<1>1. n \in Nat /\ seen \in [1..n -> Nat]
  OBVIOUS
<1>2. IsFiniteSet(W) /\ Cardinality(W) = 2 * MaxLag - 1
  BY FS_Interval
<1>3. IsFiniteSet(1..n) /\ Cardinality(1..n) = n
  <2> HIDE DEF n
  <2>1. Cardinality(1..n) = IF 1 > n THEN 0 ELSE n - 1 + 1
    BY <1>1, FS_Interval
  <2> QED
    BY <1>1, <2>1, FS_Interval
<1>4. seen \in [1..n -> W]
  <2>1. \A i \in 1..n : seen[i] \in W
    BY <1>1 DEF Near
  <2> HIDE DEF W
  <2> QED
    BY <1>1, <2>1
<1> HIDE DEF W
<1>5. ~(Cardinality(W) < Cardinality(1..n))
  <2> SUFFICES ASSUME Cardinality(W) < Cardinality(1..n) PROVE FALSE
    OBVIOUS
  <2>1. \E i, j \in 1..n : i # j /\ seen[i] = seen[j]
    BY <1>2, <1>3, <1>4, FS_PigeonHole
  <2> QED
    BY <2>1 DEF Different
<1> QED
  BY <1>1, <1>2, <1>3, <1>5

(* A number that is new to the history joins it, and none that is near is    *)
(* forgotten, if the history is large enough.                                *)
LEMMA PushedRemembers ==
    ASSUME MaxLag \in Nat \ {0}, BufferSize >= 2 * MaxLag - 1,
           NEW seen \in Seq(Nat), Len(seen) <= BufferSize, Different(seen),
           NEW x \in Nat, \A i \in 1..Len(seen) : seen[i] # x
    PROVE  /\ Different(Pushed(seen, x))
           /\ Remembers(Pushed(seen, x), x)
           /\ \A number \in Nat : Remembers(seen, number) /\ Near(x, number)
                                    => Remembers(Pushed(seen, x), number)
<1> DEFINE p == Pushed(seen, x)
           n == Len(seen)
<1>1. PICK k \in {0, 1} : Shifted(p, seen, k, x) /\ (k = 1 => n = BufferSize)
  BY PushedFacts
<1>2. n \in Nat /\ BufferSize \in Nat \ {0} /\ seen \in [1..n -> Nat]
  BY BufferSizeAssumption
<1> HIDE DEF p
<1>7. \A i \in 1..n : seen[i] # x
  OBVIOUS
<1>8. n <= BufferSize
  OBVIOUS
<1> HIDE DEF n
<1>6. /\ p \in Seq(Nat) /\ Len(p) = n + 1 - k /\ p[n + 1 - k] = x
      /\ \A i \in 1..n - k : p[i] = seen[i + k]
      /\ k \in Nat /\ k <= 1 /\ n + 1 - k >= 1
  <2>1. k \in Nat /\ k <= 1 /\ n + 1 - k >= 1
    <3>1. CASE k = 0
      BY <1>2, <3>1
    <3>2. CASE k = 1
      BY <1>1, <1>2, <3>2
    <3> QED
      BY <3>1, <3>2
  <2> QED
    BY <1>1, <2>1 DEF Shifted, n
<1>3. Different(p)
  <2> SUFFICES ASSUME NEW i \in 1..Len(p), NEW j \in 1..Len(p), p[i] = p[j] PROVE i = j
    BY DEF Different
  <2>1. i \in 1..n - k \/ i = n + 1 - k
    BY <1>2, <1>6
  <2>2. j \in 1..n - k \/ j = n + 1 - k
    BY <1>2, <1>6
  <2>3. \A h \in 1..n - k : h + k \in 1..n /\ p[h] = seen[h + k] /\ p[h] # x
    <3> SUFFICES ASSUME NEW h \in 1..n - k
                 PROVE  h + k \in 1..n /\ p[h] = seen[h + k] /\ p[h] # x
      OBVIOUS
    <3>1. h + k \in 1..n /\ p[h] = seen[h + k]
      BY <1>2, <1>6
    <3> QED
      BY <1>7, <3>1
  <2>4. \A h, m \in 1..n : seen[h] = seen[m] => h = m
    BY DEF Different, n
  <2>5. ASSUME i \in 1..n - k, j \in 1..n - k PROVE i = j
    <3>1. i + k = j + k
      BY <2>3, <2>4, <2>5
    <3> QED
      BY <1>2, <1>6, <3>1
  <2> QED
    BY <1>6, <2>1, <2>2, <2>3, <2>5
<1>4. Remembers(p, x)
  <2> DEFINE l == n + 1 - k
  <2>1. l \in 1..Len(p) /\ p[l] = x /\ \A j \in l..Len(p) : j = l
    BY <1>2, <1>6
  <2> HIDE DEF l
  <2>2. Near(x, x)
    BY DEF Near
  <2>3. \A j \in l..Len(p) : Near(p[j], x)
    BY <2>1, <2>2
  <2> QED
    BY <2>1, <2>3 DEF Remembers
<1>5. ASSUME NEW number \in Nat, Remembers(seen, number), Near(x, number)
      PROVE  Remembers(p, number)
  <2>1. PICK i \in 1..n : seen[i] = number /\ \A j \in i..n : Near(seen[j], number)
    BY <1>5 DEF Remembers, n
  <2>2. i - k >= 1
    <3> SUFFICES ASSUME i - k < 1 PROVE FALSE
      BY <1>2
    <3>1. i = 1 /\ k = 1 /\ n = BufferSize
      BY <1>1, <1>2, <1>6
    <3> DEFINE all == Append(seen, x)
    <3>2. /\ all \in Seq(Nat) /\ Len(all) = n + 1
          /\ \A j \in 1..n : all[j] = seen[j]
          /\ all[n + 1] = x
      BY DEF n
    <3> HIDE DEF all
    <3>3. Different(all)
      <4>1. \A j \in 1..Len(all) : j \in 1..n \/ j = n + 1
        BY <1>2, <3>2
      <4>2. \A j, h \in 1..n : seen[j] = seen[h] => j = h
        BY DEF Different, n
      <4> QED
        BY <1>7, <3>2, <4>1, <4>2 DEF Different
    <3>4. \A j \in 1..Len(all) : Near(all[j], number)
      BY <1>2, <1>5, <2>1, <3>1, <3>2
    <3>5. n + 1 <= 2 * MaxLag - 1
      BY <3>2, <3>3, <3>4, FewAreNear
    <3> QED
      BY <1>2, <3>1, <3>5
  <2>3. i - k \in 1..Len(p) /\ p[i - k] = number
    <3>1. i - k \in 1..n - k /\ i - k + k = i
      BY <1>2, <1>6, <2>2
    <3>2. p[i - k] = seen[i]
      BY <1>6, <3>1
    <3> QED
      BY <1>2, <1>6, <2>1, <3>1, <3>2
  <2>4. ASSUME NEW j \in i - k..Len(p) PROVE Near(p[j], number)
    <3>1. CASE j = n + 1 - k
      BY <1>5, <1>6, <3>1
    <3>2. CASE j # n + 1 - k
      <4>1. j \in 1..n - k /\ j + k \in i..n
        BY <1>2, <1>6, <2>2, <3>2
      <4>2. p[j] = seen[j + k]
        BY <1>6, <4>1
      <4> QED
        BY <2>1, <4>1, <4>2
    <3> QED
      BY <3>1, <3>2
  <2> QED
    BY <2>3, <2>4 DEF Remembers
<1> QED
  BY <1>3, <1>4, <1>5 DEF p

-----------------------------------------------------------------------------

Identified(n) == Flow(packets[n]) \in DOMAIN net.identified

(* A frame that comes closer to a host, or leaves the bridges to it.         *)
Nears(f, h, toward) ==
    IF f.inbound THEN toward[f.port[1]][place[h]] # f.port[2] ELSE f.port = place[h]

PacketsCounted ==
    \A n \in DOMAIN packets :
        /\ Flow(packets[n]) \in net.traffic
        /\ packets[n].number < NextSequenceNumber(Flow(packets[n]))

(* The copies on their way are of packets that are near each other.          *)
CopiesNear ==
    \A f, g \in frames :
        Flow(packets[f.packet]) = Flow(packets[g.packet])
            => Near(packets[f.packet].number, packets[g.packet].number)

FramesCoded == \A f \in frames : f.vlan \in VlansOf(Flow(packets[f.packet]))

DeliveredOnce ==
    \A d \in DOMAIN delivered :
        delivered[d] <= 1 /\ (delivered[d] # 0 => d[1] \in DOMAIN packets)

HistoriesDiffer == \A h \in net.hosts, o \in Outputs : Different(history[h][o])

(* The number of a delivered packet is known as long as a copy may come.     *)
CopiesRemembered(output) ==
    \A f \in frames, h \in net.hosts :
        Identified(f.packet) /\ delivered[<<f.packet, h>>] # 0
            => Remembers(history[h][output[Flow(packets[f.packet])]],
                         packets[f.packet].number)

(* One frame at most of a packet that is not identified nears a host, and    *)
(* none when it was delivered.                                               *)
OneNears(toward) ==
    \/ net.traffic \subseteq DOMAIN net.identified
    \/ \A h \in net.hosts, f, g \in frames :
        /\ ~Identified(f.packet) /\ f.packet = g.packet
        /\ Nears(f, h, toward) /\ Nears(g, h, toward)
        => f = g /\ delivered[<<f.packet, h>>] = 0

OnceInv(toward, output) ==
    /\ PacketsCounted /\ CopiesNear /\ FramesCoded /\ DeliveredOnce
    /\ HistoriesDiffer /\ CopiesRemembered(output) /\ OneNears(toward)

LEMMA FrameType ==
    ASSUME TypeOK, NEW f \in frames
    PROVE  /\ f.packet \in DOMAIN packets /\ f.vlan \in Vlans /\ f.port \in net.ports
           /\ f.inbound \in BOOLEAN
           /\ f.port[1] \in net.switches /\ f.port[2] \in Nat
           /\ f.packet \in 1..MaxPackets /\ packets[f.packet].number \in Nat
<1>1. f.packet \in DOMAIN packets
  BY DEF TypeOK, LinesOK
<1>2. packets[f.packet].number \in Nat /\ WellFormed(net)
  BY <1>1, PacketType, NetFacts DEF TypeOK
<1> QED
  BY <1>1, <1>2, BoundsAssumption DEF TypeOK, LinesOK, WellFormed

LEMMA OnceInit == ASSUME Init, NEW toward, NEW output PROVE OnceInv(toward, output)
<1>1. PacketsCounted /\ CopiesNear /\ FramesCoded
  BY DEF Init, PacketsCounted, CopiesNear, FramesCoded
<1>2. DeliveredOnce
  BY DEF Init, DeliveredOnce
<1>3. HistoriesDiffer
  BY DEF Init, HistoriesDiffer, Different
<1>4. CopiesRemembered(output) /\ OneNears(toward)
  BY DEF Init, CopiesRemembered, OneNears
<1> QED
  BY <1>1, <1>2, <1>3, <1>4 DEF OnceInv

(* What no packet enters and no host receives.                               *)
Unsent == name' = name /\ packets' = packets /\ history' = history /\ delivered' = delivered

LEMMA UnsentFacts ==
    ASSUME Unsent
    PROVE  /\ net' = net /\ Outputs' = Outputs
           /\ \A n : Identified(n)' <=> Identified(n)
           /\ \A flow : VlansOf(flow)' = VlansOf(flow)
           /\ \A flow : NextSequenceNumber(flow)' = NextSequenceNumber(flow)
           /\ PacketsCounted => PacketsCounted'
           /\ DeliveredOnce => DeliveredOnce'
           /\ HistoriesDiffer => HistoriesDiffer'
<1>1. net' = net /\ Outputs' = Outputs
  BY NetIsFixed DEF Unsent
<1>2. /\ \A n : Identified(n)' <=> Identified(n)
      /\ \A flow : VlansOf(flow)' = VlansOf(flow)
      /\ \A flow : NextSequenceNumber(flow)' = NextSequenceNumber(flow)
  BY <1>1 DEF Unsent, Identified, VlansOf, CopiesOf, NextSequenceNumber
<1> QED
  BY <1>1, <1>2 DEF Unsent, PacketsCounted, DeliveredOnce, HistoriesDiffer

(* Frames that are a part of, or stand for, those before.                    *)
LEMMA LossOnce ==
    ASSUME TypeOK, NEW toward, NEW output, OnceInv(toward, output), Unsent,
           frames' \subseteq frames, place' = place \/ frames' = {}
    PROVE  OnceInv(toward, output)'
<1>1. PacketsCounted' /\ DeliveredOnce' /\ HistoriesDiffer'
  BY UnsentFacts DEF OnceInv
<1>2. CopiesNear' /\ FramesCoded'
  BY UnsentFacts DEF OnceInv, CopiesNear, FramesCoded, Unsent
<1>3. CopiesRemembered(output)'
  BY UnsentFacts DEF OnceInv, CopiesRemembered, Unsent
<1>4. OneNears(toward)'
  BY UnsentFacts DEF OnceInv, OneNears, Unsent, Nears
<1> QED
  BY <1>1, <1>2, <1>3, <1>4 DEF OnceInv

LEMMA TickOnce ==
    ASSUME TypeOK, NEW toward, NEW output, OnceInv(toward, output), Tick
    PROVE  OnceInv(toward, output)'
<1>1. Unsent /\ place' = place
  BY DEF Tick, Unsent
<1>2. PacketsCounted' /\ DeliveredOnce' /\ HistoriesDiffer'
  BY <1>1, UnsentFacts DEF OnceInv
<1>3. ASSUME NEW g \in frames'
      PROVE  \E f \in frames : /\ g = [f EXCEPT !.old = TRUE]
                               /\ g.packet = f.packet /\ g.vlan = f.vlan
                               /\ g.port = f.port /\ g.inbound = f.inbound
  <2>1. PICK f \in frames : g = [f EXCEPT !.old = TRUE]
    BY DEF Tick
  <2>2. g.inbound = f.inbound /\ g.port = f.port /\ g.packet = f.packet /\ g.vlan = f.vlan
    BY <2>1 DEF TypeOK, LinesOK
  <2> QED
    BY <2>1, <2>2
<1>4. CopiesNear' /\ FramesCoded'
  BY <1>1, <1>3, UnsentFacts DEF OnceInv, CopiesNear, FramesCoded, Unsent
<1>5. CopiesRemembered(output)'
  BY <1>1, <1>3, UnsentFacts DEF OnceInv, CopiesRemembered, Unsent
<1>6. OneNears(toward)'
  <2> SUFFICES ASSUME ~(net.traffic \subseteq DOMAIN net.identified),
                      NEW h \in net.hosts, NEW f \in frames', NEW g \in frames',
                      ~Identified(f.packet), f.packet = g.packet,
                      Nears(f, h, toward)', Nears(g, h, toward)'
               PROVE  f = g /\ delivered[<<f.packet, h>>] = 0
    BY <1>1, UnsentFacts DEF OneNears, Unsent
  <2>1. PICK d \in frames : /\ f = [d EXCEPT !.old = TRUE]
                            /\ f.packet = d.packet /\ f.port = d.port /\ f.inbound = d.inbound
    BY <1>3
  <2>2. PICK e \in frames : /\ g = [e EXCEPT !.old = TRUE]
                            /\ g.packet = e.packet /\ g.port = e.port /\ g.inbound = e.inbound
    BY <1>3
  <2>3. Nears(d, h, toward) /\ Nears(e, h, toward)
    BY <1>1, <2>1, <2>2 DEF Nears
  <2>4. ~Identified(d.packet) /\ d.packet = e.packet
    BY <2>1, <2>2
  <2>5. d = e /\ delivered[<<d.packet, h>>] = 0
    BY <2>3, <2>4 DEF OnceInv, OneNears
  <2> QED
    BY <2>1, <2>2, <2>5
<1> QED
  BY <1>2, <1>4, <1>5, <1>6 DEF OnceInv

(* A packet that is sent takes the next number of its flow.                  *)
LEMMA SendCounts ==
    ASSUME TypeOK, NEW flow \in net.traffic, Send(flow),
           NEW n, n = Len(packets) + 1
    PROVE  /\ name' = name /\ net' = net /\ n \notin DOMAIN packets
           /\ DOMAIN packets' = DOMAIN packets \cup {n} /\ n \in 1..MaxPackets
           /\ \A m \in DOMAIN packets : packets'[m] = packets[m]
           /\ Flow(packets'[n]) = flow /\ packets'[n].number = NextSequenceNumber(flow)
           /\ NextSequenceNumber(flow) \in Nat
           /\ NextSequenceNumber(flow)' = NextSequenceNumber(flow) + 1
           /\ \A other : other # flow
                => NextSequenceNumber(other)' = NextSequenceNumber(other)
<1> DEFINE new == [source |-> flow[1], destination |-> flow[2],
                   number |-> NextSequenceNumber(flow)]
           P == [source : net.hosts, number : Nat, destination : net.hosts \cup net.groups]
<1>1. name' = name /\ net' = net /\ packets' = Append(packets, new) /\ n <= MaxPackets
  BY NetIsFixed DEF Send
<1>2. flow = <<flow[1], flow[2]>>
  BY NetFacts DEF TypeOK, WellFormed
<1>3. Flow(new) = flow /\ new.number = NextSequenceNumber(flow)
  BY <1>2 DEF Flow
<1>4. packets \in Seq(P) /\ LinesOK
  BY DEF TypeOK, LinesOK
<1> HIDE DEF P, new
<1>5. Len(packets) \in Nat /\ DOMAIN packets = 1..Len(packets)
  BY <1>4
<1>6. /\ n \notin DOMAIN packets /\ n \in 1..MaxPackets
      /\ DOMAIN packets' = DOMAIN packets \cup {n}
      /\ \A m \in DOMAIN packets : packets'[m] = packets[m]
      /\ packets'[n] = new
  BY <1>1, <1>4, <1>5, BoundsAssumption
<1>7. ASSUME NEW fl
      PROVE  /\ IsFiniteSet({m \in DOMAIN packets : Flow(packets[m]) = fl})
             /\ {m \in DOMAIN packets' : Flow(packets'[m]) = fl} =
                  {m \in DOMAIN packets : Flow(packets[m]) = fl}
                    \cup (IF fl = flow THEN {n} ELSE {})
  <2>1. IsFiniteSet(DOMAIN packets)
    BY <1>5, FS_Interval
  <2>2. IsFiniteSet({m \in DOMAIN packets : Flow(packets[m]) = fl})
    BY <2>1, FS_Subset
  <2>3. Flow(packets'[n]) = flow
    BY <1>3, <1>6
  <2>4. \A m \in DOMAIN packets : Flow(packets'[m]) = Flow(packets[m])
    BY <1>6
  <2> QED
    BY <1>6, <2>2, <2>3, <2>4
<1>8. NextSequenceNumber(flow)' = NextSequenceNumber(flow) + 1
  <2> DEFINE earlier == {m \in DOMAIN packets : Flow(packets[m]) = flow}
  <2>1. IsFiniteSet(earlier) /\ {m \in DOMAIN packets' : Flow(packets'[m]) = flow} = earlier \cup {n}
    BY <1>7
  <2>2. n \notin earlier
    BY <1>6
  <2>3. Cardinality(earlier \cup {n}) = Cardinality(earlier) + 1
    BY <2>1, <2>2, FS_AddElement
  <2> QED
    BY <2>1, <2>3 DEF NextSequenceNumber
<1>9. ASSUME NEW other, other # flow
      PROVE  NextSequenceNumber(other)' = NextSequenceNumber(other)
  BY <1>7, <1>9 DEF NextSequenceNumber
<1>10. NextSequenceNumber(flow) \in Nat
  BY <1>4, SequenceNumberType
<1> QED
  BY <1>1, <1>3, <1>6, <1>8, <1>9, <1>10

LEMMA SendOnce ==
    ASSUME MaxLag \in Nat \ {0}, TypeOK, NEW toward, NEW output, OnceInv(toward, output),
           NEW flow \in net.traffic, Send(flow)
    PROVE  OnceInv(toward, output)'
<1>0. PICK n : n = Len(packets) + 1
  OBVIOUS
<1>1. /\ name' = name /\ net' = net /\ n \notin DOMAIN packets
      /\ DOMAIN packets' = DOMAIN packets \cup {n} /\ n \in 1..MaxPackets
      /\ \A m \in DOMAIN packets : packets'[m] = packets[m]
      /\ Flow(packets'[n]) = flow /\ packets'[n].number = NextSequenceNumber(flow)
      /\ NextSequenceNumber(flow) \in Nat
      /\ NextSequenceNumber(flow)' = NextSequenceNumber(flow) + 1
      /\ \A other : other # flow => NextSequenceNumber(other)' = NextSequenceNumber(other)
  BY <1>0, SendCounts
<1>2. /\ frames' = frames \cup {Frame(n, vlan, place[flow[1]], TRUE) : vlan \in VlansOf(flow)}
      /\ \A m \in DOMAIN packets :
            Flow(packets[m]) = flow /\ InFlight(m)
                => packets[m].number > NextSequenceNumber(flow) - MaxLag
      /\ place' = place /\ history' = history /\ delivered' = delivered
  BY <1>0 DEF Send
<1>3. \A m \in DOMAIN packets : packets[m].number \in Nat
  BY PacketType DEF TypeOK
<1>4. /\ \A fl : VlansOf(fl)' = VlansOf(fl)
      /\ Outputs' = Outputs
      /\ \A m \in DOMAIN packets : Identified(m)' <=> Identified(m)
      /\ Identified(n)' <=> flow \in DOMAIN net.identified
  BY <1>1, NetIsFixed DEF VlansOf, CopiesOf, Identified
<1>5. \A f \in frames' :
        \/ f \in frames /\ f.packet \in DOMAIN packets /\ f.packet # n
        \/ \E vlan \in VlansOf(flow) :
             /\ f = Frame(n, vlan, place[flow[1]], TRUE)
             /\ f.packet = n /\ f.vlan = vlan
  BY <1>1, <1>2, FrameType DEF Frame
<1>6. PacketsCounted'
  <2>1. ASSUME NEW m \in DOMAIN packets', NEW fl, fl = Flow(packets'[m])
        PROVE  fl \in net.traffic /\ packets'[m].number < NextSequenceNumber(fl)'
    <3>1. CASE m = n
      BY <1>1, <2>1, <3>1
    <3>2. CASE m \in DOMAIN packets
      <4>1. packets'[m] = packets[m] /\ packets[m].number \in Nat
        BY <1>1, <1>3, <3>2
      <4>2. fl \in net.traffic /\ packets[m].number < NextSequenceNumber(fl)
        BY <2>1, <3>2, <4>1 DEF OnceInv, PacketsCounted
      <4>3. NextSequenceNumber(fl) \in Nat
        BY SequenceNumberType DEF TypeOK
      <4>4. CASE fl = flow
        BY <1>1, <4>1, <4>2, <4>3, <4>4
      <4>5. CASE fl # flow
        BY <1>1, <4>1, <4>2, <4>5
      <4> QED
        BY <4>4, <4>5
    <3> QED
      BY <1>1, <3>1, <3>2
  <2> QED
    BY <1>1, <2>1 DEF PacketsCounted
<1>7. CopiesNear'
  <2> DEFINE num(f) == packets'[f.packet].number
  <2>1. ASSUME NEW f \in frames, Flow(packets[f.packet]) = flow
        PROVE  Near(packets[f.packet].number, NextSequenceNumber(flow))
    <3>1. f.packet \in DOMAIN packets /\ InFlight(f.packet)
      BY FrameType DEF InFlight
    <3>2. packets[f.packet].number > NextSequenceNumber(flow) - MaxLag
      BY <1>2, <2>1, <3>1
    <3>3. packets[f.packet].number < NextSequenceNumber(flow)
      BY <2>1, <3>1 DEF OnceInv, PacketsCounted
    <3>4. packets[f.packet].number \in Nat
      BY <1>3, <3>1
    <3> QED
      BY <1>1, <3>2, <3>3, <3>4 DEF Near
  <2>2. \A a, b : Near(a, b) => Near(b, a)
    BY DEF Near
  <2>3. Near(NextSequenceNumber(flow), NextSequenceNumber(flow))
    BY <1>1 DEF Near
  <2> SUFFICES ASSUME NEW f \in frames', NEW g \in frames',
                      Flow(packets'[f.packet]) = Flow(packets'[g.packet])
               PROVE  Near(packets'[f.packet].number, packets'[g.packet].number)
    <3>1. MaxLag' = MaxLag
      OBVIOUS
    <3> QED
      BY DEF CopiesNear, Near
  <2>4. CASE f.packet = n /\ g.packet = n
    BY <1>1, <2>3, <2>4
  <2>5. CASE f \in frames /\ f.packet \in DOMAIN packets /\ g.packet = n
    BY <1>1, <2>1, <2>5
  <2>6. CASE g \in frames /\ g.packet \in DOMAIN packets /\ f.packet = n
    BY <1>1, <2>1, <2>2, <2>6
  <2>7. CASE /\ f \in frames /\ f.packet \in DOMAIN packets
             /\ g \in frames /\ g.packet \in DOMAIN packets
    BY <1>1, <2>7 DEF OnceInv, CopiesNear
  <2> QED
    BY <1>5, <2>4, <2>5, <2>6, <2>7
<1>8. FramesCoded'
  <2> SUFFICES ASSUME NEW f \in frames' PROVE f.vlan \in VlansOf(Flow(packets'[f.packet]))
    BY <1>4 DEF FramesCoded
  <2>1. CASE f \in frames /\ f.packet \in DOMAIN packets
    BY <1>1, <2>1 DEF OnceInv, FramesCoded
  <2>2. CASE f.packet = n /\ f.vlan \in VlansOf(flow)
    BY <1>1, <2>2
  <2> QED
    BY <1>5, <2>1, <2>2
<1>9. DeliveredOnce'
  BY <1>1, <1>2 DEF OnceInv, DeliveredOnce
<1>10. HistoriesDiffer'
  BY <1>1, <1>2, <1>4 DEF OnceInv, HistoriesDiffer
<1>11. ASSUME NEW h \in net.hosts PROVE delivered[<<n, h>>] = 0
  <2>1. <<n, h>> \in DOMAIN delivered
    BY <1>1 DEF TypeOK, RecordsOK
  <2> QED
    BY <1>1, <2>1 DEF OnceInv, DeliveredOnce
<1>12. CopiesRemembered(output)'
  <2> SUFFICES ASSUME NEW f \in frames', NEW h \in net.hosts,
                      Identified(f.packet)', delivered[<<f.packet, h>>] # 0
               PROVE  Remembers(history[h][output[Flow(packets'[f.packet])]],
                                packets'[f.packet].number)
    BY <1>1, <1>2 DEF CopiesRemembered
  <2>1. f \in frames /\ f.packet \in DOMAIN packets
    BY <1>5, <1>11
  <2> QED
    BY <1>1, <1>4, <2>1 DEF OnceInv, CopiesRemembered
<1>13. OneNears(toward)'
  <2>1. \A f, h : Nears(f, h, toward)' <=> Nears(f, h, toward)
    BY <1>2 DEF Nears
  <2>2. ASSUME ~(net.traffic \subseteq DOMAIN net.identified),
               NEW h \in net.hosts, NEW f \in frames', NEW g \in frames',
               ~Identified(f.packet)', f.packet = g.packet,
               Nears(f, h, toward), Nears(g, h, toward)
        PROVE  f = g /\ delivered[<<f.packet, h>>] = 0
    <3>1. CASE f.packet = n
      <4>1. VlansOf(flow) = {0}
        BY <1>4, <2>2, <3>1 DEF VlansOf
      <4>2. f = Frame(n, 0, place[flow[1]], TRUE) /\ g = Frame(n, 0, place[flow[1]], TRUE)
        BY <1>5, <2>2, <3>1, <4>1
      <4> QED
        BY <1>11, <3>1, <4>2
    <3>2. CASE f.packet # n
      <4>1. f \in frames /\ g \in frames /\ f.packet \in DOMAIN packets
        BY <1>5, <2>2, <3>2
      <4> QED
        BY <1>4, <2>2, <4>1 DEF OnceInv, OneNears
    <3> QED
      BY <3>1, <3>2
  <2>3. net' = net /\ delivered' = delivered
    BY <1>1, <1>2
  <2> QED
    BY <2>1, <2>2, <2>3 DEF OneNears
<1> QED
  BY <1>6, <1>7, <1>8, <1>9, <1>10, <1>12, <1>13 DEF OnceInv

(* A frame that leaves a bridge and nears a host goes the one way there.     *)
LEMMA LeavingNears ==
    ASSUME TypeOK, NEW toward, OneWay(net, toward),
           NEW n \in DOMAIN packets, NEW vlan \in Vlans, NEW s, NEW i,
           NEW g \in Leaving(n, vlan, <<s, i>>),
           NEW h \in net.hosts, Nears(g, h, toward)
    PROVE  /\ i = toward[s][place[h]]
           /\ \A f \in Leaving(n, vlan, <<s, i>>) : f = g
<1> DEFINE p == <<s, i>>
           e == place[h]
<1>1. e \in net.ports \ DOMAIN net.peer
  BY DEF TypeOK, LinesOK, EdgePorts
<1>2. p[1] = s /\ p[2] = i
  OBVIOUS
<1> HIDE DEF p, e
<1>3. CASE p \in DOMAIN net.peer
  <2>1. Leaving(n, vlan, p) \subseteq {Frame(n, vlan, net.peer[p], TRUE)}
    BY <1>3 DEF Leaving
  <2>2. g \in Leaving(n, vlan, p)
    BY DEF p
  <2>3. g = Frame(n, vlan, net.peer[p], TRUE)
    BY <2>1, <2>2
  <2>4. toward[net.peer[p][1]][e] # net.peer[p][2]
    BY <2>3 DEF Nears, Frame, e
  <2>5. toward[p[1]][e] = p[2]
    BY <1>1, <1>3, <2>4 DEF OneWay
  <2> QED
    BY <1>2, <2>1, <2>3, <2>5 DEF p, e
<1>4. CASE p \notin DOMAIN net.peer
  <2>1. Leaving(n, vlan, p) \subseteq {Frame(n, vlan, p, FALSE)}
    BY <1>4 DEF Leaving
  <2>2. g \in Leaving(n, vlan, p)
    BY DEF p
  <2>3. g = Frame(n, vlan, p, FALSE)
    BY <2>1, <2>2
  <2>4. p = e
    BY <2>3 DEF Nears, Frame, e
  <2>5. toward[p[1]][e] = p[2]
    BY <1>1, <2>4 DEF OneWay
  <2> QED
    BY <1>2, <2>1, <2>3, <2>5 DEF p, e
<1> QED
  BY <1>3, <1>4

LEMMA RelayOnce ==
    ASSUME TypeOK, NEW toward, NEW output, OnceInv(toward, output),
           net.traffic \subseteq DOMAIN net.identified \/ OneWay(net, toward),
           NEW f \in frames, Relay(f)
    PROVE  OnceInv(toward, output)'
<1> DEFINE s == f.port[1]
<1>1. Unsent /\ place' = place /\ f.inbound
  BY DEF Relay, Unsent, record
<1>2. ASSUME NEW g \in frames'
      PROVE  \/ g \in frames \ {f}
             \/ /\ g.packet = f.packet /\ g.vlan = f.vlan
                /\ \E i : i # f.port[2] /\ g \in Leaving(f.packet, f.vlan, <<s, i>>)
  <2> SUFFICES ASSUME g \notin frames \ {f}
               PROVE  /\ g.packet = f.packet /\ g.vlan = f.vlan
                      /\ \E i : i # f.port[2] /\ g \in Leaving(f.packet, f.vlan, <<s, i>>)
    OBVIOUS
  <2>1. PICK i \in OutInterfaces(s, f.port[2], f.vlan, packets[f.packet].destination,
                     Learn(table[s], <<f.vlan, packets[f.packet].source>>, f.port[2])) :
            g \in Leaving(f.packet, f.vlan, <<s, i>>)
    BY DEF Relay
  <2>2. i # f.port[2]
    BY <2>1, OutExcludesIn
  <2>3. g.packet = f.packet /\ g.vlan = f.vlan
    BY <2>1, FrameType, LeavingType
  <2> QED
    BY <2>1, <2>2, <2>3
<1> HIDE DEF s
<1>3. PacketsCounted' /\ DeliveredOnce' /\ HistoriesDiffer'
  BY <1>1, UnsentFacts DEF OnceInv
<1>4. \A g \in frames' : \E d \in frames : g.packet = d.packet /\ g.vlan = d.vlan
  BY <1>2
<1>5. CopiesNear' /\ FramesCoded'
  BY <1>1, <1>4, UnsentFacts DEF OnceInv, CopiesNear, FramesCoded, Unsent
<1>6. CopiesRemembered(output)'
  BY <1>1, <1>4, UnsentFacts DEF OnceInv, CopiesRemembered, Unsent
<1>7. OneNears(toward)'
  <2>1. \A g, h : Nears(g, h, toward)' <=> Nears(g, h, toward)
    BY <1>1 DEF Nears
  <2>2. \A n : Identified(n)' <=> Identified(n)
    BY <1>1, UnsentFacts
  <2>3. net' = net /\ delivered' = delivered
    BY <1>1, UnsentFacts DEF Unsent
  <2>4. ASSUME ~(net.traffic \subseteq DOMAIN net.identified),
               NEW h \in net.hosts, NEW a \in frames', NEW b \in frames',
               ~Identified(a.packet), a.packet = b.packet,
               Nears(a, h, toward), Nears(b, h, toward)
        PROVE  a = b /\ delivered[<<a.packet, h>>] = 0
    <3>1. OneWay(net, toward)
      BY <2>4
    <3>2. ASSUME NEW g, NEW i, i # f.port[2], g \in Leaving(f.packet, f.vlan, <<s, i>>),
                 Nears(g, h, toward)
          PROVE  /\ i = toward[s][place[h]] /\ Nears(f, h, toward)
                 /\ \A d \in Leaving(f.packet, f.vlan, <<s, i>>) : d = g
      <4>1. f.packet \in DOMAIN packets /\ f.vlan \in Vlans
        BY FrameType
      <4>2. /\ i = toward[s][place[h]]
            /\ \A d \in Leaving(f.packet, f.vlan, <<s, i>>) : d = g
        BY <3>1, <3>2, <4>1, LeavingNears
      <4> QED
        BY <1>1, <3>2, <4>2 DEF Nears, s
    <3>3. ASSUME NEW g \in frames', Nears(g, h, toward), g \notin frames \ {f}
          PROVE  /\ Nears(f, h, toward) /\ g.packet = f.packet
                 /\ g \in Leaving(f.packet, f.vlan, <<s, toward[s][place[h]]>>)
      BY <1>2, <3>2, <3>3
    <3>4. CASE a \in frames \ {f} /\ b \in frames \ {f}
      BY <2>4, <3>4 DEF OnceInv, OneNears
    <3>5. CASE a \in frames \ {f} /\ b \notin frames \ {f}
      <4>1. Nears(f, h, toward) /\ b.packet = f.packet
        BY <2>4, <3>3, <3>5
      <4>2. a = f
        BY <2>4, <3>5, <4>1 DEF OnceInv, OneNears
      <4> QED
        BY <3>5, <4>2
    <3>6. CASE a \notin frames \ {f} /\ b \in frames \ {f}
      <4>1. Nears(f, h, toward) /\ a.packet = f.packet
        BY <2>4, <3>3, <3>6
      <4>2. b = f
        BY <2>4, <3>6, <4>1 DEF OnceInv, OneNears
      <4> QED
        BY <3>6, <4>2
    <3>7. CASE a \notin frames \ {f} /\ b \notin frames \ {f}
      <4>1. /\ Nears(f, h, toward) /\ a.packet = f.packet
            /\ a \in Leaving(f.packet, f.vlan, <<s, toward[s][place[h]]>>)
            /\ b \in Leaving(f.packet, f.vlan, <<s, toward[s][place[h]]>>)
        BY <2>4, <3>3, <3>7
      <4>2. toward[s][place[h]] # f.port[2]
        BY <1>1, <4>1 DEF Nears, s
      <4>3. b = a
        BY <2>4, <3>2, <4>1, <4>2
      <4>4. delivered[<<f.packet, h>>] = 0
        BY <2>4, <4>1 DEF OnceInv, OneNears
      <4> QED
        BY <4>1, <4>3, <4>4
    <3> QED
      BY <3>4, <3>5, <3>6, <3>7
  <2> QED
    BY <2>1, <2>2, <2>3, <2>4 DEF OneNears
<1> QED
  BY <1>3, <1>5, <1>6, <1>7 DEF OnceInv

(* A copy that comes in is one of the streams its packet was split into.     *)
LEMMA StreamFacts ==
    ASSUME TypeOK, NEW output, PacketsCounted, FramesCoded, Eliminates(net, output),
           NEW f \in frames, Identified(f.packet)
    PROVE  LET flow == Flow(packets[f.packet])
               s == StreamOf(packets[f.packet], f.vlan)
           IN  /\ s \in DOMAIN net.merging /\ net.merging[s] = output[flow]
               /\ output[flow] \in Outputs
<1> DEFINE flow == Flow(packets[f.packet])
           s == StreamOf(packets[f.packet], f.vlan)
<1>1. flow \in net.traffic \cap DOMAIN net.identified
  BY FrameType DEF PacketsCounted, Identified
<1>2. f.vlan \in VlansOf(flow)
  BY DEF FramesCoded
<1>3. \E c \in CopiesOf(flow) : net.vlan[c] = f.vlan
  BY <1>1, <1>2 DEF VlansOf
<1>4. s \in CopiesOf(flow)
  BY <1>3 DEF StreamOf
<1> HIDE DEF s
<1>5. s \in DOMAIN net.merging /\ net.merging[s] = output[flow]
  BY <1>1, <1>4 DEF Eliminates, CopiesOf
<1> QED
  BY <1>5 DEF Outputs, s

(* One packet more is delivered.                                             *)
Counts(f, host) == delivered' = [delivered EXCEPT ![<<f.packet, host>>] = @ + 1]

LEMMA CountFacts ==
    ASSUME TypeOK, DeliveredOnce, NEW f \in frames, NEW host \in net.hosts, Counts(f, host),
           name' = name, packets' = packets, delivered[<<f.packet, host>>] = 0
    PROVE  /\ DeliveredOnce'
           /\ \A n, h : <<n, h>> # <<f.packet, host>> => delivered'[<<n, h>>] = delivered[<<n, h>>]
<1> DEFINE D == (1..MaxPackets) \X net.hosts
           d == <<f.packet, host>>
<1>1. delivered \in [D -> Nat] /\ d \in D
  BY FrameType DEF TypeOK, RecordsOK
<1> HIDE DEF D, d
<1>2. delivered' = [delivered EXCEPT ![d] = @ + 1] /\ delivered[d] = 0
  BY DEF Counts, d
<1>3. DOMAIN delivered' = DOMAIN delivered /\ delivered'[d] = 1
  BY <1>1, <1>2
<1>4. \A e : e # d => delivered'[e] = delivered[e]
  BY <1>1, <1>2
<1>5. d[1] \in DOMAIN packets
  BY FrameType DEF d
<1>6. DeliveredOnce'
  BY <1>3, <1>4, <1>5 DEF DeliveredOnce
<1> QED
  BY <1>4, <1>6 DEF d

LEMMA ReceiveOnce ==
    ASSUME MaxLag \in Nat \ {0}, BufferSize >= 2 * MaxLag - 1,
           TypeOK, NEW toward, NEW output, OnceInv(toward, output), Eliminates(net, output),
           NEW f \in frames, NEW host \in net.hosts, Receive(f, host)
    PROVE  OnceInv(toward, output)'
<1> DEFINE packet == packets[f.packet]
           flow == Flow(packet)
           stream == StreamOf(packet, f.vlan)
<1>1. /\ name' = name /\ packets' = packets /\ place' = place
      /\ frames' = frames \ {f} /\ ~f.inbound /\ place[host] = f.port
  BY DEF Receive
<1>2. net' = net /\ Outputs' = Outputs
  BY <1>1, NetIsFixed
<1>3. /\ \A n : Identified(n)' <=> Identified(n)
      /\ \A fl : VlansOf(fl)' = VlansOf(fl)
      /\ \A fl : NextSequenceNumber(fl)' = NextSequenceNumber(fl)
      /\ \A g, h : Nears(g, h, toward)' <=> Nears(g, h, toward)
  BY <1>1, <1>2 DEF Identified, VlansOf, CopiesOf, NextSequenceNumber, Nears
<1>4. PacketsCounted' /\ CopiesNear' /\ FramesCoded'
  BY <1>1, <1>2, <1>3 DEF OnceInv, PacketsCounted, CopiesNear, FramesCoded
<1>5. flow \in net.traffic
  BY FrameType DEF OnceInv, PacketsCounted
<1>6. CASE history' = history /\ delivered' = delivered
  BY <1>1, <1>6, LossOnce DEF Unsent
<1>7. CASE ~Identified(f.packet) /\ history' = history /\ Counts(f, host)
  <2>1. Nears(f, host, toward)
    BY <1>1 DEF Nears
  <2>2. ~(net.traffic \subseteq DOMAIN net.identified)
    BY <1>5, <1>7 DEF Identified
  <2>3. delivered[<<f.packet, host>>] = 0
    BY <1>7, <2>1, <2>2 DEF OnceInv, OneNears
  <2>4. /\ DeliveredOnce'
        /\ \A n, h : <<n, h>> # <<f.packet, host>>
                => delivered'[<<n, h>>] = delivered[<<n, h>>]
    BY <1>1, <1>7, <2>3, CountFacts DEF OnceInv
  <2>5. HistoriesDiffer'
    BY <1>2, <1>7 DEF OnceInv, HistoriesDiffer
  <2>6. ASSUME NEW g \in frames, NEW h \in net.hosts, Identified(g.packet),
               delivered'[<<g.packet, h>>] # 0
        PROVE  Remembers(history[h][output[Flow(packets[g.packet])]], packets[g.packet].number)
    <3>1. delivered[<<g.packet, h>>] # 0
      BY <1>7, <2>4, <2>6
    <3> QED
      BY <2>6, <3>1 DEF OnceInv, CopiesRemembered
  <2>7. CopiesRemembered(output)'
    BY <1>1, <1>2, <1>3, <1>7, <2>6 DEF CopiesRemembered
  <2>8. ASSUME NEW h \in net.hosts, NEW a \in frames \ {f}, NEW b \in frames \ {f},
               ~Identified(a.packet), a.packet = b.packet,
               Nears(a, h, toward), Nears(b, h, toward)
        PROVE  a = b /\ delivered'[<<a.packet, h>>] = 0
    <3>1. a = b /\ delivered[<<a.packet, h>>] = 0
      BY <2>2, <2>8 DEF OnceInv, OneNears
    <3>2. CASE <<a.packet, h>> = <<f.packet, host>>
      <4>1. a.packet = f.packet /\ h = host
        BY <3>2
      <4>2. a = f
        BY <2>1, <2>2, <2>8, <4>1 DEF OnceInv, OneNears
      <4> QED
        BY <4>2
    <3>3. CASE <<a.packet, h>> # <<f.packet, host>>
      BY <2>4, <3>1, <3>3
    <3> QED
      BY <3>1, <3>2, <3>3
  <2>9. OneNears(toward)'
    BY <1>1, <1>2, <1>3, <2>8 DEF OneNears
  <2> QED
    BY <1>4, <2>4, <2>5, <2>7, <2>9 DEF OnceInv
<1>8. CASE /\ Identified(f.packet) /\ Counts(f, host)
           /\ Matches(history[host], net.merging, stream, packet.number)
           /\ history' = [history EXCEPT ![host] = Merge(@, net.merging, stream, packet.number)]
  <2> DEFINE o == output[flow]
             seen == history[host][o]
             x == packet.number
  <2>1. stream \in DOMAIN net.merging /\ net.merging[stream] = o /\ o \in Outputs
    BY <1>8, StreamFacts DEF OnceInv
  <2>2. /\ history \in [net.hosts -> [Outputs -> Seq(Nat)]]
        /\ seen \in Seq(Nat) /\ Len(seen) <= BufferSize /\ Different(seen)
        /\ x \in Nat
    BY <2>1, FrameType DEF TypeOK, RecordsOK, OnceInv, HistoriesDiffer
  <2>3. \A i \in 1..Len(seen) : seen[i] # x
    <3>1. \A i \in DOMAIN seen : seen[i] # x
      BY <1>8, <2>1 DEF Matches
    <3> QED
      BY <2>2, <3>1
  <2>4. Merge(history[host], net.merging, stream, x) = [history[host] EXCEPT ![o] = Pushed(seen, x)]
    BY <2>1 DEF Merge, Pushed
  <2>5. /\ history'[host][o] = Pushed(seen, x)
        /\ \A c \in Outputs : c # o => history'[host][c] = history[host][c]
        /\ \A h \in net.hosts : h # host => history'[h] = history[h]
    <3> HIDE DEF stream, packet, o, seen, x
    <3>1. history' = [history EXCEPT ![host] = [history[host] EXCEPT ![o] = Pushed(seen, x)]]
      BY <1>8, <2>4 DEF x
    <3>2. history[host] \in [Outputs -> Seq(Nat)] /\ o \in Outputs
      BY <2>1, <2>2
    <3> QED
      BY <2>2, <3>1, <3>2
  <2>6. /\ Different(Pushed(seen, x)) /\ Remembers(Pushed(seen, x), x)
        /\ \A number \in Nat : Remembers(seen, number) /\ Near(x, number)
                => Remembers(Pushed(seen, x), number)
    <3> HIDE DEF seen, x
    <3> QED
      BY <2>2, <2>3, PushedRemembers
  <2>7. delivered[<<f.packet, host>>] = 0
    <3> SUFFICES ASSUME delivered[<<f.packet, host>>] # 0 PROVE FALSE
      OBVIOUS
    <3>1. Remembers(seen, x)
      BY <1>8 DEF OnceInv, CopiesRemembered
    <3> QED
      BY <2>3, <3>1 DEF Remembers
  <2>8. /\ DeliveredOnce'
        /\ \A n, h : <<n, h>> # <<f.packet, host>>
                => delivered'[<<n, h>>] = delivered[<<n, h>>]
    BY <1>1, <1>8, <2>7, CountFacts DEF OnceInv
  <2> HIDE DEF o, seen, x
  <2>9. ASSUME NEW h \in net.hosts, NEW c \in Outputs PROVE Different(history'[h][c])
    <3>1. CASE h = host /\ c = o
      BY <2>5, <2>6, <3>1
    <3>2. CASE h # host \/ c # o
      <4>1. history'[h][c] = history[h][c]
        BY <2>5, <3>2
      <4> QED
        BY <4>1 DEF OnceInv, HistoriesDiffer
    <3> QED
      BY <3>1, <3>2
  <2>10. HistoriesDiffer'
    BY <1>2, <2>9 DEF HistoriesDiffer
  <2>11. ASSUME NEW g \in frames, NEW h \in net.hosts, Identified(g.packet),
                delivered'[<<g.packet, h>>] # 0
         PROVE  Remembers(history'[h][output[Flow(packets[g.packet])]], packets[g.packet].number)
    <3> DEFINE fl == Flow(packets[g.packet])
               number == packets[g.packet].number
    <3>1. fl \in net.traffic \cap DOMAIN net.identified /\ flow \in net.traffic \cap DOMAIN net.identified
      BY <1>5, <1>8, <2>11, FrameType DEF OnceInv, PacketsCounted, Identified
    <3>2. output[fl] \in Outputs /\ number \in Nat
      BY <2>11, StreamFacts, FrameType DEF OnceInv
    <3>3. CASE h # host \/ fl # flow
      <4>1. g.packet # f.packet \/ h # host
        BY <3>3
      <4>2. delivered[<<g.packet, h>>] # 0
        BY <2>8, <2>11, <4>1
      <4>3. Remembers(history[h][output[fl]], number)
        BY <2>11, <4>2 DEF OnceInv, CopiesRemembered
      <4>4. fl # flow => output[fl] # o
        BY <3>1 DEF Eliminates, o
      <4>5. history'[h][output[fl]] = history[h][output[fl]]
        BY <2>5, <3>2, <3>3, <4>4
      <4> QED
        BY <4>3, <4>5
    <3>4. CASE h = host /\ fl = flow
      <4>1. history'[h][output[fl]] = Pushed(seen, x)
        BY <2>5, <3>4 DEF o
      <4>2. CASE g.packet = f.packet
        BY <2>6, <4>1, <4>2 DEF x
      <4>3. CASE g.packet # f.packet
        <5>1. delivered[<<g.packet, host>>] # 0
          BY <2>8, <2>11, <3>4, <4>3
        <5>2. Remembers(seen, number)
          BY <2>11, <3>4, <5>1 DEF OnceInv, CopiesRemembered, seen, o
        <5>3. Near(x, number)
          BY <3>4 DEF OnceInv, CopiesNear, x
        <5> QED
          BY <2>6, <3>2, <4>1, <5>2, <5>3
      <4> QED
        BY <4>2, <4>3
    <3> QED
      BY <3>3, <3>4
  <2>12. CopiesRemembered(output)'
    BY <1>1, <1>2, <1>3, <2>11 DEF CopiesRemembered
  <2>13. ASSUME ~(net.traffic \subseteq DOMAIN net.identified),
                NEW h \in net.hosts, NEW a \in frames \ {f}, NEW b \in frames \ {f},
                ~Identified(a.packet), a.packet = b.packet,
                Nears(a, h, toward), Nears(b, h, toward)
         PROVE  a = b /\ delivered'[<<a.packet, h>>] = 0
    <3>1. a = b /\ delivered[<<a.packet, h>>] = 0
      BY <2>13 DEF OnceInv, OneNears
    <3>2. a.packet # f.packet
      BY <1>8, <2>13
    <3> QED
      BY <2>8, <3>1, <3>2
  <2>14. OneNears(toward)'
    BY <1>1, <1>2, <1>3, <2>13 DEF OneNears
  <2> QED
    BY <1>4, <2>8, <2>10, <2>12, <2>14 DEF OnceInv
<1> QED
  BY <1>6, <1>7, <1>8 DEF Receive, Identified, Counts

LEMMA NextOnce ==
    ASSUME MaxLag \in Nat \ {0}, BufferSize >= 2 * MaxLag - 1,
           TypeOK, NEW toward, NEW output, OnceInv(toward, output),
           NoDuplicates(net, toward, output), [Next]_vars
    PROVE  OnceInv(toward, output)'
<1>1. ASSUME NEW flow \in net.traffic, Send(flow) PROVE OnceInv(toward, output)'
  BY <1>1, SendOnce
<1>2. CASE Transport
  <2>1. ASSUME NEW f \in frames, Relay(f) PROVE OnceInv(toward, output)'
    BY <2>1, RelayOnce DEF NoDuplicates
  <2>2. ASSUME NEW f \in frames, Vanish(f) PROVE OnceInv(toward, output)'
    BY <2>2, LossOnce DEF Vanish, Unsent, record
  <2>3. ASSUME NEW f \in frames, NEW h \in net.hosts, Receive(f, h)
        PROVE  OnceInv(toward, output)'
    BY <2>3, ReceiveOnce DEF NoDuplicates
  <2> QED
    BY <1>2, <2>1, <2>2, <2>3 DEF Transport
<1>3. CASE Disturbance
  <2>1. ASSUME NEW f \in frames, Overflow(f) PROVE OnceInv(toward, output)'
    BY <2>1, LossOnce DEF Overflow, Disturb, Unsent
  <2>2. ASSUME NEW p \in DOMAIN net.peer, FailLink(p) PROVE OnceInv(toward, output)'
    BY <2>2, LossOnce DEF FailLink, Disturb, Unsent
  <2>3. ASSUME NEW s, Crash(s) PROVE OnceInv(toward, output)'
    BY <2>3, LossOnce DEF Crash, Disturb, Unsent, lines
  <2>4. ASSUME NEW s, Reconfigure(s) PROVE OnceInv(toward, output)'
    BY <2>4, LossOnce DEF Reconfigure, Disturb, Unsent, lines
  <2>5. ASSUME NEW h, NEW p, Move(h, p) PROVE OnceInv(toward, output)'
    BY <2>5, LossOnce DEF Move, Disturb, Unsent
  <2> QED
    BY <1>3, <2>1, <2>2, <2>3, <2>4, <2>5 DEF Disturbance
<1>4. ASSUME NEW s, Start(s) PROVE OnceInv(toward, output)'
  BY <1>4, LossOnce DEF Start, lines, record, Unsent
<1>5. CASE Tick
  BY <1>5, TickOnce
<1>6. CASE UNCHANGED vars
  BY <1>6, LossOnce DEF vars, lines, record, Unsent
<1> QED
  BY <1>1, <1>2, <1>3, <1>4, <1>5, <1>6 DEF Next

(* No host gets a packet twice: neither in a network with one way to go,     *)
(* whatever is flooded, nor over redundant paths, if StreamMerger's history  *)
(* has room for all packets that can come between a packet and its copy.     *)
(* Packets and copies may be lost, cut off or overtaken, hosts moved and     *)
(* bridges restarted.                                                        *)
THEOREM DeliveredAtMostOnce ==
    ASSUME MaxLag \in Nat \ {0}, BufferSize >= 2 * MaxLag - 1,
           NEW CONSTANT toward, NEW CONSTANT output,
           \A x \in DOMAIN Networks : NoDuplicates(Networks[x], toward[x], output[x])
    PROVE  Spec => []AtMostOnce
<1> DEFINE Inv == TypeOK /\ OnceInv(toward[name], output[name])
<1>1. TypeOK => NoDuplicates(net, toward[name], output[name])
  BY DEF TypeOK, net
<1>2. Init => Inv
  BY InitTypeOK, OnceInit
<1>3. Inv /\ [Next]_vars => Inv'
  <2> SUFFICES ASSUME Inv, [Next]_vars PROVE Inv'
    OBVIOUS
  <2>1. TypeOK'
    BY NextTypeOK
  <2>2. name' = name
    BY DEF Next, Send, Transport, Relay, Vanish, Receive, Disturbance, Overflow,
           FailLink, Crash, Reconfigure, Move, Disturb, Start, Tick, vars
  <2>3. OnceInv(toward[name], output[name])'
    <3>1. PICK t, o : t = toward[name] /\ o = output[name]
      OBVIOUS
    <3>2. OnceInv(t, o)'
      BY <1>1, <3>1, NextOnce
    <3> QED
      BY <2>2, <3>1, <3>2
  <2> QED
    BY <2>1, <2>3
<1>4. Inv => AtMostOnce
  BY DEF OnceInv, DeliveredOnce, AtMostOnce
<1> QED
  BY <1>2, <1>3, <1>4, PTL DEF Spec

=============================================================================
