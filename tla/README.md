# A verification of the time-aware network of the digital substation

The repository is a simulation of a time-sensitive network (TSN) for a digital
substation: a modified INET framework for OMNeT++ (`src/inet`) and the networks
of the thesis (`src/inet/examples/hitachi_test`). What the simulation tells
about a substation rests on a small part of the framework: the gates that open
by schedule, the computation of these schedules, the shaper, the port that
joins them, the clocks and their synchronisation, the bridges and the redundant
streams through them, the MAC of the end devices, and the traffic source of the
publishers, which the thesis changed.
This directory models that part in TLA+, checks it with TLC and proves theorems
about the gates, their configuration and the computation of schedules, the port, the shaper, the clock and its
synchronisation, the bridged network, the MAC and the GOOSE source with TLAPS. Paths below are
relative to `src/inet/src/inet`.

## The system

| Component | State it keeps | Operations | Talks to |
|---|---|---|---|
| `PeriodicGate` (`queueing/gate`) | parameters `initiallyOpen`, `offset`, `durations`; `index`, `isOpen_`, `changeTimer`, `isInGuardBand_` | parameter written, change event, frame offered, notification passed on | queue before it, scheduler and server behind it (calls), credit based gate (signals) |
| `GateControlList`, `GateScheduleConfiguratorBase` | rows and mapping; computed slots | compute the parameters and write them | gates (parameters) |
| `EagerGateScheduleConfigurator` | slots per interface, start offsets | reserve the first, then the other packets of all flows; output schedules | configurator base |
| `PacketQueue`, `PriorityScheduler`, `InstantServer`, `InterpacketGapInserter`, `PacketTransmitter` | frames, capacity; server timer; end of the last packet and gap timer; transmission timer | push, pull, notify, end of transmission, end of gap | each other, by calls and call-backs `handleCanPull/PushPacketChanged` |
| `CreditBasedGate` | credit at the last update, gain rate, change timer, flags for transmission and gap | signals, change event, arrival | transmission gate, transmitter, gap inserter (signals) |
| `ActivePacketSource` (GOOSE) | lists of event and heartbeat times, copies sent, one production timer | timer event, consumer ready again | clock, consumer |
| `SettableClock`, `OscillatorBasedClock` | origin, compensation, scheduled events | set the clock, schedule, cancel | gates and sources (events), gPTP |
| `Gptp` (`linklayer/ieee8021as`) | sequence ids, peer delay, timestamps of the last Sync and of the last peer delay exchange, rate ratio, three timers | Sync and FollowUp sent and received, peer delay request, response and follow-up, setting the clock and adjusting the timestamps | clock, neighbours (messages) |
| `StreamSplitter`, `StreamMerger` and the identification and coding of streams (`protocolelement/redundancy`) | next sequence number; numbers seen last per stream | number, replicate, pass or drop a duplicate | bridging layer |
| `MacForwardingTable`, `RelayInterfaceLearner`, `RelayInterfaceSelector` (`linklayer/ethernet/common`) | entries with interface and insertion time, multicast entries | learn, look up, age, flood, re-read the parameter, clear | interfaces of the bridge |
| `EthernetMac`, `EthernetMacBase` (`linklayer/ethernet`) | transmit state, requested pause, timers, operational state | frames, PAUSE, timers, stop, crash, start, channel changes | line, queue, life cycle controller |
| `PacketBuffer` | packets of several queues | add, remove, drop | queues |

OMNeT++ executes one event at a time, and everything an event calls is executed
inside it. Concurrency is the order of events that are due at the same time and
of the events of different modules: an arrival, a gate change, the end of a
transmission and the end of a gap meet in every order, and a module that has
gone to sleep is woken up only if one of them calls it.

What is hard in this code:

- **Ordering and lost wake-ups.** The server sleeps until it is notified. Every
  condition that could let a frame pass (arrival, gate, credit, gap) has to end
  in a notification, in whatever order the conditions come true.
- **A decision that has to stay true.** A frame starts because a guard band says
  it fits its window; it must then still fit, whatever happens meanwhile.
- **Lazy state.** Credit, gain rate and the guard band flag are computed when a
  handler runs, and used later.
- **Arithmetic on cycles.** Rows and slots become run lengths, an offset and a
  first state, with repairs for odd lists, for slots on the border of the cycle
  and for offsets within an interval.
- **Rewriting while running.** Three parameters are written one after the other,
  and each write restarts the gate.
- **One timer for three kinds of packets** in the GOOSE source.
- **Clocks that are set** while events are scheduled by them: what is late, what
  moves, and a list that shrinks while it is walked.
- **Lost, late and overtaking messages** in time synchronisation, where a FollowUp has
  to find its own Sync and a late answer meets the timestamps of the next request; and
  timestamps that are stale as soon as the clock is set.
- **Copies of a packet** that are lost with their path, or so late that the history no
  longer knows them.
- **Forwarding entries** that lead to where a host used to be, in a table that
  every bridge ages and fills by itself; bridges that restart with an empty one.
- **Stops, crashes and cut links** in the middle of a frame, a gap or a pause.

The properties that make the components correct: a gate is in the state its
parameters, and these what they were computed from, ask for (`FollowsRequest`,
`GatesFollowSlots`); its change event is the next change (`NextChangeIsNear`), which
the guard band needs; no frame outlasts its window (`NoOverrun`), nobody sleeps while
there is something to do (`NoLostWakeup`), urgent frames wait for little
(`UrgentWaitBounded`) and are sent in the end (`UrgentIsServed`), in short: the port
is a priority port that loses no time (`ImplementsPriorityPort`); a shaped class gets
its share and no more (`CreditBounded`, `UsageBounded`, `WaitingIsServed`);
reservations do not collide (`SlotsApart`); a publisher sends what it has to
(`SendsPrescribed`, `SilenceBounded`); events arrive when the clock shows their time
(`EventsAnchored`, `DelayedEventsOnTime`), and gates follow the clock however it is set
(`GatesFollowClock`, `GatesGoOn`); clocks become and stay right, whatever is lost
(`SyncsExactly`, `HoldoverBounded`, `Synchronises`); entries lead to the hosts
(`EntriesLeadToHost`), packets arrive once (`AtMostOnce`, `ExactlyOnce`) and frames end
(`FramesEnd`); a MAC keeps gap and pauses, stops in order and sends what waits
(`NoCheckFails`, `StartsInTurn`, `StopLosesNothing`, `WaitingIsSent`). The hazards behind
them are listed with their lines in `PROJECT.json`.

## The modules

| Module | Models | How |
|---|---|---|
| `GateSchedule` | the pure part of `PeriodicGate` | `StartOf` is `initializeGating`, `DurationAt` and `IndexAfter` are `scheduleChangeTimer`; `PrescribedOpen` is the meaning of the parameters, stated independently |
| `GateSchedule_proofs` | | what these operators compute, for all lists; remainders, end times, merging of a last duration, induction over numbers |
| `PeriodicGate` | one gate, parameters rewritten at any time | one action per parameter, one for the change event |
| `GateControlList` | `parseGclLine`, `parseGcl` | rows to run lengths, offset, first state; the loop over the rows is a recursive function (`RunsAfter`) |
| `GateScheduleConfigurator` | `configureGateScheduling` | slots to the same parameters; the loop over the slots is a recursive function (`GapsAndSlotsUpTo`) |
| `GateConfiguration` | both of these driving a `PeriodicGate` | three writes in the code's order, then the gate runs; a new schedule at any time |
| `GateConfiguration_proofs` | | theorems about `GateControlList` and `GateScheduleConfigurator` (what the derived parameters mean), `PeriodicGate`, `GateConfiguration` and `EagerGateScheduler` |
| `EagerGateScheduler` | `computeGateScheduling` and what it calls | one action per flow in each of its two loops; the loops over slots, hops and packets are recursive functions; the third loop and the configured gates as operators |
| `EgressPort` | queues, gates, scheduler, server, gap inserter, transmitter of one port | one action per event; the calls an event makes are part of its action |
| `PriorityPort` | what a port promises: queues, windows, a line that is busy for a frame and its gap | abstract: no server, no timer, no notification; a free line takes the most urgent frame that fits before time passes |
| `EgressPortReconfiguration` | the port with gates that are rewritten | adds the restart of a gate |
| `EgressPort_proofs` | | theorems about `EgressPort`, and that it implements `PriorityPort` |
| `CreditBasedShaper` | a credit based gate before a transmission gate, on a line shared with other traffic | signals are part of the actions that emit them |
| `CreditBasedShaper_proofs` | | theorems about `CreditBasedShaper` |
| `SettableClock` | scheduling, executing and cancelling clock events; `setClockTime` with its loop over the vector of events and the modes execute, skip and error | operators on the clock's variables, for the modules that use a clock; a setting is a recursive function over the positions of the vector |
| `SynchronizedGates` | the gates of a switch and a timer, by one clock that is set at any time | one action per change event, timer, restart and setting of the clock |
| `GooseSource` | `ActivePacketSource` with `useGoose` and absolute times | one action per timer event; the nested decisions of `scheduleProductionTimer` are operators named for them |
| `GooseSource_proofs` | | theorems about `GooseSource` |
| `Gptp` | a grandmaster and a node with a slave port, over a link with two queues per port | one action per timer, per transmission that ends and per message received; messages are lost in queues and on the line |
| `TimeSynchronisation_proofs` | | theorems about `SettableClock`, `SynchronizedGates` and `Gptp` |
| `MacForwardingTable` | the unicast table | operators on a table, with an age in place of the insertion time |
| `StreamRedundancy` | splitting, merging, history | operators on the mappings and the history |
| `BridgedNetwork` | hosts and bridges with the two modules before; hosts that move, links that fail, bridges that crash and restart, parameters rewritten, frames dropped | one action for the send of a host, one for the relay of a frame by a bridge (learn, look up, copies out), one for the arrival at a host, one per disturbance |
| `BridgedNetwork_proofs` | | theorems about `BridgedNetwork` |
| `EthernetMac` | the full duplex MAC with its queue and its life cycle | one action per timer, frame, PAUSE, command and channel change |
| `EthernetMac_proofs` | | theorems about `EthernetMac` |

`EgressPort` and `CreditBasedShaper` use the operators of `GateSchedule` for
their gates, `GateConfiguration` extends `PeriodicGate`, `GateControlList` and
`GateScheduleConfigurator`, and `EagerGateScheduler`
uses `GateScheduleConfigurator` and `GateSchedule`; `SynchronizedGates` extends
`SettableClock` and uses `GateSchedule`. So slots are followed from
their reservation to the open gate. `EgressPort` instantiates `PriorityPort` with a
refinement mapping; `BridgedNetwork` extends `MacForwardingTable` and
`StreamRedundancy`. `MC*` modules give the constants values.

Conventions:

- Time is discrete. A timer holds the time left until its event, or
  `NotScheduled`; an event is due when its timer is 0, and `Tick` lets time
  pass only when nothing is due. (`GooseSource` works with absolute times, as
  its code does, and goes from one event to the next. `SettableClock` keeps two times
  for an event, until its clock time and until its simulation time, which differ while
  the event is late. `Gptp` keeps times relative to the present simulation time.
`BridgedNetwork` has no time but the age of entries.)
- A frame is the time it takes on the line, which is what the guard band computes
  from length and bitrate.
- Simultaneous events come in any order, except for the server's timer. The server
  schedules itself at the current time, so it is last among those already due.
  The priorities of events are left out.
- Variables marked "history" in the source record what a property needs
  (`sinceTxEnd`, `wait`, `usage`, `phase`, `sent`); no action is guarded by them.
- Operators introduced as "Faulty" are never used by a specification. Each is a
  plausible bug that breaks a property when it replaces the definition after it.

Abstractions that matter: packet streaming is left out (whole frames only), the
clocks have no drift and are set in `SynchronizedGates` and `Gptp` only, credit is exact and its limit is 0, one `transmitCreditSpendRate`
per unit of gain is an integer, the flows of the scheduler have one path, and all
lines of its network have one data rate. In `CreditBasedShaper` a credit that falls to the
limit within a time unit, and not at the end of one, has no timer. In the code the timer changes nothing
then: it finds the credit at the limit, where the gate is still open, and is not set
again. Below the limit the gate is closed by the next update, in the code as in the model.

## The runs

| Run | Question | Bounds, and why they are enough |
|---|---|---|
| `configuration` | Do all gate control lists, slot lists and given parameters reach the gate unharmed, and does it then cycle for ever? | up to four rows of two durations, both mappings; up to two slots anywhere in a cycle of six, that are a unit apart: every parity, equal rows at every place, slots on both borders; given lists of 0, 2 and 4 durations with offsets within, on the border of and beyond the cycle: empty, wrapping, with intervals skipped once and several times. The three parameters are written one by one, over those of the last request |
| `port` | Guard band, wake-ups, waiting time, service of the urgent class, the abstract port and the inductive invariant of the proofs | three classes, an always open gate and two cycles of different length, so that they meet in every phase, the urgent window long enough for two frames of the others, so that the bound on the wait (which is reached) could be broken; frames of 1 and 2, capacity 2, one arrival at an instant |
| `port_reconfigured` | May a restart of a gate be missed by the server? (finding) | two classes with windows in turn, restarts at any time |
| `shaper` | Do all events the credit depends on reach the credit based gate, is a waiting frame sent, and are the credit's bounds and the class's share kept? | two schedules of the transmission gate: always open (for the bounds and the share), and a window of 4 in a cycle of 7, so that the guard band, the closed gate and the gap all interrupt a rising and a falling credit; spend rate 2, frames of 1 and 2, one frame of other traffic waiting; `maxCredit` is tight enough to cut the credit, `minCredit` is below what a frame and its gap spend |
| `clock` | Does every event arrive at its clock time, and do gates keep to the clock, when it is set again and again? | mode execute, as in the networks; two gates with cycles of 5 and 6 units and a timer of 3, in every order of the vector; steps of up to two units forward or back, the shortest duration, once at an instant; no event more than 8 units ahead |
| `gptp` | Does a node get the right time and the right peer delay, and keep them, when messages are late, overtake each other and get lost? | two requests to a Sync and transmissions that end up to a unit after the one before, so that one request is answered before the Sync, and the answer to the other is behind the Sync and its FollowUp and may come only after the next request has been sent; sequence ids modulo 4, which wrap; three losses, anywhere: of a Sync, its FollowUp, a request, an answer, several in a row or apart; a node that is a bridge, which relays Syncs and so counts sequence ids of its own, and a clock that is 3 units ahead or behind at first |
| `bridging` | Do entries lead to the hosts, and do packets arrive, once? | three networks. A line of three learning bridges, with a host that is moved while entries age (they age after 2 s); the line with a crash, a rewritten parameter or a dropped frame, and a group whose members are configured at two of three bridges; a ring of three bridges with configured paths, over which streams are sent both ways round. One disturbance each, at any moment; three packets, two of them on their way at a time; a copy is at most 2 packets behind, for which a history of 3 is just enough |
| `static_entries` | Is a configured entry kept? (finding) | the ring, with a VLAN whose two directions go different ways round; no disturbance |
| `mac` | Are the timers, the gap, the pauses, the stop and the frames that wait right, whatever happens in between? | a gap of 2, frames of 1 and 3 (shorter and longer than the gap), pauses of 0, 3 and 5, a queue of 3, and a stop that times out after 7, in a pause or behind frames; any number of PAUSEs, stops, crashes, starts, cuts and repairs |
| `eager` | Do reservations keep apart, do first packets never wait, do the gates follow the slots? | all lists of up to three flows, two interfaces alone and in a row, one or two packets per cycle, latencies large, short and unset; and lists of four flows, in which a later flow finds room between the others and a second packet has to get past all of them |
| `eager_first_slot` | Is only one gate open at a time? (finding) | three flows with room in the cycle, the first late on the second interface |
| `goose` | Is exactly the prescribed traffic sent, without long silence? | all sorted lists of up to three events in 30 units (three heartbeat intervals); copies after 1, 1, 2, 3 units; the consumer may block at any time |

`CHECK_DEADLOCK FALSE` stands where the system really stops: the scheduler ends
(`eager`, `eager_first_slot`), the source's simulation has a time limit (`goose`), the
bridged network is quiet when all packets were sent and received (`bridging`,
`static_entries`), and a MAC whose timer expires while it is down ends the simulation with
an error (`mac`).

What the properties say in places where it is easy to read too much into them:

- `SlotsApart` excepts a first slot that some packet was put before; the
  finding `eager_first_slot` is about exactly that case.
- `GatesFollowSlots` is stated for slots that are the gap apart in every cycle.
- `UrgentWaitBounded` counts the time during which the head could have been sent.
- `OpenByCredit` has the gate open at the limit, as the code does and its documentation does
  not (disagreement 4 below).
- `SendsPrescribed` prescribes packets that are closer than `productionInterval`, against the
  documentation (disagreement 5 below).
- `SendsPrescribed` and `SilenceBounded` speak of the time up to the last event,
  while the consumer has never made a packet wait. After the last event the source
  goes over to periodic traffic.
- `KeepsCycling` requires that writing stops eventually, `GatesGoOn` that the clock is
  no longer set, and gates are not restarted for ever.
- `GatesFollowClock` holds for steps of the clock no larger than the shortest duration of a
  gate (`GatesAssumption`). A larger one ends the simulation: the gate is then so late
  that its next change lies in the past. It excepts the time a clock was set back by: the
  gate waits it out.
- `SyncsExactly` says what a setting of the clock does: it makes the clock right but for
  the part of the link's delay that was not measured yet. With `PeerDelayExact` the error
  is 0 or one propagation delay. A clock that has not been set keeps its error.
- `HoldoverBounded` counts a Sync interval per message lost, and the delays in the queues.
- `Synchronises` rests on finitely many losses; with losses for ever no node could be right.
- `EntriesLeadToHost` speaks of entries that had the time to age since a host was moved;
  `ExactlyOnce` of packets that met no disturbance, or that were sent over two paths
  in a network in which one thing went wrong.
- `AtMostOnce` holds for copies that are at most `MaxLag` packets behind, if `bufferSize` is
  at least `2 * MaxLag - 1`; a smaller history lets a copy pass again.
- `FramesEnd` holds in a ring because every bridge a frame reaches has a configured entry
  for it and entries do not age there (they do after 120 s, and a frame would then
  circulate).
- `NoCheckFails` excepts the timer of a MAC that was stopped while idle, `StartsInTurn`
  the frame after a PAUSE that came in the gap, and the gap a PAUSE of 0 cuts short (all
  below), and `WaitingIsSent` a
  neighbour that sends PAUSEs for ever.

### Disagreements between the code and its documentation

1. **A restart does not notify** (`port_reconfigured`, `queueing/gate/PeriodicGate.cc:98`).
   `initializeGating` assigns `isOpen_` without the notification that `open()` sends.
   A gate rewritten while the port runs may be open with a frame behind it on
   an idle line, until some other event wakes the server up.
2. **The first slot is skipped** (`eager_first_slot`, `EagerGateScheduleConfigurator.cc:213`). After a
   packet has been moved, `i = 0` is followed by the `i++` of the loop.
3. **Configured entries are not marked** (`static_entries`,
   `linklayer/ethernet/common/MacForwardingTable.cc:154`). An entry of the parameter
   `forwardingTable` gets the insertion time -1 unless it is already there, which it never
   is. It is overwritten by the first frame from its address that comes in another way,
   and ages, although the code that learns says it ignores such entries (`:190`).

In two more cases the documentation says otherwise than a property that a run checks and finds to
hold. The property states what the code does there, and what it shows is not
what the documentation promises:

4. **The gate is open at the limit** (`OpenByCredit` in `shaper`,
   `queueing/gate/CreditBasedGate.cc:39` and `:128`). `CreditBasedGate.ned:15` says "The gate is open
   if the number of credits is greater than the configured transmit credit limit, it is closed
   otherwise", and `:38` calls the limit the "credit limit above which the gate is open". The
   code compares with `>=`. The case is a normal one: the initial credit is the limit (both are 0),
   and what is left above it is given up when the class has nothing to send. A frame that comes
   then is sent at once; by the documentation it would have to wait for some credit. The code
   agrees with IEEE 802.1Q here, which lets a class send when its credit is zero or positive.
5. **Packets closer than the production interval** (`SendsPrescribed` in `goose`,
   `queueing/source/ActivePacketSource.cc:145`, `:151`, `:161`, `:170`). `ActivePacketSource.ned:23`
   names as an invariant that "two subsequent packets are always pushed out at least
   productionInterval time apart". With `useGoose` the interval only matters after the last event, for
   the periodic traffic. Before that events come at random times, copies from a millisecond after
   them, and heartbeats every half second; the networks configure an interval of 1 s
   and 200 events per second (`src/inet/examples/hitachi_test/omnetpp.ini:97`, `:99`). In the run the interval is
   20, heartbeats are 10 apart and the first copy comes after 1. The documentation does not mention the GOOSE mode.

Read in the code while modelling, and not carried by a run:

- `PeriodicGate.cc:59`, `:122`: the priority of the change event is chosen before the gate is toggled,
  so `openSchedulingPriority` is given to closing events and vice versa. Both are 0 by default.
- `PeriodicGate.cc:155`: the guard band flag is recomputed on notifications only, but the guard
  band begins by itself. Until the next notification the class gains credit that
  `accumulateCreditInGuardBand` (`CreditBasedGate.ned:41`) denies it. The bounds on the
  credit and on the share hold all the same.
- `PacketSchedulerBase.cc:121`: `canPullPacket` asks the inputs in index order whatever the policy.
- `CreditBasedGate.cc:170`: the credit is compared with 0 and not with the limit.
- `CreditBasedGate.ned:24`: "the number of credits immediately drops down to the transmit credit limit" when a
  transmission ends and nothing waits. In the code it does so at the end of the gap after it
  (`CreditBasedGate.cc:201`), and the gap is paid for.
- `PacketQueue.cc:146`: the loop removes half of the packets.
- `EagerGateScheduleConfigurator.cc:218`: an overfull cycle is noticed only relative to the start of the flow.
- `EagerGateScheduleConfigurator.cc:228`: a flow without `maxLatency` always fails.
- `ActivePacketSource.cc:102`: the list of heartbeats has 21 entries whatever the simulation's
  length, so heartbeats end after ten seconds.
- `ActivePacketSource.ned:17`: the first packet is pushed "after the initial production offset". With `useGoose`
  it is a heartbeat at time 0 whatever the offset (`ActivePacketSource.cc:61`).
- `clock/model/SettableClock.cc:76`: in the mode skip the loop over the events goes on by
  position while the overdue one is erased, so the event behind it is not visited. The
  networks use the mode execute, which erases nothing.
- `Gptp.cc:194`: a bridge relays a Sync after every FollowUp, also one it dropped.
- `Gptp.cc:458`: the ingress timestamp of a request is not adjusted when the clock is set
  before the answer is sent. Only a node that synchronises itself and is asked is
  concerned; the other end's peer delay is wrong by the correction then.
- `StreamMerger.cc:50`: the null streams that `StreamMerger.ned:13` describes share one history.
- `MacForwardingTable.cc:228`: the condition is the wrong way round, and the removal of an
  interface that is there is refused. `:139`: entries of the parameter that is read again after a
  restart have the insertion time -1 and are aged if the simulation is older than the ageing time.
- `MacRelayUnit.cc:69`: the older relay looks up entries without their VLAN.
- `EthernetMac.cc:367`: a PAUSE that comes in the gap is stored as if a frame were on the line, and
  heeded after the next frame only, perhaps long after it was over. A stored request replaces
  the one before.
- `EthernetMac.cc:352`, `:357`: the log shows the stored request instead of the one received.
- `EthernetMac.cc:361`: a PAUSE of 0 in a pause that took the place of a frame's gap may end it before
  the gap is over. The model counts the gap as over then.
- `EthernetMacBase.cc:293`: an orderly stop of a MAC without frames ends at once, and leaves the
  timer of the gap or of a pause running, whose event is an error in a MAC that is down
  (`common/lifecycle/OperationalMixinImpl.h:74`).
- `EthernetMacBase.cc:350`: the stored PAUSE survives a crash and a link that is cut.
- A link that is cut while a MAC stops drops its frames, but the stop is not finished
  until its timeout or the next message. `EthernetMac.ned:85` says that connecting and disconnecting at run
  time is not supported; the code handles it.

## Fairness

Liveness is checked under weak fairness of the events that are due and of `Tick`: the
event loop executes every event in its queue and then advances the time to the next
one. In `EgressPort`, `CreditBasedShaper` and `EthernetMac` fairness is for the disjunction of all
events, not for each, since the properties should not depend on which of several
simultaneous events comes first for ever. In `Gptp` it is for the timers, the
transmissions and the processing of messages received, so that a queue holds no
message for ever; a loss is never owed. `BridgedNetwork` has no time to advance: frames are
transported (relayed, received, or lost in a bridge that is down). Arrivals, sends,
restarts, settings of the clock, writes of parameters, PAUSEs and disturbances have no
fairness, and arrivals at one instant are bounded (`MaxArrivals`), as
otherwise time could stand still. `EagerGateScheduler` and `GooseSource` are
checked for safety only.

## The abstract port

`PriorityPort` has queues, windows and the time for which the line is busy. Its only
rule: time passes only when the line is busy or no class has a frame that ends within
its window, and the most urgent of them is sent. `EgressPort` maps a closed gate to a
window that is over, an open one to the time until its change, and the transmission with
the gap to the busy line. The service timer, the wake-ups and the gap inserter are
steps that stutter. That a lost notification, a missed end of the gap or a late change
would break this mapping is why it says more than the invariants of the port
together; its mutants are such slips.

## The proofs

TLC found out first, on the small instances, that what is proved here holds; the theorems say
so for all values of the constants. None of the properties is inductive by itself, and
each component below has an invariant that is.

### Gates and their configuration

`GateSchedule_proofs` and `GateConfiguration_proofs` prove, for lists of
any length with any positive durations and even length, all offsets, and all gate control
lists and slots that satisfy `RequestsAssumption` (rows have positive durations, the
mapping of gates to bits is one to one, slots lie in their cycle, in order and apart):

| Theorem | Says |
|---|---|
| `ParametersMeanRequest` | the parameters derived from a request are ones the gate accepts, and ask for the requested state at every instant |
| `GateFollowsParameters` | a gate is in the state its parameters ask for, whatever is written when |
| `NextChange` | its change event is its next change |
| `TypeCorrectness` | index, timer and state stay in range |
| `RequestsFollowed` | once configured, a gate is in the state that was requested |
| `CycleRequested` | it gets the cycle that was requested, or no schedule if its state never changes |
| `ConfigurationNextChange`, `ConfigurationTypeCorrectness` | the same as above while the three parameters are written one by one |
| `ConfigurationRefinesGate` | a gate that is configured is a `PeriodicGate` whose parameters are set to any accepted values |

The invariant of the gate, `GateInv`, says that a gate with a schedule is in one interval
`k` of its list (`InInterval`): its index is the one after `k`, its state the one of the
parity of `k`, and the time since its restart plus the offset is, modulo the length of the cycle, the
end of `k` less what the timer has left. The meaning of the parameters
(`PrescribedOpen`) does not speak of intervals found by a search, so the lemmas of `GateSchedule_proofs` show that an
instant lies in one interval only, that `StartOf` stops in it, and that the parity of
the interval is the state prescribed. `ConfInv` adds which of the three parameters have been written.

`ParametersMeanRequest` is about the two writers. Each goes once through its rows or slots and
keeps a list of durations between changes. For the gate control list, the lemmas follow the
loop: after `n` rows, each row so far lies in one interval of the list, which has
the state of the row (`RunsCover`, `RowsCovered`). For the slots, the durations of the
list are slots and the gaps between them in turn (`SlotsAsIntervals`). Both
end in the same repair, in which an odd list has its last duration merged into the
first and the offset moved by as much (`Merges`); that it changes
nothing but the instant at which the list begins is proved once for both.

These definitions recurse over a list. The prover takes a recursive function as a
choice of some function with the recursive equation, so each comes with a lemma that there is
one, after which the equation can be used; induction is over sets of
numbers (`NaturalInduction`), which needs no operator as a parameter.

The hypotheses of `ConfigurationRefinesGate` only say that the constants of `PeriodicGate`, which
are finite sets for TLC, contain every offset and every list that is accepted.

### The computation of schedules

`GateConfiguration_proofs` also proves, for all lists of flows with any paths, lengths,
intervals and latencies, any cycle, gap and propagation delay (`EagerAssumption`: a path
leads over an interface once, intervals divide the cycle):

| Theorem | Says |
|---|---|
| `ReservationsApart` | the slots reserved on an interface are the gap apart, but for a first slot that some packet was put before |
| `FirstPacketsGoThrough` | the first packet of a flow finds its slot at every hop at the time it gets there |

The code searches by two loops that go on until nothing changes (`Repeat`): a packet is moved behind
one conflicting slot after the other, and a start is shifted until the packet waits nowhere. That
they end is not obvious, since every move begins the walk again. `RepeatFacts` says
that such a loop ends with a time at which nothing changes, if no step goes back and there is a time from
which on nothing does; the slots reserved so far have a last end (`SlotsEnd`), and a packet sent after all
ends on its path waits nowhere (`LateStart`).

- A packet that is not moved has been compared with all slots, one that is moved with all but
  the first (`FreeTimeFacts`). The first slot is kept clear of, too, if it is the earliest: a packet in
  front of it conflicts with no other and is not moved, and one behind it is only moved further.
- The start that is found has no delay at any hop (`StartFacts`) in the slots as they are
  before the packet is reserved. Reserving it adds a slot at each hop; as its path leads over an
  interface once, what is ahead of it is still as the search saw it (`FirstPacketFacts`).
- Slots are only ever added (`Keeps`), so those of the first packets stay (`KeptInTime`).

`EagerInv` adds the types to the two properties. The lemmas follow the code from the inside out:
one slot, the hops of a packet, the packets of a flow, the two loops over the flows.

### The port

`EgressPort_proofs` proves, for every number of classes, all schedules, frame
lengths, capacities and gaps that satisfy the assumptions named in `EgressPort`:

| Theorem | Says |
|---|---|
| `InductiveInvariant` | `Spec => []IInv` |
| `TypeCorrectness` | queues within capacity, timers in range |
| `GateNeverOverrun` | no frame on the line when its gate is closed, or about to close before its end |
| `NoWakeupLost` | no idle line with a frame that may pass, once nothing is due |
| `UrgentWait` | an urgent head that may be sent waits for at most a frame and a gap |
| `SilentStart` | frames start on a line that has been silent for the gap |
| `Implementation` | `Spec => Port!Spec`: the port implements the abstract one |

`IInv` is the conjunction of

- `TypeOK`;
- `GatesRun`: a gate with a schedule has a change event and an index into its list,
  so a change always finds a positive duration;
- `GapIsTimed`: the gap timer runs exactly while the gap holds the line back, and
  the silence so far and the gap left add up to the gap;
- `NoOverrun`, which is inductive with the former: a gate can only change when its
  timer is 0, at which time the frame is over;
- `SomeoneWakesTheServer`: if a frame may pass, then the server's timer, the transmission
  or the gap timer is scheduled. `NoLostWakeup` follows from it with `GapIsTimed`;
- `WaitIsShort`: the time waited plus the time until the line is free is bounded.
  The bound on the wait alone would not survive a tick.

There is one lemma per action that it preserves `IInv`, with a step per conjunct the
action can disturb; `PulledFrame`, `IndexStaysInside`, `ChangeFindsDuration`,
`ServeFindsSilentLine`, `WakeupsSuffice` and `TickPullable` are the facts shared by
them. TLC checks `IInv` in `port`. The implementation theorem uses `IInv` in each step: the
server's pull is the abstract send because the classes the gates let pass are
those that can be sent, and a tick is an abstract tick because no wake-up is lost.

### The shaper

`CreditBasedShaper_proofs` proves, for all rates, bounds of the credit, frame lengths, gaps and
schedules of the transmission gate, and with the limit of the credit at 0:

| Theorem | Says |
|---|---|
| `GateOpenByCredit` | the gate is open when, and only when, the credit is at the limit or above it, unless a frame of its own or the gap after that is on the line |
| `GainRate` | the gain rate in use is the one queue, line and transmission gate ask for now |
| `CreditBounds` | behind a gate that is always open, the credit stays between `LoCredit` and `HiCredit` |
| `UsageBound` | there the class uses its share of the line but for one burst, if `MinCredit` is not above `LoCredit` |

`ShaperInv` joins the ranges, what the line is doing and for how long (`LineInv`), that the
credit's timer is set for the instant at which the credit reaches the limit
(`CreditTimerInv`), and that the gate was closed or opened by the last update (`OpenInv`). For the
bounds `BoundInv` adds where the credit comes from: what is above 0 was earned in the time
one frame and gap of the others have been on the line so far (`EarnedInv`), a debt
was spent in that of a frame and gap of its own (`SpentInv`), and usage and credit together are at most a burst (`UsageInv`).

The limit has to be 0, its value in `CreditBasedGate.ned`: where the code decides
whether the class gains credit it compares the credit with 0 (`CreditBasedGate.cc:170`), and with
another limit `GainRateIsCurrent` is false. Without the hypothesis on `MinCredit` the debt
that is cut off would be used by the class again.

### The clock and the gates that run by it

`TimeSynchronisation_proofs` proves, for any number of events and gates, in every order of the
clock's vector, however often it is set, with all events in the mode execute
(`AllExecute`, which is the mode of the networks):

| Theorem | Says |
|---|---|
| `Anchored` | an event of a clock time arrives when the clock shows it, or at once if that is over |
| `DelayedOnTime` | an event after a delay keeps its simulation time, and its handler sees the right clock time |
| `GatesFollow` | no change event is scheduled in the past, and every gate is in the state of its list at the clock time |

In `SyncInv` the vector holds every event once (`EachOnce`), which the setting of the clock relies on
as it goes through the vector by position; an event is late by at most one step of the
clock; and each gate is, as in `GateInv` above, in an interval of its list whose end is
where its event is in clock time. An overdue change finds the next one in the future
because a step is no longer than the shortest duration (`GatesAssumption`), which is what
`GatesFollow` is worth: with larger steps the code throws.

### Time synchronisation

`TimeSynchronisation_proofs` proves, for any propagation delay, transmission times, initial
errors and losses, for nodes that are bridges or not:

| Theorem | Says |
|---|---|
| `InductiveInvariant` | `GptpSpec => []GptpInv` |
| `PeerDelayIsExact` | the peer delay is that of the link, or 0 before the first was measured |
| `RateRatioStaysOne` | setting the clock does not make it drift |
| `HoldoverIsBounded` | the Sync the clock was set by is older by one interval at most for every message lost |
| `SyncsAreExact` | every setting makes the clock right but for what the peer delay misses |

All five have two hypotheses. `IntervalsSuffice`: a Sync with its FollowUp, and a request with
its answers, get through within their intervals. These are 31.25 ms and 1 s
(`examples/hitachi_test/omnetpp.ini:28`), and transmissions take microseconds. `LossesLeaveIds`: no more
messages are lost than there are sequence ids (2^16), as otherwise a FollowUp could be
taken for that of a Sync as many Syncs ago. `MCGptp` has TLC evaluate both for its instance with fewer
requests; the run itself has more, so that answers come after the next request, which
the code tells by their ids and which the theorems leave to TLC.

What makes the properties hold is which messages are under way, so that is what `GptpInv` says:

- There are no two messages of a kind (`OneOfEach`): a Sync and its FollowUp have the id of the
  last Sync (`Syncs`), and there is one request or its answer, with the last request's id
  (`Requests`, `Answers`). A follow-up is behind its event and carries the time at
  which that one went (`Follows`).
- That they are over when the next timer expires needs a bound on queues that serve two
  classes in any order. `QueueDrains` has it: the time until all that is queued has gone is at most a
  transmission time per message since the first of them was queued. From it follow `SyncOver` and
  `ExchangeOver`, which the timers' lemmas use.
- The times the node has stamped fit the ones in the messages to come, in the clock as it is now
  (`SyncPaired`, `AnswerPaired`, `RequestArrivedAt`), which is why `synchronize` has to move those of an
  exchange along with the clock (`SynchronizeStep`).
- If the Sync received last is `n` before the last one, then `n` messages have been lost
  (`UselessLost`), so the ids tell them apart; with `Holdover` the bound follows.

There is one lemma for each action. Losing a message only takes away from what the
invariant speaks of, which `FollowsFewer`, `SyncsFewer`, `AnswersFewer` and `DrainsFewer` say once for all.

### The bridged network

`BridgedNetwork_proofs` proves for all networks, of any size and shape, with any disturbances:

| Theorem | Says |
|---|---|
| `TypeCorrectness` | tables, histories and frames in range; a bridge that is down has an empty table, a history never outgrows its buffer |
| `LoopFreeEntriesLeadToHost` | in networks in which frames to a host have one way to go (`LoopFree`, given by a direction and a decreasing distance per bridge and host) and no host is moved, the entries lead to the hosts from everywhere |
| `DeliveredAtMostOnce` | no packet is passed up twice at a host, in networks that deliver one copy per path or eliminate duplicates at each receiver (`NoDuplicates`), with histories of at least `2 * MaxLag - 1` numbers |

The second rests on `FollowsPaths`: an entry points along the way or says nothing, and a
frame comes in at the port that leads back to its source. The frames are what makes
it inductive, since a bridge learns from them; and since frames have one way to go, a
flooded copy comes in from its source, too. That entries lead in no circle then
follows from the least distance in the circle (`LeastNumber`). `MCBridgedNetwork` has TLC
evaluate `LoopFree` for the line, so the theorem is about networks that exist.

`DeliveredAtMostOnce` has an argument for each of two kinds of traffic. In a network with
one way to go (`OneWay`), flooded copies of a frame go apart, so at most one of
them nears each host (`OneNears`). For packets that are numbered, split and
merged, the history of the receiver counts: the packets of a flow that are
on their way at a time are within `MaxLag` of each other, so the copy and all the numbers that
were appended to the history after the copy's number are near it (`CopiesRemembered`,
`CopiesNear`), all different (`HistoriesDiffer`), and there are at most `2 * MaxLag - 2` of them. A history with one
place more still holds the number. TLC evaluates the hypotheses for all networks of `bridging`.

### The MAC

`EthernetMac_proofs` proves, for all frame lengths, gaps, pauses no shorter than a gap,
capacities and timeouts:

| Theorem | Says |
|---|---|
| `InductiveInvariant` | `Spec => []IInv` |
| `ChecksHold` | no timer expires in a state it was not set for |
| `FramesStartInTurn` | gap and pauses are kept |
| `OrderlyStop` | a stop within its timeout sends all frames |

Its `IInv` says that the state decides which timer runs (`TimersFitState`), that frames wait
only for something and never in a MAC that is down (`QueueIsWatched`), and that the gap
and the pause still owed are covered by a timer or a stored request (`GapIsTimed`,
`PauseIsKept`). The assumption that a pause covers the gap is what `FramesStartInTurn` needs:
after a frame with a stored request there is a pause in place of the gap.

### The GOOSE source

`GooseSource_proofs` proves, for all sorted lists of events, all copy periods that end
before a heartbeat interval does, and all intervals:

| Theorem | Says |
|---|---|
| `InductiveInvariant` | `Spec => []GooseInv` |
| `TimerInFuture` | no packet is scheduled in the past |
| `NoLongSilence` | packets are never further apart than a heartbeat interval while events are left |
| `PrescribedTraffic` | what is sent is what the lists prescribe: the events, their copies, and the heartbeats no event covers |

All four assume `HeartbeatsLast`: the list of heartbeats reaches the end of the simulation. It
is built with a fixed number of entries (`ActivePacketSource.cc:48`), which is enough for
the networks of the thesis; longer simulations run out of heartbeats, as the observation on
`ActivePacketSource.cc:102` says. `MCGooseSource` has TLC evaluate the hypothesis for the run.

`GooseInv` says where in its lists the source stands. The one timer is set for an event
or a copy of it (`TimedByEvent`), or for the heartbeat erased last (`TimedByHeartbeat`). The code
chooses the next packet by comparing the fronts of two lists with a delay, so what is needed is
how these lie to each other: no copy is due after the next heartbeat
(`HeartbeatsAhead`), the next heartbeat is near (`NextIsNear`), and a heartbeat that was
erased has had its time or is covered by an event (`NoneMissed`). With these, nothing else
is prescribed between a packet and the one the timer is set for (`NextPrescribed`), so that
`SentSoFar`, that the packets sent and the pending one are those prescribed until
then, is kept. There is one lemma for each way in which the code sets the timer.

### Checked by TLC only

- Liveness (`KeepsCycling`, `UrgentIsServed`, `WaitingIsServed`, `GatesGoOn`, `Synchronises`,
  `FramesEnd`, `WaitingIsSent`): it needs `ENABLED`, which is out of the prover's reach.
- `GatesFollowSlots`: the last loop of `EagerGateScheduler` selects, splits and sorts the slots of a gate
  with operators on sequences that are defined by recursion over data.
- `ExactlyOnce`, which counts copies over a whole run.

## Not modelled

See the components with status `partly` and `not_modelled` in `PROJECT.json` for what is left
out of each. Two parts of the substation's own logic are missing: the packet buffer with the
removal of queued packets, and frame preemption with cut-through, which needs frames
in pieces where all modules here have whole ones. Clocks do not drift: the drift of an
oscillator is a real number that accumulates, and between two settings the models
count in whole units. The inherited parts of INET (routing, wireless,
transport, visualisation, spanning trees), by far the most of the repository, are used by the thesis as they
are. External solvers decide the schedules of the Z3 and TSNsched
configurators. The scripts and results in `examples/hitachi_test` are data.

## Plan

1. gPTP further down: a bridge's own Syncs with its residence time, which the error of
   its clock enters, and the responder's timestamp (`Gptp.cc:458`); on top of it the
   steps of the clock that `SynchronizedGates` takes as given.
2. `PacketBuffer` with `removePacket` and `removeAllPackets`.
3. Further proofs: the output of `EagerGateScheduler`, from slots to schedules; `Gptp` with requests that are sent
   before the last one is answered.
4. Spanning tree protocols, whose table operations the relay's model leaves out.
5. The findings' runs become checks of corrected variants if the code is corrected.
