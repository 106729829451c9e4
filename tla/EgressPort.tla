----------------------------- MODULE EgressPort -----------------------------
(***************************************************************************)
(* The egress side of a TsnSwitch port: the queues, transmission gates and   *)
(* priority scheduler of an Ieee8021qTimeAwareShaper, the InstantServer that *)
(* drains them, the InterpacketGapInserter and the PacketTransmitter of the  *)
(* PHY layer.                                                                *)
(*                                                                         *)
(* A frame is the number of time units the line needs for it, PHY header     *)
(* included: the (data length + extraLength) / bitrate of the guard band.    *)
(* Timers hold the time left until their event, or NotScheduled; an event    *)
(* whose timer is 0 is due, and time passes only when none is.               *)
(***************************************************************************)
EXTENDS GateSchedule

CONSTANTS
    NumClasses,     \* traffic classes 0..NumClasses-1, the highest is urgent
    Lengths,        \* line times of the frames that occur
    MaxLength,      \* the longest of them
    PacketCapacity, \* packetCapacity of each DropTailQueue
    Gap,            \* duration of the interpacket gap
    InitiallyOpen,  \* per class: parameters of its transmission gate,
    FirstDuration,  \* (with the time to the first change, and the index of
    FirstIndex,     \* the duration that follows it, as StartOf gives them)
    Durations,
    MaxArrivals     \* bound: frames that arrive at one instant

Classes == 0..NumClasses-1
TopClass == NumClasses-1

ASSUME NumClassesAssumption == NumClasses \in Nat \ {0}
ASSUME LengthsAssumption ==
    /\ Lengths \subseteq Nat \ {0}
    /\ MaxLength \in Nat
    /\ \A l \in Lengths : l <= MaxLength
ASSUME PacketCapacityAssumption == PacketCapacity \in Nat \ {0}
ASSUME GapAssumption == Gap \in Nat \ {0}
ASSUME GatesAssumption ==
    /\ Durations \in [Classes -> Seq(Nat \ {0})]
    /\ InitiallyOpen \in [Classes -> BOOLEAN]
    /\ FirstDuration \in [Classes -> Nat \cup {NotScheduled}]
    /\ FirstIndex \in [Classes -> Nat]
    /\ \A c \in Classes :
        IF Durations[c] = <<>>
        THEN FirstDuration[c] = NotScheduled
        ELSE FirstDuration[c] > 0 /\ FirstIndex[c] < Len(Durations[c])
ASSUME MaxArrivalsAssumption == MaxArrivals \in Nat

VARIABLES
    queue,          \* per class: the frames in queue[c], head first
    isOpen,         \* per class: isOpen_ of transmissionGate[c]
    index,          \* per class: next index into the durations of the gate
    changeTimer,    \* per class: timer of the gate
    serveTimer,     \* the server's timer is scheduled at the current time
    txEndTimer,     \* timer of the transmitter; scheduled = transmitting
    txClass,        \* the class of the frame being, or last, transmitted
    gapLeft,        \* time until packetEndTime + duration, 0 when it is past
    gapTimer,       \* the gap inserter's timer
    arrivals,       \* frames that arrived at this instant
    sinceTxEnd,     \* history: time since the line was last in use, up to Gap
    wait            \* history: for how long the urgent head could have been sent

gates == <<isOpen, index, changeTimer>>
phy == <<txEndTimer, txClass, gapLeft, gapTimer, sinceTxEnd>>
vars == <<queue, gates, serveTimer, phy, arrivals, wait>>

-----------------------------------------------------------------------------
(* What the modules of the port answer when asked.                          *)

(* Faulty CanPacketFlowThrough: the guard band is one time unit too short.   *)
CanPacketOverrun(c, frame) ==
    changeTimer[c] = NotScheduled \/ frame <= changeTimer[c] + 1

(* PeriodicGate::canPacketFlowThrough, with the implicit guard band.         *)
CanPacketFlowThrough(c, frame) ==
    changeTimer[c] = NotScheduled \/ frame <= changeTimer[c]

(* PacketGateBase::canPullSomePacket, for the gate of class c.               *)
CanPull(c) ==
    /\ queue[c] # <<>>
    /\ isOpen[c]
    /\ CanPacketFlowThrough(c, Head(queue[c]))

Pullable == {c \in Classes : CanPull(c)}

(* Faulty CanPush: the gap is not waited for.                                *)
CanPushInGap == txEndTimer = NotScheduled

(* InterpacketGapInserter::canPushSomePacket down to the transmitter's.      *)
CanPush == gapLeft = 0 /\ txEndTimer = NotScheduled

(* Faulty IsScheduled: the inputs are served in index order.                 *)
IsScheduledInIndexOrder(c) == c \in Pullable /\ \A d \in Pullable : c <= d

(* PriorityScheduler::schedulePacket with reverseOrder.                      *)
IsScheduled(c) == c \in Pullable /\ \A d \in Pullable : d <= c

TimerDue ==
    \/ \E c \in Classes : changeTimer[c] = 0
    \/ txEndTimer = 0
    \/ gapTimer = 0

-----------------------------------------------------------------------------

Init ==
    /\ queue = [c \in Classes |-> <<>>]
    /\ isOpen = InitiallyOpen
    /\ index = FirstIndex
    /\ changeTimer = FirstDuration
    /\ serveTimer = TRUE    \* the transmitter announces itself at start
    /\ txEndTimer = NotScheduled
    /\ txClass = 0
    /\ gapLeft = 0
    /\ gapTimer = NotScheduled
    /\ arrivals = 0
    /\ sinceTxEnd = Gap
    /\ wait = 0

(* Faulty Arrive: the queue is overloaded only beyond its capacity.          *)
ArriveBeyondCapacity(c, frame) ==
    /\ arrivals < MaxArrivals
    /\ arrivals' = arrivals + 1
    /\ queue' = IF Len(queue[c]) <= PacketCapacity
                THEN [queue EXCEPT ![c] = Append(@, frame)]
                ELSE queue
    /\ serveTimer' = (serveTimer \/ isOpen[c])
    /\ UNCHANGED <<gates, phy, wait>>

(* PacketQueue::pushPacket with a PacketAtCollectionEndDropper: the frame is *)
(* inserted, and removed again if the queue is then overloaded.  An open     *)
(* gate passes the notification on to the server.                            *)
Arrive(c, frame) ==
    /\ arrivals < MaxArrivals
    /\ arrivals' = arrivals + 1
    /\ queue' = IF Len(queue[c]) < PacketCapacity
                THEN [queue EXCEPT ![c] = Append(@, frame)]
                ELSE queue
    /\ serveTimer' = (serveTimer \/ isOpen[c])
    /\ UNCHANGED <<gates, phy, wait>>

(* PeriodicGate::handleMessage; open() and close() both notify the server.   *)
ChangeGate(c) ==
    /\ changeTimer[c] = 0
    /\ changeTimer' = [changeTimer EXCEPT ![c] = DurationAt(Durations[c], index[c])]
    /\ index' = [index EXCEPT ![c] = IndexAfter(Durations[c], @)]
    /\ isOpen' = [isOpen EXCEPT ![c] = ~@]
    /\ serveTimer' = TRUE
    /\ UNCHANGED <<queue, phy, arrivals, wait>>

(* PacketTransmitter::endTx: the gap inserter takes the time as the end of   *)
(* the packet, and, asked whether it can push, starts its timer.             *)
EndTx ==
    /\ txEndTimer = 0
    /\ txEndTimer' = NotScheduled
    /\ gapLeft' = Gap
    /\ gapTimer' = Gap
    /\ sinceTxEnd' = 0
    /\ UNCHANGED <<queue, gates, serveTimer, txClass, arrivals, wait>>

(* Faulty EndGap: nobody is told that the line is free.                      *)
EndGapSilently ==
    /\ gapTimer = 0
    /\ gapTimer' = NotScheduled
    /\ UNCHANGED <<queue, gates, serveTimer, txEndTimer, txClass, gapLeft,
                   sinceTxEnd, arrivals, wait>>

(* InterpacketGapInserter::handleMessage.                                    *)
EndGap ==
    /\ gapTimer = 0
    /\ gapTimer' = NotScheduled
    /\ serveTimer' = (serveTimer \/ CanPush)
    /\ UNCHANGED <<queue, gates, txEndTimer, txClass, gapLeft, sinceTxEnd,
                   arrivals, wait>>

(* The server's timer was put into the event queue last, at this instant:    *)
(* the other events due go first.                                            *)
ServeDue == serveTimer /\ ~TimerDue

(* InstantServer::processPackets: the frame pulled occupies the transmitter, *)
(* so the loop ends after it; the gap inserter, which measures from the end  *)
(* of the last packet, takes it as one of no duration until it has ended.    *)
Serve(c) ==
    /\ ServeDue
    /\ CanPush
    /\ IsScheduled(c)
    /\ serveTimer' = FALSE
    /\ queue' = [queue EXCEPT ![c] = Tail(@)]
    /\ txEndTimer' = Head(queue[c])
    /\ txClass' = c
    /\ gapLeft' = Gap
    /\ wait' = IF c = TopClass \/ ~CanPull(TopClass) THEN 0 ELSE wait
    /\ UNCHANGED <<gates, gapTimer, arrivals, sinceTxEnd>>

ServeNothing ==
    /\ ServeDue
    /\ ~(CanPush /\ Pullable # {})
    /\ serveTimer' = FALSE
    /\ UNCHANGED <<queue, gates, phy, arrivals, wait>>

(* Time passes when the event queue holds nothing for the current time.      *)
Tick ==
    /\ ~serveTimer
    /\ ~TimerDue
    /\ changeTimer' = [c \in Classes |-> TimerAfterTick(changeTimer[c])]
    /\ txEndTimer' = TimerAfterTick(txEndTimer)
    /\ gapTimer' = TimerAfterTick(gapTimer)
    /\ gapLeft' = IF gapLeft = 0 THEN 0 ELSE gapLeft - 1
    /\ sinceTxEnd' = IF txEndTimer # NotScheduled THEN 0
                     ELSE IF sinceTxEnd < Gap THEN sinceTxEnd + 1 ELSE Gap
    /\ wait' = IF CanPull(TopClass) THEN wait + 1 ELSE 0
    /\ arrivals' = 0
    /\ UNCHANGED <<queue, isOpen, index, serveTimer, txClass>>

Event ==
    \/ \E c \in Classes : ChangeGate(c) \/ Serve(c)
    \/ EndTx
    \/ EndGap
    \/ ServeNothing

Next ==
    \/ \E c \in Classes, frame \in Lengths : Arrive(c, frame)
    \/ Event
    \/ Tick

(* The simulation executes the events that are due, then lets time pass;     *)
(* whether frames arrive is up to the network.                               *)
Spec == Init /\ [][Next]_vars /\ WF_vars(Event) /\ WF_vars(Tick)

-----------------------------------------------------------------------------

(* Every variable stays in its range, queues within their capacity.          *)
TypeOK ==
    /\ queue \in [Classes -> Seq(Lengths)]
    /\ \A c \in Classes : Len(queue[c]) <= PacketCapacity
    /\ isOpen \in [Classes -> BOOLEAN]
    /\ index \in [Classes -> Nat]
    /\ changeTimer \in [Classes -> Nat \cup {NotScheduled}]
    /\ serveTimer \in BOOLEAN
    /\ txEndTimer \in Nat \cup {NotScheduled}
    /\ txClass \in Classes
    /\ gapLeft \in 0..Gap
    /\ gapTimer \in (0..Gap) \cup {NotScheduled}
    /\ arrivals \in 0..MaxArrivals
    /\ sinceTxEnd \in 0..Gap
    /\ wait \in Nat

Transmitting == txEndTimer > 0

(* A frame on the line ends before its transmission gate closes: the gate is *)
(* open for as long as the frame lasts, whatever happens on the port while   *)
(* it is being sent.                                                         *)
NoOverrun ==
    Transmitting =>
        /\ isOpen[txClass]
        /\ changeTimer[txClass] # NotScheduled => txEndTimer <= changeTimer[txClass]

(* No wake-up is lost: when nothing is due at this instant any more, an idle *)
(* line means that no gate lets a frame pass.                                *)
NoLostWakeup ==
    ~TimerDue /\ ~serveTimer => ~(CanPush /\ Pullable # {})

(* A frame that can be sent in the most urgent class is never held up for    *)
(* longer than one frame of another class and one gap.                       *)
UrgentWaitBounded == wait <= MaxLength + Gap

(* A frame starts only on a line that has been silent for the gap: the       *)
(* assertion at the head of startTx, and the interframe gap of Ethernet.     *)
StartsOnSilentLine ==
    [][txEndTimer' > txEndTimer
        => txEndTimer = NotScheduled /\ sinceTxEnd = Gap]_vars

(* A frame at the head of the most urgent class is sent in the end, if its   *)
(* gate opens for long enough: for the frame, a frame of another class that  *)
(* is on the line, and the gap after it.                                     *)
UrgentIsServed == queue[TopClass] # <<>> ~> (Transmitting /\ txClass = TopClass)

LineBusyFor == IF txEndTimer # NotScheduled THEN txEndTimer + Gap ELSE gapLeft

(* The port implements PriorityPort: however the events of gates, server,    *)
(* gap inserter and transmitter interleave, it sends what a port without any *)
(* of them would send, in the same order and at the same time, and its chain *)
(* of wake-ups never lets time pass while a frame could be sent.             *)
Window(c) == IF isOpen[c] THEN changeTimer[c] ELSE 0

Port == INSTANCE PriorityPort WITH
            window <- [c \in Classes |-> Window(c)],
            busy <- LineBusyFor

ImplementsPriorityPort == Port!Spec

(* The inductive invariant behind the theorems about this module.            *)

(* A gate has a timer as long as it has a schedule.                          *)
GatesRun ==
    \A c \in Classes :
        IF Durations[c] = <<>>
        THEN changeTimer[c] = NotScheduled
        ELSE changeTimer[c] # NotScheduled /\ index[c] < Len(Durations[c])

(* The gap inserter's timer runs exactly while a gap holds the line back.    *)
GapIsTimed ==
    IF txEndTimer = NotScheduled
    THEN /\ sinceTxEnd + gapLeft = Gap
         /\ IF gapTimer = NotScheduled THEN gapLeft = 0 ELSE gapTimer = gapLeft
    ELSE gapTimer = NotScheduled

(* Something is going to wake up the server if it has anything to do.        *)
SomeoneWakesTheServer ==
    \/ serveTimer
    \/ txEndTimer # NotScheduled
    \/ gapTimer # NotScheduled
    \/ Pullable = {}

(* The time the urgent head has waited and the time until the line is free.  *)
WaitIsShort == wait + LineBusyFor <= MaxLength + Gap

IInv == TypeOK /\ GatesRun /\ GapIsTimed /\ NoOverrun
        /\ SomeoneWakesTheServer /\ WaitIsShort

=============================================================================
