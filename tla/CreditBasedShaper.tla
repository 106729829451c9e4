-------------------------- MODULE CreditBasedShaper --------------------------
(***************************************************************************)
(* One traffic class shaped by a CreditBasedGate                             *)
(* (queueing/gate/CreditBasedGate.cc): its queue, the credit based gate, the *)
(* transmission gate (PeriodicGate) behind it, and the line, which the class *)
(* shares with less urgent traffic.                                          *)
(*                                                                         *)
(* The code computes credits lazily, from the credit and the gain rate at    *)
(* the last update.  Here credit is the value such an update would find now; *)
(* what the code only changes in an update (whether the gate is open, the    *)
(* gain rate, the guard band flag, the change timer) changes in the same     *)
(* handlers as in the code, and may be stale in between.                     *)
(*                                                                         *)
(* The gain rate is 1 credit per time unit, so that the limit is reached at  *)
(* a whole time; frames and timers are those of EgressPort.                  *)
(***************************************************************************)
EXTENDS GateSchedule

CONSTANTS
    Lengths, MaxLength, \* line times of the frames that occur, the longest
    PacketCapacity,     \* frames the queue of the class holds
    Gap,                \* the interpacket gap
    SpendRate,          \* transmitCreditSpendRate, for idleCreditGainRate = 1
    Limit,              \* transmitCreditLimit
    MinCredit, MaxCredit,
    AccumulateCreditInGuardBand,
    Schedules,          \* [initiallyOpen, offset, durations] of transmission gates
    MaxArrivals,        \* bound: frames of the class arriving at one instant
    MaxOthers           \* bound: frames of other classes that wait

ASSUME ShaperAssumption ==
    /\ MaxLength \in Nat \ {0} /\ Lengths \subseteq 1..MaxLength
    /\ SpendRate \in Nat \ {0}
    /\ Gap \in Nat \ {0}
    /\ MinCredit \in Int /\ MaxCredit \in Int
    /\ MinCredit <= 0 /\ 0 <= MaxCredit
    /\ \A s \in Schedules : s.initiallyOpen \in BOOLEAN

VARIABLES
    queue,          \* frames of the class, head first
    others,         \* number of frames of other classes that could be sent
    credit,         \* currentCredit, as an update would compute it
    creditOpen,     \* isOpen_ of the credit based gate
    gainRate,       \* currentCreditGainRate
    creditTimer,    \* the credit based gate's change timer
    isTransmitting, isInterpacketGap,   \* of the credit based gate
    durations, isOpen, index, changeTimer, \* the transmission gate
    isInGuardBand,  \* isInGuardBand_ of the transmission gate
    serveTimer,     \* the server's timer is scheduled at the current time
    txEndTimer, gapLeft, gapTimer,      \* transmitter and gap inserter
    arrivals,       \* frames that arrived at this instant
    usage           \* history: line time used beyond the share of the class

shaper == <<creditOpen, gainRate, creditTimer>>
gate == <<durations, isOpen, index, changeTimer>>
phy == <<txEndTimer, gapLeft, gapTimer>>
vars == <<queue, others, credit, shaper, isTransmitting, isInterpacketGap, gate,
          isInGuardBand, serveTimer, phy, arrivals, usage>>

-----------------------------------------------------------------------------

HasAvailablePacket == queue # <<>>

CanPacketFlowThrough(frame) ==
    changeTimer = NotScheduled \/ frame <= changeTimer

(* Faulty CreditGateOffers: the gate passes frames when it is closed.        *)
OffersWhenClosed == HasAvailablePacket

(* CreditBasedGate::canPullPacket, then PeriodicGate::canPullPacket.         *)
CreditGateOffers == HasAvailablePacket /\ creditOpen
CanPull == CreditGateOffers /\ isOpen /\ CanPacketFlowThrough(Head(queue))

CanPush == gapLeft = 0 /\ txEndTimer = NotScheduled

(* What PeriodicGate::updateIsInGuardBand computes.                          *)
InGuardBandNow ==
    isOpen /\ CreditGateOffers /\ ~CanPacketFlowThrough(Head(queue))

(* Faulty GainRateNow: the gap after a frame is not paid for.                *)
GainRateWithFreeGap ==
    IF isTransmitting THEN -SpendRate
    ELSE IF ~isOpen \/ (~AccumulateCreditInGuardBand /\ isInGuardBand) THEN 0
    ELSE IF credit < 0 \/ HasAvailablePacket THEN 1
    ELSE 0

(* What updateCurrentCreditGainRate computes.                                *)
GainRateNow ==
    IF isTransmitting \/ isInterpacketGap THEN -SpendRate
    ELSE IF ~isOpen \/ (~AccumulateCreditInGuardBand /\ isInGuardBand) THEN 0
    ELSE IF credit < 0 \/ HasAvailablePacket THEN 1
    ELSE 0

(* Faulty TimeToLimit: no timer for a credit that rises to the limit.        *)
TimeToLimitWhenFalling ==
    IF gainRate < 0 /\ credit > Limit /\ (credit - Limit) % SpendRate = 0
    THEN (credit - Limit) \div SpendRate
    ELSE NotScheduled

(* What scheduleChangeTimer computes: when the credit will be at the limit.  *)
(* The timer for a credit that falls to the limit within a time unit is left *)
(* out, as it changes nothing: the gate is open at the limit, and stays so   *)
(* until the next update.                                                    *)
TimeToLimit ==
    IF gainRate > 0 /\ credit < Limit THEN Limit - credit
    ELSE IF gainRate < 0 /\ credit > Limit /\ (credit - Limit) % SpendRate = 0
    THEN (credit - Limit) \div SpendRate
    ELSE NotScheduled

Clamp(value) == IF value < MinCredit THEN MinCredit
                ELSE IF value > MaxCredit THEN MaxCredit ELSE value

(* The end of every handler of the credit based gate: updateCurrentState and *)
(* scheduleChangeTimer.  Opening or closing the gate notifies the            *)
(* transmission gate, which looks whether it is in the guard band and, if it *)
(* is open, wakes up the server; a change of the guard band comes back to    *)
(* this gate as a signal, before the handler ends.                           *)
(* looks: the transmission gate was also notified for another reason.        *)
UpdateCurrentState(looks) ==
    /\ creditOpen' = (credit' >= Limit)
    /\ isInGuardBand' = IF looks \/ creditOpen' # creditOpen
                        THEN InGuardBandNow' ELSE isInGuardBand
    /\ gainRate' = GainRateNow'
    /\ creditTimer' = TimeToLimit'

WakesServer == creditOpen' # creditOpen /\ isOpen'

TimerDue == changeTimer = 0 \/ creditTimer = 0 \/ txEndTimer = 0 \/ gapTimer = 0

-----------------------------------------------------------------------------

Init ==
    /\ queue = <<>>
    /\ others = 0
    /\ credit = 0
    /\ creditOpen = (credit >= Limit)
    /\ isTransmitting = FALSE
    /\ isInterpacketGap = FALSE
    /\ \E s \in Schedules :
        LET start == StartOf(s.initiallyOpen, s.offset, s.durations)
        IN  /\ durations = s.durations
            /\ isOpen = start.isOpen
            /\ index = start.index
            /\ changeTimer = start.timer
    /\ isInGuardBand = FALSE
    /\ gainRate = GainRateNow
    /\ creditTimer = TimeToLimit
    /\ serveTimer = TRUE
    /\ txEndTimer = NotScheduled
    /\ gapLeft = 0
    /\ gapTimer = NotScheduled
    /\ arrivals = 0
    /\ usage = 0

(* PacketQueue::pushPacket, then handleCanPullPacketChanged of the credit    *)
(* based gate, which passes it on if it is open.                             *)
Arrive(frame) ==
    /\ arrivals < MaxArrivals
    /\ arrivals' = arrivals + 1
    /\ queue' = IF Len(queue) < PacketCapacity THEN Append(queue, frame) ELSE queue
    /\ UNCHANGED <<others, credit, isTransmitting, isInterpacketGap, gate, phy, usage>>
    /\ UpdateCurrentState(creditOpen')
    /\ serveTimer' = (serveTimer \/ (creditOpen' /\ isOpen) \/ WakesServer)

ArriveOther ==
    /\ others < MaxOthers
    /\ others' = others + 1
    /\ serveTimer' = TRUE
    /\ UNCHANGED <<queue, credit, shaper, isTransmitting, isInterpacketGap, gate,
                   isInGuardBand, phy, arrivals, usage>>

(* Faulty ChangeGate: the change of the gate does not reach the credit       *)
(* based gate.                                                               *)
ChangeGateUnnoticed ==
    /\ changeTimer = 0
    /\ changeTimer' = DurationAt(durations, index)
    /\ index' = IndexAfter(durations, index)
    /\ isOpen' = ~isOpen
    /\ serveTimer' = TRUE
    /\ isInGuardBand' = InGuardBandNow'
    /\ UNCHANGED <<durations, queue, others, credit, shaper, isTransmitting, isInterpacketGap,
                   phy, arrivals, usage>>

(* PeriodicGate::handleMessage: the signals of open() and close(), and of    *)
(* the guard band they end in, reach the credit based gate.                  *)
ChangeGate ==
    /\ changeTimer = 0
    /\ changeTimer' = DurationAt(durations, index)
    /\ index' = IndexAfter(durations, index)
    /\ isOpen' = ~isOpen
    /\ serveTimer' = TRUE
    /\ UNCHANGED <<durations, queue, others, credit, isTransmitting, isInterpacketGap,
                   phy, arrivals, usage>>
    /\ UpdateCurrentState(TRUE)

(* Faulty CreditReachesLimit: the gate opens silently.                       *)
CreditReachesLimitSilently ==
    /\ creditTimer = 0
    /\ credit' = Limit
    /\ UNCHANGED <<queue, others, isTransmitting, isInterpacketGap, gate, phy,
                   serveTimer, arrivals, usage>>
    /\ UpdateCurrentState(FALSE)

(* CreditBasedGate::handleMessage.                                           *)
CreditReachesLimit ==
    /\ creditTimer = 0
    /\ credit' = Limit
    /\ UNCHANGED <<queue, others, isTransmitting, isInterpacketGap, gate, phy,
                   arrivals, usage>>
    /\ UpdateCurrentState(FALSE)
    /\ serveTimer' = (serveTimer \/ WakesServer)

(* PacketTransmitter::endTx; the tag of the frame tells the credit based     *)
(* gate whether the transmission was its own.                                *)
EndTx ==
    /\ txEndTimer = 0
    /\ txEndTimer' = NotScheduled
    /\ gapLeft' = Gap
    /\ gapTimer' = Gap
    /\ isTransmitting' = FALSE
    /\ isInterpacketGap' = (isInterpacketGap \/ isTransmitting)
    /\ UNCHANGED <<queue, others, credit, gate, arrivals, usage>>
    /\ IF isTransmitting
       THEN /\ UpdateCurrentState(FALSE)
            /\ serveTimer' = (serveTimer \/ WakesServer)
       ELSE UNCHANGED <<shaper, isInGuardBand, serveTimer>>

(* InterpacketGapInserter::handleMessage; the signal makes the credit based  *)
(* gate give up the credit it has no use for.                                *)
EndGap ==
    /\ gapTimer = 0
    /\ gapTimer' = NotScheduled
    /\ isInterpacketGap' = FALSE
    /\ UNCHANGED <<queue, others, isTransmitting, gate, txEndTimer, gapLeft,
                   arrivals, usage>>
    /\ IF isInterpacketGap
       THEN /\ credit' = IF HasAvailablePacket \/ credit < Limit
                         THEN credit ELSE Limit
            /\ UpdateCurrentState(FALSE)
            /\ serveTimer' = (serveTimer \/ WakesServer \/ CanPush)
       ELSE /\ UNCHANGED <<credit, shaper, isInGuardBand>>
            /\ serveTimer' = (serveTimer \/ CanPush)

ServeDue == serveTimer /\ ~TimerDue

(* InstantServer::processPackets; transmissionStarted reaches the credit     *)
(* based gate, which the frame carries the tag of.                           *)
Serve ==
    /\ ServeDue /\ CanPush /\ CanPull
    /\ queue' = Tail(queue)
    /\ txEndTimer' = Head(queue)
    /\ gapLeft' = Gap
    /\ isTransmitting' = TRUE
    /\ UNCHANGED <<others, credit, isInterpacketGap, gate, gapTimer, arrivals, usage>>
    /\ UpdateCurrentState(FALSE)
    /\ serveTimer' = WakesServer

ServeOther(frame) ==
    /\ ServeDue /\ CanPush /\ ~CanPull
    /\ others > 0
    /\ others' = others - 1
    /\ serveTimer' = FALSE
    /\ txEndTimer' = frame
    /\ gapLeft' = Gap
    /\ UNCHANGED <<queue, credit, shaper, isTransmitting, isInterpacketGap, gate,
                   isInGuardBand, gapTimer, arrivals, usage>>

ServeNothing ==
    /\ ServeDue
    /\ ~(CanPush /\ (CanPull \/ others > 0))
    /\ serveTimer' = FALSE
    /\ UNCHANGED <<queue, others, credit, shaper, isTransmitting, isInterpacketGap,
                   gate, isInGuardBand, phy, arrivals, usage>>

Tick ==
    /\ ~serveTimer
    /\ ~TimerDue
    /\ credit' = Clamp(credit + gainRate)
    /\ creditTimer' = TimerAfterTick(creditTimer)
    /\ changeTimer' = TimerAfterTick(changeTimer)
    /\ txEndTimer' = TimerAfterTick(txEndTimer)
    /\ gapTimer' = TimerAfterTick(gapTimer)
    /\ gapLeft' = IF gapLeft = 0 THEN 0 ELSE gapLeft - 1
    /\ usage' = IF isTransmitting \/ isInterpacketGap THEN usage + SpendRate
                ELSE IF usage > 0 THEN usage - 1 ELSE 0
    /\ arrivals' = 0
    /\ UNCHANGED <<queue, others, creditOpen, gainRate, isTransmitting,
                   isInterpacketGap, durations, isOpen, index, isInGuardBand, serveTimer>>

Event == \/ ChangeGate \/ CreditReachesLimit \/ EndTx \/ EndGap
         \/ Serve \/ (\E frame \in Lengths : ServeOther(frame)) \/ ServeNothing

Next == \/ \E frame \in Lengths : Arrive(frame)
        \/ ArriveOther
        \/ Event
        \/ Tick

Spec == Init /\ [][Next]_vars /\ WF_vars(Event) /\ WF_vars(Tick)

-----------------------------------------------------------------------------

Quiet == ~TimerDue /\ ~serveTimer

AlwaysOpen == durations = <<>>

(* Behind a gate that is always open, the credit stays between what one      *)
(* frame and its gap can spend and what one frame of another class and its   *)
(* gap can earn (IEEE 802.1Q, Annex L).                                      *)
LoCredit == -SpendRate * (MaxLength + Gap)
HiCredit == MaxLength + Gap
CreditBounded == AlwaysOpen => LoCredit <= credit /\ credit <= HiCredit

(* The class never uses more of the line than its share, but for a burst     *)
(* that the credit bounds limit: in any interval, what it spends exceeds     *)
(* what it could have earned by at most the range of the credit.             *)
UsageBounded == AlwaysOpen => usage <= HiCredit - LoCredit

(* Unless its own frame or gap is on the line, the gate knows whether it has *)
(* the credit: neither the change timer nor an update has been missed.  At   *)
(* the limit it is open, as in initialize and setCurrentCredit; the          *)
(* documentation (CreditBasedGate.ned:15 and :38) has it closed there.       *)
OpenByCredit ==
    Quiet /\ ~isTransmitting /\ ~isInterpacketGap
        => creditOpen = (credit >= Limit)

(* The gain rate is the one the current state calls for: every event that    *)
(* it depends on reaches the gate.                                           *)
GainRateIsCurrent == Quiet => gainRate = GainRateNow

(* A waiting class gets the credit and is served, if its transmission gate   *)
(* is open.                                                                  *)
WaitingIsServed == HasAvailablePacket ~> isTransmitting

=============================================================================
