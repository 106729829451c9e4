----------------------------- MODULE EthernetMac -----------------------------
(***************************************************************************)
(* inet::EthernetMac, the full duplex MAC of the end devices, with the queue *)
(* it pulls frames from: transmission, interframe gap, PAUSE flow control,   *)
(* and the life cycle of the node (start, orderly stop with a timeout,       *)
(* crash) and of the link (cut and connected again).                         *)
(*                                                                         *)
(* Frames are their transmission times.  A message handler runs in one       *)
(* event; events that are due at the same time come in any order.            *)
(***************************************************************************)
EXTENDS Integers, Sequences

CONSTANTS
    Lengths,            \* the transmission times of frames
    Gap,                \* the time of INTERFRAME_GAP_BITS
    PauseTimes,         \* what PAUSE frames ask for: 512 bit times per unit, or 0
    PacketCapacity,     \* of the queue
    StopTimeout         \* stopOperationTimeout

ASSUME LengthsAssumption == Lengths \subseteq Nat \ {0}
ASSUME GapAssumption == Gap \in Nat \ {0}
\* the shortest pause covers the gap (512 and 96 bit times)
ASSUME PauseTimesAssumption ==
    PauseTimes \subseteq Nat /\ \A p \in PauseTimes : p # 0 => p >= Gap
ASSUME PacketCapacityAssumption == PacketCapacity \in Nat \ {0}
ASSUME StopTimeoutAssumption == StopTimeout \in Nat \ {0}

VARIABLES
    linked,                 \* both channels of the link are connected
    connected,              \* what the MAC takes it for
    operationalState,
    activeOperationTimeout, \* timers: the time left, or NotScheduled
    transmitState,
    currentTxFrame,         \* or NoFrame
    endTxTimer, endIfgTimer, endPauseTimer,
    pauseUnitsRequested,    \* as a time
    queue,
    failed,                 \* the error the simulation has ended with
    gapOwed,                \* history: what is left of the gap after a frame
    pauseLeft               \* history: what is left of the last pause asked for

lifecycle == <<operationalState, activeOperationTimeout>>
transmitter == <<transmitState, currentTxFrame, endTxTimer, endIfgTimer, endPauseTimer>>
history == <<gapOwed, pauseLeft>>
vars == <<linked, connected, lifecycle, transmitter, pauseUnitsRequested, queue,
          failed, history>>

NoFrame == 0
NotScheduled == -1
Timers == {endTxTimer, endIfgTimer, endPauseTimer}

Up == operationalState # "NOT_OPERATING"

(* EthernetMacBase::initialize.                                              *)
Init ==
    /\ linked \in BOOLEAN /\ connected = linked
    /\ operationalState = "OPERATING"
    /\ activeOperationTimeout = NotScheduled
    /\ transmitState = "TX_IDLE"
    /\ currentTxFrame = NoFrame
    /\ endTxTimer = NotScheduled
    /\ endIfgTimer = NotScheduled
    /\ endPauseTimer = NotScheduled
    /\ pauseUnitsRequested = 0
    /\ queue = <<>>
    /\ failed = "no"
    /\ gapOwed = 0 /\ pauseLeft = 0

-----------------------------------------------------------------------------

(* processConnectDisconnect of a MAC that is not connected, but one timer.   *)
DropFrames ==
    /\ transmitState' = "TX_IDLE"
    /\ currentTxFrame' = NoFrame
    /\ endTxTimer' = NotScheduled
    /\ endIfgTimer' = NotScheduled
    /\ queue' = <<>>
    /\ gapOwed' = 0 /\ pauseLeft' = 0

ProcessDisconnectKeepingPause == DropFrames /\ UNCHANGED endPauseTimer    \* faulty
ProcessDisconnect == DropFrames /\ endPauseTimer' = NotScheduled

(* The operation finishes with everything dropped that is left: an orderly   *)
(* stop, one that took too long, and a crash.                                *)
GoDown ==
    /\ connected' = FALSE
    /\ ProcessDisconnect
    /\ operationalState' = "NOT_OPERATING"
    /\ activeOperationTimeout' = NotScheduled
    /\ UNCHANGED <<linked, failed>>

(* Faulty NothingLeft: the frame on the line is forgotten.                   *)
NothingLeftInQueue(frame) == queue = <<>>

(* processAtHandleMessageFinished ends every message handler.                *)
NothingLeft(frame) == frame = NoFrame /\ queue = <<>>

Finishing(Handler, frame) ==
    IF operationalState = "STOPPING" /\ NothingLeft(frame)
    THEN GoDown
    ELSE Handler /\ UNCHANGED <<linked, connected, lifecycle>>

(* What an idle transmitter does with a queue: dequeuePacket and             *)
(* handleUpperPacket, which drops the frame if there is no link.             *)
PullFrom(frames) ==
    IF frames # <<>> /\ connected
    THEN /\ transmitState' = "TRANSMITTING"
         /\ currentTxFrame' = Head(frames)
         /\ endTxTimer' = Head(frames)
         /\ queue' = Tail(frames)
    ELSE /\ transmitState' = "TX_IDLE"
         /\ currentTxFrame' = NoFrame
         /\ endTxTimer' = NotScheduled
         /\ queue' = IF frames = <<>> THEN <<>> ELSE Tail(frames)

(* A frame of the upper layers, which only run while the MAC is operating:   *)
(* it is put into the queue, or dropped if that is full, and the MAC is told *)
(* (handleCanPullPacketChanged).                                             *)
Arrive(frame) ==
    /\ failed = "no" /\ operationalState = "OPERATING"
    /\ Len(queue) < PacketCapacity
    /\ IF transmitState = "TX_IDLE" /\ currentTxFrame = NoFrame
       THEN PullFrom(Append(queue, frame))
       ELSE queue' = Append(queue, frame) /\ UNCHANGED <<transmitState, currentTxFrame, endTxTimer>>
    /\ UNCHANGED <<linked, connected, lifecycle, endIfgTimer, endPauseTimer,
                   pauseUnitsRequested, failed, history>>

-----------------------------------------------------------------------------

(* handleEndIFGPeriod.                                                       *)
EndIfg ==
    /\ failed = "no" /\ Up /\ endIfgTimer = 0
    /\ Finishing(/\ PullFrom(queue)
                 /\ endIfgTimer' = NotScheduled
                 /\ failed' = IF transmitState = "WAIT_IFG" /\ currentTxFrame = NoFrame
                              THEN "no" ELSE "state"
                 /\ UNCHANGED <<endPauseTimer, history>>,
                 currentTxFrame)
    /\ UNCHANGED pauseUnitsRequested

(* Faulty EndPause: the frames that wait are not looked at.                  *)
EndPauseIdly ==
    /\ failed = "no" /\ Up /\ endPauseTimer = 0
    /\ Finishing(/\ transmitState' = "TX_IDLE"
                 /\ endPauseTimer' = NotScheduled
                 /\ UNCHANGED <<currentTxFrame, endTxTimer, queue, endIfgTimer, failed, history>>,
                 currentTxFrame)
    /\ UNCHANGED pauseUnitsRequested

(* handleEndPausePeriod.                                                     *)
EndPause ==
    /\ failed = "no" /\ Up /\ endPauseTimer = 0
    /\ Finishing(/\ PullFrom(queue)
                 /\ endPauseTimer' = NotScheduled
                 /\ failed' = IF transmitState = "PAUSE" /\ currentTxFrame = NoFrame
                              THEN "no" ELSE "state"
                 /\ UNCHANGED <<endIfgTimer, history>>,
                 currentTxFrame)
    /\ UNCHANGED pauseUnitsRequested

(* handleEndTxPeriod: a pause that was asked for meanwhile, or else the gap. *)
EndTx ==
    /\ failed = "no" /\ Up /\ endTxTimer = 0
    /\ Finishing(/\ endTxTimer' = NotScheduled
                 /\ currentTxFrame' = NoFrame
                 /\ IF pauseUnitsRequested > 0
                    THEN /\ transmitState' = "PAUSE"
                         /\ endPauseTimer' = pauseUnitsRequested
                         /\ UNCHANGED endIfgTimer
                    ELSE /\ transmitState' = "WAIT_IFG"
                         /\ endIfgTimer' = Gap
                         /\ UNCHANGED endPauseTimer
                 /\ failed' = IF transmitState = "TRANSMITTING" /\ currentTxFrame # NoFrame
                              THEN "no" ELSE "state"
                 /\ gapOwed' = Gap
                 /\ UNCHANGED <<queue, pauseLeft>>,
                 NoFrame)
    /\ pauseUnitsRequested' = 0

(* Faulty StoredPause: a request is not replaced by a later one.             *)
StoredPauseFirst(time) ==
    IF transmitState \in {"WAIT_IFG", "TRANSMITTING"} /\ pauseUnitsRequested = 0
    THEN time ELSE pauseUnitsRequested

(* processPauseCommand of a busy transmitter stores the request ...          *)
StoredPause(time) ==
    IF transmitState \in {"WAIT_IFG", "TRANSMITTING"} THEN time ELSE pauseUnitsRequested

(* ... and of one that is idle or in a pause it starts a pause, or sets what *)
(* is left of it, which ends at once for 0 (and with it the gap's claim).    *)
ReceivePause(time) ==
    /\ failed = "no" /\ Up /\ connected
    /\ Finishing(/\ IF transmitState = "PAUSE" \/ (transmitState = "TX_IDLE" /\ time > 0)
                    THEN transmitState' = "PAUSE" /\ endPauseTimer' = time
                    ELSE UNCHANGED <<transmitState, endPauseTimer>>
                 /\ gapOwed' = IF transmitState = "PAUSE" /\ time = 0 THEN 0 ELSE gapOwed
                 /\ pauseLeft' = time
                 /\ UNCHANGED <<currentTxFrame, endTxTimer, endIfgTimer, queue, failed>>,
                 currentTxFrame)
    /\ pauseUnitsRequested' = StoredPause(time)

(* Any other frame from the network is passed on; it matters to a MAC that   *)
(* has nothing left to do but has not been told (see CutLink).               *)
ReceiveData ==
    /\ failed = "no" /\ connected
    /\ operationalState = "STOPPING" /\ NothingLeft(currentTxFrame)
    /\ GoDown
    /\ UNCHANGED pauseUnitsRequested

-----------------------------------------------------------------------------
(* Life cycle of the node and of the link.                                   *)

(* handleStopOperation: with nothing to do the MAC is down at once, and its  *)
(* timers stay as they are.                                                  *)
Stop ==
    /\ failed = "no" /\ operationalState = "OPERATING"
    /\ IF NothingLeft(currentTxFrame)
       THEN operationalState' = "NOT_OPERATING" /\ UNCHANGED activeOperationTimeout
       ELSE operationalState' = "STOPPING" /\ activeOperationTimeout' = StopTimeout
    /\ UNCHANGED <<linked, connected, transmitter, pauseUnitsRequested, queue, failed, history>>

(* handleActiveOperationTimeout, and a crash of the node.                    *)
Timeout ==
    /\ failed = "no" /\ activeOperationTimeout = 0
    /\ GoDown
    /\ UNCHANGED pauseUnitsRequested

Crash ==
    /\ failed = "no" /\ operationalState = "OPERATING"
    /\ GoDown
    /\ UNCHANGED pauseUnitsRequested

(* handleStartOperation; transmitState and pauseUnitsRequested stay.         *)
Start ==
    /\ failed = "no" /\ ~Up
    /\ operationalState' = "OPERATING"
    /\ connected' = linked
    /\ UNCHANGED <<linked, activeOperationTimeout, transmitter, pauseUnitsRequested,
                   queue, failed, history>>

(* refreshConnection, whatever the operational state; no message is handled, *)
(* so a MAC that is stopping does not notice that it has nothing left.       *)
CutLink ==
    /\ failed = "no" /\ linked
    /\ linked' = FALSE
    /\ connected' = FALSE
    /\ IF connected
       THEN ProcessDisconnect
       ELSE UNCHANGED <<transmitter, queue, history>>
    /\ UNCHANGED <<lifecycle, pauseUnitsRequested, failed>>

ConnectLink ==
    /\ failed = "no" /\ ~linked
    /\ linked' = TRUE
    /\ connected' = TRUE
    /\ UNCHANGED <<lifecycle, transmitter, pauseUnitsRequested, queue, failed, history>>

(* OperationalMixin::handleMessageWhenDown.                                  *)
TimerWhenDown ==
    /\ failed = "no" /\ ~Up
    /\ 0 \in Timers
    /\ failed' = "down"
    /\ UNCHANGED <<linked, connected, lifecycle, transmitter, pauseUnitsRequested,
                   queue, history>>

After(timer) == IF timer = NotScheduled THEN NotScheduled ELSE timer - 1

Tick ==
    /\ failed = "no"
    /\ 0 \notin Timers \cup {activeOperationTimeout}
    /\ endTxTimer' = After(endTxTimer)
    /\ endIfgTimer' = After(endIfgTimer)
    /\ endPauseTimer' = After(endPauseTimer)
    /\ activeOperationTimeout' = After(activeOperationTimeout)
    /\ gapOwed' = IF gapOwed = 0 THEN 0 ELSE gapOwed - 1
    /\ pauseLeft' = IF pauseLeft = 0 THEN 0 ELSE pauseLeft - 1
    /\ UNCHANGED <<linked, connected, operationalState, transmitState, currentTxFrame,
                   pauseUnitsRequested, queue, failed>>

Expire == EndTx \/ EndIfg \/ EndPause \/ Timeout \/ TimerWhenDown

Next ==
    \/ \E frame \in Lengths : Arrive(frame)
    \/ \E time \in PauseTimes : ReceivePause(time)
    \/ ReceiveData
    \/ Expire
    \/ Stop \/ Crash \/ Start
    \/ CutLink \/ ConnectLink
    \/ Tick

(* The event loop goes on, whatever the network and the scenario do.         *)
Spec == Init /\ [][Next]_vars /\ WF_vars(Expire) /\ WF_vars(Tick)

-----------------------------------------------------------------------------

(* No consistency check of the MAC's handlers fails: however crashes, cuts,  *)
(* stops and PAUSEs cross the transmissions, each timer expires in the state *)
(* it was set for, and no frame is in the way.  But an orderly stop of an    *)
(* idle MAC leaves the timer of the gap or the pause running, which ends the *)
(* simulation if it expires while the MAC is down.                           *)
NoCheckFails == failed \in {"no", "down"}

(* Frames are the gap apart, and no frame starts while a pause is in force,  *)
(* but for one after a request that came in the gap: the request stays       *)
(* stored until that frame is over (processPauseCommand, handleEndTxPeriod). *)
Starts == currentTxFrame = NoFrame /\ currentTxFrame' # NoFrame
StartsInTurn ==
    [][Starts => gapOwed = 0 /\ (pauseLeft > 0 => pauseUnitsRequested > 0)]_vars

(* A stop that does not run into its timeout has sent all the frames that    *)
(* were left, and has not cut the last one (processAtHandleMessageFinished). *)
StopLosesNothing ==
    [][operationalState = "STOPPING" /\ operationalState' = "NOT_OPERATING"
        => \/ activeOperationTimeout = 0
           \/ queue = <<>> /\ (currentTxFrame = NoFrame \/ endTxTimer = 0)]_vars

(* A frame in the queue comes to the line, or is dropped, unless PAUSE       *)
(* frames come in for ever.                                                  *)
WaitingIsSent ==
    \/ []<><<\E time \in PauseTimes : ReceivePause(time)>>_vars
    \/ queue # <<>> ~> (queue = <<>> \/ transmitState = "TRANSMITTING")

=============================================================================
