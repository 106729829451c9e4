-------------------------- MODULE EthernetMac_proofs --------------------------
(***************************************************************************)
(* Theorems about EthernetMac.  All follow from one inductive invariant:     *)
(* what the transmitter is doing decides which timer runs and whether there  *)
(* is a frame on the line, what is left of the gap and of a pause is covered *)
(* by that timer or by a stored request, and an idle transmitter leaves      *)
(* nothing in the queue.                                                     *)
(***************************************************************************)
EXTENDS EthernetMac, TLAPS

(* Types of the variables.                                                   *)
TypeOK ==
    /\ linked \in BOOLEAN /\ connected \in BOOLEAN
    /\ operationalState \in {"OPERATING", "STOPPING", "NOT_OPERATING"}
    /\ transmitState \in {"TX_IDLE", "WAIT_IFG", "TRANSMITTING", "PAUSE"}
    /\ currentTxFrame \in Lengths \cup {NoFrame}
    /\ endTxTimer \in Nat \cup {NotScheduled}
    /\ endIfgTimer \in Nat \cup {NotScheduled}
    /\ endPauseTimer \in Nat \cup {NotScheduled}
    /\ activeOperationTimeout \in Nat \cup {NotScheduled}
    /\ pauseUnitsRequested \in PauseTimes \cup {0}
    /\ queue \in Seq(Lengths)
    /\ failed \in {"no", "down"}
    /\ gapOwed \in 0..Gap /\ pauseLeft \in Nat

(* Exactly the timer of the present state runs.                              *)
TimersFitState ==
    /\ endTxTimer # NotScheduled <=> transmitState = "TRANSMITTING"
    /\ endIfgTimer # NotScheduled <=> transmitState = "WAIT_IFG"
    /\ endPauseTimer # NotScheduled <=> transmitState = "PAUSE"
    /\ currentTxFrame # NoFrame <=> transmitState = "TRANSMITTING"

(* The frames wait for something, and only in a MAC that is up and connected.*)
QueueIsWatched ==
    /\ transmitState = "TX_IDLE" => queue = <<>>
    /\ ~connected => transmitState = "TX_IDLE"
    /\ ~linked => ~connected
    /\ ~Up => queue = <<>> /\ currentTxFrame = NoFrame

(* A gap that is not over is covered by a timer.                             *)
GapIsTimed ==
    /\ transmitState \in {"TX_IDLE", "TRANSMITTING"} => gapOwed = 0
    /\ transmitState = "WAIT_IFG" => gapOwed <= endIfgTimer
    /\ transmitState = "PAUSE" => gapOwed <= endPauseTimer

(* A pause that is not over is covered by its timer or a stored request.     *)
PauseIsKept ==
    IF transmitState = "PAUSE"
    THEN pauseLeft <= endPauseTimer
    ELSE pauseLeft <= pauseUnitsRequested

IInv == TypeOK /\ TimersFitState /\ QueueIsWatched /\ GapIsTimed /\ PauseIsKept

-----------------------------------------------------------------------------

USE LengthsAssumption, GapAssumption, PauseTimesAssumption, StopTimeoutAssumption
    DEF NoFrame, NotScheduled

LEMMA InitInv == Init => IInv
  BY DEF Init, IInv, TypeOK, TimersFitState, QueueIsWatched, GapIsTimed, PauseIsKept, Up

(* Whatever is dropped with the connection, the invariant holds.             *)
LEMMA DisconnectInv ==
    ASSUME IInv, ProcessDisconnect,
           connected' = FALSE, linked' \in BOOLEAN, failed' = failed,
           operationalState' \in {"OPERATING", "STOPPING", "NOT_OPERATING"},
           activeOperationTimeout' \in Nat \cup {NotScheduled},
           pauseUnitsRequested' \in PauseTimes \cup {0}
    PROVE  IInv'
<1>1. /\ transmitState' = "TX_IDLE" /\ currentTxFrame' = NoFrame /\ queue' = <<>>
      /\ endTxTimer' = NotScheduled /\ endIfgTimer' = NotScheduled
      /\ endPauseTimer' = NotScheduled /\ gapOwed' = 0 /\ pauseLeft' = 0
  BY DEF ProcessDisconnect, DropFrames
<1>2. TypeOK'
  <2>1. failed' \in {"no", "down"} /\ <<>> \in Seq(Lengths) /\ 0 \in 0..Gap
    BY DEF IInv, TypeOK
  <2> QED
    BY <1>1, <2>1 DEF TypeOK
<1>3. TimersFitState' /\ QueueIsWatched' /\ GapIsTimed' /\ PauseIsKept'
  BY <1>1 DEF TimersFitState, QueueIsWatched, GapIsTimed, PauseIsKept, Up
<1> QED
  BY <1>2, <1>3 DEF IInv

LEMMA GoDownInv ==
    ASSUME IInv, GoDown, pauseUnitsRequested' \in PauseTimes \cup {0}
    PROVE  IInv'
<1>1. /\ ProcessDisconnect /\ connected' = FALSE /\ failed' = failed
      /\ linked' \in BOOLEAN
      /\ operationalState' = "NOT_OPERATING"
      /\ activeOperationTimeout' = NotScheduled
  BY DEF GoDown, IInv, TypeOK
<1> QED
  BY <1>1, DisconnectInv

(* What PullFrom does to a transmitter that has no frame, and no timer but   *)
(* the one that has just expired.                                            *)
LEMMA PullFromInv ==
    ASSUME NEW STATE frames, frames \in Seq(Lengths), PullFrom(frames),
           ~connected => Len(frames) <= 1
    PROVE  /\ queue' \in Seq(Lengths)
           /\ currentTxFrame' \in Lengths \cup {NoFrame}
           /\ endTxTimer' \in Nat \cup {NotScheduled}
           /\ transmitState' \in {"TX_IDLE", "TRANSMITTING"}
           /\ endTxTimer' # NotScheduled <=> transmitState' = "TRANSMITTING"
           /\ currentTxFrame' # NoFrame <=> transmitState' = "TRANSMITTING"
           /\ transmitState' = "TX_IDLE" => queue' = <<>>
           /\ ~connected => transmitState' = "TX_IDLE"
<1>1. CASE frames # <<>>
  <2>1. Head(frames) \in Lengths /\ Tail(frames) \in Seq(Lengths)
    BY <1>1
  <2>2. Len(frames) <= 1 => Tail(frames) = <<>>
    BY <1>1
  <2>3. \A f \in Lengths : f \in Nat /\ f # NoFrame /\ f # NotScheduled
    OBVIOUS
  <2>4. CASE connected
    BY <1>1, <2>1, <2>3, <2>4 DEF PullFrom
  <2>5. CASE ~connected
    BY <1>1, <2>1, <2>2, <2>5 DEF PullFrom
  <2> QED
    BY <2>4, <2>5
<1>2. CASE frames = <<>>
  BY <1>2 DEF PullFrom
<1> QED
  BY <1>1, <1>2

LEMMA ArriveInv ==
    ASSUME IInv, NEW frame \in Lengths, Arrive(frame)
    PROVE  IInv'
<1>1. Append(queue, frame) \in Seq(Lengths)
  BY DEF IInv, TypeOK
<1>2. CASE transmitState = "TX_IDLE" /\ currentTxFrame = NoFrame
  <2>1. PullFrom(Append(queue, frame)) /\ Len(Append(queue, frame)) <= 1
    BY <1>2 DEF Arrive, IInv, QueueIsWatched
  <2> QED
    BY <1>1, <1>2, <2>1, PullFromInv
       DEF Arrive, history, lifecycle, IInv, TypeOK, TimersFitState, QueueIsWatched,
           GapIsTimed, PauseIsKept, Up
<1>3. CASE ~(transmitState = "TX_IDLE" /\ currentTxFrame = NoFrame)
  BY <1>1, <1>3
     DEF Arrive, history, lifecycle, IInv, TypeOK, TimersFitState, QueueIsWatched,
         GapIsTimed, PauseIsKept, Up
<1> QED
  BY <1>2, <1>3

(* The timers that let the transmitter go on expire in their states.         *)
LEMMA EndIfgInv ==
    ASSUME IInv, EndIfg
    PROVE  IInv'
<1>1. /\ transmitState = "WAIT_IFG" /\ currentTxFrame = NoFrame
      /\ gapOwed = 0 /\ connected /\ queue \in Seq(Lengths)
  BY DEF EndIfg, IInv, TypeOK, TimersFitState, GapIsTimed, QueueIsWatched
<1>2. CASE operationalState = "STOPPING" /\ NothingLeft(currentTxFrame)
  BY <1>2, GoDownInv DEF EndIfg, Finishing, IInv, TypeOK
<1>3. CASE ~(operationalState = "STOPPING" /\ NothingLeft(currentTxFrame))
  <2>1. PullFrom(queue)
    BY <1>3 DEF EndIfg, Finishing
  <2>2. /\ endIfgTimer' = NotScheduled /\ endPauseTimer' = NotScheduled
        /\ failed' = "no" /\ gapOwed' = 0 /\ pauseLeft' = pauseLeft
        /\ UNCHANGED <<linked, connected, operationalState, activeOperationTimeout>>
        /\ pauseUnitsRequested' = pauseUnitsRequested
        /\ Up
    BY <1>1, <1>3 DEF EndIfg, Finishing, history, lifecycle, IInv, TypeOK, TimersFitState
  <2>3. TypeOK' /\ TimersFitState' /\ QueueIsWatched'
    BY <1>1, <2>1, <2>2, PullFromInv DEF IInv, TypeOK, TimersFitState, QueueIsWatched, Up
  <2>4. GapIsTimed' /\ PauseIsKept'
    BY <1>1, <2>1, <2>2, PullFromInv DEF IInv, TypeOK, GapIsTimed, PauseIsKept
  <2> QED
    BY <2>3, <2>4 DEF IInv
<1> QED
  BY <1>2, <1>3

LEMMA EndPauseInv ==
    ASSUME IInv, EndPause
    PROVE  IInv'
<1>1. /\ transmitState = "PAUSE" /\ currentTxFrame = NoFrame
      /\ gapOwed = 0 /\ pauseLeft = 0 /\ connected /\ queue \in Seq(Lengths)
  BY DEF EndPause, IInv, TypeOK, TimersFitState, GapIsTimed, PauseIsKept, QueueIsWatched
<1>2. CASE operationalState = "STOPPING" /\ NothingLeft(currentTxFrame)
  BY <1>2, GoDownInv DEF EndPause, Finishing, IInv, TypeOK
<1>3. CASE ~(operationalState = "STOPPING" /\ NothingLeft(currentTxFrame))
  <2>1. PullFrom(queue)
    BY <1>3 DEF EndPause, Finishing
  <2>2. /\ endIfgTimer' = NotScheduled /\ endPauseTimer' = NotScheduled
        /\ failed' = "no" /\ gapOwed' = 0 /\ pauseLeft' = pauseLeft
        /\ UNCHANGED <<linked, connected, operationalState, activeOperationTimeout>>
        /\ pauseUnitsRequested' = pauseUnitsRequested
        /\ Up
    BY <1>1, <1>3 DEF EndPause, Finishing, history, lifecycle, IInv, TypeOK, TimersFitState
  <2>3. TypeOK' /\ TimersFitState' /\ QueueIsWatched'
    BY <1>1, <2>1, <2>2, PullFromInv DEF IInv, TypeOK, TimersFitState, QueueIsWatched, Up
  <2>4. GapIsTimed' /\ PauseIsKept'
    BY <1>1, <2>1, <2>2, PullFromInv DEF IInv, TypeOK, GapIsTimed, PauseIsKept
  <2> QED
    BY <2>3, <2>4 DEF IInv
<1> QED
  BY <1>2, <1>3

LEMMA EndTxInv ==
    ASSUME IInv, EndTx
    PROVE  IInv'
<1>1. transmitState = "TRANSMITTING" /\ currentTxFrame # NoFrame /\ connected
  BY DEF EndTx, IInv, TypeOK, TimersFitState, QueueIsWatched
<1>2. CASE operationalState = "STOPPING" /\ NothingLeft(NoFrame)
  BY <1>2, GoDownInv DEF EndTx, Finishing
<1>3. CASE ~(operationalState = "STOPPING" /\ NothingLeft(NoFrame))
  <2>1. /\ currentTxFrame' = NoFrame /\ endTxTimer' = NotScheduled
        /\ queue' = queue /\ gapOwed' = Gap /\ pauseLeft' = pauseLeft
        /\ pauseUnitsRequested' = 0 /\ failed' = "no"
        /\ UNCHANGED <<linked, connected, operationalState, activeOperationTimeout>>
    BY <1>1, <1>3 DEF EndTx, Finishing, lifecycle
  <2>2. endIfgTimer = NotScheduled /\ endPauseTimer = NotScheduled
    BY <1>1 DEF IInv, TimersFitState, TypeOK
  <2>3. CASE pauseUnitsRequested > 0
    <3>1. /\ transmitState' = "PAUSE" /\ endPauseTimer' = pauseUnitsRequested
          /\ endIfgTimer' = endIfgTimer
      BY <1>3, <2>3 DEF EndTx, Finishing
    <3>2. pauseUnitsRequested \in Nat /\ Gap <= pauseUnitsRequested
      BY <2>3 DEF IInv, TypeOK
    <3> QED
      BY <1>1, <2>1, <2>2, <3>1, <3>2
         DEF EndTx, IInv, TypeOK, TimersFitState, QueueIsWatched, GapIsTimed, PauseIsKept, Up
  <2>4. CASE ~(pauseUnitsRequested > 0)
    <3>1. /\ transmitState' = "WAIT_IFG" /\ endIfgTimer' = Gap
          /\ endPauseTimer' = endPauseTimer
      BY <1>3, <2>4 DEF EndTx, Finishing
    <3>2. pauseLeft = 0
      BY <1>1, <2>4 DEF IInv, TypeOK, PauseIsKept
    <3> QED
      BY <1>1, <2>1, <2>2, <3>1, <3>2
         DEF EndTx, IInv, TypeOK, TimersFitState, QueueIsWatched, GapIsTimed, PauseIsKept, Up
  <2> QED
    BY <2>3, <2>4
<1> QED
  BY <1>2, <1>3

LEMMA ReceivePauseInv ==
    ASSUME IInv, NEW time \in PauseTimes, ReceivePause(time)
    PROVE  IInv'
<1>1. pauseUnitsRequested' \in PauseTimes \cup {0}
  BY DEF ReceivePause, StoredPause, IInv, TypeOK
<1>2. CASE operationalState = "STOPPING" /\ NothingLeft(currentTxFrame)
  BY <1>1, <1>2, GoDownInv DEF ReceivePause, Finishing
<1>3. CASE ~(operationalState = "STOPPING" /\ NothingLeft(currentTxFrame))
  <2>1. /\ pauseLeft' = time /\ failed' = failed
        /\ UNCHANGED <<currentTxFrame, endTxTimer, endIfgTimer, queue>>
        /\ UNCHANGED <<linked, connected, operationalState, activeOperationTimeout>>
        /\ connected
        /\ gapOwed' = IF transmitState = "PAUSE" /\ time = 0 THEN 0 ELSE gapOwed
    BY <1>3 DEF ReceivePause, Finishing, lifecycle
  <2>2. CASE transmitState = "PAUSE" \/ (transmitState = "TX_IDLE" /\ time > 0)
    <3>1. transmitState' = "PAUSE" /\ endPauseTimer' = time
      BY <1>3, <2>2 DEF ReceivePause, Finishing
    <3>2. TypeOK' /\ TimersFitState' /\ QueueIsWatched' /\ PauseIsKept'
      BY <1>1, <2>1, <2>2, <3>1
         DEF IInv, TypeOK, TimersFitState, QueueIsWatched, PauseIsKept, Up
    <3>3. time \in Nat /\ (time # 0 => Gap <= time)
      OBVIOUS
    <3>4. GapIsTimed'
      BY <2>1, <2>2, <3>1, <3>3 DEF IInv, TypeOK, GapIsTimed
    <3> QED
      BY <3>2, <3>4 DEF IInv
  <2>3. CASE ~(transmitState = "PAUSE" \/ (transmitState = "TX_IDLE" /\ time > 0))
    <3>1. transmitState' = transmitState /\ endPauseTimer' = endPauseTimer
      BY <1>3, <2>3 DEF ReceivePause, Finishing
    <3>2. TypeOK' /\ TimersFitState' /\ QueueIsWatched' /\ GapIsTimed'
      BY <1>1, <2>1, <2>3, <3>1
         DEF IInv, TypeOK, TimersFitState, QueueIsWatched, GapIsTimed, Up
    <3>3. PauseIsKept'
      BY <2>1, <2>3, <3>1 DEF ReceivePause, StoredPause, IInv, TypeOK, PauseIsKept
    <3> QED
      BY <3>2, <3>3 DEF IInv
  <2> QED
    BY <2>2, <2>3
<1> QED
  BY <1>2, <1>3

LEMMA TickInv ==
    ASSUME IInv, Tick
    PROVE  IInv'
<1>1. /\ endTxTimer # 0 /\ endIfgTimer # 0 /\ endPauseTimer # 0
      /\ activeOperationTimeout # 0
  BY DEF Tick, Timers
<1>2. TypeOK' /\ TimersFitState' /\ QueueIsWatched'
  BY <1>1 DEF Tick, After, IInv, TypeOK, TimersFitState, QueueIsWatched, Up
<1>3. GapIsTimed' /\ PauseIsKept'
  BY <1>1 DEF Tick, After, IInv, TypeOK, TimersFitState, GapIsTimed, PauseIsKept
<1> QED
  BY <1>2, <1>3 DEF IInv

LEMMA LifeCycleInv ==
    ASSUME IInv, Stop \/ Crash \/ Timeout \/ Start \/ ReceiveData
    PROVE  IInv'
<1>1. CASE Stop
  BY <1>1 DEF Stop, NothingLeft, transmitter, history, IInv, TypeOK, TimersFitState,
              QueueIsWatched, GapIsTimed, PauseIsKept, Up
<1>2. CASE Crash \/ Timeout \/ ReceiveData
  BY <1>2, GoDownInv DEF Crash, Timeout, ReceiveData, IInv, TypeOK
<1>3. CASE Start
  BY <1>3 DEF Start, transmitter, history, IInv, TypeOK, TimersFitState,
              QueueIsWatched, GapIsTimed, PauseIsKept, Up
<1> QED
  BY <1>1, <1>2, <1>3

LEMMA LinkInv ==
    ASSUME IInv, CutLink \/ ConnectLink
    PROVE  IInv'
<1>1. CASE CutLink /\ connected
  <2>1. /\ ProcessDisconnect /\ connected' = FALSE /\ linked' = FALSE
        /\ UNCHANGED <<operationalState, activeOperationTimeout, pauseUnitsRequested, failed>>
    BY <1>1 DEF CutLink, lifecycle
  <2>2. /\ operationalState' \in {"OPERATING", "STOPPING", "NOT_OPERATING"}
        /\ activeOperationTimeout' \in Nat \cup {NotScheduled}
        /\ pauseUnitsRequested' \in PauseTimes \cup {0}
        /\ linked' \in BOOLEAN
    BY <2>1 DEF IInv, TypeOK
  <2> QED
    BY <2>1, <2>2, DisconnectInv
<1>2. CASE CutLink /\ ~connected
  <2>1. /\ ~connected /\ connected' = FALSE /\ linked' = FALSE
        /\ UNCHANGED <<operationalState, activeOperationTimeout, transmitState,
                       currentTxFrame, endTxTimer, endIfgTimer, endPauseTimer>>
        /\ UNCHANGED <<pauseUnitsRequested, queue, failed, gapOwed, pauseLeft>>
    BY <1>2 DEF CutLink, lifecycle, transmitter, history
  <2>2. TypeOK' /\ TimersFitState'
    BY <2>1 DEF IInv, TypeOK, TimersFitState, Up
  <2>3. QueueIsWatched' /\ GapIsTimed' /\ PauseIsKept'
    BY <2>1 DEF IInv, QueueIsWatched, GapIsTimed, PauseIsKept, Up
  <2> QED
    BY <2>2, <2>3 DEF IInv
<1>3. CASE ConnectLink
  BY <1>3 DEF ConnectLink, lifecycle, transmitter, history, IInv, TypeOK, TimersFitState,
              QueueIsWatched, GapIsTimed, PauseIsKept, Up
<1> QED
  BY <1>1, <1>2, <1>3

LEMMA OtherInv ==
    ASSUME IInv, TimerWhenDown \/ UNCHANGED vars
    PROVE  IInv'
<1>1. /\ UNCHANGED <<linked, connected, operationalState, activeOperationTimeout,
                     transmitState, currentTxFrame, endTxTimer, endIfgTimer>>
      /\ UNCHANGED <<endPauseTimer, pauseUnitsRequested, queue, gapOwed, pauseLeft>>
  BY DEF TimerWhenDown, vars, lifecycle, transmitter, history
<1>2. failed' = failed \/ failed' = "down"
  BY DEF TimerWhenDown, vars
<1>3. TypeOK' /\ TimersFitState'
  BY <1>1, <1>2 DEF IInv, TypeOK, TimersFitState, Up
<1>4. QueueIsWatched' /\ GapIsTimed' /\ PauseIsKept'
  BY <1>1, <1>2 DEF IInv, QueueIsWatched, GapIsTimed, PauseIsKept, Up
<1> QED
  BY <1>3, <1>4 DEF IInv

LEMMA NextInv == IInv /\ [Next]_vars => IInv'
<1> SUFFICES ASSUME IInv, [Next]_vars PROVE IInv'
  OBVIOUS
<1>1. ASSUME NEW frame \in Lengths, Arrive(frame) PROVE IInv'
  BY <1>1, ArriveInv
<1>2. ASSUME NEW time \in PauseTimes, ReceivePause(time) PROVE IInv'
  BY <1>2, ReceivePauseInv
<1>3. CASE Expire
  BY <1>3, EndTxInv, EndIfgInv, EndPauseInv, LifeCycleInv, OtherInv DEF Expire
<1>4. CASE Stop \/ Crash \/ Start \/ ReceiveData
  BY <1>4, LifeCycleInv
<1>5. CASE CutLink \/ ConnectLink
  BY <1>5, LinkInv
<1>6. CASE Tick
  BY <1>6, TickInv
<1>7. CASE UNCHANGED vars
  BY <1>7, OtherInv
<1> QED
  BY <1>1, <1>2, <1>3, <1>4, <1>5, <1>6, <1>7 DEF Next

(* The invariant holds for all frame lengths, pauses, capacities and gaps,   *)
(* whatever the network, the link and the scenario do to the MAC.            *)
THEOREM InductiveInvariant == Spec => []IInv
  BY InitInv, NextInv, PTL DEF Spec

(* Each timer of the MAC expires in the state it was set for (the checks of  *)
(* handleEndTxPeriod, handleEndIFGPeriod and handleEndPausePeriod).          *)
THEOREM ChecksHold == Spec => []NoCheckFails
<1>1. IInv => NoCheckFails
  BY DEF IInv, TypeOK, NoCheckFails
<1> QED
  BY <1>1, InductiveInvariant, PTL

-----------------------------------------------------------------------------

(* A frame starts where the transmitter is idle, or becomes so in the step.  *)
LEMMA StartStep ==
    ASSUME IInv, Next, Starts
    PROVE  gapOwed = 0 /\ (pauseLeft > 0 => pauseUnitsRequested > 0)
<1> USE DEF Starts
<1>1. ASSUME NEW frame \in Lengths, Arrive(frame)
      PROVE  gapOwed = 0 /\ (pauseLeft > 0 => pauseUnitsRequested > 0)
  <2>1. transmitState = "TX_IDLE"
    BY <1>1 DEF Arrive
  <2> QED
    BY <2>1 DEF IInv, TypeOK, GapIsTimed, PauseIsKept
<1>2. CASE EndIfg
  <2>1. transmitState = "WAIT_IFG" /\ endIfgTimer = 0
    BY <1>2 DEF EndIfg, IInv, TimersFitState
  <2> QED
    BY <2>1 DEF IInv, TypeOK, GapIsTimed, PauseIsKept
<1>3. CASE EndPause
  <2>1. transmitState = "PAUSE" /\ endPauseTimer = 0
    BY <1>3 DEF EndPause, IInv, TimersFitState
  <2> QED
    BY <2>1 DEF IInv, TypeOK, GapIsTimed, PauseIsKept
<1>4. CASE EndTx
  BY <1>4 DEF EndTx, Finishing, GoDown, ProcessDisconnect, DropFrames
<1>5. ASSUME NEW time \in PauseTimes, ReceivePause(time)
      PROVE  FALSE
  BY <1>5 DEF ReceivePause, Finishing, GoDown, ProcessDisconnect, DropFrames
<1>6. CASE Timeout \/ Crash \/ ReceiveData
  BY <1>6 DEF Timeout, Crash, ReceiveData, GoDown, ProcessDisconnect, DropFrames
<1>7. CASE Stop \/ Start \/ TimerWhenDown \/ ConnectLink \/ Tick
  BY <1>7 DEF Stop, Start, TimerWhenDown, ConnectLink, Tick, transmitter
<1>8. CASE CutLink
  BY <1>8 DEF CutLink, ProcessDisconnect, DropFrames, transmitter
<1> QED
  BY <1>1, <1>2, <1>3, <1>4, <1>5, <1>6, <1>7, <1>8 DEF Next, Expire

(* Frames are the gap apart, and a pause in force holds them back.           *)
THEOREM FramesStartInTurn == Spec => StartsInTurn
<1>1. IInv /\ [Next]_vars =>
        [Starts => gapOwed = 0 /\ (pauseLeft > 0 => pauseUnitsRequested > 0)]_vars
  BY StartStep
<1> QED
  BY <1>1, InductiveInvariant, PTL DEF Spec, StartsInTurn

-----------------------------------------------------------------------------

(* The steps in which a stop ends: its timeout, or the end of a handler that *)
(* has found nothing left.                                                   *)
LEMMA StopStep ==
    ASSUME IInv, Next, operationalState = "STOPPING", operationalState' = "NOT_OPERATING"
    PROVE  \/ activeOperationTimeout = 0
           \/ queue = <<>> /\ (currentTxFrame = NoFrame \/ endTxTimer = 0)
<1>1. ASSUME NEW frame \in Lengths, Arrive(frame) PROVE FALSE
  BY <1>1 DEF Arrive
<1>2. CASE EndIfg
  BY <1>2 DEF EndIfg, Finishing, NothingLeft, lifecycle
<1>3. CASE EndPause
  BY <1>3 DEF EndPause, Finishing, NothingLeft, lifecycle
<1>4. CASE EndTx
  BY <1>4 DEF EndTx, Finishing, NothingLeft, lifecycle
<1>5. ASSUME NEW time \in PauseTimes, ReceivePause(time)
      PROVE  queue = <<>> /\ currentTxFrame = NoFrame
  BY <1>5 DEF ReceivePause, Finishing, NothingLeft, lifecycle
<1>6. CASE Timeout \/ ReceiveData
  BY <1>6 DEF Timeout, ReceiveData, NothingLeft
<1>7. CASE Stop \/ Crash \/ Start \/ TimerWhenDown \/ ConnectLink \/ Tick \/ CutLink
  BY <1>7 DEF Stop, Crash, Start, TimerWhenDown, ConnectLink, Tick, CutLink, lifecycle, Up
<1> QED
  BY <1>1, <1>2, <1>3, <1>4, <1>5, <1>6, <1>7 DEF Next, Expire

(* An orderly stop that has not timed out has sent every frame.              *)
THEOREM OrderlyStop == Spec => StopLosesNothing
<1>1. IInv /\ [Next]_vars =>
        [operationalState = "STOPPING" /\ operationalState' = "NOT_OPERATING"
            => \/ activeOperationTimeout = 0
               \/ queue = <<>> /\ (currentTxFrame = NoFrame \/ endTxTimer = 0)]_vars
  BY StopStep
<1> QED
  BY <1>1, InductiveInvariant, PTL DEF Spec, StopLosesNothing

=============================================================================
