-------------------------- MODULE EgressPort_proofs --------------------------
(***************************************************************************)
(* Proofs about EgressPort for any number of classes, any schedules of the   *)
(* gates, frame lengths, queue capacity and gap.                             *)
(***************************************************************************)
EXTENDS EgressPort, TLAPS

USE DEF NotScheduled, Classes

(* The index into a list of durations stays inside the list.                 *)
LEMMA IndexStaysInside ==
    ASSUME NEW n \in Nat \ {0}, NEW i \in Nat
    PROVE  (i + 1) % n \in 0..n-1
  OBVIOUS

(* What a change event finds: a list with a duration at the current index.   *)
LEMMA ChangeFindsDuration ==
    ASSUME TypeOK, GatesRun, NEW c \in Classes, changeTimer[c] = 0
    PROVE  /\ Durations[c] # <<>>
           /\ DurationAt(Durations[c], index[c]) \in Nat \ {0}
           /\ IndexAfter(Durations[c], index[c]) \in Nat
           /\ IndexAfter(Durations[c], index[c]) < Len(Durations[c])
<1>1. Durations[c] # <<>> /\ index[c] < Len(Durations[c])
  BY DEF GatesRun
<1>2. index[c] \in Nat /\ Durations[c] \in Seq(Nat \ {0})
  BY GatesAssumption DEF TypeOK
<1>3. index[c] + 1 \in 1..Len(Durations[c]) /\ Len(Durations[c]) \in Nat \ {0}
  BY <1>1, <1>2
<1>4. Durations[c][index[c] + 1] \in Nat \ {0}
  BY <1>2, <1>3
<1>5. (index[c] + 1) % Len(Durations[c]) \in 0..Len(Durations[c])-1
  BY <1>2, <1>3, IndexStaysInside
<1> QED
  BY <1>1, <1>3, <1>4, <1>5 DEF DurationAt, IndexAfter

(* A frame the server can pull fits into the queue's and the gate's bounds.  *)
LEMMA PulledFrame ==
    ASSUME TypeOK, NEW c \in Pullable
    PROVE  /\ c \in Classes
           /\ Head(queue[c]) \in Lengths
           /\ Head(queue[c]) \in Nat \ {0}
           /\ Head(queue[c]) <= MaxLength
           /\ isOpen[c]
           /\ changeTimer[c] # NotScheduled => Head(queue[c]) <= changeTimer[c]
           /\ Tail(queue[c]) \in Seq(Lengths)
           /\ Len(Tail(queue[c])) <= PacketCapacity
<1>1. c \in Classes /\ queue[c] # <<>> /\ queue[c] \in Seq(Lengths)
  BY DEF Pullable, CanPull, TypeOK
<1>2. Head(queue[c]) \in Lengths /\ Tail(queue[c]) \in Seq(Lengths)
  BY <1>1
<1>3. Len(Tail(queue[c])) <= PacketCapacity
  <2>1. Len(queue[c]) <= PacketCapacity /\ Len(queue[c]) \in Nat
    BY <1>1 DEF TypeOK
  <2>2. Len(Tail(queue[c])) = Len(queue[c]) - 1
    BY <1>1
  <2> QED
    BY <2>1, <2>2, PacketCapacityAssumption
<1>4. /\ isOpen[c]
      /\ changeTimer[c] # NotScheduled => Head(queue[c]) <= changeTimer[c]
  BY DEF Pullable, CanPull, CanPacketFlowThrough
<1> QED
  BY <1>1, <1>2, <1>3, <1>4, LengthsAssumption

-----------------------------------------------------------------------------

LEMMA InitIInv == Init => IInv
<1> SUFFICES ASSUME Init PROVE IInv
  OBVIOUS
<1> USE DEF Init
<1>1. TypeOK
  BY NumClassesAssumption, LengthsAssumption, PacketCapacityAssumption,
     GapAssumption, GatesAssumption, MaxArrivalsAssumption DEF TypeOK
<1>2. GatesRun
  BY GatesAssumption DEF GatesRun
<1>3. GapIsTimed
  BY GapAssumption DEF GapIsTimed
<1>4. NoOverrun /\ SomeoneWakesTheServer
  BY DEF NoOverrun, Transmitting, SomeoneWakesTheServer
<1>5. WaitIsShort
  BY GapAssumption, LengthsAssumption DEF WaitIsShort, LineBusyFor
<1> QED
  BY <1>1, <1>2, <1>3, <1>4, <1>5 DEF IInv

LEMMA ArriveIInv ==
    ASSUME IInv, NEW c \in Classes, NEW frame \in Lengths, Arrive(c, frame)
    PROVE  IInv'
<1> USE DEF IInv, Arrive, gates, phy
<1>1. TypeOK'
  <2>1. queue[c] \in Seq(Lengths) /\ Len(queue[c]) \in Nat
    BY DEF TypeOK
  <2>2. Append(queue[c], frame) \in Seq(Lengths)
        /\ Len(Append(queue[c], frame)) = Len(queue[c]) + 1
    BY <2>1
  <2>3. /\ queue' \in [Classes -> Seq(Lengths)]
        /\ \A d \in Classes : Len(queue'[d]) <= PacketCapacity
    <3>1. CASE Len(queue[c]) < PacketCapacity
      BY <2>1, <2>2, <3>1, PacketCapacityAssumption DEF TypeOK
    <3>2. CASE ~(Len(queue[c]) < PacketCapacity)
      BY <3>2 DEF TypeOK
    <3> QED
      BY <3>1, <3>2
  <2>4. arrivals' \in 0..MaxArrivals
    BY MaxArrivalsAssumption DEF TypeOK
  <2>5. serveTimer' \in BOOLEAN
    BY DEF TypeOK
  <2> QED
    BY <2>3, <2>4, <2>5 DEF TypeOK
<1>2. GatesRun' /\ GapIsTimed' /\ NoOverrun' /\ WaitIsShort'
  BY DEF GatesRun, GapIsTimed, NoOverrun, Transmitting, WaitIsShort, LineBusyFor
<1>3. SomeoneWakesTheServer'
  <2>1. CASE isOpen[c]
    BY <2>1 DEF SomeoneWakesTheServer
  <2>2. CASE ~isOpen[c]
    <3>1. Pullable' = Pullable
      <4>1. ASSUME NEW d \in Classes PROVE CanPull(d)' <=> CanPull(d)
        <5>1. CASE d = c
          BY <2>2, <5>1 DEF CanPull
        <5>2. CASE d # c
          BY <5>2 DEF CanPull, CanPacketFlowThrough, TypeOK
        <5> QED
          BY <5>1, <5>2
      <4> QED
        BY <4>1 DEF Pullable
    <3> QED
      BY <3>1 DEF SomeoneWakesTheServer
  <2> QED
    BY <2>1, <2>2
<1> QED
  BY <1>1, <1>2, <1>3

LEMMA ChangeGateIInv ==
    ASSUME IInv, NEW c \in Classes, ChangeGate(c)
    PROVE  IInv'
<1> USE DEF IInv, ChangeGate, phy
<1> DEFINE d == DurationAt(Durations[c], index[c])
           i == IndexAfter(Durations[c], index[c])
<1>1. Durations[c] # <<>> /\ d \in Nat \ {0} /\ i \in Nat /\ i < Len(Durations[c])
  BY ChangeFindsDuration
<1>2. TypeOK'
  <2>1. changeTimer' \in [Classes -> Nat \cup {NotScheduled}]
    BY <1>1 DEF TypeOK
  <2>2. index' \in [Classes -> Nat]
    BY <1>1 DEF TypeOK
  <2>3. isOpen' \in [Classes -> BOOLEAN]
    BY DEF TypeOK
  <2> QED
    BY <2>1, <2>2, <2>3 DEF TypeOK
<1>3. GatesRun'
  <2> SUFFICES ASSUME NEW e \in Classes
               PROVE  IF Durations[e] = <<>>
                      THEN changeTimer'[e] = NotScheduled
                      ELSE /\ changeTimer'[e] # NotScheduled
                           /\ index'[e] < Len(Durations[e])
    BY DEF GatesRun
  <2>1. CASE e = c
    BY <2>1, <1>1 DEF TypeOK
  <2>2. CASE e # c
    BY <2>2 DEF GatesRun, TypeOK
  <2> QED
    BY <2>1, <2>2
<1>4. NoOverrun'
  <2>1. Transmitting => txClass # c
    BY DEF NoOverrun, Transmitting, TypeOK
  <2> QED
    BY <2>1 DEF NoOverrun, Transmitting, TypeOK
<1>5. GapIsTimed' /\ SomeoneWakesTheServer' /\ WaitIsShort'
  BY DEF GapIsTimed, SomeoneWakesTheServer, WaitIsShort, LineBusyFor
<1> QED
  BY <1>2, <1>3, <1>4, <1>5

LEMMA EndTxIInv == ASSUME IInv, EndTx PROVE IInv'
<1> USE GapAssumption DEF IInv, EndTx, gates
<1>1. TypeOK'
  BY DEF TypeOK
<1>2. GatesRun' /\ NoOverrun'
  BY DEF GatesRun, NoOverrun, Transmitting
<1>3. GapIsTimed' /\ SomeoneWakesTheServer'
  BY DEF GapIsTimed, SomeoneWakesTheServer
<1>4. WaitIsShort'
  BY DEF WaitIsShort, LineBusyFor, TypeOK
<1> QED
  BY <1>1, <1>2, <1>3, <1>4

LEMMA EndGapIInv == ASSUME IInv, EndGap PROVE IInv'
<1> USE DEF IInv, EndGap, gates
<1>1. txEndTimer = NotScheduled /\ gapLeft = 0
  BY DEF GapIsTimed
<1>2. TypeOK'
  BY DEF TypeOK
<1>3. GatesRun' /\ NoOverrun' /\ WaitIsShort'
  BY DEF GatesRun, NoOverrun, Transmitting, WaitIsShort, LineBusyFor
<1>4. GapIsTimed' /\ SomeoneWakesTheServer'
  BY <1>1 DEF GapIsTimed, SomeoneWakesTheServer, CanPush
<1> QED
  BY <1>2, <1>3, <1>4

(* A server that may push finds the gap over and its timer spent.            *)
LEMMA ServeFindsSilentLine ==
    ASSUME IInv, ServeDue, CanPush
    PROVE  /\ txEndTimer = NotScheduled
           /\ gapTimer = NotScheduled
           /\ gapLeft = 0
           /\ sinceTxEnd = Gap
<1>1. txEndTimer = NotScheduled /\ gapLeft = 0 /\ gapTimer # 0
  BY DEF CanPush, ServeDue, TimerDue
<1> QED
  BY <1>1, GapAssumption DEF IInv, GapIsTimed, TypeOK

LEMMA ServeIInv ==
    ASSUME IInv, NEW c \in Classes, Serve(c)
    PROVE  IInv'
<1> USE DEF IInv, Serve, gates
<1> DEFINE frame == Head(queue[c])
<1>1. c \in Pullable
  BY DEF IsScheduled
<1>2. /\ frame \in Nat \ {0} /\ frame <= MaxLength
      /\ isOpen[c]
      /\ changeTimer[c] # NotScheduled => frame <= changeTimer[c]
      /\ Tail(queue[c]) \in Seq(Lengths)
      /\ Len(Tail(queue[c])) <= PacketCapacity
  BY <1>1, PulledFrame
<1>3. /\ txEndTimer = NotScheduled /\ gapTimer = NotScheduled
      /\ gapLeft = 0 /\ sinceTxEnd = Gap
  BY ServeFindsSilentLine
<1>4. TypeOK'
  <2>1. /\ queue' \in [Classes -> Seq(Lengths)]
        /\ \A d \in Classes : Len(queue'[d]) <= PacketCapacity
    BY <1>2 DEF TypeOK
  <2>2. txEndTimer' \in Nat /\ txClass' \in Classes /\ gapLeft' \in 0..Gap
    BY <1>2, GapAssumption
  <2>3. wait' \in Nat /\ serveTimer' \in BOOLEAN
    BY DEF TypeOK
  <2> QED
    BY <2>1, <2>2, <2>3 DEF TypeOK
<1>5. GatesRun'
  BY DEF GatesRun
<1>6. GapIsTimed' /\ SomeoneWakesTheServer'
  BY <1>2, <1>3 DEF GapIsTimed, SomeoneWakesTheServer
<1>7. NoOverrun'
  BY <1>2 DEF NoOverrun
<1>8. WaitIsShort'
  <2>1. c # TopClass => ~CanPull(TopClass)
    <3>1. TopClass \in Classes /\ c <= TopClass
      BY NumClassesAssumption DEF TopClass
    <3> QED
      BY <3>1 DEF IsScheduled, Pullable, TopClass
  <2>2. wait' = 0
    BY <2>1
  <2> QED
    BY <2>2, <1>2, GapAssumption, LengthsAssumption DEF WaitIsShort, LineBusyFor
<1> QED
  BY <1>4, <1>5, <1>6, <1>7, <1>8

LEMMA ServeNothingIInv == ASSUME IInv, ServeNothing PROVE IInv'
<1> USE DEF IInv, ServeNothing, gates, phy
<1>1. TypeOK'
  BY DEF TypeOK
<1>2. GatesRun' /\ GapIsTimed' /\ NoOverrun' /\ WaitIsShort'
  BY DEF GatesRun, GapIsTimed, NoOverrun, Transmitting, WaitIsShort, LineBusyFor
<1>3. SomeoneWakesTheServer'
  <2>1. CASE CanPush
    <3>1. Pullable = {}
      BY <2>1
    <3> QED
      BY <3>1 DEF SomeoneWakesTheServer, Pullable, CanPull, CanPacketFlowThrough
  <2>2. CASE ~CanPush
    <3>1. txEndTimer # NotScheduled \/ gapTimer # NotScheduled
      BY <2>2 DEF CanPush, GapIsTimed, TypeOK
    <3> QED
      BY <3>1 DEF SomeoneWakesTheServer
  <2> QED
    BY <2>1, <2>2
<1> QED
  BY <1>1, <1>2, <1>3

(* When nothing is due at an instant, the line and the gates agree that no   *)
(* frame can be sent.                                                        *)
LEMMA WakeupsSuffice == IInv => NoLostWakeup
<1> SUFFICES ASSUME IInv, ~TimerDue, ~serveTimer, CanPush
             PROVE  Pullable = {}
  BY DEF NoLostWakeup
<1>1. txEndTimer = NotScheduled /\ gapLeft = 0 /\ gapTimer # 0
  BY DEF CanPush, TimerDue
<1>2. gapTimer = NotScheduled
  BY <1>1 DEF IInv, GapIsTimed
<1> QED
  BY <1>1, <1>2 DEF IInv, SomeoneWakesTheServer

(* Time takes frames out of the set of those that can be sent, never in.     *)
LEMMA TickPullable ==
    ASSUME IInv, Tick
    PROVE  Pullable' \subseteq Pullable
<1> SUFFICES ASSUME NEW c \in Classes, CanPull(c)'
             PROVE  CanPull(c)
  BY DEF Pullable
<1>1. queue' = queue /\ isOpen' = isOpen
  BY DEF Tick
<1>2. changeTimer[c] # 0 /\ changeTimer[c] \in Nat \cup {NotScheduled}
  BY DEF Tick, TimerDue, IInv, TypeOK
<1>3. changeTimer'[c] = TimerAfterTick(changeTimer[c])
  BY DEF Tick
<1>4. queue[c] # <<>> /\ queue[c] \in Seq(Lengths)
  BY <1>1 DEF CanPull, IInv, TypeOK
<1>5. Head(queue[c]) \in Nat
  <2>1. Head(queue[c]) \in Lengths
    BY <1>4
  <2> QED
    BY <2>1, LengthsAssumption
<1> QED
  BY <1>1, <1>2, <1>3, <1>5
     DEF CanPull, CanPacketFlowThrough, TimerAfterTick

LEMMA TickIInv == ASSUME IInv, Tick PROVE IInv'
<1> USE DEF IInv, Tick
<1>1. /\ txEndTimer # 0 /\ gapTimer # 0
      /\ \A c \in Classes : changeTimer[c] # 0
  BY DEF TimerDue
<1>2. TypeOK'
  <2>1. changeTimer' \in [Classes -> Nat \cup {NotScheduled}]
    BY <1>1 DEF TypeOK, TimerAfterTick
  <2>2. /\ txEndTimer' \in Nat \cup {NotScheduled}
        /\ gapTimer' \in (0..Gap) \cup {NotScheduled}
    BY <1>1, GapAssumption DEF TypeOK, TimerAfterTick
  <2>3. gapLeft' \in 0..Gap /\ sinceTxEnd' \in 0..Gap /\ wait' \in Nat
    BY GapAssumption DEF TypeOK
  <2>4. arrivals' \in 0..MaxArrivals
    BY MaxArrivalsAssumption
  <2> QED
    BY <2>1, <2>2, <2>3, <2>4 DEF TypeOK
<1>3. GatesRun'
  BY <1>1 DEF GatesRun, TypeOK, TimerAfterTick
<1>4. GapIsTimed'
  BY <1>1, GapAssumption DEF GapIsTimed, TypeOK, TimerAfterTick
<1>5. NoOverrun'
  <2>1. SUFFICES ASSUME txEndTimer' > 0
                 PROVE  /\ isOpen'[txClass']
                        /\ changeTimer'[txClass'] # NotScheduled
                             => txEndTimer' <= changeTimer'[txClass']
    BY DEF NoOverrun, Transmitting
  <2>2. txEndTimer \in Nat /\ txEndTimer > 0 /\ txEndTimer' = txEndTimer - 1
    BY <1>1, <2>1 DEF TypeOK, TimerAfterTick
  <2>3. /\ isOpen[txClass]
        /\ changeTimer[txClass] # NotScheduled
             => txEndTimer <= changeTimer[txClass]
    BY <2>2 DEF NoOverrun, Transmitting
  <2>4. /\ txClass \in Classes
        /\ changeTimer[txClass] \in Nat \cup {NotScheduled}
        /\ changeTimer[txClass] # 0
    BY <1>1 DEF TypeOK
  <2>5. changeTimer'[txClass] = TimerAfterTick(changeTimer[txClass])
    BY <2>4
  <2> QED
    BY <2>2, <2>3, <2>4, <2>5 DEF TimerAfterTick
<1>6. SomeoneWakesTheServer'
  BY <1>1, TickPullable DEF SomeoneWakesTheServer, TimerAfterTick, TypeOK
<1>7. WaitIsShort'
  <2>1. CASE txEndTimer # NotScheduled
    BY <2>1, <1>1, GapAssumption, LengthsAssumption
       DEF WaitIsShort, LineBusyFor, TimerAfterTick, TypeOK
  <2>2. CASE txEndTimer = NotScheduled /\ gapLeft # 0
    BY <2>2, <1>1, GapAssumption, LengthsAssumption
       DEF WaitIsShort, LineBusyFor, TimerAfterTick, TypeOK
  <2>3. CASE txEndTimer = NotScheduled /\ gapLeft = 0
    <3>1. Pullable = {}
      BY <2>3, WakeupsSuffice DEF NoLostWakeup, CanPush
    <3>2. TopClass \in Classes
      BY NumClassesAssumption DEF TopClass
    <3>3. wait' = 0
      BY <3>1, <3>2 DEF Pullable
    <3> QED
      BY <2>3, <3>3, GapAssumption, LengthsAssumption
         DEF WaitIsShort, LineBusyFor, TimerAfterTick
  <2> QED
    BY <2>1, <2>2, <2>3
<1> QED
  BY <1>2, <1>3, <1>4, <1>5, <1>6, <1>7

LEMMA StutterIInv == ASSUME IInv, UNCHANGED vars PROVE IInv'
  BY DEF IInv, vars, gates, phy, TypeOK, GatesRun, GapIsTimed, NoOverrun,
         Transmitting, SomeoneWakesTheServer, Pullable, CanPull,
         CanPacketFlowThrough, WaitIsShort, LineBusyFor

(* The invariant holds in every reachable state.                             *)
THEOREM InductiveInvariant == Spec => []IInv
<1>1. IInv /\ [Next]_vars => IInv'
  <2> SUFFICES ASSUME IInv, [Next]_vars PROVE IInv'
    OBVIOUS
  <2>1. ASSUME NEW c \in Classes, NEW frame \in Lengths, Arrive(c, frame)
        PROVE  IInv'
    BY <2>1, ArriveIInv
  <2>2. ASSUME NEW c \in Classes, ChangeGate(c) PROVE IInv'
    BY <2>2, ChangeGateIInv
  <2>3. ASSUME NEW c \in Classes, Serve(c) PROVE IInv'
    BY <2>3, ServeIInv
  <2>4. CASE EndTx
    BY <2>4, EndTxIInv
  <2>5. CASE EndGap
    BY <2>5, EndGapIInv
  <2>6. CASE ServeNothing
    BY <2>6, ServeNothingIInv
  <2>7. CASE Tick
    BY <2>7, TickIInv
  <2>8. CASE UNCHANGED vars
    BY <2>8, StutterIInv
  <2> QED
    BY <2>1, <2>2, <2>3, <2>4, <2>5, <2>6, <2>7, <2>8 DEF Next, Event
<1> QED
  BY InitIInv, <1>1, PTL DEF Spec

-----------------------------------------------------------------------------

(* Type correctness, queues within their capacity included.                  *)
THEOREM TypeCorrectness == Spec => []TypeOK
  BY InductiveInvariant, PTL DEF IInv

(* A frame on the line always ends before its transmission gate closes.      *)
THEOREM GateNeverOverrun == Spec => []NoOverrun
  BY InductiveInvariant, PTL DEF IInv

(* The line is never idle while a frame could be sent.                       *)
THEOREM NoWakeupLost == Spec => []NoLostWakeup
  BY InductiveInvariant, WakeupsSuffice, PTL

(* The most urgent class waits for at most one frame and one gap.            *)
THEOREM UrgentWait == Spec => []UrgentWaitBounded
<1>1. IInv => UrgentWaitBounded
  BY GapAssumption, LengthsAssumption
     DEF IInv, WaitIsShort, LineBusyFor, UrgentWaitBounded, TypeOK
<1> QED
  BY InductiveInvariant, <1>1, PTL

(* Transmissions start on a silent line only.                                *)
THEOREM SilentStart == Spec => StartsOnSilentLine
<1> DEFINE Silent == txEndTimer' > txEndTimer
                       => txEndTimer = NotScheduled /\ sinceTxEnd = Gap
<1>1. IInv /\ [Next]_vars => [Silent]_vars
  <2> SUFFICES ASSUME IInv, Next, txEndTimer' > txEndTimer
               PROVE  txEndTimer = NotScheduled /\ sinceTxEnd = Gap
    OBVIOUS
  <2>1. txEndTimer \in Nat \cup {NotScheduled}
    BY DEF IInv, TypeOK
  <2>2. ASSUME NEW c \in Classes, Serve(c)
        PROVE  txEndTimer = NotScheduled /\ sinceTxEnd = Gap
    BY <2>2, ServeFindsSilentLine DEF Serve
  <2>3. CASE \/ \E c \in Classes, frame \in Lengths : Arrive(c, frame)
             \/ \E c \in Classes : ChangeGate(c)
             \/ EndGap \/ ServeNothing
    BY <2>1, <2>3 DEF Arrive, ChangeGate, EndGap, ServeNothing, phy
  <2>4. CASE EndTx \/ Tick
    BY <2>1, <2>4 DEF EndTx, Tick, TimerAfterTick
  <2> QED
    BY <2>2, <2>3, <2>4 DEF Next, Event
<1> QED
  BY InductiveInvariant, <1>1, PTL DEF Spec, StartsOnSilentLine

-----------------------------------------------------------------------------
(* The port implements PriorityPort.                                        *)

(* Both agree on the frames that can be sent, as long as the line is free.   *)
LEMMA SendableIsPullable ==
    ASSUME TypeOK
    PROVE  Port!Sendable = Pullable
<1> SUFFICES ASSUME NEW c \in Classes
             PROVE  (/\ queue[c] # <<>>
                     /\ \/ Window(c) = Port!Forever
                        \/ Head(queue[c]) <= Window(c)) <=> CanPull(c)
  BY DEF Port!Sendable, Pullable
<1>1. queue[c] # <<>> => Head(queue[c]) \in Nat \ {0}
  <2>1. queue[c] \in Seq(Lengths)
    BY DEF TypeOK
  <2>2. queue[c] # <<>> => Head(queue[c]) \in Lengths
    BY <2>1
  <2> QED
    BY <2>2, LengthsAssumption
<1> QED
  BY <1>1 DEF CanPull, CanPacketFlowThrough, Window, Port!Forever, TypeOK

LEMMA InitImplements == Init => Port!Init
<1> SUFFICES ASSUME Init PROVE Port!Init
  OBVIOUS
<1>1. \A c \in Classes : Window(c) \in Nat \cup {Port!Forever}
  BY GatesAssumption DEF Init, Window, Port!Forever
<1> QED
  BY <1>1 DEF Init, Port!Init, LineBusyFor

LEMMA ServeImplements ==
    ASSUME IInv, NEW c \in Classes, Serve(c)
    PROVE  Port!Send(c)
<1>1. LineBusyFor = 0
  BY ServeFindsSilentLine DEF Serve, LineBusyFor
<1>2. c \in Pullable /\ \A d \in Pullable : d <= c
  BY DEF Serve, IsScheduled
<1>3. Pullable = Port!Sendable
  BY SendableIsPullable DEF IInv
<1>4. LineBusyFor' = Head(queue[c]) + Gap
  BY <1>2, PulledFrame DEF Serve, LineBusyFor, IInv
<1>5. UNCHANGED [d \in Classes |-> Window(d)]
  BY DEF Serve, gates, Window
<1> QED
  BY <1>1, <1>2, <1>3, <1>4, <1>5 DEF Port!Send, Serve

LEMMA ChangeGateImplements ==
    ASSUME IInv, NEW c \in Classes, ChangeGate(c)
    PROVE  Port!BeginWindow(c) \/ UNCHANGED Port!vars
<1> DEFINE win == [d \in Classes |-> Window(d)]
<1>1. queue' = queue /\ LineBusyFor' = LineBusyFor
  BY DEF ChangeGate, phy, LineBusyFor
<1>2. Window(c) = 0
  BY DEF ChangeGate, Window
<1>3. \A d \in Classes : d # c => Window(d)' = Window(d)
  BY DEF ChangeGate, Window, IInv, TypeOK
<1>4. CASE isOpen[c]
  <2>1. Window(c)' = 0
    BY <1>4 DEF ChangeGate, Window, IInv, TypeOK
  <2>2. win' = win
    BY <2>1, <1>2, <1>3
  <2> QED
    BY <1>1, <2>2 DEF Port!vars
<1>5. CASE ~isOpen[c]
  <2>1. Window(c)' \in Nat \ {0}
    <3>1. DurationAt(Durations[c], index[c]) \in Nat \ {0}
      BY ChangeFindsDuration DEF ChangeGate, IInv
    <3> QED
      BY <3>1, <1>5 DEF ChangeGate, Window, IInv, TypeOK
  <2>2. win' = [win EXCEPT ![c] = win'[c]]
    BY <1>3
  <2> QED
    BY <1>1, <1>2, <2>1, <2>2 DEF Port!BeginWindow
<1> QED
  BY <1>4, <1>5

LEMMA TickImplements ==
    ASSUME IInv, Tick
    PROVE  Port!Elapse
<1>1. LineBusyFor = 0 => Port!Sendable = {}
  <2> SUFFICES ASSUME LineBusyFor = 0 PROVE Pullable = {}
    BY SendableIsPullable DEF IInv
  <2>1. CanPush
    BY GapAssumption DEF LineBusyFor, CanPush, IInv, TypeOK, Tick, TimerDue
  <2> QED
    BY <2>1, WakeupsSuffice DEF NoLostWakeup, Tick
<1>2. LineBusyFor' = IF LineBusyFor = 0 THEN 0 ELSE LineBusyFor - 1
  BY GapAssumption
     DEF Tick, TimerDue, TimerAfterTick, LineBusyFor, IInv, TypeOK
<1>3. ASSUME NEW c \in Classes
      PROVE  Window(c)' = IF Window(c) > 0 THEN Window(c) - 1 ELSE Window(c)
  <2>1. changeTimer[c] \in Nat \cup {NotScheduled} /\ changeTimer[c] # 0
    BY DEF Tick, TimerDue, IInv, TypeOK
  <2> QED
    BY <2>1 DEF Tick, TimerAfterTick, Window
<1> QED
  BY <1>1, <1>2, <1>3 DEF Port!Elapse, Tick

(* What else happens on the port is no step of the specification.            *)
LEMMA InnerStepsStutter ==
    ASSUME IInv, EndTx \/ EndGap \/ ServeNothing \/ UNCHANGED vars
    PROVE  UNCHANGED Port!vars
<1>1. queue' = queue /\ isOpen' = isOpen /\ changeTimer' = changeTimer
  BY DEF EndTx, EndGap, ServeNothing, vars, gates
<1>2. LineBusyFor' = LineBusyFor
  BY GapAssumption DEF EndTx, EndGap, ServeNothing, vars, phy, LineBusyFor
<1> QED
  BY <1>1, <1>2 DEF Port!vars, Window

(* Every behaviour of the port is one of PriorityPort: it sends the same     *)
(* frames in the same order and at the same time as a port that needs no     *)
(* notifications.                                                            *)
THEOREM Implementation == Spec => ImplementsPriorityPort
<1>1. IInv /\ [Next]_vars => [Port!Next]_(Port!vars)
  <2> SUFFICES ASSUME IInv, [Next]_vars
               PROVE  Port!Next \/ UNCHANGED Port!vars
    OBVIOUS
  <2>1. ASSUME NEW c \in Classes, NEW frame \in Lengths, Arrive(c, frame)
        PROVE  Port!Arrive(c, frame)
    BY <2>1 DEF Arrive, Port!Arrive, gates, phy, Window, LineBusyFor
  <2>2. ASSUME NEW c \in Classes, ChangeGate(c)
        PROVE  Port!BeginWindow(c) \/ UNCHANGED Port!vars
    BY <2>2, ChangeGateImplements
  <2>3. ASSUME NEW c \in Classes, Serve(c)
        PROVE  Port!Send(c)
    BY <2>3, ServeImplements
  <2>4. CASE EndTx \/ EndGap \/ ServeNothing \/ UNCHANGED vars
    BY <2>4, InnerStepsStutter
  <2>5. CASE Tick
    BY <2>5, TickImplements DEF Port!Next
  <2> QED
    BY <2>1, <2>2, <2>3, <2>4, <2>5 DEF Next, Event, Port!Next
<1> QED
  BY InitImplements, InductiveInvariant, <1>1, PTL
     DEF Spec, ImplementsPriorityPort, Port!Spec

=============================================================================
