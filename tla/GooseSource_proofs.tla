------------------------- MODULE GooseSource_proofs -------------------------
(***************************************************************************)
(* As long as its heartbeats last, and until its consumer makes a packet     *)
(* wait, the source sends what it has to at the right times.  The invariant  *)
(* says where it stands: n events have been scheduled, the timer is set for  *)
(* the n-th of them, one of its copies or a heartbeat, and everything        *)
(* prescribed up to then has been sent.                                      *)
(***************************************************************************)
EXTENDS GooseSource, TLAPS

\* for its lemma NaturalInduction
Lists == INSTANCE GateSchedule_proofs

(* The events that are not among the first n are left.                       *)
EventsLeft(n) ==
    /\ randomTimes \in Seq(Nat)
    /\ Len(randomTimes) = Len(allEvents) - n
    /\ \A i \in 1..Len(randomTimes) : randomTimes[i] = allEvents[n + i]
    /\ n > 0 => pastEventTime = allEvents[n]

Counted ==
    /\ heartbeatsErased \in 1..NumHeartbeats
    /\ gooseCopiesSent \in 0..Len(CopyPeriods)
    /\ currentCopyDelay = CopyDelays[gooseCopiesSent]
    /\ previousWasHeartbeat \in BOOLEAN
    /\ heartbeat = previousWasHeartbeat
    /\ oldIndex = gooseCopiesSent

(* No copy of the last event is due after the next heartbeat: a heartbeat    *)
(* the copies stand in for is erased when the event is scheduled.            *)
HeartbeatsAhead(n) ==
    \/ n = 0
    \/ heartbeatsErased = NumHeartbeats
    \/ pastEventTime + CopyWindow < HeartbeatTime(heartbeatsErased)

(* After the last copy, a heartbeat is due within the interval, or the next  *)
(* event is, which has already taken the place of a heartbeat.               *)
NextIsNear ==
    \/ NextHeartbeat <= pastEventTime + CopyWindow + HeartbeatInterval
    \/ /\ NextEvent <= pastEventTime + CopyWindow + HeartbeatInterval
       /\ NextEvent <= NextHeartbeat - HeartbeatInterval
       /\ NextHeartbeat - HeartbeatInterval <= NextEvent + CopyWindow

(* The timer is set for the heartbeat erased last, after all copies.         *)
TimedByHeartbeat(n) ==
    /\ timer = HeartbeatTime(heartbeatsErased - 1)
    /\ timer < NextEvent
    /\ n > 0 => pastEventTime + CopyWindow < timer

(* The timer is set for the event n or a copy of it.                         *)
TimedByEvent(n) ==
    /\ n > 0
    /\ timer = pastEventTime + currentCopyDelay
    /\ timer <= NextEvent
    /\ NextIsNear

TimerFits(n) ==
    IF randomTimes = <<>> THEN timer >= Last(allEvents)
    ELSE /\ IF previousWasHeartbeat THEN TimedByHeartbeat(n) ELSE TimedByEvent(n)
         /\ timer - lastSent <= HeartbeatInterval

(* A heartbeat that was erased has had its time, or an event and its copies  *)
(* stand in for it.                                                          *)
Covered(h) ==
    \E m \in DOMAIN allEvents :
        HeartbeatTime(h) \in allEvents[m]..allEvents[m] + CopyWindow
NoneMissed ==
    \A h \in 0..heartbeatsErased-1 : HeartbeatTime(h) <= timer \/ Covered(h)

PlanAt(n) == EventsLeft(n) /\ Counted /\ HeartbeatsAhead(n) /\ TimerFits(n) /\ NoneMissed

(* The packet the timer is set for.                                          *)
Pending == [time |-> timer, kind |-> Kind]

SentSoFar ==
    {p \in sent \cup {Pending} : p.time <= Last(allEvents)}
        = {p \in Prescribed : p.time <= timer /\ p.time <= Last(allEvents)}

GooseInv ==
    /\ allEvents \in EventLists
    /\ canPush \in BOOLEAN
    /\ ~delayed =>
        /\ failed # "past"
        /\ now \in Nat
        /\ IF timer = NotScheduled THEN ~canPush
           ELSE /\ timer \in Nat /\ now <= timer
                /\ \E n \in 0..Len(allEvents) : PlanAt(n)
                /\ SentSoFar

-----------------------------------------------------------------------------
(* The constants: growing delays, regular heartbeats, sorted events.         *)

(* The ranges of the constants, as the provers need them.                    *)
LEMMA ConstantFacts ==
    /\ CopyPeriods \in Seq(Nat \ {0})
    /\ Len(CopyPeriods) \in Nat \ {0}
    /\ \A k \in 1..Len(CopyPeriods) : CopyPeriods[k] \in Nat \ {0}
    /\ HeartbeatInterval \in Nat
    /\ NumHeartbeats \in Nat \ {0}
    /\ ProductionInterval \in Nat \ {0}
    /\ SimTimeLimit \in Nat
  BY GooseAssumption

(* There is a function with the recursive equation of CopyDelays.            *)
LEMMA CopyDelaysDef ==
    CopyDelays = [k \in 0..Len(CopyPeriods) |->
                    IF k = 0 THEN 0 ELSE CopyDelays[k-1] + CopyPeriods[k]]
<1> DEFINE Solves(f, n) == f = [k \in 0..n |-> IF k = 0 THEN 0 ELSE f[k-1] + CopyPeriods[k]]
           S == {n \in Nat : \E f : Solves(f, n)}
<1>1. 0 \in S
  <2>1. Solves([k \in 0..0 |-> 0], 0)
    OBVIOUS
  <2> QED
    BY <2>1
<1>2. ASSUME NEW n \in Nat, n \in S PROVE n + 1 \in S
  <2>1. PICK f : Solves(f, n)
    BY <1>2
  <2> DEFINE g == [k \in 0..n+1 |-> IF k = n + 1 THEN f[n] + CopyPeriods[n+1] ELSE f[k]]
  <2>2. Solves(g, n + 1)
    <3>1. \A k \in 0..n : f[k] = IF k = 0 THEN 0 ELSE f[k-1] + CopyPeriods[k]
      BY <2>1
    <3>2. \A k \in 0..n+1 : g[k] = IF k = 0 THEN 0 ELSE g[k-1] + CopyPeriods[k]
      BY <3>1
    <3> QED
      BY <3>2
  <2> HIDE DEF g, Solves
  <2>3. \E h : Solves(h, n + 1)
    BY <2>2
  <2> QED
    BY <2>3
<1> HIDE DEF S
<1>3. Len(CopyPeriods) \in S
  BY <1>1, <1>2, Lists!NaturalInduction, ConstantFacts
<1>4. \E f : Solves(f, Len(CopyPeriods))
  BY <1>3 DEF S
<1> QED
  BY <1>4 DEF CopyDelays

(* The delays of the copies add up, and grow up to CopyWindow.               *)
LEMMA CopyDelaysFacts ==
    /\ CopyDelays[0] = 0
    /\ CopyDelays[Len(CopyPeriods)] = CopyWindow
    /\ \A k \in 0..Len(CopyPeriods) : CopyDelays[k] \in Nat
    /\ \A k \in 0..Len(CopyPeriods)-1 :
        CopyDelays[k+1] = CopyDelays[k] + CopyPeriods[k+1]
    /\ \A k, j \in 0..Len(CopyPeriods) : k < j => CopyDelays[k] < CopyDelays[j]
<1>1. \A k \in 0..Len(CopyPeriods) :
        CopyDelays[k] = IF k = 0 THEN 0 ELSE CopyDelays[k-1] + CopyPeriods[k]
  BY CopyDelaysDef, Zenon
<1>2. \A k \in 0..Len(CopyPeriods)-1 : CopyDelays[k+1] = CopyDelays[k] + CopyPeriods[k+1]
  BY <1>1, ConstantFacts
<1>3. CopyDelays[0] = 0
  BY <1>1, ConstantFacts
<1> DEFINE S == {n \in Nat : n <= Len(CopyPeriods) =>
                    /\ CopyDelays[n] \in Nat
                    /\ \A k \in 0..n-1 : CopyDelays[k] \in Nat /\ CopyDelays[k] < CopyDelays[n]}
<1>4. 0 \in S
  BY <1>3
<1>5. \A n \in Nat : n \in S => n + 1 \in S
  <2> SUFFICES ASSUME NEW n \in Nat, n \in S, n + 1 <= Len(CopyPeriods) PROVE n + 1 \in S
    OBVIOUS
  <2>1. CopyDelays[n + 1] = CopyDelays[n] + CopyPeriods[n + 1] /\ CopyPeriods[n + 1] \in Nat \ {0}
    BY <1>2, ConstantFacts
  <2>2. CopyDelays[n] \in Nat /\ CopyDelays[n + 1] \in Nat
    BY <2>1, ConstantFacts
  <2>3. \A k \in 0..n : CopyDelays[k] \in Nat /\ CopyDelays[k] < CopyDelays[n + 1]
    BY <2>1, <2>2, ConstantFacts
  <2> QED
    BY <2>2, <2>3
<1> HIDE DEF S
<1>6. \A n \in Nat : n \in S
  BY <1>4, <1>5, Lists!NaturalInduction
<1>7. \A n \in 0..Len(CopyPeriods) :
        CopyDelays[n] \in Nat /\ \A k \in 0..n-1 : CopyDelays[k] < CopyDelays[n]
  BY <1>6, ConstantFacts DEF S
<1>8. CopyDelays[Len(CopyPeriods)] = CopyWindow
  BY GooseAssumption
<1> QED
  BY <1>2, <1>3, <1>7, <1>8, ConstantFacts

(* The copies of an event last less than a heartbeat interval.               *)
LEMMA WindowFacts == CopyWindow \in Nat /\ CopyWindow < HeartbeatInterval
  BY CopyDelaysFacts, ConstantFacts, GooseAssumption

(* Heartbeats are an interval apart.                                         *)
LEMMA HeartbeatTimeFacts ==
    /\ HeartbeatTime(0) = 0
    /\ \A h \in Nat : HeartbeatTime(h) \in Nat
    /\ \A h \in Nat : HeartbeatTime(h + 1) = HeartbeatTime(h) + HeartbeatInterval
    /\ \A h, g \in Nat : h < g => HeartbeatTime(h) < HeartbeatTime(g)
<1>1. HeartbeatInterval \in Nat /\ HeartbeatInterval > 0
  BY WindowFacts, ConstantFacts
<1>2. \A h \in Nat : HeartbeatInterval * h \in Nat
  BY <1>1
<1>3. \A h \in Nat : HeartbeatInterval * (h + 1) = HeartbeatInterval * h + HeartbeatInterval
  BY <1>1
<1>4. ASSUME NEW h \in Nat, NEW g \in Nat, h < g PROVE HeartbeatInterval * h < HeartbeatInterval * g
  <2>1. PICK d \in Nat \ {0} : g = h + d
    <3>1. g - h \in Nat \ {0} /\ g = h + (g - h)
      BY <1>4
    <3> QED
      BY <3>1
  <2>2. HeartbeatInterval * g = HeartbeatInterval * h + HeartbeatInterval * d
    BY <1>1, <2>1
  <2>3. HeartbeatInterval * d >= 1 /\ HeartbeatInterval * d \in Nat
    BY <1>1
  <2> QED
    BY <1>2, <2>2, <2>3
<1> QED
  BY <1>1, <1>2, <1>3, <1>4 DEF HeartbeatTime

(* Events are sorted, within the time of the simulation.                     *)
LEMMA EventFacts ==
    ASSUME NEW list \in EventLists
    PROVE  /\ Len(list) \in Nat \ {0}
           /\ \A n \in 1..Len(list) : list[n] \in Nat /\ list[n] < SimTimeLimit
           /\ \A m, n \in 1..Len(list) : m <= n => list[m] <= list[n]
<1>1. /\ Len(list) \in Nat \ {0}
      /\ \A n \in 1..Len(list) : list[n] \in Nat /\ list[n] < SimTimeLimit
      /\ \A n \in 2..Len(list) : list[n-1] <= list[n]
  BY GooseAssumption
<1> DEFINE S == {n \in Nat : n \in 1..Len(list) => \A m \in 1..n : list[m] <= list[n]}
<1>2. 0 \in S
  OBVIOUS
<1>3. \A n \in Nat : n \in S => n + 1 \in S
  <2> SUFFICES ASSUME NEW n \in Nat, n \in S, n + 1 <= Len(list), NEW m \in 1..n
               PROVE  list[m] <= list[n + 1]
    BY <1>1
  <2>1. list[m] <= list[n] /\ n \in 1..Len(list)
    BY <1>1
  <2>2. list[n] <= list[n + 1]
    <3>1. n + 1 \in 2..Len(list) /\ (n + 1) - 1 = n
      BY <1>1, <2>1
    <3> QED
      BY <1>1, <3>1
  <2> QED
    BY <1>1, <2>1, <2>2
<1> HIDE DEF S
<1>4. \A n \in Nat : n \in S
  BY <1>2, <1>3, Lists!NaturalInduction
<1> QED
  BY <1>1, <1>4 DEF S

-----------------------------------------------------------------------------

(* The front of heartbeatTimes, also when it is empty.                       *)
LEMMA NextHeartbeatFacts ==
    ASSUME heartbeatsErased \in 1..NumHeartbeats
    PROVE  /\ NextHeartbeat \in Nat
           /\ heartbeatsErased < NumHeartbeats => NextHeartbeat = HeartbeatTime(heartbeatsErased)
           /\ heartbeatsErased = NumHeartbeats => NextHeartbeat = HeartbeatTime(NumHeartbeats - 1)
           /\ NextHeartbeat <= HeartbeatTime(heartbeatsErased)
           /\ NextHeartbeat <= HeartbeatTime(NumHeartbeats - 1)
<1> DEFINE e == heartbeatsErased
<1>1. /\ e \in Nat /\ e >= 1 /\ e <= NumHeartbeats /\ NumHeartbeats \in Nat
      /\ NumHeartbeats - 1 \in Nat
  BY ConstantFacts
<1> HIDE DEF e
<1>2. NextHeartbeat = HeartbeatTime(IF e < NumHeartbeats THEN e ELSE NumHeartbeats - 1)
  BY DEF NextHeartbeat, e
<1>3. CASE e < NumHeartbeats
  <2>1. NextHeartbeat = HeartbeatTime(e)
    BY <1>2, <1>3
  <2>2. e = NumHeartbeats - 1 \/ e < NumHeartbeats - 1
    BY <1>1, <1>3
  <2>3. HeartbeatTime(e) <= HeartbeatTime(NumHeartbeats - 1) /\ HeartbeatTime(e) \in Nat
    <3> DEFINE l == NumHeartbeats - 1
    <3>1. e \in Nat /\ l \in Nat /\ (e = l \/ e < l)
      BY <1>1, <2>2
    <3> HIDE DEF l
    <3>2. HeartbeatTime(e) \in Nat /\ HeartbeatTime(l) \in Nat
      BY <3>1, HeartbeatTimeFacts
    <3>3. HeartbeatTime(e) = HeartbeatTime(l) \/ HeartbeatTime(e) < HeartbeatTime(l)
      BY <3>1, HeartbeatTimeFacts
    <3> QED
      BY <3>2, <3>3 DEF l
  <2> QED
    BY <1>3, <2>1, <2>3, <1>1 DEF e
<1>4. CASE e = NumHeartbeats
  <2>1. NextHeartbeat = HeartbeatTime(NumHeartbeats - 1)
    BY <1>1, <1>2, <1>4
  <2>2. HeartbeatTime(NumHeartbeats - 1) < HeartbeatTime(NumHeartbeats)
    BY <1>1, HeartbeatTimeFacts
  <2>3. HeartbeatTime(NumHeartbeats - 1) \in Nat /\ HeartbeatTime(NumHeartbeats) \in Nat
    BY <1>1, HeartbeatTimeFacts
  <2> QED
    BY <1>4, <2>1, <2>2, <2>3, <1>1 DEF e
<1> QED
  BY <1>1, <1>3, <1>4

(* A heartbeat is erased, or was the last of them, or nothing changes.       *)
LEMMA AfterErasing ==
    ASSUME heartbeatsErased \in 1..NumHeartbeats, NEW b \in BOOLEAN, EraseHeartbeat(b)
    PROVE  /\ heartbeatsErased' \in 1..NumHeartbeats
           /\ heartbeatsErased' >= heartbeatsErased
           /\ NextHeartbeat' \in Nat
           /\ \/ /\ heartbeatsErased' = heartbeatsErased
                 /\ NextHeartbeat' = NextHeartbeat
                 /\ b => heartbeatsErased = NumHeartbeats
              \/ /\ b
                 /\ heartbeatsErased < NumHeartbeats
                 /\ heartbeatsErased' = heartbeatsErased + 1
                 /\ HeartbeatTime(heartbeatsErased') = HeartbeatTime(heartbeatsErased) + HeartbeatInterval
                 /\ \/ /\ heartbeatsErased' = NumHeartbeats
                       /\ NextHeartbeat' = NextHeartbeat
                    \/ /\ heartbeatsErased' < NumHeartbeats
                       /\ NextHeartbeat' = NextHeartbeat + HeartbeatInterval
<1>1. heartbeatsErased' \in 1..NumHeartbeats
  BY ConstantFacts DEF EraseHeartbeat
<1>2. NextHeartbeat' \in Nat
      /\ (heartbeatsErased' < NumHeartbeats => NextHeartbeat' = HeartbeatTime(heartbeatsErased'))
      /\ (heartbeatsErased' = NumHeartbeats => NextHeartbeat' = HeartbeatTime(NumHeartbeats - 1))
  <2>1. PICK e : e = heartbeatsErased'
    OBVIOUS
  <2>2. e \in 1..NumHeartbeats /\ NextHeartbeat' = HeartbeatTime(IF e < NumHeartbeats THEN e ELSE NumHeartbeats - 1)
    BY <1>1, <2>1 DEF NextHeartbeat, HeartbeatTime
  <2>3. NumHeartbeats - 1 \in Nat /\ e \in Nat /\ NumHeartbeats \in Nat
    BY <2>2, ConstantFacts
  <2> QED
    BY <2>1, <2>2, <2>3, HeartbeatTimeFacts
<1>3. CASE b /\ heartbeatsErased < NumHeartbeats
  <2>1. PICK e : e = heartbeatsErased
    OBVIOUS
  <2>2. heartbeatsErased' = e + 1 /\ e \in Nat /\ e < NumHeartbeats /\ NumHeartbeats \in Nat
    BY <1>3, <2>1, ConstantFacts DEF EraseHeartbeat
  <2>3. HeartbeatTime(e + 1) = HeartbeatTime(e) + HeartbeatInterval
    BY <2>2, HeartbeatTimeFacts
  <2>4. NextHeartbeat = HeartbeatTime(e)
    BY <1>3, <2>1, NextHeartbeatFacts
  <2>5. e + 1 < NumHeartbeats \/ (e + 1 = NumHeartbeats /\ NumHeartbeats - 1 = e)
    BY <2>2
  <2>6. \/ e + 1 = NumHeartbeats /\ NextHeartbeat' = NextHeartbeat
        \/ e + 1 < NumHeartbeats /\ NextHeartbeat' = NextHeartbeat + HeartbeatInterval
    BY <1>2, <2>2, <2>3, <2>4, <2>5
  <2> QED
    BY <1>1, <1>2, <1>3, <2>1, <2>2, <2>3, <2>6
<1>4. CASE ~(b /\ heartbeatsErased < NumHeartbeats)
  <2>1. heartbeatsErased' = heartbeatsErased
    BY <1>4 DEF EraseHeartbeat
  <2>2. NextHeartbeat' = NextHeartbeat
    BY <2>1 DEF NextHeartbeat, HeartbeatTime
  <2>3. b => heartbeatsErased = NumHeartbeats
    BY <1>4, ConstantFacts
  <2> QED
    BY <1>1, <1>2, <2>1, <2>2, <2>3
<1> QED
  BY <1>3, <1>4

(* What is known of the next event.                                          *)
LEMMA NextEventFacts ==
    ASSUME allEvents \in EventLists, NEW n \in 0..Len(allEvents), EventsLeft(n),
           randomTimes # <<>>
    PROVE  /\ n < Len(allEvents)
           /\ NextEvent = allEvents[n + 1]
           /\ NextEvent \in Nat /\ NextEvent < SimTimeLimit
           /\ n > 0 => pastEventTime \in Nat /\ pastEventTime = allEvents[n] /\ pastEventTime <= NextEvent
<1>1. Len(randomTimes) \in Nat /\ Len(randomTimes) > 0 /\ Len(allEvents) \in Nat
  BY EventFacts DEF EventsLeft
<1>2. n < Len(allEvents) /\ n + 1 \in 1..Len(allEvents) /\ n \in Nat
  BY <1>1 DEF EventsLeft
<1>3. NextEvent = randomTimes[1]
  BY DEF NextEvent, EventsLeft
<1>4. NextEvent = allEvents[n + 1]
  BY <1>1, <1>3 DEF EventsLeft
<1>5. NextEvent \in Nat /\ NextEvent < SimTimeLimit
  BY <1>2, <1>4, EventFacts
<1>6. ASSUME n > 0 PROVE allEvents[n] \in Nat /\ allEvents[n] <= NextEvent /\ pastEventTime = allEvents[n]
  BY <1>2, <1>4, <1>6, EventFacts DEF EventsLeft
<1> QED
  BY <1>2, <1>4, <1>5, <1>6

-----------------------------------------------------------------------------
(* The packets that are prescribed.                                          *)
IsEvent(p) == \E m \in 1..Len(allEvents) : p = [time |-> allEvents[m], kind |-> "event"]
IsCopy(p) ==
    \E m \in 1..Len(allEvents)-1, k \in 1..Len(CopyPeriods) :
        /\ p = [time |-> allEvents[m] + CopyDelays[k], kind |-> "copy"]
        /\ allEvents[m] + CopyDelays[k] < allEvents[m+1]
IsHeartbeat(p) ==
    \E h \in 0..NumHeartbeats-1 :
        p = [time |-> HeartbeatTime(h), kind |-> "heartbeat"] /\ ~Covered(h)

(* What is prescribed is an event, a copy or a heartbeat.                    *)
LEMMA PrescribedCases ==
    ASSUME allEvents \in EventLists
    PROVE  \A p : p \in Prescribed <=> IsEvent(p) \/ IsCopy(p) \/ IsHeartbeat(p)
<1>1. DOMAIN allEvents = 1..Len(allEvents) /\ DOMAIN CopyPeriods = 1..Len(CopyPeriods)
  BY GooseAssumption
<1> SUFFICES ASSUME NEW p
             PROVE  p \in Prescribed <=> IsEvent(p) \/ IsCopy(p) \/ IsHeartbeat(p)
  OBVIOUS
<1> DEFINE events == {[time |-> allEvents[n], kind |-> "event"] : n \in DOMAIN allEvents}
           copies == UNION {{[time |-> allEvents[n] + CopyDelays[k], kind |-> "copy"] :
                            k \in {k \in DOMAIN CopyPeriods :
                                     allEvents[n] + CopyDelays[k] < allEvents[n+1]}} :
                         n \in 1..Len(allEvents)-1}
           heartbeats == {[time |-> HeartbeatTime(h), kind |-> "heartbeat"] :
                        h \in {h \in 0..NumHeartbeats-1 :
                            \A n \in DOMAIN allEvents :
                                HeartbeatTime(h)
                                    \notin allEvents[n]..allEvents[n] + CopyWindow}}
<1>2. p \in events <=> IsEvent(p)
  BY <1>1 DEF IsEvent
<1>3. p \in copies <=> IsCopy(p)
  <2> DEFINE due(n) == {k \in DOMAIN CopyPeriods :
                            allEvents[n] + CopyDelays[k] < allEvents[n+1]}
             copiesOf(n) == {[time |-> allEvents[n] + CopyDelays[k], kind |-> "copy"] : k \in due(n)}
  <2>1. p \in copies <=> \E n \in 1..Len(allEvents)-1 : p \in copiesOf(n)
    OBVIOUS
  <2>2. \A n : p \in copiesOf(n) <=>
                \E k \in due(n) : p = [time |-> allEvents[n] + CopyDelays[k], kind |-> "copy"]
    OBVIOUS
  <2>3. \A n, k : k \in due(n) <=> /\ k \in 1..Len(CopyPeriods)
                                   /\ allEvents[n] + CopyDelays[k] < allEvents[n+1]
    BY <1>1
  <2> HIDE DEF due, copiesOf, copies
  <2> QED
    BY <2>1, <2>2, <2>3 DEF IsCopy
<1>4. p \in heartbeats <=> IsHeartbeat(p)
  BY DEF IsHeartbeat, Covered
<1>5. Prescribed = events \cup copies \cup heartbeats
  BY DEF Prescribed
<1> HIDE DEF events, copies, heartbeats
<1> QED
  BY <1>2, <1>3, <1>4, <1>5

(* And it has a time.                                                        *)
LEMMA PrescribedTimes ==
    ASSUME allEvents \in EventLists PROVE \A p \in Prescribed : p.time \in Int
<1>1. \A p \in Prescribed : IsEvent(p) \/ IsCopy(p) \/ IsHeartbeat(p)
  BY PrescribedCases
<1>2. \A m \in 1..Len(allEvents) : allEvents[m] \in Int
  BY EventFacts
<1>3. \A k \in 1..Len(CopyPeriods) : CopyDelays[k] \in Int
  BY CopyDelaysFacts
<1>4. \A h \in 0..NumHeartbeats-1 : HeartbeatTime(h) \in Int
  BY HeartbeatTimeFacts, ConstantFacts
<1>5. Len(allEvents) \in Nat
  BY EventFacts
<1> QED
  BY <1>1, <1>2, <1>3, <1>4, <1>5 DEF IsEvent, IsCopy, IsHeartbeat

(* The packets sent remain the ones prescribed, if the next one is the only  *)
(* one prescribed until then.                                                *)
LEMMA SentStep ==
    ASSUME SentSoFar, sent' = sent \cup {Pending}, UNCHANGED allEvents,
           timer \in Int, timer' \in Int, timer <= timer', allEvents \in EventLists,
           timer' <= Last(allEvents) => Pending' \in Prescribed,
           \A p \in Prescribed :
                timer < p.time /\ p.time <= timer' /\ p.time <= Last(allEvents) => p = Pending'
    PROVE  SentSoFar'
<1>1. Prescribed' = Prescribed
  BY DEF Prescribed
<1>2. PICK next : next = Pending'
  OBVIOUS
<1>3. PICK end : end = Last(allEvents) /\ end = Last(allEvents)'
  OBVIOUS
<1>4. next.time = timer' /\ Pending.time = timer
  BY <1>2 DEF Pending
<1>5. PICK t : t = timer'
  OBVIOUS
<1>6. end \in Int
  BY <1>3, EventFacts DEF Last
<1>7. \A p \in Prescribed : p.time \in Int
  BY PrescribedTimes
<1> DEFINE P == Prescribed
           S == sent \cup {Pending}
<1>8. {p \in S : p.time <= end} = {p \in P : p.time <= timer /\ p.time <= end}
  BY <1>3 DEF SentSoFar
<1>9. {p \in S \cup {next} : p.time <= end} = {p \in P : p.time <= t /\ p.time <= end}
  <2>1. ASSUME NEW p \in P, p.time <= t, p.time <= end PROVE p \in S \cup {next}
    <3>1. CASE p.time <= timer
      BY <1>8, <2>1, <3>1
    <3>2. CASE ~(p.time <= timer)
      <4>1. timer < p.time
        BY <1>7, <3>2
      <4> QED
        BY <1>2, <1>3, <1>5, <2>1, <4>1
    <3> QED
      BY <3>1, <3>2
  <2>2. ASSUME NEW p \in S, p.time <= end PROVE p \in P /\ p.time <= t
    <3>1. p \in P /\ p.time <= timer
      BY <1>8, <2>2
    <3> QED
      BY <1>5, <1>7, <3>1
  <2>3. ASSUME next.time <= end PROVE next \in P /\ next.time <= t
    BY <1>2, <1>3, <1>4, <1>5, <2>3
  <2> HIDE DEF P, S
  <2> QED
    BY <2>1, <2>2, <2>3
<1> QED
  BY <1>1, <1>2, <1>3, <1>5, <1>9 DEF SentSoFar

-----------------------------------------------------------------------------
(* One lemma for each way to set the timer.                                  *)

(* Where the plan stands: what the steps below have in common.               *)
LEMMA PlanFacts ==
    ASSUME allEvents \in EventLists, timer \in Nat, NEW n \in 0..Len(allEvents), PlanAt(n),
           randomTimes # <<>>, HeartbeatsLast
    PROVE  /\ n \in 0..Len(allEvents)-1 /\ NextEvent = allEvents[n + 1]
           /\ NextEvent \in Nat /\ NextEvent < HeartbeatTime(NumHeartbeats - 1)
           /\ HeartbeatTime(NumHeartbeats - 1) \in Nat
           /\ n > 0 => pastEventTime \in Nat /\ pastEventTime = allEvents[n] /\ pastEventTime <= NextEvent
           /\ n > 0 => pastEventTime <= timer
           /\ timer <= NextEvent
           /\ currentCopyDelay \in 0..CopyWindow
           /\ NextHeartbeat \in Nat
           /\ heartbeatsErased < NumHeartbeats =>
                NextHeartbeat = HeartbeatTime(heartbeatsErased)
           /\ heartbeatsErased = NumHeartbeats => NextEvent < NextHeartbeat
<1>1. EventsLeft(n) /\ Counted
  BY DEF PlanAt
<1>2. /\ n < Len(allEvents) /\ NextEvent = allEvents[n + 1]
      /\ NextEvent \in Nat /\ NextEvent < SimTimeLimit
      /\ n > 0 => pastEventTime \in Nat /\ pastEventTime = allEvents[n] /\ pastEventTime <= NextEvent
  BY <1>1, NextEventFacts
<1>3. HeartbeatTime(NumHeartbeats - 1) \in Nat
  <2>1. NumHeartbeats - 1 \in Nat
    BY ConstantFacts
  <2> QED
    BY <2>1, HeartbeatTimeFacts
<1>4. NextEvent < HeartbeatTime(NumHeartbeats - 1)
  BY <1>2, <1>3, ConstantFacts DEF HeartbeatsLast
<1>5. currentCopyDelay \in 0..CopyWindow
  <2>1. currentCopyDelay = CopyDelays[gooseCopiesSent] /\ gooseCopiesSent \in 0..Len(CopyPeriods)
    BY <1>1 DEF Counted
  <2>2. gooseCopiesSent = Len(CopyPeriods) \/ gooseCopiesSent < Len(CopyPeriods)
    BY <2>1, ConstantFacts
  <2> QED
    BY <2>1, <2>2, CopyDelaysFacts, ConstantFacts
<1>6. (n > 0 => pastEventTime <= timer) /\ timer <= NextEvent
  BY <1>2, <1>5, WindowFacts DEF PlanAt, TimerFits, TimedByHeartbeat, TimedByEvent
<1>7. /\ NextHeartbeat \in Nat
      /\ heartbeatsErased < NumHeartbeats => NextHeartbeat = HeartbeatTime(heartbeatsErased)
      /\ heartbeatsErased = NumHeartbeats => NextHeartbeat = HeartbeatTime(NumHeartbeats - 1)
  BY <1>1, NextHeartbeatFacts DEF Counted
<1> QED
  BY <1>2, <1>3, <1>4, <1>5, <1>6, <1>7, EventFacts

(* Nothing is prescribed between now and the next packet but the copies of   *)
(* the last event, the next event and the next heartbeat.                    *)
LEMMA NextPrescribed ==
    ASSUME allEvents \in EventLists, timer \in Nat, NEW n \in 0..Len(allEvents), PlanAt(n),
           randomTimes # <<>>, HeartbeatsLast,
           NEW p \in Prescribed, timer < p.time, p.time <= NextEvent
    PROVE  \/ p = [time |-> NextEvent, kind |-> "event"]
           \/ /\ n > 0 /\ p.time < NextEvent
              /\ \E k \in 1..Len(CopyPeriods) :
                    p = [time |-> pastEventTime + CopyDelays[k], kind |-> "copy"]
           \/ \E h \in Nat : /\ heartbeatsErased <= h /\ h < NumHeartbeats
                             /\ p = [time |-> HeartbeatTime(h), kind |-> "heartbeat"]
                             /\ p.time # NextEvent
                             /\ NextHeartbeat <= p.time
                             /\ h # heartbeatsErased => NextHeartbeat < p.time
<1>1. /\ n \in 0..Len(allEvents)-1 /\ NextEvent = allEvents[n + 1]
      /\ NextEvent \in Nat
      /\ n > 0 => pastEventTime \in Nat /\ pastEventTime = allEvents[n]
      /\ n > 0 => pastEventTime <= timer
      /\ NextHeartbeat \in Nat
      /\ heartbeatsErased < NumHeartbeats => NextHeartbeat = HeartbeatTime(heartbeatsErased)
  BY PlanFacts
<1>2. Len(allEvents) \in Nat /\ \A m \in 1..Len(allEvents) : allEvents[m] \in Nat
  BY EventFacts
<1>3. CASE IsEvent(p)
  <2>1. PICK m \in 1..Len(allEvents) : p = [time |-> allEvents[m], kind |-> "event"]
    BY <1>3 DEF IsEvent
  <2>2. allEvents[m] \in Nat /\ timer < allEvents[m] /\ allEvents[m] <= NextEvent
    BY <1>2, <2>1
  <2>3. ~(m <= n)
    <3> SUFFICES ASSUME m <= n PROVE FALSE
      OBVIOUS
    <3>1. n \in 1..Len(allEvents) /\ allEvents[m] <= allEvents[n]
      BY <1>1, <1>2, EventFacts
    <3> QED
      BY <1>1, <2>2, <3>1
  <2>4. allEvents[n + 1] <= allEvents[m]
    BY <1>1, <1>2, <2>3, EventFacts
  <2> QED
    BY <1>1, <2>1, <2>2, <2>4
<1>4. CASE IsCopy(p)
  <2>1. PICK m \in 1..Len(allEvents)-1, k \in 1..Len(CopyPeriods) :
            /\ p = [time |-> allEvents[m] + CopyDelays[k], kind |-> "copy"]
            /\ allEvents[m] + CopyDelays[k] < allEvents[m+1]
    BY <1>4 DEF IsCopy
  <2>2. CopyDelays[k] \in Nat /\ CopyDelays[k] > 0 /\ m \in 1..Len(allEvents) /\ m + 1 \in 1..Len(allEvents)
    BY <1>2, CopyDelaysFacts, ConstantFacts
  <2>3. /\ p.time = allEvents[m] + CopyDelays[k]
        /\ p.time \in Nat /\ p.time > allEvents[m] /\ p.time < allEvents[m+1]
    BY <1>2, <2>1, <2>2
  <2>4. ~(m < n)
    <3> SUFFICES ASSUME m < n PROVE FALSE
      OBVIOUS
    <3>1. m + 1 <= n /\ n \in 1..Len(allEvents)
      BY <1>1, <1>2
    <3>2. allEvents[m + 1] <= allEvents[n]
      BY <2>2, <3>1, EventFacts
    <3> QED
      BY <1>1, <1>2, <2>2, <2>3, <3>1, <3>2
  <2>5. ~(m > n)
    <3> SUFFICES ASSUME m > n PROVE FALSE
      OBVIOUS
    <3>1. n + 1 <= m /\ n + 1 \in 1..Len(allEvents)
      BY <1>1, <1>2
    <3>2. allEvents[n + 1] <= allEvents[m]
      BY <2>2, <3>1, EventFacts
    <3> QED
      BY <1>1, <1>2, <2>2, <2>3, <3>1, <3>2
  <2>6. m = n
    BY <1>1, <2>4, <2>5
  <2> QED
    BY <1>1, <2>1, <2>3, <2>6
<1>5. CASE IsHeartbeat(p)
  <2>1. PICK h \in 0..NumHeartbeats-1 :
            p = [time |-> HeartbeatTime(h), kind |-> "heartbeat"] /\ ~Covered(h)
    BY <1>5 DEF IsHeartbeat
  <2>2. h \in Nat /\ h < NumHeartbeats /\ p.time = HeartbeatTime(h) /\ HeartbeatTime(h) \in Nat
    BY <2>1, ConstantFacts, HeartbeatTimeFacts
  <2>3. heartbeatsErased \in 1..NumHeartbeats /\ NumHeartbeats \in Nat
    BY ConstantFacts DEF PlanAt, Counted
  <2>4. ~(h < heartbeatsErased)
    <3> SUFFICES ASSUME h < heartbeatsErased PROVE FALSE
      OBVIOUS
    <3>1. h \in 0..heartbeatsErased-1
      BY <2>2, <2>3
    <3>2. HeartbeatTime(h) <= timer
      BY <2>1, <3>1 DEF PlanAt, NoneMissed
    <3> QED
      BY <2>2, <3>2
  <2>5. NextHeartbeat = HeartbeatTime(heartbeatsErased)
    BY <1>1, <2>2, <2>3, <2>4
  <2>6. h = heartbeatsErased \/ NextHeartbeat < HeartbeatTime(h)
    BY <2>2, <2>3, <2>4, <2>5, HeartbeatTimeFacts
  <2>7. NextEvent # HeartbeatTime(h)
    <3> SUFFICES ASSUME NextEvent = HeartbeatTime(h) PROVE FALSE
      OBVIOUS
    <3>1. n + 1 \in DOMAIN allEvents
      BY <1>1, <1>2, GooseAssumption
    <3>2. HeartbeatTime(h) \in allEvents[n + 1]..allEvents[n + 1] + CopyWindow
      BY <1>1, <2>2, WindowFacts
    <3> QED
      BY <2>1, <3>1, <3>2 DEF Covered
  <2>8. heartbeatsErased <= h /\ NextHeartbeat <= p.time
    BY <1>1, <2>2, <2>3, <2>4, <2>5, <2>6
  <2>9. p.time # NextEvent /\ (h # heartbeatsErased => NextHeartbeat < p.time)
    BY <2>2, <2>6, <2>7
  <2> QED
    BY <2>1, <2>2, <2>8, <2>9
<1> QED
  BY <1>3, <1>4, <1>5, PrescribedCases

(* A heartbeat that is erased is sent or covered.                            *)
LEMMA MissedStep ==
    ASSUME NoneMissed, heartbeatsErased \in 1..NumHeartbeats, timer \in Nat, timer' \in Nat,
           timer <= timer', UNCHANGED allEvents,
           \/ heartbeatsErased' = heartbeatsErased
           \/ /\ heartbeatsErased' = heartbeatsErased + 1
              /\ HeartbeatTime(heartbeatsErased) <= timer' \/ Covered(heartbeatsErased)
    PROVE  NoneMissed'
<1>1. PICK e, e1, t : e = heartbeatsErased /\ e1 = heartbeatsErased' /\ t = timer'
  OBVIOUS
<1>2. e \in Nat /\ t \in Nat /\ timer <= t
  BY <1>1, ConstantFacts
<1>3. \A h : Covered(h)' <=> Covered(h)
  BY DEF Covered, HeartbeatTime
<1>4. \A h \in 0..e-1 : HeartbeatTime(h) <= timer \/ Covered(h)
  BY <1>1 DEF NoneMissed
<1>5. \A h \in 0..e-1 : HeartbeatTime(h) <= t \/ Covered(h)
  BY <1>2, <1>4, HeartbeatTimeFacts
<1>6. e1 = e \/ (e1 = e + 1 /\ (HeartbeatTime(e) <= t \/ Covered(e)))
  BY <1>1
<1>7. \A h \in 0..e1-1 : HeartbeatTime(h) <= t \/ Covered(h)
  BY <1>2, <1>5, <1>6
<1>8. \A h : HeartbeatTime(h)' = HeartbeatTime(h)
  BY DEF HeartbeatTime
<1> QED
  BY <1>1, <1>3, <1>7, <1>8 DEF NoneMissed, HeartbeatTime

(* scheduleClockEventAt with a time that is not over.                        *)
LEMMA NotPast ==
    ASSUME NEW time \in Nat, NEW erases, ScheduleAt(time, erases), now' = timer, timer \in Nat,
           timer <= time
    PROVE  timer' = time /\ EraseHeartbeat(erases) /\ failed' # "past"
  BY DEF ScheduleAt, OutcomeOfErase

(* ScheduleCopy: the copy is the next packet prescribed.                     *)
LEMMA CopyStep ==
    ASSUME HeartbeatsLast, allEvents \in EventLists, timer \in Nat, now' = timer,
           NEW n \in 0..Len(allEvents), PlanAt(n), SentSoFar,
           ScheduleCopy, ProducePacket, UNCHANGED allEvents
    PROVE  /\ failed' # "past" /\ timer' \in Nat /\ now' <= timer'
           /\ PlanAt(n)'
           /\ SentSoFar'
<1>1. /\ randomTimes # <<>> /\ EventsLeft(n) /\ Counted /\ HeartbeatsAhead(n)
      /\ TimedByEvent(n) /\ NoneMissed /\ previousWasHeartbeat = FALSE
  BY DEF PlanAt, TimerFits, ScheduleCopy, WantsCopy, Counted
<1>2. PICK c : c = gooseCopiesSent + 1
  OBVIOUS
<1>3. /\ c \in 1..Len(CopyPeriods) /\ gooseCopiesSent = c - 1 /\ gooseCopiesSent' = c
      /\ currentCopyDelay = CopyDelays[c-1]
  BY <1>1, <1>2, ConstantFacts DEF Counted, ScheduleCopy, WantsCopy
<1>4. /\ NextCopyDelay = CopyDelays[c]
      /\ CopyDelays[c] = currentCopyDelay + CopyPeriods[c]
      /\ CopyPeriods[c] \in Nat \ {0} /\ currentCopyDelay \in Nat
  <2>1. c - 1 \in 0..Len(CopyPeriods)-1 /\ (c - 1) + 1 = c
    BY <1>3, ConstantFacts
  <2>2. CopyDelays[c] = CopyDelays[c-1] + CopyPeriods[c]
    BY <2>1, CopyDelaysFacts
  <2> QED
    BY <1>2, <1>3, <2>1, <2>2, CopyDelaysFacts, ConstantFacts DEF NextCopyDelay
<1>5. CopyDelays[c] \in Nat /\ CopyDelays[c] <= CopyWindow /\ CopyWindow < HeartbeatInterval
      /\ CopyWindow \in Nat /\ HeartbeatInterval \in Nat
  <2>1. c = Len(CopyPeriods) \/ c < Len(CopyPeriods)
    BY <1>3, ConstantFacts
  <2> QED
    BY <1>3, <2>1, CopyDelaysFacts, WindowFacts, ConstantFacts
<1>6. /\ n \in 0..Len(allEvents)-1 /\ NextEvent = allEvents[n + 1]
      /\ NextEvent \in Nat
      /\ n > 0 /\ pastEventTime \in Nat /\ pastEventTime = allEvents[n] /\ pastEventTime <= NextEvent
      /\ NextHeartbeat \in Nat
      /\ heartbeatsErased < NumHeartbeats => NextHeartbeat = HeartbeatTime(heartbeatsErased)
      /\ heartbeatsErased = NumHeartbeats => NextEvent < NextHeartbeat
  BY <1>1, PlanFacts DEF TimedByEvent
<1>7. timer = pastEventTime + currentCopyDelay
  BY <1>1 DEF TimedByEvent
<1>8. ScheduleAt(pastEventTime + CopyDelays[c], ReplacesHeartbeat)
  BY <1>4 DEF ScheduleCopy
<1>9. /\ timer' = pastEventTime + CopyDelays[c]
      /\ EraseHeartbeat(ReplacesHeartbeat)
      /\ failed' # "past"
      /\ timer' \in Nat
  <2>1. PICK t : t = pastEventTime + CopyDelays[c]
    OBVIOUS
  <2>2. t \in Nat /\ timer <= t
    BY <1>4, <1>5, <1>6, <1>7, <2>1
  <2>3. timer' = t /\ EraseHeartbeat(ReplacesHeartbeat) /\ failed' # "past"
    BY <1>8, <2>1, <2>2, NotPast
  <2> QED
    BY <2>1, <2>2, <2>3
<1>10. timer < timer' /\ timer' - timer <= HeartbeatInterval /\ timer' < NextEvent
  <2>1. NextEvent - pastEventTime > CopyDelays[c]
    BY <1>4 DEF ScheduleCopy, CopyFits
  <2>2. PICK d, q, i, t1 : /\ d = CopyDelays[c] /\ q = CopyPeriods[c]
                           /\ i = currentCopyDelay /\ t1 = timer'
    OBVIOUS
  <2>3. d = i + q /\ q \in Nat \ {0} /\ i \in Nat /\ d <= CopyWindow /\ t1 = pastEventTime + d
        /\ NextEvent - pastEventTime > d
    BY <1>4, <1>5, <1>9, <2>1, <2>2
  <2>4. timer < t1 /\ t1 - timer <= HeartbeatInterval /\ t1 < NextEvent
    <3>1. PICK a, w, e : a = pastEventTime /\ w = CopyWindow /\ e = NextEvent
      OBVIOUS
    <3>2. /\ a \in Nat /\ w \in Nat /\ e \in Nat /\ w < HeartbeatInterval
          /\ HeartbeatInterval \in Nat /\ d <= w /\ t1 = a + d /\ e - a > d
      BY <1>5, <1>6, <2>3, <3>1
    <3>3. timer = a + i
      BY <1>7, <2>2, <3>1
    <3>4. a + i < a + d /\ (a + d) - (a + i) <= HeartbeatInterval /\ a + d < e
      BY <2>3, <3>2
    <3> QED
      BY <3>1, <3>2, <3>3, <3>4
  <2> QED
    BY <2>2, <2>4
<1>11. /\ heartbeatsErased' \in 1..NumHeartbeats
       /\ NextHeartbeat' \in Nat
       /\ \/ /\ heartbeatsErased' = heartbeatsErased
             /\ NextHeartbeat' = NextHeartbeat
          \/ /\ ReplacesHeartbeat
             /\ heartbeatsErased < NumHeartbeats
             /\ heartbeatsErased' = heartbeatsErased + 1
             /\ HeartbeatTime(heartbeatsErased') = HeartbeatTime(heartbeatsErased) + HeartbeatInterval
             /\ \/ /\ heartbeatsErased' = NumHeartbeats
                   /\ NextHeartbeat' = NextHeartbeat
                \/ /\ heartbeatsErased' < NumHeartbeats
                   /\ NextHeartbeat' = NextHeartbeat + HeartbeatInterval
  <2>1. ReplacesHeartbeat \in BOOLEAN
    BY DEF ReplacesHeartbeat
  <2> QED
    BY <1>1, <1>9, <2>1, AfterErasing DEF Counted
<1>12. NextEvent' = NextEvent /\ pastEventTime' = pastEventTime /\ randomTimes' = randomTimes
       /\ previousWasHeartbeat' = FALSE /\ currentCopyDelay' = CopyDelays[c]
       /\ lastSent' = timer /\ heartbeat' = FALSE /\ oldIndex' = c
       /\ allEvents' = allEvents
  BY <1>2, <1>3, <1>4 DEF ScheduleCopy, NextEvent, ProducePacket
<1>13. HeartbeatsAhead(n)'
  <2>1. heartbeatsErased' = NumHeartbeats
        \/ pastEventTime + CopyWindow < HeartbeatTime(heartbeatsErased')
    <3>1. PICK h, h1 : h = HeartbeatTime(heartbeatsErased) /\ h1 = HeartbeatTime(heartbeatsErased')
      OBVIOUS
    <3>2. h \in Nat
      BY <1>1, <3>1, HeartbeatTimeFacts DEF Counted
    <3>3. heartbeatsErased' = NumHeartbeats \/ h1 = h \/ h1 = h + HeartbeatInterval
      BY <1>11, <3>1
    <3>4. heartbeatsErased = NumHeartbeats \/ pastEventTime + CopyWindow < h
      BY <1>1, <1>6, <3>1 DEF HeartbeatsAhead
    <3>5. heartbeatsErased = NumHeartbeats => heartbeatsErased' = NumHeartbeats
      BY <1>11, ConstantFacts
    <3>6. h1 = h \/ h1 = h + HeartbeatInterval => h <= h1 /\ h1 \in Nat
      BY <1>5, <3>2
    <3> QED
      BY <1>5, <1>6, <3>1, <3>2, <3>3, <3>4, <3>5
  <2> QED
    BY <1>12, <2>1 DEF HeartbeatsAhead, HeartbeatTime
<1>14. NextIsNear'
  <2>1. NextIsNear
    BY <1>1 DEF TimedByEvent
  <2>2. \/ NextHeartbeat' <= pastEventTime + CopyWindow + HeartbeatInterval
        \/ /\ NextEvent <= pastEventTime + CopyWindow + HeartbeatInterval
           /\ NextEvent <= NextHeartbeat' - HeartbeatInterval
           /\ NextHeartbeat' - HeartbeatInterval <= NextEvent + CopyWindow
    <3>1. PICK E, H, h1, past : E = NextEvent /\ H = NextHeartbeat /\ h1 = NextHeartbeat' /\ past = pastEventTime
      OBVIOUS
    <3>2. E \in Nat /\ H \in Nat /\ h1 \in Nat /\ past \in Nat
      BY <1>6, <1>11, <3>1
    <3>3. \/ h1 = H
          \/ E <= H /\ E + CopyWindow >= H /\ h1 = H + HeartbeatInterval
      BY <1>11, <3>1 DEF ReplacesHeartbeat
    <3>4. \/ H <= past + CopyWindow + HeartbeatInterval
          \/ /\ E <= past + CopyWindow + HeartbeatInterval
             /\ E <= H - HeartbeatInterval
             /\ H - HeartbeatInterval <= E + CopyWindow
      BY <2>1, <3>1 DEF NextIsNear
    <3>5. \/ h1 <= past + CopyWindow + HeartbeatInterval
          \/ /\ E <= past + CopyWindow + HeartbeatInterval
             /\ E <= h1 - HeartbeatInterval
             /\ h1 - HeartbeatInterval <= E + CopyWindow
      BY <1>5, <3>2, <3>3, <3>4
    <3> QED
      BY <3>1, <3>5
  <2> QED
    BY <1>12, <2>2 DEF NextIsNear
<1>15. NoneMissed'
  <2>1. ReplacesHeartbeat /\ heartbeatsErased < NumHeartbeats => Covered(heartbeatsErased)
    <3>1. n + 1 \in DOMAIN allEvents
      BY <1>6, EventFacts, GooseAssumption
    <3> QED
      BY <1>5, <1>6, <3>1 DEF ReplacesHeartbeat, Covered
  <2> QED
    BY <1>1, <1>9, <1>10, <1>11, <1>12, <2>1, MissedStep DEF Counted
<1>16. PlanAt(n)'
  <2>1. EventsLeft(n)'
    BY <1>1, <1>12 DEF EventsLeft
  <2>2. Counted'
    <3>1. c \in 0..Len(CopyPeriods) /\ CopyDelays' = CopyDelays
      BY <1>3, ConstantFacts DEF CopyDelays
    <3>2. currentCopyDelay' = CopyDelays[gooseCopiesSent']
      BY <1>3, <1>12
    <3> QED
      BY <1>3, <1>11, <1>12, <3>1, <3>2 DEF Counted
  <2>3. TimedByEvent(n)'
    BY <1>6, <1>9, <1>10, <1>12, <1>14 DEF TimedByEvent
  <2>4. (timer - lastSent <= HeartbeatInterval)'
    BY <1>10, <1>12
  <2>5. TimerFits(n)'
    BY <1>1, <1>12, <2>3, <2>4 DEF TimerFits
  <2> QED
    BY <1>13, <1>15, <2>1, <2>2, <2>5 DEF PlanAt
<1>17. SentSoFar'
  <2>1. Pending' = [time |-> pastEventTime + CopyDelays[c], kind |-> "copy"]
    BY <1>3, <1>9, <1>12 DEF Pending, Kind
  <2>2. Pending' \in Prescribed
    <3>1. n \in 1..Len(allEvents)-1
      BY <1>6, EventFacts
    <3>2. allEvents[n] + CopyDelays[c] < allEvents[n+1]
      BY <1>6, <1>9, <1>10
    <3>3. IsCopy([time |-> pastEventTime + CopyDelays[c], kind |-> "copy"])
      BY <1>3, <1>6, <3>1, <3>2 DEF IsCopy
    <3> QED
      BY <2>1, <3>3, PrescribedCases
  <2>3. ASSUME NEW p \in Prescribed, timer < p.time, p.time <= timer' PROVE p = Pending'
    <3>1. p.time \in Int
      BY PrescribedTimes
    <3>2. p.time < NextEvent /\ p.time <= NextEvent
      BY <1>6, <1>9, <1>10, <2>3, <3>1
    <3>3. CASE \E k \in 1..Len(CopyPeriods) :
                  p = [time |-> pastEventTime + CopyDelays[k], kind |-> "copy"]
      <4>1. PICK k \in 1..Len(CopyPeriods) :
                  p = [time |-> pastEventTime + CopyDelays[k], kind |-> "copy"]
        BY <3>3
      <4>2. p.time = pastEventTime + CopyDelays[k]
        BY <4>1
      <4>3. /\ k \in 0..Len(CopyPeriods) /\ c \in 0..Len(CopyPeriods)
            /\ CopyDelays[k] \in Nat /\ CopyDelays[c] \in Nat
        BY <1>3, CopyDelaysFacts, ConstantFacts
      <4>4. pastEventTime + CopyDelays[k] <= pastEventTime + CopyDelays[c]
        BY <1>9, <2>3, <4>2
      <4>5. ~(c < k)
        BY <1>6, <4>3, <4>4, CopyDelaysFacts
      <4>6. pastEventTime + currentCopyDelay < pastEventTime + CopyDelays[k]
        BY <1>7, <2>3, <4>2
      <4>7. ~(k <= c - 1)
        <5> SUFFICES ASSUME k <= c - 1 PROVE FALSE
          OBVIOUS
        <5>1. c - 1 \in 0..Len(CopyPeriods) /\ (k = c - 1 \/ k < c - 1)
          BY <1>3, ConstantFacts
        <5>2. CopyDelays[k] = CopyDelays[c-1] \/ CopyDelays[k] < CopyDelays[c-1]
          BY <4>3, <5>1, CopyDelaysFacts
        <5>3. PICK d, i : d = CopyDelays[k] /\ i = currentCopyDelay
          OBVIOUS
        <5>4. d \in Nat /\ i \in Nat /\ (d = i \/ d < i)
          BY <1>3, <1>4, <4>3, <5>2, <5>3
        <5> QED
          BY <1>6, <4>6, <5>3, <5>4
      <4>8. k = c
        BY <1>3, <4>3, <4>5, <4>7
      <4> QED
        BY <2>1, <4>1, <4>8
    <3>4. CASE NextHeartbeat <= p.time /\ heartbeatsErased < NumHeartbeats
      <4>1. pastEventTime + CopyWindow < NextHeartbeat
        <5>1. heartbeatsErased # NumHeartbeats /\ n # 0
          BY <1>1, <1>6, <3>4, ConstantFacts DEF Counted
        <5>2. pastEventTime + CopyWindow < HeartbeatTime(heartbeatsErased)
          BY <1>1, <5>1 DEF HeartbeatsAhead
        <5> QED
          BY <1>6, <3>4, <5>2
      <4> QED
        BY <1>5, <1>6, <1>9, <2>3, <3>1, <3>4, <4>1
    <3>5. p # [time |-> NextEvent, kind |-> "event"]
      BY <1>6, <3>2
    <3>6. \/ \E k \in 1..Len(CopyPeriods) :
                  p = [time |-> pastEventTime + CopyDelays[k], kind |-> "copy"]
          \/ NextHeartbeat <= p.time /\ heartbeatsErased < NumHeartbeats
      <4>1. heartbeatsErased \in Nat /\ NumHeartbeats \in Nat
        BY <1>1, ConstantFacts DEF Counted
      <4> QED
        BY <1>1, <2>3, <3>2, <3>5, <4>1, NextPrescribed
    <3> QED
      BY <3>3, <3>4, <3>6
  <2>4. sent' = sent \cup {Pending}
    BY DEF ProducePacket, Pending
  <2> QED
    BY <1>9, <1>10, <2>2, <2>3, <2>4, SentStep
<1> QED
  BY <1>9, <1>10, <1>16, <1>17

(* ScheduleHeartbeat: so is the heartbeat, which no event covers.            *)
LEMMA HeartbeatStep ==
    ASSUME HeartbeatsLast, allEvents \in EventLists, timer \in Nat, now' = timer,
           NEW n \in 0..Len(allEvents), PlanAt(n), SentSoFar,
           ScheduleHeartbeat, ProducePacket, UNCHANGED allEvents
    PROVE  /\ failed' # "past" /\ timer' \in Nat /\ now' <= timer'
           /\ PlanAt(n)'
           /\ SentSoFar'
<1>1. /\ randomTimes # <<>> /\ EventsLeft(n) /\ Counted /\ HeartbeatsAhead(n) /\ NoneMissed
      /\ TimerFits(n) /\ NextEvent > NextHeartbeat
  BY DEF PlanAt, ScheduleHeartbeat
<1>2. /\ n \in 0..Len(allEvents)-1 /\ NextEvent = allEvents[n + 1]
      /\ NextEvent \in Nat
      /\ n > 0 => pastEventTime \in Nat /\ pastEventTime = allEvents[n]
      /\ NextHeartbeat \in Nat
      /\ heartbeatsErased < NumHeartbeats => NextHeartbeat = HeartbeatTime(heartbeatsErased)
      /\ heartbeatsErased = NumHeartbeats => NextEvent < NextHeartbeat
  BY <1>1, PlanFacts
<1>3. PICK e : e = heartbeatsErased
  OBVIOUS
<1>4. e \in Nat /\ e >= 1 /\ e < NumHeartbeats /\ NumHeartbeats \in Nat
  BY <1>1, <1>2, <1>3, ConstantFacts DEF Counted
<1>5. NextHeartbeat = HeartbeatTime(e)
  BY <1>2, <1>3, <1>4
<1>6. /\ HeartbeatTime(e) = HeartbeatTime(e - 1) + HeartbeatInterval
      /\ HeartbeatTime(e + 1) = HeartbeatTime(e) + HeartbeatInterval
      /\ HeartbeatTime(e - 1) \in Nat /\ HeartbeatTime(e) \in Nat
      /\ HeartbeatInterval \in Nat /\ CopyWindow \in Nat /\ CopyWindow < HeartbeatInterval
  <2>1. e - 1 \in Nat /\ (e - 1) + 1 = e
    BY <1>4
  <2> QED
    BY <1>4, <2>1, HeartbeatTimeFacts, WindowFacts, ConstantFacts
<1>7. n > 0 => pastEventTime + CopyWindow < NextHeartbeat
  BY <1>1, <1>3, <1>4, <1>5 DEF HeartbeatsAhead
(* The copies of the last event have been sent.                              *)
<1>8. n > 0 => pastEventTime + CopyWindow <= timer
  <2>1. CASE previousWasHeartbeat
    BY <1>1, <1>2, <1>6, <2>1 DEF TimerFits, TimedByHeartbeat
  <2>2. CASE ~previousWasHeartbeat
    <3>1. gooseCopiesSent = Len(CopyPeriods)
      BY <1>1, <2>2, ConstantFacts DEF Counted, ScheduleHeartbeat, WantsCopy
    <3>2. currentCopyDelay = CopyWindow
      BY <1>1, <3>1, CopyDelaysFacts DEF Counted
    <3> QED
      BY <1>1, <1>2, <1>6, <2>2, <3>2 DEF TimerFits, TimedByEvent
  <2> QED
    BY <2>1, <2>2
<1>9. timer <= NextHeartbeat /\ NextHeartbeat - timer <= HeartbeatInterval
  <2>1. CASE previousWasHeartbeat
    <3>1. timer = HeartbeatTime(e - 1)
      BY <1>1, <1>3, <2>1 DEF TimerFits, TimedByHeartbeat
    <3> QED
      BY <1>5, <1>6, <3>1
  <2>2. CASE ~previousWasHeartbeat
    <3>1. gooseCopiesSent = Len(CopyPeriods)
      BY <1>1, <2>2, ConstantFacts DEF Counted, ScheduleHeartbeat, WantsCopy
    <3>2. currentCopyDelay = CopyWindow
      BY <1>1, <3>1, CopyDelaysFacts DEF Counted
    <3>3. n > 0 /\ timer = pastEventTime + CopyWindow /\ NextIsNear
      BY <1>1, <2>2, <3>2 DEF TimerFits, TimedByEvent
    <3>4. pastEventTime \in Nat /\ pastEventTime + CopyWindow < NextHeartbeat
      BY <1>2, <1>7, <3>3
    <3>5. ~(NextEvent <= NextHeartbeat - HeartbeatInterval)
      BY <1>1, <1>2, <1>6
    <3>6. NextHeartbeat <= pastEventTime + CopyWindow + HeartbeatInterval
      BY <3>3, <3>5 DEF NextIsNear
    <3>7. PICK a : a = pastEventTime + CopyWindow
      OBVIOUS
    <3>8. a \in Nat /\ timer = a /\ a < NextHeartbeat /\ NextHeartbeat <= a + HeartbeatInterval
      BY <1>6, <3>3, <3>4, <3>6, <3>7
    <3> QED
      BY <1>2, <1>6, <3>8
  <2> QED
    BY <2>1, <2>2
<1>10. timer' = NextHeartbeat /\ EraseHeartbeat(TRUE) /\ failed' # "past"
  BY <1>2, <1>9, NotPast DEF ScheduleHeartbeat
<1>11. heartbeatsErased' = e + 1
  BY <1>3, <1>4, <1>10 DEF EraseHeartbeat
<1>12. /\ NextEvent' = NextEvent /\ pastEventTime' = pastEventTime /\ randomTimes' = randomTimes
       /\ previousWasHeartbeat' = TRUE /\ currentCopyDelay' = currentCopyDelay
       /\ gooseCopiesSent' = gooseCopiesSent
       /\ lastSent' = timer /\ heartbeat' = TRUE /\ oldIndex' = gooseCopiesSent
       /\ allEvents' = allEvents
  BY DEF ScheduleHeartbeat, NextEvent, ProducePacket
<1>13. PlanAt(n)'
  <2>1. EventsLeft(n)'
    BY <1>1, <1>12 DEF EventsLeft
  <2>2. Counted'
    <3>1. CopyDelays' = CopyDelays /\ heartbeatsErased' \in 1..NumHeartbeats
      BY <1>4, <1>11 DEF CopyDelays
    <3> QED
      BY <1>1, <1>12, <3>1 DEF Counted
  <2>3. HeartbeatsAhead(n)'
    <3>1. n = 0 \/ pastEventTime + CopyWindow < HeartbeatTime(e + 1)
      BY <1>2, <1>5, <1>6, <1>7
    <3> QED
      BY <1>11, <1>12, <3>1 DEF HeartbeatsAhead, HeartbeatTime
  <2>4. TimedByHeartbeat(n)'
    <3>1. timer' = HeartbeatTime(heartbeatsErased' - 1)
      BY <1>4, <1>5, <1>10, <1>11
    <3>2. timer' < NextEvent'
      BY <1>1, <1>2, <1>10, <1>12
    <3>3. n > 0 => pastEventTime' + CopyWindow < timer'
      BY <1>7, <1>10, <1>12
    <3> QED
      BY <3>1, <3>2, <3>3 DEF TimedByHeartbeat, HeartbeatTime
  <2>5. TimerFits(n)'
    <3>1. timer' - lastSent' <= HeartbeatInterval
      BY <1>9, <1>10, <1>12
    <3> QED
      BY <1>1, <1>12, <2>4, <3>1 DEF TimerFits
  <2>6. NoneMissed'
    <3>1. timer' \in Nat /\ timer <= timer' /\ HeartbeatTime(heartbeatsErased) <= timer'
      BY <1>2, <1>3, <1>5, <1>6, <1>9, <1>10
    <3> QED
      BY <1>1, <1>3, <1>11, <1>12, <3>1, MissedStep DEF Counted
  <2> QED
    BY <2>1, <2>2, <2>3, <2>5, <2>6 DEF PlanAt
<1>14. SentSoFar'
  <2>1. Pending' = [time |-> HeartbeatTime(e), kind |-> "heartbeat"]
    BY <1>5, <1>10, <1>12 DEF Pending, Kind
  <2>2. Pending' \in Prescribed
    <3>1. ASSUME NEW m \in DOMAIN allEvents,
                 HeartbeatTime(e) \in allEvents[m]..allEvents[m] + CopyWindow
          PROVE  FALSE
      <4>1. m \in 1..Len(allEvents) /\ allEvents[m] \in Nat /\ Len(allEvents) \in Nat
        BY EventFacts, GooseAssumption
      <4>2. allEvents[m] <= NextHeartbeat /\ NextHeartbeat <= allEvents[m] + CopyWindow
        BY <1>5, <3>1
      <4>3. CASE m <= n
        <5>1. n \in 1..Len(allEvents) /\ n > 0
          BY <1>2, <4>1, <4>3
        <5>2. allEvents[m] <= pastEventTime
          BY <1>2, <4>1, <4>3, <5>1, EventFacts
        <5> QED
          BY <1>2, <1>6, <1>7, <4>1, <4>2, <5>1, <5>2
      <4>4. CASE n + 1 <= m
        <5>1. n + 1 \in 1..Len(allEvents)
          BY <1>2, <4>1, <4>4
        <5>2. NextEvent <= allEvents[m]
          BY <1>2, <4>1, <4>4, <5>1, EventFacts
        <5> QED
          BY <1>1, <1>2, <4>1, <4>2, <5>2
      <4> QED
        BY <1>2, <4>1, <4>3, <4>4
    <3>2. e \in 0..NumHeartbeats-1
      BY <1>4
    <3>3. IsHeartbeat([time |-> HeartbeatTime(e), kind |-> "heartbeat"])
      BY <3>1, <3>2 DEF IsHeartbeat, Covered
    <3> QED
      BY <2>1, <3>3, PrescribedCases
  <2>3. ASSUME NEW p \in Prescribed, timer < p.time, p.time <= timer' PROVE p = Pending'
    <3>1. p.time \in Int
      BY PrescribedTimes
    <3>2. p.time < NextEvent /\ p.time <= NextEvent /\ p.time <= NextHeartbeat
      BY <1>1, <1>2, <1>10, <2>3, <3>1
    <3>3. ASSUME NEW k \in 1..Len(CopyPeriods), n > 0 PROVE p.time # pastEventTime + CopyDelays[k]
      <4>1. k = Len(CopyPeriods) \/ k < Len(CopyPeriods)
        BY ConstantFacts
      <4>2. CopyDelays[k] \in Nat /\ CopyDelays[k] <= CopyWindow
        BY <4>1, CopyDelaysFacts, ConstantFacts
      <4> QED
        BY <1>2, <1>6, <1>8, <2>3, <3>1, <3>3, <4>2
    <3>4. PICK h \in Nat : /\ p = [time |-> HeartbeatTime(h), kind |-> "heartbeat"]
                           /\ h # heartbeatsErased => NextHeartbeat < p.time
      <4>1. p # [time |-> NextEvent, kind |-> "event"]
        BY <1>2, <3>2
      <4> QED
        BY <1>1, <2>3, <3>2, <3>3, <4>1, NextPrescribed
    <3>5. h = e
      BY <1>2, <1>3, <3>1, <3>2, <3>4
    <3> QED
      BY <2>1, <3>4, <3>5
  <2>4. sent' = sent \cup {Pending}
    BY DEF ProducePacket, Pending
  <2> QED
    BY <1>2, <1>9, <1>10, <2>2, <2>3, <2>4, SentStep
<1> QED
  BY <1>2, <1>9, <1>10, <1>13, <1>14

(* SchedulePeriodic: after the last event nothing is prescribed.             *)
LEMMA PeriodicStep ==
    ASSUME allEvents \in EventLists, timer \in Nat, now' = timer, failed # "past",
           NEW n \in 0..Len(allEvents), PlanAt(n), SentSoFar,
           SchedulePeriodic, ProducePacket, UNCHANGED allEvents
    PROVE  /\ failed' # "past" /\ timer' \in Nat /\ now' <= timer'
           /\ PlanAt(n)'
           /\ SentSoFar'
<1>1. timer' = timer + ProductionInterval /\ timer' \in Nat /\ timer < timer' /\ failed' = failed
  BY ConstantFacts DEF SchedulePeriodic
<1>2. UNCHANGED <<plan, allEvents>> /\ randomTimes = <<>>
  BY DEF SchedulePeriodic
<1>3. timer >= Last(allEvents) /\ Last(allEvents) \in Nat /\ Last(allEvents)' = Last(allEvents)
  <2>1. Last(allEvents) \in Nat
    BY EventFacts DEF Last
  <2> QED
    BY <1>2, <2>1 DEF PlanAt, TimerFits
<1>4. PlanAt(n)'
  <2>1. EventsLeft(n)' /\ HeartbeatsAhead(n)'
    BY <1>2 DEF PlanAt, EventsLeft, HeartbeatsAhead, HeartbeatTime, plan
  <2>2. Counted'
    BY <1>2 DEF PlanAt, Counted, CopyDelays, plan, ProducePacket
  <2>3. TimerFits(n)'
    <3>1. timer' >= Last(allEvents)
      BY <1>1, <1>3
    <3> QED
      BY <1>2, <1>3, <3>1 DEF TimerFits, plan
  <2>4. NoneMissed'
    <3>1. heartbeatsErased' = heartbeatsErased /\ timer <= timer'
      BY <1>1, <1>2 DEF plan
    <3> QED
      BY <1>1, <1>2, <3>1, MissedStep DEF PlanAt, Counted
  <2> QED
    BY <2>1, <2>2, <2>3, <2>4 DEF PlanAt
<1>5. SentSoFar'
  <2>1. \A p \in Prescribed : ~(timer < p.time /\ p.time <= Last(allEvents))
    BY <1>3, PrescribedTimes
  <2>2. ~(timer' <= Last(allEvents))
    BY <1>1, <1>3
  <2>3. sent' = sent \cup {Pending} /\ timer <= timer'
    BY <1>1 DEF ProducePacket, Pending
  <2> QED
    BY <1>1, <1>2, <2>1, <2>2, <2>3, SentStep
<1> QED
  BY <1>1, <1>4, <1>5

(* ScheduleEvent: so is the event, of which the copies are due next.         *)
LEMMA EventStep ==
    ASSUME HeartbeatsLast, allEvents \in EventLists, timer \in Nat, now' = timer,
           NEW n \in 0..Len(allEvents), PlanAt(n), SentSoFar,
           ScheduleEvent, ProducePacket, UNCHANGED allEvents
    PROVE  /\ failed' # "past" /\ timer' \in Nat /\ now' <= timer'
           /\ n + 1 \in 0..Len(allEvents) /\ PlanAt(n + 1)'
           /\ SentSoFar'
<1>1. /\ randomTimes # <<>> /\ EventsLeft(n) /\ Counted /\ HeartbeatsAhead(n) /\ NoneMissed
      /\ TimerFits(n)
  BY DEF PlanAt, ScheduleEvent
<1>2. /\ n \in 0..Len(allEvents)-1 /\ NextEvent = allEvents[n + 1]
      /\ NextEvent \in Nat
      /\ n > 0 => pastEventTime \in Nat /\ pastEventTime = allEvents[n] /\ pastEventTime <= NextEvent
      /\ timer <= NextEvent
      /\ NextHeartbeat \in Nat
      /\ heartbeatsErased < NumHeartbeats => NextHeartbeat = HeartbeatTime(heartbeatsErased)
      /\ heartbeatsErased = NumHeartbeats => NextEvent < NextHeartbeat
  BY <1>1, PlanFacts
<1>3. PICK e : e = heartbeatsErased
  OBVIOUS
<1>4. e \in Nat /\ e >= 1 /\ e <= NumHeartbeats /\ NumHeartbeats \in Nat
  BY <1>1, <1>3, ConstantFacts DEF Counted
<1>5. /\ HeartbeatTime(e) = HeartbeatTime(e - 1) + HeartbeatInterval
      /\ HeartbeatTime(e) \in Nat /\ HeartbeatTime(e - 1) \in Nat
      /\ HeartbeatInterval \in Nat /\ CopyWindow \in Nat /\ CopyWindow < HeartbeatInterval
  <2>1. e - 1 \in Nat /\ (e - 1) + 1 = e
    BY <1>4
  <2> QED
    BY <1>4, <2>1, HeartbeatTimeFacts, WindowFacts, ConstantFacts
(* A copy is left out because the next event is due before or with it.       *)
<1>6. ASSUME WantsCopy
      PROVE  /\ n > 0
             /\ timer = pastEventTime + CopyDelays[gooseCopiesSent]
             /\ gooseCopiesSent + 1 \in 1..Len(CopyPeriods)
             /\ CopyDelays[gooseCopiesSent + 1] <= CopyWindow
             /\ CopyDelays[gooseCopiesSent + 1] \in Nat
             /\ NextEvent <= pastEventTime + CopyDelays[gooseCopiesSent + 1]
             /\ NextEvent - timer <= HeartbeatInterval
  <2>1. PICK c : c = gooseCopiesSent
    OBVIOUS
  <2>2. /\ c \in 0..Len(CopyPeriods)-1 /\ c + 1 \in 1..Len(CopyPeriods)
        /\ c \in 0..Len(CopyPeriods) /\ c + 1 \in 0..Len(CopyPeriods)
        /\ previousWasHeartbeat = FALSE /\ currentCopyDelay = CopyDelays[c]
    BY <1>1, <1>6, <2>1, ConstantFacts DEF Counted, WantsCopy
  <2>3. /\ CopyDelays[c + 1] = CopyDelays[c] + CopyPeriods[c + 1]
        /\ CopyDelays[c] \in Nat /\ CopyDelays[c + 1] \in Nat
    BY <2>2, CopyDelaysFacts
  <2>4. CopyDelays[c + 1] <= CopyWindow
    <3>1. c + 1 = Len(CopyPeriods) \/ c + 1 < Len(CopyPeriods)
      BY <2>2, ConstantFacts
    <3>2. CASE c + 1 = Len(CopyPeriods)
      BY <2>3, <3>2, CopyDelaysFacts
    <3>3. CASE c + 1 < Len(CopyPeriods)
      <4>1. Len(CopyPeriods) \in 0..Len(CopyPeriods)
        BY ConstantFacts
      <4>2. CopyDelays[c + 1] < CopyDelays[Len(CopyPeriods)]
        BY <2>2, <3>3, <4>1, CopyDelaysFacts
      <4> QED
        BY <2>3, <4>2, CopyDelaysFacts, WindowFacts
    <3> QED
      BY <3>1, <3>2, <3>3
  <2>5. n > 0 /\ timer = pastEventTime + CopyDelays[c]
    BY <1>1, <2>2 DEF TimerFits, TimedByEvent
  <2>6. NextCopyDelay = CopyDelays[c + 1]
    BY <2>1, <2>2, <2>3 DEF NextCopyDelay
  <2>7. ~(NextEvent - pastEventTime > CopyDelays[c + 1])
    BY <1>6, <2>6 DEF ScheduleEvent, CopyFits
  <2>8. NextEvent <= pastEventTime + CopyDelays[c + 1]
    BY <1>2, <2>3, <2>5, <2>7
  <2>9. NextEvent - timer <= HeartbeatInterval
    <3>1. PICK d, d1, q : d = CopyDelays[c] /\ d1 = CopyDelays[c + 1] /\ q = pastEventTime
      OBVIOUS
    <3>2. d \in Nat /\ d1 \in Nat /\ q \in Nat /\ d1 <= CopyWindow /\ NextEvent <= q + d1
          /\ timer = q + d
      BY <1>2, <2>3, <2>4, <2>5, <2>8, <3>1
    <3> QED
      BY <1>2, <1>5, <3>2
  <2> QED
    BY <2>1, <2>2, <2>3, <2>4, <2>5, <2>8, <2>9
(* Otherwise they have all been sent.                                        *)
<1>7. ASSUME ~WantsCopy, n > 0 PROVE pastEventTime + CopyWindow <= timer
  <2>1. CASE previousWasHeartbeat
    BY <1>1, <1>2, <1>5, <1>7, <2>1 DEF TimerFits, TimedByHeartbeat
  <2>2. CASE ~previousWasHeartbeat
    <3>1. gooseCopiesSent = Len(CopyPeriods)
      BY <1>1, <1>7, <2>2, ConstantFacts DEF Counted, WantsCopy
    <3>2. currentCopyDelay = CopyWindow
      BY <1>1, <3>1, CopyDelaysFacts DEF Counted
    <3> QED
      BY <1>1, <1>2, <1>5, <1>7, <2>2, <3>2 DEF TimerFits, TimedByEvent
  <2> QED
    BY <2>1, <2>2
<1>8. NextEvent <= NextHeartbeat
  <2>1. CASE WantsCopy /\ e < NumHeartbeats
    <3>1. pastEventTime + CopyWindow < NextHeartbeat
      BY <1>1, <1>2, <1>3, <1>4, <1>6, <2>1 DEF HeartbeatsAhead
    <3>2. PICK d : d = CopyDelays[gooseCopiesSent + 1]
      OBVIOUS
    <3>3. d \in Nat /\ d <= CopyWindow /\ NextEvent <= pastEventTime + d /\ pastEventTime \in Nat
      BY <1>2, <1>6, <2>1, <3>2
    <3> QED
      BY <1>2, <1>5, <3>1, <3>3
  <2>2. CASE e = NumHeartbeats
    BY <1>2, <1>3, <2>2
  <2>3. CASE ~WantsCopy
    BY <2>3 DEF ScheduleEvent
  <2> QED
    BY <1>4, <2>1, <2>2, <2>3
<1>9. ASSUME previousWasHeartbeat
      PROVE  e < NumHeartbeats /\ NextHeartbeat = timer + HeartbeatInterval
  <2>1. timer = HeartbeatTime(e - 1) /\ timer < NextEvent
    BY <1>1, <1>3, <1>9 DEF TimerFits, TimedByHeartbeat
  <2>2. e # NumHeartbeats
    <3> SUFFICES ASSUME e = NumHeartbeats PROVE FALSE
      OBVIOUS
    <3>1. NextHeartbeat = HeartbeatTime(e - 1)
      BY <1>1, <1>3, NextHeartbeatFacts DEF Counted
    <3> QED
      BY <1>2, <1>8, <2>1, <3>1
  <2>3. e < NumHeartbeats
    BY <1>4, <2>2
  <2> QED
    BY <1>2, <1>3, <1>5, <2>1, <2>3
<1>10. NextEvent - timer <= HeartbeatInterval
  <2>1. CASE previousWasHeartbeat
    BY <1>2, <1>5, <1>8, <1>9, <2>1
  <2>2. CASE WantsCopy
    BY <1>6, <2>2
  <2>3. CASE ~previousWasHeartbeat /\ ~WantsCopy
    <3>1. n > 0 /\ NextIsNear
      BY <1>1, <2>3 DEF TimerFits, TimedByEvent
    <3>2. NextEvent <= pastEventTime + CopyWindow + HeartbeatInterval
      BY <1>2, <1>5, <1>8, <3>1 DEF NextIsNear
    <3> QED
      BY <1>2, <1>5, <1>7, <2>3, <3>1, <3>2
  <2> QED
    BY <1>1, <2>1, <2>2, <2>3 DEF Counted
<1>11. NextHeartbeat <= NextEvent + CopyWindow + HeartbeatInterval
  <2>1. CASE previousWasHeartbeat
    BY <1>2, <1>5, <1>9, <2>1
  <2>2. CASE ~previousWasHeartbeat
    <3>1. n > 0 /\ NextIsNear
      BY <1>1, <2>2 DEF TimerFits, TimedByEvent
    <3>2. \/ NextHeartbeat <= pastEventTime + CopyWindow + HeartbeatInterval
          \/ NextHeartbeat - HeartbeatInterval <= NextEvent + CopyWindow
      BY <3>1 DEF NextIsNear
    <3>3. pastEventTime \in Nat /\ pastEventTime <= NextEvent
      BY <1>2, <3>1
    <3> QED
      BY <1>2, <1>5, <3>2, <3>3
  <2> QED
    BY <2>1, <2>2
<1>12. /\ timer' = NextEvent
       /\ EraseHeartbeat(ReplacesHeartbeat)
       /\ failed' # "past"
  BY <1>2, NotPast DEF ScheduleEvent
<1>13. /\ heartbeatsErased' \in 1..NumHeartbeats
       /\ NextHeartbeat' \in Nat
       /\ \/ /\ heartbeatsErased' = heartbeatsErased
             /\ NextHeartbeat' = NextHeartbeat
             /\ ReplacesHeartbeat => heartbeatsErased = NumHeartbeats
          \/ /\ ReplacesHeartbeat
             /\ heartbeatsErased < NumHeartbeats
             /\ heartbeatsErased' = heartbeatsErased + 1
             /\ HeartbeatTime(heartbeatsErased') = HeartbeatTime(heartbeatsErased) + HeartbeatInterval
             /\ \/ /\ heartbeatsErased' = NumHeartbeats
                   /\ NextHeartbeat' = NextHeartbeat
                \/ /\ heartbeatsErased' < NumHeartbeats
                   /\ NextHeartbeat' = NextHeartbeat + HeartbeatInterval
  <2>1. ReplacesHeartbeat \in BOOLEAN
    BY DEF ReplacesHeartbeat
  <2> QED
    BY <1>1, <1>12, <2>1, AfterErasing DEF Counted
<1>14. /\ pastEventTime' = NextEvent /\ randomTimes' = Tail(randomTimes)
       /\ previousWasHeartbeat' = FALSE /\ currentCopyDelay' = 0 /\ gooseCopiesSent' = 0
       /\ lastSent' = timer /\ heartbeat' = FALSE /\ oldIndex' = 0
       /\ allEvents' = allEvents
  BY DEF ScheduleEvent, ProducePacket
<1>15. ReplacesHeartbeat <=> NextEvent + CopyWindow >= NextHeartbeat
  BY <1>8 DEF ReplacesHeartbeat
<1>16. EventsLeft(n + 1)'
  <2>1. Len(randomTimes) \in Nat /\ Len(randomTimes) > 0 /\ Len(allEvents) \in Nat
    BY <1>1, EventFacts DEF EventsLeft
  <2>2. /\ Tail(randomTimes) \in Seq(Nat) /\ Len(Tail(randomTimes)) = Len(randomTimes) - 1
        /\ \A i \in 1..Len(randomTimes)-1 : Tail(randomTimes)[i] = randomTimes[i + 1]
    BY <1>1, <2>1 DEF EventsLeft
  <2>3. Len(Tail(randomTimes)) = Len(allEvents) - (n + 1)
    BY <1>1, <1>2, <2>1, <2>2 DEF EventsLeft
  <2>4. ASSUME NEW i \in 1..Len(Tail(randomTimes))
        PROVE  Tail(randomTimes)[i] = allEvents[(n + 1) + i]
    <3>1. i + 1 \in 1..Len(randomTimes) /\ i \in 1..Len(randomTimes)-1 /\ n + (i + 1) = (n + 1) + i
      BY <1>2, <2>1, <2>2
    <3> QED
      BY <1>1, <2>2, <3>1 DEF EventsLeft
  <2> QED
    BY <1>2, <1>14, <2>2, <2>3, <2>4 DEF EventsLeft
<1>17. HeartbeatsAhead(n + 1)'
  <2>1. heartbeatsErased' = NumHeartbeats
        \/ NextEvent + CopyWindow < HeartbeatTime(heartbeatsErased')
    <3>1. CASE ReplacesHeartbeat /\ heartbeatsErased' # NumHeartbeats
      <4>1. HeartbeatTime(heartbeatsErased') = NextHeartbeat + HeartbeatInterval
        BY <1>2, <1>13, <3>1
      <4> QED
        BY <1>2, <1>5, <1>8, <4>1
    <3>2. CASE ~ReplacesHeartbeat /\ heartbeatsErased' # NumHeartbeats
      <4>1. heartbeatsErased' = e /\ e < NumHeartbeats
        BY <1>3, <1>4, <1>13, <3>2
      <4>2. NextHeartbeat = HeartbeatTime(heartbeatsErased')
        BY <1>2, <1>3, <4>1
      <4> QED
        BY <1>2, <1>5, <1>15, <3>2, <4>2
    <3> QED
      BY <3>1, <3>2
  <2> QED
    BY <1>14, <2>1 DEF HeartbeatsAhead, HeartbeatTime
<1>18. NextHeartbeat' <= NextEvent + CopyWindow + HeartbeatInterval
  <2>1. CASE NextHeartbeat' = NextHeartbeat
    BY <1>11, <2>1
  <2>2. CASE ReplacesHeartbeat /\ NextHeartbeat' = NextHeartbeat + HeartbeatInterval
    BY <1>2, <1>5, <1>15, <2>2
  <2> QED
    BY <1>13, <2>1, <2>2
<1>19. Counted'
  <2>1. CopyDelays' = CopyDelays /\ CopyDelays[0] = 0 /\ 0 \in 0..Len(CopyPeriods)
    BY CopyDelaysFacts, ConstantFacts DEF CopyDelays
  <2> QED
    BY <1>13, <1>14, <2>1 DEF Counted
<1>20. TimerFits(n + 1)'
  <2>1. Len(randomTimes') = Len(allEvents) - (n + 1) /\ randomTimes' \in Seq(Nat)
    BY <1>14, <1>16 DEF EventsLeft
  <2>2. CASE randomTimes' = <<>>
    <3>1. n + 1 = Len(allEvents)
      BY <1>2, <2>1, <2>2, EventFacts
    <3>2. timer' >= Last(allEvents')
      BY <1>2, <1>12, <1>14, <3>1 DEF Last
    <3> QED
      BY <2>2, <3>2 DEF TimerFits
  <2>3. CASE randomTimes' # <<>>
    <3>1. Len(randomTimes') > 0 /\ Len(randomTimes') \in Nat
      BY <2>1, <2>3
    <3>2. n + 2 \in 1..Len(allEvents) /\ n + 1 \in 1..Len(allEvents)
      BY <1>2, <2>1, <3>1, EventFacts
    <3>3. randomTimes'[1] = allEvents[n + 2]
      <4>1. 1 \in 1..Len(randomTimes') /\ (n + 1) + 1 = n + 2
        BY <1>2, <3>1
      <4> QED
        BY <1>14, <1>16, <4>1 DEF EventsLeft
    <3>4. NextEvent' = allEvents[n + 2]
      BY <2>1, <3>1, <3>3 DEF NextEvent
    <3>5. NextEvent <= NextEvent'
      BY <1>2, <3>2, <3>4, EventFacts
    <3>6. n + 1 > 0 /\ timer' = pastEventTime' + currentCopyDelay'
      BY <1>2, <1>12, <1>14
    <3>7. NextIsNear'
      BY <1>14, <1>18 DEF NextIsNear
    <3>8. TimedByEvent(n + 1)'
      BY <1>12, <3>5, <3>6, <3>7 DEF TimedByEvent
    <3>9. timer' - lastSent' <= HeartbeatInterval
      BY <1>10, <1>12, <1>14
    <3> QED
      BY <1>14, <2>3, <3>8, <3>9 DEF TimerFits
  <2> QED
    BY <2>2, <2>3
<1>21. NoneMissed'
  <2>1. ReplacesHeartbeat /\ heartbeatsErased < NumHeartbeats => Covered(heartbeatsErased)
    <3>1. n + 1 \in DOMAIN allEvents
      BY <1>2, EventFacts, GooseAssumption
    <3> QED
      BY <1>2, <1>5, <3>1 DEF ReplacesHeartbeat, Covered
  <2> QED
    BY <1>1, <1>2, <1>12, <1>13, <1>14, <2>1, MissedStep DEF Counted
<1>22. SentSoFar'
  <2>1. Pending' = [time |-> NextEvent, kind |-> "event"]
    BY <1>12, <1>14 DEF Pending, Kind
  <2>2. Pending' \in Prescribed
    <3>1. n + 1 \in 1..Len(allEvents)
      BY <1>2, EventFacts
    <3>2. IsEvent([time |-> NextEvent, kind |-> "event"])
      BY <1>2, <3>1 DEF IsEvent
    <3> QED
      BY <2>1, <3>2, PrescribedCases
  <2>3. ASSUME NEW p \in Prescribed, timer < p.time, p.time <= timer' PROVE p = Pending'
    <3>1. p.time \in Int /\ p.time <= NextEvent
      BY <1>12, <2>3, PrescribedTimes
    <3>2. ASSUME NEW k \in 1..Len(CopyPeriods), n > 0, p.time < NextEvent
          PROVE  p.time # pastEventTime + CopyDelays[k]
      <4>1. CopyDelays[k] \in Nat /\ CopyDelays[k] <= CopyWindow
        <5>1. k = Len(CopyPeriods) \/ k < Len(CopyPeriods)
          BY ConstantFacts
        <5> QED
          BY <5>1, CopyDelaysFacts, ConstantFacts
      <4>2. CASE ~WantsCopy
        <5>1. pastEventTime + CopyWindow < p.time
          BY <1>2, <1>5, <1>7, <2>3, <3>1, <3>2, <4>2
        <5>2. pastEventTime \in Nat
          BY <1>2, <3>2
        <5> QED
          BY <1>5, <3>1, <4>1, <5>1, <5>2
      <4>3. CASE WantsCopy
        <5>1. PICK c : c = gooseCopiesSent
          OBVIOUS
        <5>2. /\ timer = pastEventTime + CopyDelays[c] /\ c + 1 \in 1..Len(CopyPeriods)
              /\ NextEvent <= pastEventTime + CopyDelays[c + 1] /\ c \in 0..Len(CopyPeriods)
          BY <1>1, <1>6, <4>3, <5>1 DEF Counted
        <5>3. /\ k \in 0..Len(CopyPeriods) /\ c + 1 \in 0..Len(CopyPeriods)
              /\ CopyDelays[c] \in Nat /\ CopyDelays[c + 1] \in Nat
          BY <5>2, CopyDelaysFacts, ConstantFacts
        <5>4. k <= c \/ c + 1 <= k
          BY <5>2
        <5>5. CASE k <= c
          <6>1. CopyDelays[k] <= CopyDelays[c]
            <7>1. k = c \/ k < c
              BY <5>2, <5>5
            <7> QED
              BY <4>1, <5>2, <5>3, <7>1, CopyDelaysFacts
          <6> QED
            BY <1>2, <2>3, <3>1, <3>2, <4>1, <5>2, <5>3, <6>1
        <5>6. CASE c + 1 <= k
          <6>1. CopyDelays[c + 1] <= CopyDelays[k]
            <7>1. k = c + 1 \/ c + 1 < k
              BY <5>2, <5>6
            <7> QED
              BY <4>1, <5>3, <7>1, CopyDelaysFacts
          <6>2. PICK d, d1 : d = CopyDelays[k] /\ d1 = CopyDelays[c + 1]
            OBVIOUS
          <6>3. d \in Nat /\ d1 \in Nat /\ d1 <= d /\ NextEvent <= pastEventTime + d1
            BY <4>1, <5>2, <5>3, <6>1, <6>2
          <6>4. ~(pastEventTime + d < NextEvent)
            BY <1>2, <3>2, <6>3
          <6> QED
            BY <3>2, <6>2, <6>4
        <5> QED
          BY <5>4, <5>5, <5>6
      <4> QED
        BY <4>2, <4>3
    <3>3. CASE NextHeartbeat <= p.time /\ p.time # NextEvent
      BY <1>2, <1>8, <3>1, <3>3
    <3> QED
      BY <1>1, <2>1, <2>3, <3>1, <3>2, <3>3, NextPrescribed
  <2>4. sent' = sent \cup {Pending}
    BY DEF ProducePacket, Pending
  <2> QED
    BY <1>2, <1>12, <2>2, <2>3, <2>4, SentStep
<1>23. n + 1 \in 0..Len(allEvents)
  BY <1>2, EventFacts
<1> QED
  BY <1>2, <1>12, <1>16, <1>17, <1>19, <1>20, <1>21, <1>22, <1>23 DEF PlanAt

-----------------------------------------------------------------------------
(* The invariant.                                                            *)

(* At first the timer is set for the heartbeat 0.                            *)
LEMMA InitGoose == ASSUME Init, HeartbeatsLast PROVE GooseInv
<1>1. allEvents \in EventLists /\ randomTimes = allEvents
  BY DEF Init
<1>2. /\ Len(allEvents) \in Nat \ {0} /\ allEvents \in Seq(Nat)
      /\ \A n \in 1..Len(allEvents) : allEvents[n] \in Nat /\ allEvents[n] > 0
  BY <1>1, GooseAssumption
<1>3. timer = 0 /\ Pending = [time |-> 0, kind |-> "heartbeat"]
  BY DEF Init, Pending, Kind
<1>4. NextEvent > 0 /\ randomTimes # <<>>
  BY <1>1, <1>2 DEF NextEvent
<1>5. EventsLeft(0)
  BY <1>1, <1>2 DEF EventsLeft
<1>6. Counted
  BY CopyDelaysFacts, ConstantFacts DEF Counted, Init
<1>7. TimerFits(0)
  <2>1. timer = HeartbeatTime(heartbeatsErased - 1)
    BY HeartbeatTimeFacts DEF Init
  <2> QED
    BY <1>3, <1>4, <2>1, ConstantFacts DEF Init, TimerFits, TimedByHeartbeat
<1>8. NoneMissed
  BY <1>3, HeartbeatTimeFacts DEF Init, NoneMissed
<1>9. PlanAt(0) /\ 0 \in 0..Len(allEvents)
  BY <1>2, <1>5, <1>6, <1>7, <1>8 DEF PlanAt, HeartbeatsAhead
<1>10. SentSoFar
  <2>1. Last(allEvents) \in Nat
    BY <1>2 DEF Last
  <2>2. [time |-> 0, kind |-> "heartbeat"] \in Prescribed
    <3>1. ~Covered(0)
      <4>1. \A m \in DOMAIN allEvents : allEvents[m] \in Nat /\ allEvents[m] > 0
        BY <1>2
      <4> QED
        BY <4>1, HeartbeatTimeFacts DEF Covered
    <3>2. 0 \in 0..NumHeartbeats-1
      BY ConstantFacts
    <3>3. IsHeartbeat([time |-> 0, kind |-> "heartbeat"])
      BY <3>1, <3>2, HeartbeatTimeFacts DEF IsHeartbeat
    <3> QED
      BY <1>1, <3>3, PrescribedCases
  <2>3. ASSUME NEW p \in Prescribed, p.time <= 0 PROVE p = [time |-> 0, kind |-> "heartbeat"]
    <3>1. CASE IsEvent(p)
      BY <1>2, <2>3, <3>1 DEF IsEvent
    <3>2. CASE IsCopy(p)
      <4>1. PICK m \in 1..Len(allEvents)-1, k \in 1..Len(CopyPeriods) :
                p = [time |-> allEvents[m] + CopyDelays[k], kind |-> "copy"]
        BY <3>2 DEF IsCopy
      <4>2. allEvents[m] \in Nat /\ allEvents[m] > 0 /\ CopyDelays[k] \in Nat
        BY <1>2, CopyDelaysFacts, ConstantFacts
      <4> QED
        BY <2>3, <4>1, <4>2
    <3>3. CASE IsHeartbeat(p)
      <4>1. PICK h \in 0..NumHeartbeats-1 : p = [time |-> HeartbeatTime(h), kind |-> "heartbeat"]
        BY <3>3 DEF IsHeartbeat
      <4>2. h = 0 \/ HeartbeatTime(h) > 0
        BY ConstantFacts, HeartbeatTimeFacts
      <4>3. HeartbeatTime(h) \in Nat /\ HeartbeatTime(h) <= 0
        BY <2>3, <4>1, ConstantFacts, HeartbeatTimeFacts
      <4> QED
        BY <4>1, <4>2, <4>3, HeartbeatTimeFacts
    <3> QED
      BY <1>1, <3>1, <3>2, <3>3, PrescribedCases
  <2>4. sent = {}
    BY DEF Init
  <2> QED
    BY <1>3, <2>1, <2>2, <2>3, <2>4 DEF SentSoFar
<1> QED
  BY <1>1, <1>3, <1>9, <1>10 DEF GooseInv, Init, NotScheduled

(* What a step that leaves the plan alone preserves.                         *)
LEMMA PlanUnchanged ==
    ASSUME UNCHANGED <<timer, plan, heartbeat, oldIndex, failed, allEvents, sent, lastSent>>,
           NEW n, PlanAt(n), SentSoFar
    PROVE  PlanAt(n)' /\ SentSoFar'
<1>1. EventsLeft(n)' /\ Counted' /\ HeartbeatsAhead(n)' /\ NoneMissed'
  BY DEF PlanAt, EventsLeft, Counted, HeartbeatsAhead, NoneMissed, Covered, HeartbeatTime, CopyDelays, plan
<1>2. TimerFits(n)'
  BY DEF PlanAt, TimerFits, TimedByHeartbeat, TimedByEvent, NextIsNear, NextHeartbeat, NextEvent,
         HeartbeatTime, plan
<1>3. SentSoFar'
  BY DEF SentSoFar, Pending, Kind, Prescribed, plan
<1> QED
  BY <1>1, <1>2, <1>3 DEF PlanAt

(* One lemma per action.                                                     *)
LEMMA ProduceGoose == ASSUME GooseInv, HeartbeatsLast, Produce PROVE GooseInv'
<1>1. /\ allEvents \in EventLists /\ allEvents' = allEvents /\ canPush /\ canPush' = canPush
      /\ delayed' = delayed /\ now' = timer /\ timer # NotScheduled
      /\ ScheduleProductionTimer /\ ProducePacket
  BY DEF GooseInv, Produce, TimerDue
<1>2. CASE delayed
  BY <1>1, <1>2 DEF GooseInv, Produce, TimerDue
<1>3. CASE ~delayed
  <2>1. timer \in Nat /\ failed # "past" /\ SentSoFar
    BY <1>1, <1>3 DEF GooseInv
  <2>2. PICK n \in 0..Len(allEvents) : PlanAt(n)
    BY <1>1, <1>3 DEF GooseInv
  <2>3. \E m \in 0..Len(allEvents) : PlanAt(m)' /\ SentSoFar'
                /\ failed' # "past" /\ timer' \in Nat /\ now' <= timer'
    <3>1. CASE ScheduleCopy
      BY <1>1, <2>1, <2>2, <3>1, CopyStep
    <3>2. CASE ScheduleHeartbeat
      BY <1>1, <2>1, <2>2, <3>2, HeartbeatStep
    <3>3. CASE ScheduleEvent
      BY <1>1, <2>1, <2>2, <3>3, EventStep
    <3>4. CASE SchedulePeriodic
      BY <1>1, <2>1, <2>2, <3>4, PeriodicStep
    <3> QED
      BY <1>1, <3>1, <3>2, <3>3, <3>4 DEF ScheduleProductionTimer
  <2> QED
    BY <1>1, <2>1, <2>3 DEF GooseInv, NotScheduled
<1> QED
  BY <1>2, <1>3

LEMMA WaitGoose == ASSUME GooseInv, WaitForConsumer PROVE GooseInv'
  BY DEF GooseInv, WaitForConsumer, TimerDue, NotScheduled

LEMMA BlockGoose == ASSUME GooseInv, Block PROVE GooseInv'
<1>1. CASE timer = NotScheduled
  BY <1>1 DEF GooseInv, Block, NotScheduled
<1>2. CASE timer # NotScheduled
  <2>1. /\ allEvents \in EventLists /\ now \in Nat /\ failed # "past" /\ timer \in Nat
        /\ now <= timer /\ SentSoFar
    BY <1>2 DEF GooseInv, Block
  <2>2. PICK n \in 0..Len(allEvents) : PlanAt(n)
    BY <1>2 DEF GooseInv, Block
  <2>3. PlanAt(n)' /\ SentSoFar'
    BY <2>1, <2>2, PlanUnchanged DEF Block
  <2>4. \E m \in 0..Len(allEvents)' : PlanAt(m)'
    BY <2>2, <2>3 DEF Block
  <2> QED
    BY <1>2, <2>1, <2>3, <2>4 DEF GooseInv, Block
<1> QED
  BY <1>1, <1>2

LEMMA UnblockGoose ==
    ASSUME GooseInv, NEW time \in 0..SimTimeLimit, Unblock(time) PROVE GooseInv'
<1>1. allEvents \in EventLists /\ allEvents' = allEvents /\ now' = time /\ time \in Nat /\ canPush' = TRUE
  BY ConstantFacts DEF GooseInv, Unblock
<1>2. CASE timer = NotScheduled
  BY <1>1, <1>2 DEF GooseInv, Unblock
<1>3. CASE timer # NotScheduled /\ delayed
  BY <1>1, <1>3 DEF GooseInv, Unblock
<1>4. CASE timer # NotScheduled /\ ~delayed
  <2>1. /\ failed # "past" /\ timer \in Nat /\ SentSoFar /\ time <= timer
        /\ UNCHANGED <<timer, plan, heartbeat, oldIndex, failed, allEvents, sent, lastSent, delayed>>
    BY <1>4 DEF GooseInv, Unblock
  <2>2. PICK n \in 0..Len(allEvents) : PlanAt(n)
    BY <1>4 DEF GooseInv
  <2>3. PlanAt(n)' /\ SentSoFar'
    BY <2>1, <2>2, PlanUnchanged
  <2>4. \E m \in 0..Len(allEvents)' : PlanAt(m)'
    BY <1>1, <2>2, <2>3
  <2>5. timer' = timer /\ failed' = failed /\ allEvents' = allEvents
    BY <2>1
  <2> QED
    BY <1>1, <1>4, <2>1, <2>3, <2>4, <2>5 DEF GooseInv
<1> QED
  BY <1>2, <1>3, <1>4

(* Every step preserves the invariant.                                       *)
LEMMA NextGoose == ASSUME GooseInv, HeartbeatsLast, [Next]_vars PROVE GooseInv'
<1>1. CASE Produce
  BY <1>1, ProduceGoose
<1>2. CASE WaitForConsumer
  BY <1>2, WaitGoose
<1>3. CASE Block
  BY <1>3, BlockGoose
<1>4. CASE \E time \in 0..SimTimeLimit : Unblock(time)
  BY <1>4, UnblockGoose
<1>5. CASE UNCHANGED vars
  <2>1. CASE delayed \/ timer = NotScheduled
    BY <1>5, <2>1 DEF GooseInv, vars
  <2>2. CASE ~delayed /\ timer # NotScheduled
    <3>1. PICK n \in 0..Len(allEvents) : PlanAt(n)
      BY <2>2 DEF GooseInv
    <3>2. PlanAt(n)' /\ SentSoFar'
      BY <1>5, <2>2, <3>1, PlanUnchanged DEF GooseInv, vars
    <3> QED
      BY <1>5, <2>2, <3>1, <3>2 DEF GooseInv, vars
  <2> QED
    BY <2>1, <2>2
<1> QED
  BY <1>1, <1>2, <1>3, <1>4, <1>5 DEF Next

(* GooseInv is an invariant of ActivePacketSource with useGoose, if          *)
(* heartbeatTimes has entries for the whole simulation.                      *)
THEOREM InductiveInvariant == ASSUME HeartbeatsLast PROVE Spec => []GooseInv
<1>1. Init => GooseInv
  BY InitGoose
<1>2. GooseInv /\ [Next]_vars => GooseInv'
  BY NextGoose
<1> QED
  BY <1>1, <1>2, PTL DEF Spec

(* scheduleClockEventAt is never called with a time that is over, for any    *)
(* events, copy periods and heartbeat interval longer than the copies take,  *)
(* unless the consumer made a packet wait.                                   *)
THEOREM TimerInFuture == ASSUME HeartbeatsLast PROVE Spec => []NeverInThePast
<1>1. GooseInv => NeverInThePast
  BY DEF GooseInv, NeverInThePast
<1> QED
  BY <1>1, InductiveInvariant, PTL

(* Whatever heartbeats are erased for events and copies, the next packet is  *)
(* never further away than a heartbeat interval.                             *)
THEOREM NoLongSilence == ASSUME HeartbeatsLast PROVE Spec => []SilenceBounded
<1>1. GooseInv => SilenceBounded
  BY DEF GooseInv, SilenceBounded, Undisturbed, PlanAt, TimerFits
<1> QED
  BY <1>1, InductiveInvariant, PTL

(* scheduleProductionTimer, choosing one next packet at a time, and          *)
(* producePacket with its note of it, send exactly the events, copies and    *)
(* heartbeats there have to be, up to the last event.                        *)
THEOREM PrescribedTraffic == ASSUME HeartbeatsLast PROVE Spec => []SendsPrescribed
<1>1. GooseInv => SendsPrescribed
  <2> SUFFICES ASSUME GooseInv, Undisturbed, timer > now
               PROVE  {p \in sent : AsLongAs(p)} = {p \in Prescribed : AsLongAs(p)}
    BY DEF SendsPrescribed
  <2>1. /\ allEvents \in EventLists /\ SentSoFar /\ timer \in Nat /\ now \in Nat /\ timer > now
        /\ Last(allEvents) \in Nat
    BY EventFacts DEF GooseInv, Undisturbed, Last
  <2>2. Pending.time = timer
    BY DEF Pending
  <2>3. ASSUME NEW p \in sent, AsLongAs(p) PROVE p \in Prescribed
    BY <2>1, <2>3 DEF SentSoFar, AsLongAs
  <2>4. ASSUME NEW p \in Prescribed, AsLongAs(p) PROVE p \in sent
    <3>1. p.time <= now /\ p.time <= Last(allEvents) /\ p.time \in Int
      BY <2>1, <2>4, PrescribedTimes DEF AsLongAs
    <3>2. p.time <= timer /\ p.time # timer
      BY <2>1, <3>1
    <3>3. p \in sent \cup {Pending}
      BY <2>1, <3>1, <3>2 DEF SentSoFar
    <3> QED
      BY <2>2, <3>2, <3>3
  <2> QED
    BY <2>3, <2>4
<1> QED
  BY <1>1, InductiveInvariant, PTL

=============================================================================
