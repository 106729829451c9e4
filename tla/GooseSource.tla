---------------------------- MODULE GooseSource ----------------------------
(***************************************************************************)
(* The GOOSE publisher of the substation: inet::queueing::ActivePacketSource *)
(* (queueing/source/ActivePacketSource.cc) with useGoose and, as by default, *)
(* scheduleForAbsoluteTime and no initialProductionOffset.  Events happen at *)
(* random times; each is followed by copies, at growing distances, until the *)
(* next event; heartbeats are sent in between.                               *)
(*                                                                         *)
(* One timer serves all three, so whenever a packet is sent the source has   *)
(* to choose what comes next.  Time is the time of the source's clock.       *)
(***************************************************************************)
EXTENDS Integers, Sequences, SequencesExt

CONSTANTS
    EventLists,         \* sorted lists of event times
    CopyPeriods,        \* gooseCopyPeriods
    CopyWindow,         \* 0.352, "the sum of the vector gooseCopyPeriods"
    HeartbeatInterval,
    NumHeartbeats,      \* 21, entries of heartbeatTimes
    ProductionInterval,
    SimTimeLimit        \* sim-time-limit, the bound of the clock

NotScheduled == -1

(* How long after its event a copy is due, the copy 0 being the event.       *)
CopyDelays ==
    LET delay[k \in 0..Len(CopyPeriods)] ==
            IF k = 0 THEN 0 ELSE delay[k-1] + CopyPeriods[k]
    IN  delay

HeartbeatTime(h) == HeartbeatInterval * h

ASSUME GooseAssumption ==
    /\ CopyPeriods \in Seq(Nat \ {0}) /\ CopyPeriods # <<>>
    /\ CopyWindow = CopyDelays[Len(CopyPeriods)]
    /\ HeartbeatInterval \in Nat /\ CopyWindow < HeartbeatInterval
    /\ NumHeartbeats \in Nat \ {0} /\ ProductionInterval \in Nat \ {0}
    /\ SimTimeLimit \in Nat
    /\ \A list \in EventLists :
        /\ list \in Seq(1..SimTimeLimit-1) /\ list # <<>>
        /\ \A n \in 2..Len(list) : list[n-1] <= list[n]

VARIABLES
    now,
    timer,              \* when the production timer is due, or NotScheduled
    randomTimes,        \* the events not scheduled yet
    heartbeatsErased,   \* entries erased from the front of heartbeatTimes
    pastEventTime, gooseCopiesSent, currentCopyDelay,
    previousWasHeartbeat,
    heartbeat, oldIndex,    \* what the packet due next is called in the log
    canPush,            \* canPushSomePacket of the consumer
    failed,             \* why the simulation ended with an error, or "no"
    allEvents,          \* history: all the events there were
    sent,               \* history: the packets sent, [time, kind]
    lastSent,           \* history: when the last of them was sent
    delayed             \* history: a packet had to wait for the consumer

plan == <<randomTimes, heartbeatsErased, pastEventTime, gooseCopiesSent,
          currentCopyDelay, previousWasHeartbeat>>
vars == <<now, timer, plan, heartbeat, oldIndex, canPush, failed,
          allEvents, sent, lastSent, delayed>>

-----------------------------------------------------------------------------

(* heartbeatTimes.front(): in an empty vector, the entry erased last.        *)
NextHeartbeat ==
    HeartbeatTime(IF heartbeatsErased < NumHeartbeats
                  THEN heartbeatsErased ELSE NumHeartbeats - 1)

NextEvent == Head(randomTimes)

(* Faulty ReplacesHeartbeat: any event before the heartbeat replaces it.     *)
ReplacesNextHeartbeat == NextEvent <= NextHeartbeat

(* Faulty ReplacesHeartbeat: copies do not stand in for a heartbeat.         *)
ReplacesHeartbeatAtEvent == NextEvent = NextHeartbeat

(* The next event and its copies will take the place of the next heartbeat.  *)
ReplacesHeartbeat ==
    NextEvent <= NextHeartbeat /\ NextEvent + CopyWindow >= NextHeartbeat

WantsCopy == gooseCopiesSent < Len(CopyPeriods) /\ ~previousWasHeartbeat

NextCopyDelay == currentCopyDelay + CopyPeriods[gooseCopiesSent + 1]

(* Faulty CopyFits: a copy may be due together with the next event.          *)
CopyFitsAtEvent == NextEvent - pastEventTime >= NextCopyDelay

CopyFits == NextEvent - pastEventTime > NextCopyDelay

(* heartbeatTimes.erase(begin()) if asked for.  Erasing from the empty       *)
(* vector is undefined: nothing happens, or the program is ended.            *)
EraseHeartbeat(erases) ==
    IF erases /\ heartbeatsErased < NumHeartbeats
    THEN heartbeatsErased' = heartbeatsErased + 1
    ELSE heartbeatsErased' = heartbeatsErased

OutcomeOfErase(erases) ==
    IF erases /\ heartbeatsErased = NumHeartbeats THEN {"no", "undefined"} ELSE {"no"}

(* scheduleClockEventAt.                                                     *)
ScheduleAt(time, erases) ==
    /\ timer' = time
    /\ EraseHeartbeat(erases)
    /\ IF time < now' THEN failed' = "past" ELSE failed' \in OutcomeOfErase(erases)

ScheduleCopy ==
    /\ randomTimes # <<>> /\ WantsCopy /\ CopyFits
    /\ ScheduleAt(pastEventTime + NextCopyDelay, ReplacesHeartbeat)
    /\ gooseCopiesSent' = gooseCopiesSent + 1
    /\ currentCopyDelay' = NextCopyDelay
    /\ previousWasHeartbeat' = FALSE
    /\ UNCHANGED <<randomTimes, pastEventTime>>

ScheduleHeartbeat ==
    /\ randomTimes # <<>> /\ ~WantsCopy /\ NextEvent > NextHeartbeat
    /\ ScheduleAt(NextHeartbeat, TRUE)
    /\ previousWasHeartbeat' = TRUE
    /\ UNCHANGED <<randomTimes, pastEventTime, gooseCopiesSent, currentCopyDelay>>

ScheduleEvent ==
    /\ randomTimes # <<>>
    /\ IF WantsCopy THEN ~CopyFits ELSE NextEvent <= NextHeartbeat
    /\ ScheduleAt(NextEvent, ReplacesHeartbeat)
    /\ randomTimes' = Tail(randomTimes)
    /\ pastEventTime' = NextEvent
    /\ gooseCopiesSent' = 0
    /\ currentCopyDelay' = 0
    /\ previousWasHeartbeat' = FALSE

(* After the last event the source is an ordinary periodic one.              *)
SchedulePeriodic ==
    /\ randomTimes = <<>>
    /\ timer' = now' + ProductionInterval
    /\ UNCHANGED <<plan, failed>>

(* scheduleProductionTimer.                                                  *)
ScheduleProductionTimer ==
    ScheduleCopy \/ ScheduleHeartbeat \/ ScheduleEvent \/ SchedulePeriodic

(* producePacket: the timer has been set for the next packet, what this one  *)
(* is was noted when the previous one was produced.                          *)
Kind == IF heartbeat THEN "heartbeat" ELSE IF oldIndex = 0 THEN "event" ELSE "copy"

ProducePacket ==
    /\ heartbeat' = previousWasHeartbeat'
    /\ oldIndex' = gooseCopiesSent'
    /\ sent' = sent \cup {[time |-> now', kind |-> Kind]}
    /\ lastSent' = now'

Init ==
    /\ now = 0
    /\ allEvents \in EventLists
    /\ randomTimes = allEvents
    /\ timer = 0            \* the first heartbeat is scheduled and erased
    /\ heartbeatsErased = 1
    /\ pastEventTime = 0 /\ gooseCopiesSent = 0 /\ currentCopyDelay = 0
    /\ previousWasHeartbeat = TRUE
    /\ heartbeat = TRUE
    /\ oldIndex = 0
    /\ canPush = TRUE
    /\ failed = "no"
    /\ sent = {}
    /\ lastSent = 0
    /\ delayed = FALSE

TimerDue == failed = "no" /\ timer # NotScheduled /\ timer <= SimTimeLimit

(* handleMessage.                                                            *)
Produce ==
    /\ TimerDue
    /\ canPush
    /\ now' = timer
    /\ ScheduleProductionTimer
    /\ ProducePacket
    /\ UNCHANGED <<canPush, allEvents, delayed>>

WaitForConsumer ==
    /\ TimerDue
    /\ ~canPush
    /\ now' = timer
    /\ timer' = NotScheduled
    /\ UNCHANGED <<plan, heartbeat, oldIndex, canPush, failed, allEvents, sent,
                   lastSent, delayed>>

(* The consumer applies backpressure, and takes it back at any later time:   *)
(* handleCanPushPacketChanged.                                               *)
Block ==
    /\ failed = "no" /\ canPush /\ ~delayed
    /\ canPush' = FALSE
    /\ UNCHANGED <<now, timer, plan, heartbeat, oldIndex, failed, allEvents, sent,
                   lastSent, delayed>>

Unblock(time) ==
    /\ failed = "no" /\ ~canPush
    /\ now <= time /\ (timer # NotScheduled => time <= timer)
    /\ now' = time
    /\ canPush' = TRUE
    /\ IF timer = NotScheduled
       THEN /\ delayed' = TRUE
            /\ ScheduleProductionTimer
            /\ ProducePacket
       ELSE UNCHANGED <<timer, plan, heartbeat, oldIndex, failed, sent, lastSent, delayed>>
    /\ UNCHANGED allEvents

Next == \/ Produce
        \/ WaitForConsumer
        \/ Block
        \/ \E time \in 0..SimTimeLimit : Unblock(time)

Spec == Init /\ [][Next]_vars

-----------------------------------------------------------------------------

(* What a GOOSE publisher has to send: every event at its time, as many of   *)
(* its copies as come before the next event, and the heartbeats no event and *)
(* its copies stand in for.                                                  *)
Prescribed ==
    LET events == {[time |-> allEvents[n], kind |-> "event"] : n \in DOMAIN allEvents}
        copies == UNION {{[time |-> allEvents[n] + CopyDelays[k], kind |-> "copy"] :
                            k \in {k \in DOMAIN CopyPeriods :
                                     allEvents[n] + CopyDelays[k] < allEvents[n+1]}} :
                         n \in 1..Len(allEvents)-1}
        heartbeats == {[time |-> HeartbeatTime(h), kind |-> "heartbeat"] :
                        h \in {h \in 0..NumHeartbeats-1 :
                            \A n \in DOMAIN allEvents :
                                HeartbeatTime(h)
                                    \notin allEvents[n]..allEvents[n] + CopyWindow}}
    IN  events \cup copies \cup heartbeats

(* The heartbeats last as long as the simulation, as they do in the network: *)
(* 21 of them, half a second apart, for 10 seconds.                          *)
HeartbeatsLast == SimTimeLimit <= HeartbeatTime(NumHeartbeats - 1)

\* up to the last event, unless the consumer has made a packet wait
Undisturbed == failed = "no" /\ ~delayed /\ canPush
AsLongAs(packet) == packet.time <= now /\ packet.time <= Last(allEvents)

(* The source sends exactly the packets prescribed, each at its time, and    *)
(* calls each what it is: choosing one next packet at a time, with a note of *)
(* it for the one after, loses and adds nothing.  These packets follow the   *)
(* lists and may be closer than ProductionInterval, which the documentation  *)
(* (ActivePacketSource.ned:23) excludes.                                     *)
SendsPrescribed ==
    Undisturbed /\ timer > now =>
        {p \in sent : AsLongAs(p)} = {p \in Prescribed : AsLongAs(p)}

(* A subscriber never waits for longer than a heartbeat interval: heartbeats *)
(* dropped for an event leave no hole.                                       *)
SilenceBounded ==
    Undisturbed /\ randomTimes # <<>> => timer - lastSent <= HeartbeatInterval

(* The timer is never set to a time that is over, unless the consumer made a *)
(* packet wait.                                                              *)
NeverInThePast == failed = "past" => delayed

=============================================================================
