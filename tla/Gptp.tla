-------------------------------- MODULE Gptp --------------------------------
(***************************************************************************)
(* Time synchronisation (linklayer/ieee8021as/Gptp.cc) between a grandmaster *)
(* and a node with a slave port, over a full duplex link.  The grandmaster   *)
(* sends a Sync every syncInterval and, when its transmission has ended, a   *)
(* FollowUp with the time it ended at.  The node measures the delay of the   *)
(* link (Pdelay_Req, Pdelay_Resp, Pdelay_Resp_Follow_Up) and sets its        *)
(* SettableClock after every FollowUp that belongs to the last Sync.         *)
(*                                                                         *)
(* Times of a clock are relative to the present simulation time: a clock     *)
(* that is right shows 0, GptpTick takes 1 from every stored time, and       *)
(* differences of times are those of the code.  The grandmaster's clock is   *)
(* the simulation time (IdealClock), and the node's does not drift between   *)
(* two settings.                                                             *)
(*                                                                         *)
(* A message waits in the queue of its port until its transmission has       *)
(* ended, for MaxTxTime at most once it is the next one; the two traffic     *)
(* classes of gPTP messages may overtake each other.  It may be lost there   *)
(* and on the line.                                                          *)
(***************************************************************************)
EXTENDS Integers, SequencesExt

CONSTANTS
    SyncInterval, PdelayInterval,   \* syncInterval, pdelayInterval
    PdelayInitialOffsets,           \* values of pdelayInitialOffset
    PDelayReqProcessingTime,        \* pDelayReqProcessingTime
    PropagationDelay,               \* of the link, in both directions
    MaxTxTime,          \* bound: time until the next transmission has ended
    IsBridge,           \* gptpNodeType of the node: BRIDGE_NODE or SLAVE_NODE
    SeqIds,             \* bound: sequence ids count modulo SeqIds (code: 2^16)
    InitialErrors,      \* what the node's clock may show at first
    MaxLost,            \* bound: messages that are lost
    Unset               \* a time that has not been assigned yet

ASSUME GptpAssumption ==
    /\ {SyncInterval, PdelayInterval, MaxTxTime, SeqIds} \subseteq Nat \ {0}
    /\ {PDelayReqProcessingTime, PropagationDelay, MaxLost} \subseteq Nat
    /\ PdelayInitialOffsets \subseteq Nat
    /\ InitialErrors \subseteq Int
    /\ IsBridge \in BOOLEAN
    /\ Unset \notin Int

Ports == {"master", "slave"}

VARIABLES
    \* the grandmaster
    selfMsgSync,            \* time until the next Sync
    masterSequenceId,       \* its sequenceId
    answers,                \* GptpReqAnswerEvents, the first scheduled first
    \* the node
    clockTime,              \* what its clock shows
    selfMsgDelayReq, sequenceId,
    rcvdGptpSync, lastReceivedGptpSyncSequenceId,
    syncIngressTimestamp, receivedTimeSync, oldPeerSentTimeSync,
    gmRateRatio,            \* as <<numerator, denominator>>
    lastSentPdelayReqSequenceId, rcvdPdelayResp,
    pdelayReqEventEgressTimestamp, pdelayRespEventIngressTimestamp,
    peerRequestReceiptTimestamp,
    peerDelay,
    \* the link
    queue,                  \* per port: messages not transmitted yet
    waited,                 \* per port: how long the next one has waited
    wire,                   \* per sending port: messages under way
    lost                    \* how many have been lost

grandmaster == <<selfMsgSync, masterSequenceId, answers>>
clock == <<clockTime, receivedTimeSync, oldPeerSentTimeSync, gmRateRatio>>
pairing == <<rcvdGptpSync, lastReceivedGptpSyncSequenceId, syncIngressTimestamp>>
exchange == <<lastSentPdelayReqSequenceId, rcvdPdelayResp,
              pdelayReqEventEgressTimestamp, pdelayRespEventIngressTimestamp,
              peerRequestReceiptTimestamp, peerDelay>>
ids == <<selfMsgDelayReq, sequenceId>>
link == <<queue, waited, wire, lost>>
gptpVars == <<grandmaster, clock, pairing, exchange, ids, link>>

-----------------------------------------------------------------------------
(* Messages: time is the timestamp they carry, or Unset. *)

Message(kind, seq, time) == [kind |-> kind, seq |-> seq, time |-> time]

(* Answers to the node are in another traffic class than Sync, FollowUp and  *)
(* requests.                                                                 *)
ClassOf(m) == m.kind \in {"PdelayResp", "PdelayRespFollowUp"}

(* The next message of each class of the queue q. *)
NextOnes(q) == {i \in DOMAIN q : \A j \in 1..(i - 1) : ClassOf(q[j]) # ClassOf(q[i])}

Enqueue(p, m) == queue' = [queue EXCEPT ![p] = Append(@, m)]

NextSeq(n) == (n + 1) % SeqIds

-----------------------------------------------------------------------------
(* What the timers start. *)

SendSync ==
    /\ selfMsgSync = 0
    /\ Enqueue("master", Message("Sync", masterSequenceId, Unset))
    /\ masterSequenceId' = NextSeq(masterSequenceId)
    /\ selfMsgSync' = SyncInterval
    /\ UNCHANGED <<answers, clock, pairing, exchange, ids, waited, wire, lost>>

SendPdelayReq ==
    /\ selfMsgDelayReq = 0
    /\ Enqueue("slave", Message("PdelayReq", sequenceId, Unset))
    /\ lastSentPdelayReqSequenceId' = sequenceId
    /\ sequenceId' = NextSeq(sequenceId)
    /\ pdelayReqEventEgressTimestamp' = clockTime
    /\ rcvdPdelayResp' = FALSE
    /\ selfMsgDelayReq' = PdelayInterval
    /\ UNCHANGED <<grandmaster, clock, pairing, pdelayRespEventIngressTimestamp,
                   peerRequestReceiptTimestamp, peerDelay, waited, wire, lost>>

SendPdelayResp ==
    /\ answers # <<>> /\ Head(answers).left = 0
    /\ Enqueue("master", Message("PdelayResp", Head(answers).seq, Head(answers).ingress))
    /\ answers' = Tail(answers)
    /\ UNCHANGED <<selfMsgSync, masterSequenceId, clock, pairing, exchange, ids,
                   waited, wire, lost>>

-----------------------------------------------------------------------------
(* transmissionEnded: the message is on its way, and some are followed up. *)

FollowUpOf(m) ==
    CASE m.kind = "Sync"       -> <<Message("FollowUp", m.seq, 0)>>
      [] m.kind = "PdelayResp" -> <<Message("PdelayRespFollowUp", m.seq, 0)>>
      [] OTHER                 -> <<>>

(* The time in a FollowUp is preciseOriginTimestamp plus correctionField,    *)
(* which is the grandmaster's clock at the end of the transmission; so is    *)
(* responseOriginTimestamp.                                                  *)
TransmissionEnded(p) ==
    /\ waited[p] >= 1
    /\ \E i \in NextOnes(queue[p]) :
          LET m == queue[p][i] IN
          /\ queue' = [queue EXCEPT ![p] = RemoveAt(@, i) \o FollowUpOf(m)]
          /\ wire' = [wire EXCEPT ![p] =
                         Append(@, [message |-> m, left |-> PropagationDelay])]
          /\ pdelayReqEventEgressTimestamp' =
                IF m.kind = "PdelayReq" THEN clockTime ELSE pdelayReqEventEgressTimestamp
    /\ waited' = [waited EXCEPT ![p] = 0]
    /\ UNCHANGED <<grandmaster, clock, pairing, ids, lastSentPdelayReqSequenceId,
                   rcvdPdelayResp, pdelayRespEventIngressTimestamp,
                   peerRequestReceiptTimestamp, peerDelay, lost>>

-----------------------------------------------------------------------------
(* receptionEnded: the message m is stamped and processed. *)

Arrives(p, kind) ==
    /\ wire[p] # <<>> /\ Head(wire[p]).left = 0
    /\ Head(wire[p]).message.kind = kind
    /\ wire' = [wire EXCEPT ![p] = Tail(@)]
    /\ UNCHANGED <<waited, lost>>
Arrived(p) == Head(wire[p]).message

ProcessPdelayReq ==
    /\ Arrives("slave", "PdelayReq")
    /\ answers' = Append(answers, [left |-> PDelayReqProcessingTime,
                                   seq |-> Arrived("slave").seq, ingress |-> 0])
    /\ UNCHANGED <<selfMsgSync, masterSequenceId, clock, pairing, exchange, ids, queue>>

ProcessSyncIfNone ==                    \* Faulty: a Sync does not replace another
    /\ Arrives("master", "Sync")
    /\ IF rcvdGptpSync
       THEN UNCHANGED pairing
       ELSE /\ rcvdGptpSync' = TRUE
            /\ lastReceivedGptpSyncSequenceId' = Arrived("master").seq
            /\ syncIngressTimestamp' = clockTime
    /\ UNCHANGED <<grandmaster, clock, exchange, ids, queue>>
ProcessSync ==
    /\ Arrives("master", "Sync")
    /\ rcvdGptpSync' = TRUE
    /\ lastReceivedGptpSyncSequenceId' = Arrived("master").seq
    /\ syncIngressTimestamp' = clockTime
    /\ UNCHANGED <<grandmaster, clock, exchange, ids, queue>>

(* Setting the clock moves what was stamped before by the same amount. *)
Shifted(t, delta) == IF t = Unset THEN Unset ELSE t + delta

AdjustRespOnly(delta) ==                \* Faulty: the egress time is forgotten
    /\ pdelayRespEventIngressTimestamp' = Shifted(pdelayRespEventIngressTimestamp, delta)
    /\ UNCHANGED pdelayReqEventEgressTimestamp
AdjustPdelayTimestamps(delta) ==
    /\ pdelayRespEventIngressTimestamp' = Shifted(pdelayRespEventIngressTimestamp, delta)
    /\ pdelayReqEventEgressTimestamp' = Shifted(pdelayReqEventEgressTimestamp, delta)

Ratio(a, b) == IF a = b THEN <<1, 1>> ELSE <<a, b>>

ReceivedSyncUnadjusted(delta) ==        \* Faulty: in the clock's old time
    syncIngressTimestamp
ReceivedSync(delta) == Shifted(syncIngressTimestamp, delta)

(* A rate ratio of 1 leaves the clock's compensation as it is; another one   *)
(* would make the clock run faster or slower from here on.                   *)
Synchronize(peerSentTimeSync) ==
    LET residenceTime == clockTime - syncIngressTimestamp
        newTime == peerSentTimeSync + peerDelay + residenceTime
        delta == newTime - clockTime
    IN  /\ gmRateRatio' = IF oldPeerSentTimeSync = Unset
                          THEN <<1, 1>>
                          ELSE Ratio(peerSentTimeSync - oldPeerSentTimeSync,
                                     syncIngressTimestamp - receivedTimeSync)
        /\ clockTime' = newTime
        /\ receivedTimeSync' = ReceivedSync(delta)
        /\ AdjustPdelayTimestamps(delta)
        /\ oldPeerSentTimeSync' = peerSentTimeSync

BelongsToAnySync(m) == rcvdGptpSync     \* Faulty: the ids are not compared
BelongsToSync(m) == rcvdGptpSync /\ m.seq = lastReceivedGptpSyncSequenceId

(* A bridge sends a Sync after every FollowUp, also one that is dropped; it  *)
(* leaves through other ports and takes an id from the node's sequence.      *)
ProcessFollowUp ==
    /\ Arrives("master", "FollowUp")
    /\ IF BelongsToSync(Arrived("master"))
       THEN /\ Synchronize(Arrived("master").time)
            /\ rcvdGptpSync' = FALSE
       ELSE UNCHANGED <<clock, rcvdGptpSync, pdelayReqEventEgressTimestamp,
                        pdelayRespEventIngressTimestamp>>
    /\ sequenceId' = IF IsBridge THEN NextSeq(sequenceId) ELSE sequenceId
    /\ UNCHANGED <<grandmaster, selfMsgDelayReq, lastReceivedGptpSyncSequenceId,
                   syncIngressTimestamp, lastSentPdelayReqSequenceId, rcvdPdelayResp,
                   peerRequestReceiptTimestamp, peerDelay, queue>>

AnswersNextRequest(m) ==             \* Faulty: the id was counted up before
    m.seq = sequenceId
AnswersLastRequest(m) == m.seq = lastSentPdelayReqSequenceId

ProcessPdelayResp ==
    /\ Arrives("master", "PdelayResp")
    /\ IF AnswersLastRequest(Arrived("master"))
       THEN /\ rcvdPdelayResp' = TRUE
            /\ pdelayRespEventIngressTimestamp' = clockTime
            /\ peerRequestReceiptTimestamp' = Arrived("master").time
       ELSE UNCHANGED <<rcvdPdelayResp, pdelayRespEventIngressTimestamp,
                        peerRequestReceiptTimestamp>>
    /\ UNCHANGED <<grandmaster, clock, pairing, ids, lastSentPdelayReqSequenceId,
                   pdelayReqEventEgressTimestamp, peerDelay, queue>>

PeerDelay(peerResponseOriginTimestamp) ==
    LET roundTrip == pdelayRespEventIngressTimestamp - pdelayReqEventEgressTimestamp
        turnaround == peerResponseOriginTimestamp - peerRequestReceiptTimestamp
    IN  ((gmRateRatio[1] * roundTrip) \div gmRateRatio[2] - turnaround) \div 2

ProcessPdelayRespFollowUp ==
    /\ Arrives("master", "PdelayRespFollowUp")
    /\ peerDelay' = IF rcvdPdelayResp /\ AnswersLastRequest(Arrived("master"))
                    THEN PeerDelay(Arrived("master").time)
                    ELSE peerDelay
    /\ UNCHANGED <<grandmaster, clock, pairing, ids, lastSentPdelayReqSequenceId,
                   rcvdPdelayResp, pdelayReqEventEgressTimestamp,
                   pdelayRespEventIngressTimestamp, peerRequestReceiptTimestamp, queue>>

-----------------------------------------------------------------------------
(* The link loses messages, and time passes when nothing is due. *)

LoseQueued(p) ==
    /\ lost < MaxLost /\ waited[p] = 0
    /\ \E i \in NextOnes(queue[p]) : queue' = [queue EXCEPT ![p] = RemoveAt(@, i)]
    /\ waited' = [waited EXCEPT ![p] = 0]
    /\ lost' = lost + 1
    /\ UNCHANGED <<grandmaster, clock, pairing, exchange, ids, wire>>

LoseOnWire(p) ==
    /\ lost < MaxLost
    /\ wire[p] # <<>> /\ Head(wire[p]).left = 0
    /\ wire' = [wire EXCEPT ![p] = Tail(@)]
    /\ lost' = lost + 1
    /\ UNCHANGED <<grandmaster, clock, pairing, exchange, ids, queue, waited>>

Later(t) == IF t = Unset THEN Unset ELSE t - 1
LaterMessage(m) == [m EXCEPT !.time = Later(@)]

GptpTick ==
    /\ selfMsgSync # 0 /\ selfMsgDelayReq # 0
    /\ \A i \in DOMAIN answers : answers[i].left > 0
    /\ \A p \in Ports : /\ waited[p] < MaxTxTime
                        /\ \A i \in DOMAIN wire[p] : wire[p][i].left > 0
    /\ selfMsgSync' = selfMsgSync - 1
    /\ selfMsgDelayReq' = selfMsgDelayReq - 1
    /\ answers' = [i \in DOMAIN answers |->
                     [answers[i] EXCEPT !.left = @ - 1, !.ingress = Later(@)]]
    /\ queue' = [p \in Ports |-> [i \in DOMAIN queue[p] |-> LaterMessage(queue[p][i])]]
    /\ waited' = [p \in Ports |-> IF queue[p] = <<>> THEN 0 ELSE waited[p] + 1]
    /\ wire' = [p \in Ports |-> [i \in DOMAIN wire[p] |->
                   [message |-> LaterMessage(wire[p][i].message), left |-> wire[p][i].left - 1]]]
    /\ syncIngressTimestamp' = Later(syncIngressTimestamp)
    /\ receivedTimeSync' = Later(receivedTimeSync)
    /\ oldPeerSentTimeSync' = Later(oldPeerSentTimeSync)
    /\ pdelayReqEventEgressTimestamp' = Later(pdelayReqEventEgressTimestamp)
    /\ pdelayRespEventIngressTimestamp' = Later(pdelayRespEventIngressTimestamp)
    /\ peerRequestReceiptTimestamp' = Later(peerRequestReceiptTimestamp)
    /\ UNCHANGED <<masterSequenceId, clockTime, gmRateRatio, rcvdGptpSync,
                   lastReceivedGptpSyncSequenceId, sequenceId,
                   lastSentPdelayReqSequenceId, rcvdPdelayResp, peerDelay, lost>>

-----------------------------------------------------------------------------

GptpInit ==
    /\ selfMsgSync = 0                  \* syncInitialOffset
    /\ selfMsgDelayReq \in PdelayInitialOffsets
    /\ clockTime \in InitialErrors
    /\ masterSequenceId = 0 /\ sequenceId = 0
    /\ answers = <<>>
    /\ rcvdGptpSync = FALSE /\ rcvdPdelayResp = FALSE
    /\ lastReceivedGptpSyncSequenceId = SeqIds - 1      \* 0xffff
    /\ lastSentPdelayReqSequenceId = 0
    /\ syncIngressTimestamp = Unset /\ receivedTimeSync = Unset
    /\ oldPeerSentTimeSync = Unset
    /\ gmRateRatio = <<1, 1>>
    /\ pdelayReqEventEgressTimestamp = Unset
    /\ pdelayRespEventIngressTimestamp = Unset
    /\ peerRequestReceiptTimestamp = Unset
    /\ peerDelay = 0
    /\ queue = [p \in Ports |-> <<>>] /\ wire = [p \in Ports |-> <<>>]
    /\ waited = [p \in Ports |-> 0]
    /\ lost = 0

Process == \/ ProcessSync \/ ProcessFollowUp
           \/ ProcessPdelayReq \/ ProcessPdelayResp \/ ProcessPdelayRespFollowUp
GptpNext ==
    \/ SendSync \/ SendPdelayReq \/ SendPdelayResp
    \/ \E p \in Ports : TransmissionEnded(p) \/ LoseQueued(p) \/ LoseOnWire(p)
    \/ Process
    \/ GptpTick

GptpFairness ==
    /\ WF_gptpVars(SendSync \/ SendPdelayReq \/ SendPdelayResp)
    /\ WF_gptpVars(\E p \in Ports : TransmissionEnded(p))
    /\ WF_gptpVars(Process)
    /\ WF_gptpVars(GptpTick)
GptpSpec == GptpInit /\ [][GptpNext]_gptpVars /\ GptpFairness

-----------------------------------------------------------------------------

(* However the node's clock was set during an exchange, and whichever of its *)
(* messages were lost or delayed into the next one, the peer delay is the    *)
(* propagation delay, or 0 while none has been measured                      *)
(* (processPdelayRespFollowUp, and the adjusted timestamps of synchronize).   *)
PeerDelayExact == peerDelay \in {0, PropagationDelay}

(* The ratio of the rates of two clocks that do not drift is 1, also when    *)
(* the node's clock has been set between the two Syncs (synchronize adjusts  *)
(* receivedTimeSync).  So synchronising does not make the clock drift.       *)
RateRatioIsOne == gmRateRatio = <<1, 1>>

(* A lost message spoils one Sync at most: the time since the Sync the clock *)
(* was set by grows by one interval for every loss (processSync forgets an   *)
(* older Sync, processFollowUp compares ids).                                *)
Jitter == 4 * MaxTxTime
HoldoverBounded ==
    receivedTimeSync # Unset =>
        clockTime - receivedTimeSync <= (lost + 1) * SyncInterval + Jitter

(* Every setting of the clock makes it right but for what the measured peer  *)
(* delay misses, whatever the queues, losses and delays before               *)
(* (processFollowUp pairs a Sync with its own FollowUp).                      *)
SyncsExactly == [][clockTime' # clockTime =>
                     clockTime' = peerDelay - PropagationDelay]_gptpVars

(* A Sync and its FollowUp, and the messages of an exchange, have arrived    *)
(* before the next one is due, as they have in the networks: intervals of    *)
(* fractions of a second, and transmissions of microseconds.                 *)
IntervalsSuffice ==
    /\ SyncInterval > 4 * MaxTxTime + PropagationDelay
    /\ PdelayInterval > 5 * MaxTxTime + PDelayReqProcessingTime + 2 * PropagationDelay

(* No more Syncs in a row are lost than there are ids.                       *)
LossesLeaveIds == MaxLost <= SeqIds

Settled == clockTime = 0 /\ peerDelay = PropagationDelay

(* A node has the right time and the right peer delay in the end, for ever,  *)
(* however its clock began, since only finitely many messages are lost       *)
(* (handleSelfMessage keeps on sending).                                     *)
Synchronises == <>[]Settled

=============================================================================
