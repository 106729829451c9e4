---------------------- MODULE TimeSynchronisation_proofs ----------------------
(***************************************************************************)
(* Theorems about the clocks of the nodes.                                   *)
(*                                                                         *)
(* Gptp: what its messages are paired with, and what the clock and the peer  *)
(* delay are set to, for all intervals that leave the messages time to       *)
(* arrive (IntervalsSuffice), all delays, processing times and initial       *)
(* errors, and as many losses as there are sequence ids (LossesLeaveIds).    *)
(*                                                                         *)
(* SettableClock and SynchronizedGates: setting a clock moves the events of  *)
(* the modules that use it so that the gates among these follow the clock,   *)
(* for every set of events, every gate schedule and every step of the clock  *)
(* that is not longer than a duration.                                       *)
(***************************************************************************)
EXTENDS Gptp, SynchronizedGates, GateSchedule_proofs, FiniteSetTheorems

-----------------------------------------------------------------------------
(* The inductive invariant.                                                  *)

Times == Int \cup {Unset}
Ids == 0..SeqIds-1
FromMaster == {"Sync", "FollowUp", "PdelayResp", "PdelayRespFollowUp"}
Messages == [kind : FromMaster \cup {"PdelayReq"}, seq : Ids, time : Times]
UnderWay == [message : Messages, left : 0..PropagationDelay]
ReqAnswers == [left : 0..PDelayReqProcessingTime, seq : Ids, ingress : Int]

SenderTypes ==
    /\ selfMsgSync \in 0..SyncInterval
    /\ selfMsgDelayReq \in Nat
    /\ masterSequenceId \in Ids
    /\ sequenceId \in Ids
    /\ lost \in 0..MaxLost
ReceiverTypes ==
    /\ clockTime \in Int
    /\ rcvdGptpSync \in BOOLEAN
    /\ rcvdPdelayResp \in BOOLEAN
    /\ lastReceivedGptpSyncSequenceId \in Ids
    /\ lastSentPdelayReqSequenceId \in Ids
    /\ syncIngressTimestamp \in Times
    /\ receivedTimeSync \in Times
    /\ oldPeerSentTimeSync \in Times
    /\ pdelayReqEventEgressTimestamp \in Times
    /\ pdelayRespEventIngressTimestamp \in Times
    /\ peerRequestReceiptTimestamp \in Times
LinkTypes ==
    /\ queue \in [Ports -> Seq(Messages)]
    /\ wire \in [Ports -> Seq(UnderWay)]
    /\ waited \in [Ports -> 0..MaxTxTime]
    /\ answers \in Seq(ReqAnswers)
    /\ \A p \in Ports : queue[p] = <<>> => waited[p] = 0
Types == SenderTypes /\ ReceiverTypes /\ LinkTypes

SinceSync == SyncInterval - selfMsgSync
SinceRequest == PdelayInterval - selfMsgDelayReq
Turnaround == PropagationDelay + PDelayReqProcessingTime

(* What the grandmaster has sent: the messages it has queued, and those on   *)
(* the wire.                                                                 *)
Queued == Range(queue["master"])
OnWire == Range(wire["master"])
InQueue(kind) == \E m \in Queued : m.kind = kind
OnLine(kind) == \E x \in OnWire : x.message.kind = kind
Alive(kind) == InQueue(kind) \/ OnLine(kind)
Stamped(kind, t) == \/ \E m \in Queued : m.kind = kind /\ m.time = t
                    \/ \E x \in OnWire : x.message.kind = kind /\ x.message.time = t

(* No two messages of a class are queued, and no two of a kind on the wire.  *)
OneOfEach ==
    /\ \A i \in DOMAIN queue["master"] : queue["master"][i].kind \in FromMaster
    /\ \A i, j \in DOMAIN queue["master"] :
          ClassOf(queue["master"][i]) = ClassOf(queue["master"][j]) => i = j
    /\ \A i \in DOMAIN wire["master"] : wire["master"][i].message.kind \in FromMaster
    /\ \A i, j \in DOMAIN wire["master"] :
          wire["master"][i].message.kind = wire["master"][j].message.kind => i = j

(* A message that follows another up is behind it, and carries the time at   *)
(* which the other one went.                                                 *)
Follows(followUp, event) ==
    /\ InQueue(event) => ~OnLine(event) /\ ~OnLine(followUp)
    /\ InQueue(followUp) => ~OnLine(followUp)
    /\ \A m \in Queued : m.kind = followUp =>
        /\ m.time \in Int
        /\ waited["master"] + m.time <= 0
        /\ \A x \in OnWire : x.message.kind = event => m.time = x.left - PropagationDelay
    /\ \A y \in OnWire : y.message.kind = followUp =>
        /\ y.message.time \in Int
        /\ \A x \in OnWire : x.message.kind = event =>
            x.left < y.left /\ y.message.time = x.left - PropagationDelay

IsSync(m) == m.kind \in {"Sync", "FollowUp"}
IsAnswer(m) == m.kind \in {"PdelayResp", "PdelayRespFollowUp"}

LastSync == IF masterSequenceId = 0 THEN SeqIds - 1 ELSE masterSequenceId - 1

(* The Syncs and FollowUps under way belong to the last Sync.                *)
Syncs ==
    /\ Follows("FollowUp", "Sync")
    /\ \A m \in Queued : IsSync(m) => m.seq = LastSync
    /\ \A x \in OnWire : IsSync(x.message) =>
        /\ x.message.seq = LastSync
        /\ SinceSync + x.left <= 4 * MaxTxTime + PropagationDelay
    /\ \A t \in Int : Stamped("FollowUp", t) => t + SinceSync >= 0

(* A FollowUp of the Sync that was received tells when it went.              *)
SyncPaired ==
    rcvdGptpSync /\ lastReceivedGptpSyncSequenceId = LastSync /\ ~OnLine("Sync") =>
        \A t \in Int : Stamped("FollowUp", t) =>
            /\ syncIngressTimestamp \in Int
            /\ syncIngressTimestamp = clockTime + t + PropagationDelay

(* The time t at the responder, of the arrival of the request, is the        *)
(* propagation delay after the request went.                                 *)
RequestArrivedAt(t) ==
    /\ pdelayReqEventEgressTimestamp \in Int
    /\ pdelayReqEventEgressTimestamp = clockTime - PropagationDelay + t

Asked == queue["slave"] # <<>> \/ wire["slave"] # <<>> \/ answers # <<>>
Answered == Alive("PdelayResp") \/ Alive("PdelayRespFollowUp")

(* There is one request, until it is answered.                               *)
Requests ==
    /\ Len(queue["slave"]) <= 1 /\ Len(wire["slave"]) <= 1 /\ Len(answers) <= 1
    /\ \A i \in DOMAIN queue["slave"] :
        /\ queue["slave"][i].kind = "PdelayReq"
        /\ queue["slave"][i].seq = lastSentPdelayReqSequenceId
        /\ SinceRequest <= waited["slave"]
        /\ wire["slave"] = <<>> /\ answers = <<>>
    /\ \A i \in DOMAIN wire["slave"] :
        /\ wire["slave"][i].message.kind = "PdelayReq"
        /\ wire["slave"][i].message.seq = lastSentPdelayReqSequenceId
        /\ SinceRequest + wire["slave"][i].left <= MaxTxTime + PropagationDelay
        /\ RequestArrivedAt(wire["slave"][i].left)
        /\ answers = <<>>
    /\ \A i \in DOMAIN answers :
        /\ answers[i].seq = lastSentPdelayReqSequenceId
        /\ SinceRequest + answers[i].left <= MaxTxTime + Turnaround
        /\ RequestArrivedAt(answers[i].ingress)
    /\ Asked => ~Answered /\ ~rcvdPdelayResp

(* There is one answer, with the times of its request.                       *)
Answers ==
    /\ Follows("PdelayRespFollowUp", "PdelayResp")
    /\ \A m \in Queued : IsAnswer(m) => m.seq = lastSentPdelayReqSequenceId
    /\ \A x \in OnWire : IsAnswer(x.message) =>
        /\ x.message.seq = lastSentPdelayReqSequenceId
        /\ SinceRequest + x.left <= 5 * MaxTxTime + Turnaround + PropagationDelay
    /\ \A t \in Times : Stamped("PdelayResp", t) => t \in Int /\ RequestArrivedAt(t)
    /\ Alive("PdelayResp") => ~rcvdPdelayResp
AnswerPaired ==
    rcvdPdelayResp => \A t \in Int : Stamped("PdelayRespFollowUp", t) =>
        /\ pdelayRespEventIngressTimestamp \in Int
        /\ peerRequestReceiptTimestamp \in Int
        /\ pdelayRespEventIngressTimestamp = clockTime + t + PropagationDelay
        /\ RequestArrivedAt(peerRequestReceiptTimestamp)

(* The time until all queued messages and what follows them up have gone: a  *)
(* Sync and its FollowUp, an answer and what follows it up, or both of these *)
(* since the first of them was queued.                                       *)
Work(event, followUp) ==
    IF InQueue(event) THEN 2 * MaxTxTime ELSE IF InQueue(followUp) THEN MaxTxTime ELSE 0
SyncWork == Work("Sync", "FollowUp")
AnswerWork == Work("PdelayResp", "PdelayRespFollowUp")
TimeToDrain == SyncWork + AnswerWork - waited["master"]

DrainsAnswer == /\ SyncWork = 0 /\ ~Asked
                /\ TimeToDrain <= 3 * MaxTxTime + Turnaround - SinceRequest
DrainsSync == AnswerWork = 0 /\ TimeToDrain <= 2 * MaxTxTime - SinceSync
DrainsBoth == /\ ~Asked
              /\ TimeToDrain <= 4 * MaxTxTime - SinceSync
              /\ TimeToDrain <= 5 * MaxTxTime + Turnaround - SinceRequest
QueueDrains == Queued # {} => DrainsAnswer \/ DrainsSync \/ DrainsBoth

(* The clock is going to be set by the last Sync unless a message is lost.   *)
Pending ==
    \/ InQueue("Sync")
    \/ /\ Alive("FollowUp")
       /\ \/ OnLine("Sync")
          \/ rcvdGptpSync /\ lastReceivedGptpSyncSequenceId = LastSync

(* The Sync received last was the n-th before the last one.                  *)
Behind(n) == \/ lastReceivedGptpSyncSequenceId = LastSync - n
             \/ lastReceivedGptpSyncSequenceId = LastSync - n + SeqIds

(* Every Sync that was of no use has been lost, or its FollowUp has.         *)
UselessLost ==
    /\ rcvdGptpSync => \E n \in 0..lost :
        /\ Behind(n)
        /\ Pending \/ n + 1 <= lost
        /\ Alive("Sync") => n > 0
    /\ OnLine("Sync") /\ ~Pending => lost > 0

Holdover ==
    oldPeerSentTimeSync # Unset =>
        -oldPeerSentTimeSync <= SinceSync + (IF Pending THEN lost + 1 ELSE lost) * SyncInterval

(* The clock has been set to the time of the last Sync it was set by.        *)
ClockSet ==
    /\ peerDelay \in {0, PropagationDelay}
    /\ gmRateRatio = <<1, 1>>
    /\ receivedTimeSync = Unset <=> oldPeerSentTimeSync = Unset
    /\ receivedTimeSync # Unset =>
        receivedTimeSync = clockTime + oldPeerSentTimeSync + PropagationDelay

GptpInv == /\ Types /\ OneOfEach
           /\ Syncs /\ SyncPaired
           /\ Requests /\ Answers /\ AnswerPaired
           /\ QueueDrains
           /\ UselessLost /\ Holdover /\ ClockSet

-----------------------------------------------------------------------------

LEMMA ConstantFacts ==
    /\ SyncInterval \in Nat \ {0} /\ PdelayInterval \in Nat \ {0}
    /\ MaxTxTime \in Nat \ {0} /\ SeqIds \in Nat \ {0}
    /\ PDelayReqProcessingTime \in Nat /\ PropagationDelay \in Nat /\ MaxLost \in Nat
    /\ PdelayInitialOffsets \subseteq Nat /\ InitialErrors \subseteq Int
    /\ IsBridge \in BOOLEAN /\ Unset \notin Int
  BY GptpAssumption

(* Ids count on, modulo SeqIds.                                              *)
LEMMA NextSeqFacts ==
    ASSUME NEW n \in Ids
    PROVE  NextSeq(n) \in Ids /\ NextSeq(n) = IF n = SeqIds - 1 THEN 0 ELSE n + 1
<1>1. CASE n = SeqIds - 1
  BY <1>1, ConstantFacts DEF NextSeq, Ids
<1>2. CASE n # SeqIds - 1
  BY <1>2, ConstantFacts DEF NextSeq, Ids
<1> QED
  BY <1>1, <1>2

(* Sequences as sets: an element appended, removed, and the first one gone.  *)
LEMMA AppendedFacts ==
    ASSUME NEW S, NEW s \in Seq(S), NEW e \in S
    PROVE  /\ Append(s, e) \in Seq(S)
           /\ Range(Append(s, e)) = Range(s) \cup {e}
           /\ DOMAIN Append(s, e) = 1..Len(s) + 1
           /\ \A i \in DOMAIN s : Append(s, e)[i] = s[i]
           /\ Append(s, e)[Len(s) + 1] = e
           /\ Append(s, e) # <<>>
<1>1. /\ Append(s, e) \in Seq(S) /\ Len(Append(s, e)) = Len(s) + 1
      /\ \A i \in 1..Len(s) : Append(s, e)[i] = s[i]
      /\ Append(s, e)[Len(s) + 1] = e
      /\ Append(s, e) # <<>>
  OBVIOUS
<1>2. Range(Append(s, e)) = Range(s) \cup {e}
  BY <1>1 DEF Range
<1> QED
  BY <1>1, <1>2

LEMMA ConcatFacts ==
    ASSUME NEW S, NEW a \in Seq(S), NEW b \in Seq(S)
    PROVE  /\ a \o b \in Seq(S) /\ Len(a \o b) = Len(a) + Len(b)
           /\ \A j \in 1..Len(a) + Len(b) :
                 (a \o b)[j] = IF j <= Len(a) THEN a[j] ELSE b[j - Len(a)]
  OBVIOUS

LEMMA RemoveFacts ==
    ASSUME NEW S, NEW s \in Seq(S), NEW i \in DOMAIN s,
           \A j \in DOMAIN s : s[j] = s[i] => j = i
    PROVE  /\ RemoveAt(s, i) \in Seq(S)
           /\ DOMAIN RemoveAt(s, i) = 1..Len(s) - 1
           /\ \A j \in 1..Len(s) - 1 : RemoveAt(s, i)[j] = IF j < i THEN s[j] ELSE s[j + 1]
           /\ Range(RemoveAt(s, i)) = Range(s) \ {s[i]}
<1> DEFINE a == SubSeq(s, 1, i - 1)
           b == SubSeq(s, i + 1, Len(s))
<1>1. i \in 1..Len(s) /\ Len(s) \in Nat
  OBVIOUS
<1>2. /\ a \in Seq(S) /\ Len(a) = i - 1 /\ \A j \in 1..i-1 : a[j] = s[j]
  BY <1>1
<1>3. /\ b \in Seq(S) /\ Len(b) = Len(s) - i
      /\ \A j \in 1..Len(s)-i : b[j] = s[i + j]
  BY <1>1
<1> HIDE DEF a, b
<1>4. /\ a \o b \in Seq(S) /\ Len(a \o b) = Len(s) - 1
      /\ \A j \in 1..Len(s)-1 : (a \o b)[j] = IF j < i THEN a[j] ELSE b[j - (i-1)]
  <2>1. /\ a \o b \in Seq(S) /\ Len(a \o b) = Len(a) + Len(b)
        /\ \A j \in 1..Len(a) + Len(b) :
              (a \o b)[j] = IF j <= Len(a) THEN a[j] ELSE b[j - Len(a)]
    BY <1>2, <1>3, ConcatFacts
  <2>2. Len(a) + Len(b) = Len(s) - 1 /\ \A j \in 1..Len(s)-1 : j < i <=> j <= Len(a)
    BY <1>1, <1>2, <1>3
  <2> QED
    BY <1>2, <2>1, <2>2
<1>5. \A j \in 1..Len(s)-1 : (a \o b)[j] = IF j < i THEN s[j] ELSE s[j + 1]
  <2> TAKE j \in 1..Len(s)-1
  <2>1. CASE j < i
    BY <1>1, <1>2, <1>4, <2>1
  <2>2. CASE ~(j < i)
    <3>1. j - (i-1) \in 1..Len(s)-i /\ i + (j - (i-1)) = j + 1
      BY <1>1, <2>2
    <3> QED
      BY <1>3, <1>4, <2>2, <3>1
  <2> QED
    BY <2>1, <2>2
<1>6. RemoveAt(s, i) = a \o b
  BY DEF RemoveAt, a, b
<1> DEFINE r == RemoveAt(s, i)
<1>7. /\ r \in Seq(S) /\ DOMAIN r = 1..Len(s)-1
      /\ \A j \in 1..Len(s)-1 : r[j] = IF j < i THEN s[j] ELSE s[j + 1]
  BY <1>1, <1>4, <1>5, <1>6
<1> HIDE DEF r
<1>8. Range(r) \subseteq Range(s) \ {s[i]}
  BY <1>1, <1>7 DEF Range
<1>9. ASSUME NEW j \in DOMAIN s, j # i PROVE s[j] \in Range(r)
  <2>1. CASE j < i
    BY <1>1, <1>7, <1>9, <2>1 DEF Range
  <2>2. CASE j > i
    <3>1. j - 1 \in 1..Len(s)-1 /\ ~(j - 1 < i) /\ (j - 1) + 1 = j
      BY <1>1, <2>2
    <3> QED
      BY <1>7, <3>1 DEF Range
  <2> QED
    BY <1>1, <1>9, <2>1, <2>2
<1>10. Range(s) \ {s[i]} \subseteq Range(r)
  BY <1>9 DEF Range
<1> QED
  BY <1>7, <1>8, <1>10 DEF r

LEMMA TailFacts ==
    ASSUME NEW S, NEW s \in Seq(S), s # <<>>,
           \A j \in DOMAIN s : s[j] = s[1] => j = 1
    PROVE  /\ Tail(s) \in Seq(S) /\ Head(s) \in S /\ Head(s) \in Range(s) /\ Head(s) = s[1]
           /\ DOMAIN Tail(s) = 1..Len(s) - 1
           /\ \A j \in 1..Len(s) - 1 : Tail(s)[j] = s[j + 1]
           /\ Range(Tail(s)) = Range(s) \ {Head(s)}
<1>1. Len(s) \in Nat \ {0} /\ DOMAIN s = 1..Len(s)
  OBVIOUS
<1>2. /\ Tail(s) \in Seq(S) /\ DOMAIN Tail(s) = 1..Len(s)-1
      /\ \A j \in 1..Len(s)-1 : Tail(s)[j] = s[j + 1]
      /\ Head(s) = s[1] /\ s[1] \in S
  BY <1>1
<1>3. s[1] \in Range(s)
  BY <1>1 DEF Range
<1>4. Range(Tail(s)) \subseteq Range(s) \ {s[1]}
  BY <1>1, <1>2 DEF Range
<1>5. ASSUME NEW j \in DOMAIN s, j # 1 PROVE s[j] \in Range(Tail(s))
  <2>1. j - 1 \in 1..Len(s)-1 /\ (j - 1) + 1 = j
    BY <1>1, <1>5
  <2> QED
    BY <1>2, <2>1 DEF Range
<1>6. Range(s) \ {s[1]} \subseteq Range(Tail(s))
  BY <1>5 DEF Range
<1> QED
  BY <1>2, <1>3, <1>4, <1>6

(* Sequences of one element at most.                                         *)
LEMMA SingleFacts ==
    ASSUME NEW S, NEW s \in Seq(S), s # <<>>, Len(s) <= 1
    PROVE  /\ Len(s) = 1 /\ DOMAIN s = {1} /\ Head(s) = s[1] /\ s[1] \in S
           /\ Tail(s) = <<>> /\ RemoveAt(s, 1) = <<>>
<1>1. Len(s) \in Nat \ {0} /\ DOMAIN s = 1..Len(s)
  OBVIOUS
<1>2. Len(s) = 1
  BY <1>1
<1>3. DOMAIN s = {1} /\ s[1] \in S
  BY <1>1, <1>2
<1>4. Tail(s) = <<>>
  <2>1. Tail(s) \in Seq(S) /\ Len(Tail(s)) = 0
    BY <1>1, <1>2
  <2> QED
    BY <2>1
<1>5. SubSeq(s, 1, 0) = <<>> /\ SubSeq(s, 2, 1) = <<>>
  BY <1>2
<1>6. RemoveAt(s, 1) = <<>>
  BY <1>2, <1>5 DEF RemoveAt
<1>7. Head(s) = s[1]
  OBVIOUS
<1> QED
  BY <1>2, <1>3, <1>4, <1>6, <1>7

LEMMA EmptyFacts ==
    ASSUME NEW S, NEW s \in Seq(S)
    PROVE  (s = <<>> <=> DOMAIN s = {}) /\ (s = <<>> <=> Len(s) = 0)
  OBVIOUS

-----------------------------------------------------------------------------
(* What the actions do to the messages of the grandmaster.                   *)

LEMMA LinkFacts ==
    ASSUME LinkTypes, NEW p \in Ports
    PROVE  /\ queue[p] \in Seq(Messages) /\ wire[p] \in Seq(UnderWay)
           /\ waited[p] \in 0..MaxTxTime /\ (queue[p] = <<>> => waited[p] = 0)
           /\ DOMAIN queue = Ports /\ DOMAIN wire = Ports /\ DOMAIN waited = Ports
  BY DEF LinkTypes

LEMMA SetFacts ==
    ASSUME LinkTypes
    PROVE  /\ \A m \in Queued : m \in Messages
           /\ \A x \in OnWire : x \in UnderWay
           /\ Queued = {} <=> queue["master"] = <<>>
           /\ \A i \in DOMAIN queue["master"] : queue["master"][i] \in Queued
           /\ \A i \in DOMAIN wire["master"] : wire["master"][i] \in OnWire
<1> DEFINE q == queue["master"]
           w == wire["master"]
<1>1. q \in Seq(Messages) /\ w \in Seq(UnderWay)
  BY LinkFacts DEF Ports
<1>2. /\ \A i \in DOMAIN q : q[i] \in Messages
      /\ \A i \in DOMAIN w : w[i] \in UnderWay
      /\ q # <<>> => 1 \in DOMAIN q
      /\ q = <<>> => DOMAIN q = {}
  BY <1>1
<1>3. Queued = {q[i] : i \in DOMAIN q} /\ OnWire = {w[i] : i \in DOMAIN w}
  BY DEF Queued, OnWire, Range
<1> HIDE DEF q, w
<1>4. Queued = {} <=> q = <<>>
  BY <1>2, <1>3
<1> QED
  BY <1>2, <1>3, <1>4 DEF q, w

(* A message is queued, while none of its class is.                          *)
LEMMA EnqueueStep ==
    ASSUME LinkTypes, OneOfEach, NEW m \in Messages, m.kind \in FromMaster,
           Enqueue("master", m), \A x \in Queued : ClassOf(x) # ClassOf(m),
           UNCHANGED wire
    PROVE  /\ queue' \in [Ports -> Seq(Messages)]
           /\ OneOfEach'
           /\ Queued' = Queued \cup {m} /\ OnWire' = OnWire
           /\ queue'["slave"] = queue["slave"] /\ queue'["master"] # <<>>
<1> DEFINE q == queue["master"]
<1>1. q \in Seq(Messages) /\ Len(q) \in Nat /\ DOMAIN q = 1..Len(q)
  BY LinkFacts DEF Ports
<1>2. /\ queue' \in [Ports -> Seq(Messages)]
      /\ queue'["master"] = Append(q, m) /\ queue'["slave"] = queue["slave"]
  BY AppendedFacts, <1>1, LinkFacts DEF Enqueue, LinkTypes, Ports
<1> DEFINE r == Append(q, m)
<1>3. /\ Range(r) = Range(q) \cup {m} /\ DOMAIN r = 1..Len(q)+1
      /\ \A i \in 1..Len(q) : r[i] = q[i]
      /\ r[Len(q)+1] = m /\ r # <<>>
  BY <1>1, AppendedFacts
<1> HIDE DEF r
<1>4. queue'["master"] = r /\ r # <<>>
  BY <1>2, <1>1, <1>3 DEF r
<1>5. Queued' = Queued \cup {m} /\ OnWire' = OnWire
  BY <1>3, <1>4 DEF Queued, OnWire
<1>6. \A i \in DOMAIN q : ClassOf(q[i]) # ClassOf(m)
  BY SetFacts
<1>7. OneOfEach'
  <2>1. \A i \in DOMAIN r : r[i].kind \in FromMaster
    BY <1>1, <1>3 DEF OneOfEach
  <2>2. ASSUME NEW i \in DOMAIN r, NEW j \in DOMAIN r, ClassOf(r[i]) = ClassOf(r[j])
        PROVE  i = j
    <3>1. CASE i \in 1..Len(q) /\ j \in 1..Len(q)
      BY <1>1, <1>3, <2>2, <3>1 DEF OneOfEach
    <3>2. CASE ~(i \in 1..Len(q) /\ j \in 1..Len(q))
      BY <1>1, <1>3, <1>6, <2>2, <3>2
    <3> QED
      BY <3>1, <3>2
  <2> QED
    BY <1>4, <2>1, <2>2 DEF OneOfEach
<1> QED
  BY <1>2, <1>4, <1>5, <1>7

(* A queued message is gone.                                                 *)
LEMMA UnqueueStep ==
    ASSUME LinkTypes, OneOfEach, NEW i \in DOMAIN queue["master"]
    PROVE  LET q == queue["master"]
               r == RemoveAt(q, i)
           IN  /\ r \in Seq(Messages) /\ q[i] \in Queued
               /\ Range(r) = Queued \ {q[i]}
               /\ \A j \in DOMAIN r : r[j].kind \in FromMaster /\ ClassOf(r[j]) # ClassOf(q[i])
               /\ \A j, k \in DOMAIN r : ClassOf(r[j]) = ClassOf(r[k]) => j = k
<1> DEFINE q == queue["master"]
           r == RemoveAt(q, i)
<1>1. q \in Seq(Messages) /\ Len(q) \in Nat /\ DOMAIN q = 1..Len(q)
  BY LinkFacts DEF Ports
<1>2. \A j \in DOMAIN q : q[j] = q[i] => j = i
  BY DEF OneOfEach
<1>3. /\ r \in Seq(Messages) /\ DOMAIN r = 1..Len(q) - 1
      /\ \A j \in 1..Len(q) - 1 : r[j] = IF j < i THEN q[j] ELSE q[j + 1]
      /\ Range(r) = Range(q) \ {q[i]}
  BY <1>1, <1>2, RemoveFacts
<1> DEFINE At(j) == IF j < i THEN j ELSE j + 1
<1>4. \A j \in DOMAIN r : At(j) \in DOMAIN q /\ At(j) # i /\ r[j] = q[At(j)]
  BY <1>1, <1>3
<1>5. \A j, k \in DOMAIN r : At(j) = At(k) => j = k
  BY <1>1, <1>3
<1> HIDE DEF q, r, At
<1>6. \A j \in DOMAIN r : r[j].kind \in FromMaster /\ ClassOf(r[j]) # ClassOf(q[i])
  BY <1>4 DEF OneOfEach, q
<1>7. \A j, k \in DOMAIN r : ClassOf(r[j]) = ClassOf(r[k]) => j = k
  BY <1>4, <1>5 DEF OneOfEach, q
<1>8. q[i] \in Queued
  BY SetFacts DEF q
<1> QED
  BY <1>3, <1>6, <1>7, <1>8 DEF q, r, Queued

LEMMA LoseQueuedStep ==
    ASSUME LinkTypes, OneOfEach, LoseQueued("master")
    PROVE  /\ queue' \in [Ports -> Seq(Messages)]
           /\ OneOfEach'
           /\ \E m \in Queued : Queued' = Queued \ {m}
           /\ OnWire' = OnWire /\ queue'["slave"] = queue["slave"]
           /\ waited' = waited /\ waited["master"] = 0
<1>1. PICK i \in DOMAIN queue["master"] :
          queue' = [queue EXCEPT !["master"] = RemoveAt(queue["master"], i)]
  BY DEF LoseQueued, NextOnes
<1> DEFINE q == queue["master"]
           r == RemoveAt(q, i)
<1>2. /\ r \in Seq(Messages) /\ q[i] \in Queued /\ Range(r) = Queued \ {q[i]}
      /\ \A j \in DOMAIN r : r[j].kind \in FromMaster /\ ClassOf(r[j]) # ClassOf(q[i])
      /\ \A j, k \in DOMAIN r : ClassOf(r[j]) = ClassOf(r[k]) => j = k
  BY UnqueueStep
<1> HIDE DEF r
<1>3. /\ queue' \in [Ports -> Seq(Messages)]
      /\ queue'["master"] = r /\ queue'["slave"] = queue["slave"]
  BY <1>1, <1>2 DEF LinkTypes, Ports, r
<1>4. wire' = wire /\ waited["master"] = 0 /\ waited' = waited
  BY LinkFacts DEF LoseQueued, Ports, LinkTypes
<1>5. OneOfEach'
  BY <1>2, <1>3, <1>4 DEF OneOfEach
<1> QED
  BY <1>2, <1>3, <1>4, <1>5 DEF Queued, OnWire

(* A transmission ends: the message is on the wire, what follows it up is    *)
(* queued.                                                                   *)
LEMMA TransmitStep ==
    ASSUME LinkTypes, OneOfEach, Follows("FollowUp", "Sync"),
           Follows("PdelayRespFollowUp", "PdelayResp"), TransmissionEnded("master")
    PROVE  /\ queue' \in [Ports -> Seq(Messages)] /\ wire' \in [Ports -> Seq(UnderWay)]
           /\ OneOfEach'
           /\ \E m \in Queued :
                /\ Queued' = (Queued \ {m}) \cup Range(FollowUpOf(m))
                /\ OnWire' = OnWire \cup {[message |-> m, left |-> PropagationDelay]}
           /\ queue'["slave"] = queue["slave"] /\ wire'["slave"] = wire["slave"]
           /\ waited["master"] >= 1 /\ waited' = [waited EXCEPT !["master"] = 0]
           /\ pdelayReqEventEgressTimestamp' = pdelayReqEventEgressTimestamp
<1> DEFINE q == queue["master"]
           w == wire["master"]
<1>1. PICK i \in DOMAIN q :
        /\ queue' = [queue EXCEPT !["master"] = RemoveAt(q, i) \o FollowUpOf(q[i])]
        /\ wire' = [wire EXCEPT !["master"] =
                       Append(w, [message |-> q[i], left |-> PropagationDelay])]
        /\ pdelayReqEventEgressTimestamp' =
                IF q[i].kind = "PdelayReq" THEN clockTime ELSE pdelayReqEventEgressTimestamp
  BY DEF TransmissionEnded, NextOnes
<1> DEFINE m == q[i]
           r == RemoveAt(q, i)
           f == FollowUpOf(m)
           x == [message |-> m, left |-> PropagationDelay]
<1>2. /\ r \in Seq(Messages) /\ m \in Queued /\ Range(r) = Queued \ {m}
      /\ \A j \in DOMAIN r : r[j].kind \in FromMaster /\ ClassOf(r[j]) # ClassOf(m)
      /\ \A j, k \in DOMAIN r : ClassOf(r[j]) = ClassOf(r[k]) => j = k
  BY UnqueueStep
<1>3. m \in Messages /\ m.kind \in FromMaster /\ x \in UnderWay
  BY <1>2, SetFacts, ConstantFacts DEF OneOfEach, UnderWay
<1>4. \/ f = <<>>
      \/ \E fu \in Messages : /\ f = <<fu>> /\ fu.kind \in FromMaster
                              /\ ClassOf(fu) = ClassOf(m)
  <2>1. CASE m.kind = "Sync"
    <3> DEFINE fu == Message("FollowUp", m.seq, 0)
    <3>1. fu \in Messages /\ fu.kind = "FollowUp" /\ f = <<fu>>
      BY <1>3, <2>1 DEF Message, Messages, FromMaster, Times, FollowUpOf
    <3> QED
      BY <3>1, <2>1 DEF ClassOf, FromMaster
  <2>2. CASE m.kind = "PdelayResp"
    <3> DEFINE fu == Message("PdelayRespFollowUp", m.seq, 0)
    <3>1. fu \in Messages /\ fu.kind = "PdelayRespFollowUp" /\ f = <<fu>>
      BY <1>3, <2>2 DEF Message, Messages, FromMaster, Times, FollowUpOf
    <3> QED
      BY <3>1, <2>2 DEF ClassOf, FromMaster
  <2>3. CASE m.kind # "Sync" /\ m.kind # "PdelayResp"
    BY <2>3 DEF FollowUpOf
  <2> QED
    BY <2>1, <2>2, <2>3
<1> DEFINE s == r \o f
<1>5. /\ s \in Seq(Messages) /\ Range(s) = Range(r) \cup Range(f)
      /\ \A j \in DOMAIN s : s[j].kind \in FromMaster
      /\ \A j, k \in DOMAIN s : ClassOf(s[j]) = ClassOf(s[k]) => j = k
  <2> HIDE DEF m, r
  <2>1. CASE f = <<>>
    <3>1. s = r /\ Range(f) = {}
      BY <1>2, <2>1 DEF Range
    <3> HIDE DEF f, s
    <3> QED
      BY <1>2, <3>1
  <2>2. CASE f # <<>>
    <3>1. PICK fu \in Messages : /\ f = <<fu>> /\ fu.kind \in FromMaster
                                 /\ ClassOf(fu) = ClassOf(m)
      BY <1>4, <2>2
    <3> HIDE DEF f
    <3>2. s = Append(r, fu) /\ Range(f) = {fu}
      BY <1>2, <3>1 DEF Range
    <3> HIDE DEF s
    <3>3. /\ s \in Seq(Messages) /\ Range(s) = Range(r) \cup {fu}
          /\ DOMAIN s = 1..Len(r) + 1
          /\ \A j \in DOMAIN r : s[j] = r[j]
          /\ s[Len(r) + 1] = fu
      BY <1>2, <3>2, AppendedFacts
    <3>4. Len(r) \in Nat /\ DOMAIN r = 1..Len(r)
      BY <1>2
    <3>5. \A j \in DOMAIN s : j \in DOMAIN r \/ j = Len(r) + 1
      BY <3>3, <3>4
    <3>6. \A j \in DOMAIN s : s[j].kind \in FromMaster
      BY <1>2, <3>1, <3>3, <3>5
    <3>7. ASSUME NEW j \in DOMAIN s, NEW k \in DOMAIN s, ClassOf(s[j]) = ClassOf(s[k])
          PROVE  j = k
      BY <1>2, <3>1, <3>3, <3>5, <3>7
    <3> QED
      BY <3>2, <3>3, <3>6, <3>7
  <2> QED
    BY <2>1, <2>2
<1>6. w \in Seq(UnderWay) /\ Len(w) \in Nat /\ DOMAIN w = 1..Len(w)
  BY LinkFacts DEF Ports
<1> DEFINE v == Append(w, x)
<1> HIDE DEF m, r, f, s, x, v, q, w
<1>7. /\ v \in Seq(UnderWay) /\ Range(v) = Range(w) \cup {x}
      /\ DOMAIN v = 1..Len(w) + 1
      /\ \A j \in DOMAIN w : v[j] = w[j]
      /\ v[Len(w) + 1] = x
  BY <1>3, <1>6, AppendedFacts DEF v
<1>8. /\ queue' \in [Ports -> Seq(Messages)] /\ queue'["master"] = s
      /\ queue'["slave"] = queue["slave"]
      /\ wire' \in [Ports -> Seq(UnderWay)] /\ wire'["master"] = v
      /\ wire'["slave"] = wire["slave"]
  BY <1>1, <1>5, <1>7 DEF LinkTypes, Ports, s, v, m, r, f, x, q, w
<1>9. x.message = m
  BY DEF x
<1>10. \A j \in DOMAIN w : w[j].message.kind # m.kind
  BY <1>2, <1>3, SetFacts DEF Follows, InQueue, OnLine, FromMaster, w
<1>11. OneOfEach'
  <2>1. \A j \in DOMAIN v : j \in DOMAIN w \/ j = Len(w) + 1
    BY <1>6, <1>7
  <2>2. \A j \in DOMAIN v : v[j].message.kind \in FromMaster
    BY <1>3, <1>7, <1>9, <2>1 DEF OneOfEach, w
  <2>3. ASSUME NEW j \in DOMAIN v, NEW k \in DOMAIN v, v[j].message.kind = v[k].message.kind
        PROVE  j = k
    BY <1>7, <1>9, <1>10, <2>1, <2>3 DEF OneOfEach, w
  <2> QED
    BY <1>5, <1>8, <2>2, <2>3 DEF OneOfEach
<1>12. m.kind # "PdelayReq"
  BY <1>3 DEF FromMaster
<1>13. /\ Queued' = (Queued \ {m}) \cup Range(FollowUpOf(m))
       /\ OnWire' = OnWire \cup {x}
  BY <1>2, <1>5, <1>7, <1>8 DEF Queued, OnWire, f, w
<1> QED
  BY <1>1, <1>2, <1>8, <1>11, <1>12, <1>13 DEF TransmissionEnded, m, x

(* The first message on the wire is gone.                                    *)
LEMMA UnwireStep ==
    ASSUME LinkTypes, OneOfEach, wire["master"] # <<>>, Head(wire["master"]).left = 0,
           wire' = [wire EXCEPT !["master"] = Tail(wire["master"])], queue' = queue
    PROVE  /\ wire' \in [Ports -> Seq(UnderWay)] /\ OneOfEach'
           /\ Head(wire["master"]) \in OnWire
           /\ OnWire' = OnWire \ {Head(wire["master"])} /\ Queued' = Queued
           /\ \A x \in OnWire' : x.message.kind # Head(wire["master"]).message.kind
           /\ wire'["slave"] = wire["slave"]
<1> DEFINE w == wire["master"]
           v == Tail(w)
<1>1. w \in Seq(UnderWay) /\ Len(w) \in Nat /\ DOMAIN w = 1..Len(w)
  BY LinkFacts DEF Ports
<1>0. 1 \in DOMAIN w
  BY <1>1
<1>2. \A j \in DOMAIN w : w[j] = w[1] => j = 1
  BY <1>0 DEF OneOfEach
<1>3. /\ v \in Seq(UnderWay) /\ Head(w) \in Range(w) /\ Head(w) = w[1]
      /\ DOMAIN v = 1..Len(w) - 1
      /\ \A j \in 1..Len(w) - 1 : v[j] = w[j + 1]
      /\ Range(v) = Range(w) \ {Head(w)}
  BY <1>1, <1>2, TailFacts
<1> HIDE DEF v
<1>4. /\ wire' \in [Ports -> Seq(UnderWay)] /\ wire'["master"] = v
      /\ wire'["slave"] = wire["slave"]
  BY <1>3 DEF LinkTypes, Ports, v
<1>5. \A j \in DOMAIN v : j + 1 \in DOMAIN w /\ j + 1 # 1 /\ v[j] = w[j + 1] /\ j \in Nat
  BY <1>1, <1>3
<1>6. 1 \in DOMAIN w
  BY <1>1
<1>7. OneOfEach'
  <2>1. \A j \in DOMAIN v : v[j].message.kind \in FromMaster
    BY <1>5 DEF OneOfEach
  <2>2. ASSUME NEW j \in DOMAIN v, NEW k \in DOMAIN v, v[j].message.kind = v[k].message.kind
        PROVE  j = k
    <3>1. j + 1 = k + 1
      BY <1>5, <2>2 DEF OneOfEach
    <3> QED
      BY <1>5, <3>1
  <2> QED
    BY <1>4, <2>1, <2>2 DEF OneOfEach
<1>8. \A j \in DOMAIN v : v[j].message.kind # w[1].message.kind
  BY <1>5, <1>6 DEF OneOfEach
<1>9. \A x \in Range(v) : x.message.kind # w[1].message.kind
  BY <1>8 DEF Range
<1> QED
  BY <1>3, <1>4, <1>7, <1>9 DEF Queued, OnWire

(* Time passes.                                                              *)
LEMMA LaterFacts ==
    ASSUME NEW m \in Messages
    PROVE  /\ LaterMessage(m) \in Messages
           /\ LaterMessage(m).kind = m.kind /\ LaterMessage(m).seq = m.seq
           /\ LaterMessage(m).time = Later(m.time)
           /\ ClassOf(LaterMessage(m)) = ClassOf(m)
<1>1. Later(m.time) \in Times
  BY DEF Later, Times, Messages
<1> QED
  BY <1>1 DEF LaterMessage, Messages, ClassOf

LEMMA LaterTimes ==
    ASSUME NEW t \in Times
    PROVE  /\ Later(t) \in Times
           /\ t \in Int => Later(t) = t - 1
           /\ Later(t) \in Int => t \in Int
           /\ Later(t) = Unset <=> t = Unset
  BY ConstantFacts DEF Later, Times

(* A sequence of as many elements.                                           *)
LEMMA MapFacts ==
    ASSUME NEW S, NEW T, NEW s \in Seq(S), NEW t, t = [i \in DOMAIN s |-> t[i]],
           \A i \in DOMAIN s : t[i] \in T
    PROVE  t \in Seq(T) /\ (t = <<>> <=> s = <<>>)
<1>1. DOMAIN s = 1..Len(s) /\ Len(s) \in Nat
  OBVIOUS
<1>2. t \in Seq(T) /\ DOMAIN t = DOMAIN s
  BY <1>1
<1> QED
  BY <1>1, <1>2

TickOf(x) == [message |-> LaterMessage(x.message), left |-> x.left - 1]

LEMMA LinkTickStep ==
    ASSUME Types, OneOfEach, GptpTick
    PROVE  /\ LinkTypes' /\ OneOfEach'
           /\ Queued' = {LaterMessage(m) : m \in Queued}
           /\ OnWire' = {TickOf(x) : x \in OnWire}
           /\ \A x \in OnWire : x.left > 0
           /\ waited'["master"] = IF Queued = {} THEN 0 ELSE waited["master"] + 1
           /\ waited'["slave"] = IF queue["slave"] = <<>> THEN 0 ELSE waited["slave"] + 1
           /\ queue'["slave"] = [i \in DOMAIN queue["slave"] |-> LaterMessage(queue["slave"][i])]
           /\ wire'["slave"] = [i \in DOMAIN wire["slave"] |-> TickOf(wire["slave"][i])]
           /\ \A i \in DOMAIN wire["slave"] : wire["slave"][i].left > 0
<1>1. \A p \in Ports : /\ queue[p] \in Seq(Messages) /\ wire[p] \in Seq(UnderWay)
                       /\ waited[p] \in 0..MaxTxTime
                       /\ queue[p] = <<>> => waited[p] = 0
  BY LinkFacts DEF Types
<1>2. /\ queue' = [p \in Ports |-> [i \in DOMAIN queue[p] |-> LaterMessage(queue[p][i])]]
      /\ wire' = [p \in Ports |-> [i \in DOMAIN wire[p] |-> TickOf(wire[p][i])]]
      /\ waited' = [p \in Ports |-> IF queue[p] = <<>> THEN 0 ELSE waited[p] + 1]
      /\ answers' = [i \in DOMAIN answers |->
                       [answers[i] EXCEPT !.left = @ - 1, !.ingress = Later(@)]]
      /\ \A p \in Ports : /\ waited[p] < MaxTxTime
                          /\ \A i \in DOMAIN wire[p] : wire[p][i].left > 0
      /\ \A i \in DOMAIN answers : answers[i].left > 0
  BY DEF GptpTick, TickOf
<1>3. ASSUME NEW p \in Ports
      PROVE  queue'[p] \in Seq(Messages) /\ (queue'[p] = <<>> <=> queue[p] = <<>>)
  <2> DEFINE q == queue[p]
             t == queue'[p]
  <2>1. q \in Seq(Messages) /\ t = [i \in DOMAIN q |-> LaterMessage(q[i])]
    BY <1>1, <1>2
  <2> HIDE DEF q, t
  <2>2. \A i \in DOMAIN q : q[i] \in Messages
    BY <2>1
  <2>3. \A i \in DOMAIN q : t[i] \in Messages
    BY <2>1, <2>2, LaterFacts
  <2>4. t \in Seq(Messages) /\ (t = <<>> <=> q = <<>>)
    BY <2>1, <2>3, MapFacts
  <2> QED
    BY <2>4 DEF q, t
<1>4. ASSUME NEW p \in Ports PROVE wire'[p] \in Seq(UnderWay)
  <2> DEFINE w == wire[p]
             t == wire'[p]
  <2>1. w \in Seq(UnderWay) /\ t = [i \in DOMAIN w |-> TickOf(w[i])]
        /\ \A i \in DOMAIN w : w[i].left > 0
    BY <1>1, <1>2
  <2> HIDE DEF w, t
  <2>2. \A i \in DOMAIN w : w[i] \in UnderWay
    BY <2>1
  <2>3. ASSUME NEW x \in UnderWay, x.left > 0 PROVE TickOf(x) \in UnderWay
    <3>1. LaterMessage(x.message) \in Messages
      BY LaterFacts DEF UnderWay
    <3> QED
      BY <2>3, <3>1, ConstantFacts DEF UnderWay, TickOf
  <2>4. \A i \in DOMAIN w : t[i] \in UnderWay
    BY <2>1, <2>2, <2>3
  <2>5. t \in Seq(UnderWay)
    BY <2>1, <2>4, MapFacts
  <2> QED
    BY <2>5 DEF t
<1>5. answers' \in Seq(ReqAnswers)
  <2> DEFINE Next1(a) == [a EXCEPT !.left = @ - 1, !.ingress = Later(@)]
  <2>1. answers \in Seq(ReqAnswers)
    BY DEF Types, LinkTypes
  <2>2. ASSUME NEW a \in ReqAnswers, a.left > 0 PROVE Next1(a) \in ReqAnswers
    <3>1. Later(a.ingress) \in Int
      BY ConstantFacts DEF Later, ReqAnswers
    <3> DEFINE b == [a EXCEPT !.left = @ - 1]
    <3>2. b \in ReqAnswers /\ b.ingress = a.ingress
      BY <2>2, ConstantFacts DEF ReqAnswers
    <3>3. Next1(a) = [b EXCEPT !.ingress = Later(@)]
      BY DEF ReqAnswers
    <3> HIDE DEF b
    <3> QED
      BY <3>1, <3>2, <3>3 DEF ReqAnswers
  <2> HIDE DEF Next1
  <2>6. \A i \in DOMAIN answers : answers[i] \in ReqAnswers
    BY <2>1
  <2>3. \A i \in DOMAIN answers : Next1(answers[i]) \in ReqAnswers
    BY <1>2, <2>2, <2>6
  <2>4. DOMAIN answers = 1..Len(answers) /\ Len(answers) \in Nat
    BY <2>1
  <2>5. answers' = [i \in DOMAIN answers |-> Next1(answers[i])]
    BY <1>2 DEF Next1
  <2> QED
    BY <2>3, <2>4, <2>5
<1>6. \A p \in Ports : /\ waited'[p] \in 0..MaxTxTime
                       /\ queue'[p] = <<>> => waited'[p] = 0
  <2> TAKE p \in Ports
  <2>1. waited[p] < MaxTxTime
    BY <1>2
  <2>2. waited[p] \in Nat
    BY <1>1, ConstantFacts
  <2>3. waited'[p] = IF queue[p] = <<>> THEN 0 ELSE waited[p] + 1
    BY <1>2, Zenon
  <2> QED
    BY <1>3, <2>1, <2>2, <2>3, ConstantFacts
<1>7. LinkTypes'
  BY <1>2, <1>3, <1>4, <1>5, <1>6 DEF LinkTypes
<1>8. /\ queue'["master"] = [i \in DOMAIN queue["master"] |-> LaterMessage(queue["master"][i])]
      /\ wire'["master"] = [i \in DOMAIN wire["master"] |-> TickOf(wire["master"][i])]
      /\ queue'["slave"] = [i \in DOMAIN queue["slave"] |-> LaterMessage(queue["slave"][i])]
      /\ wire'["slave"] = [i \in DOMAIN wire["slave"] |-> TickOf(wire["slave"][i])]
  BY <1>2 DEF Ports
<1>9. /\ \A i \in DOMAIN queue["master"] : queue["master"][i] \in Messages
      /\ \A i \in DOMAIN wire["master"] : wire["master"][i] \in UnderWay
  BY <1>1 DEF Ports
<1>10. /\ Queued' = {LaterMessage(m) : m \in Queued}
       /\ OnWire' = {TickOf(x) : x \in OnWire}
  BY <1>8 DEF Queued, OnWire, Range
<1>11. \A x \in OnWire : x.left > 0
  BY <1>2 DEF OnWire, Range, Ports
<1>12. OneOfEach'
  <2>1. \A i \in DOMAIN queue["master"] :
            /\ queue'["master"][i].kind = queue["master"][i].kind
            /\ ClassOf(queue'["master"][i]) = ClassOf(queue["master"][i])
    BY <1>8, <1>9, LaterFacts
  <2>2. \A i \in DOMAIN wire["master"] :
            wire'["master"][i].message.kind = wire["master"][i].message.kind
    BY <1>8, <1>9, LaterFacts DEF UnderWay, TickOf
  <2>3. /\ DOMAIN queue'["master"] = DOMAIN queue["master"]
        /\ DOMAIN wire'["master"] = DOMAIN wire["master"]
    BY <1>8
  <2> QED
    BY <2>1, <2>2, <2>3 DEF OneOfEach
<1>13. Queued = {} <=> queue["master"] = <<>>
  BY SetFacts DEF Types
<1> QED
  BY <1>2, <1>7, <1>8, <1>10, <1>11, <1>12, <1>13 DEF Ports

-----------------------------------------------------------------------------
(* What holds of the messages under way holds of fewer of them.              *)

LEMMA FollowsFewer ==
    ASSUME NEW f, NEW e, Follows(f, e), Queued' \subseteq Queued, OnWire' \subseteq OnWire,
           waited'["master"] = waited["master"]
    PROVE  Follows(f, e)'
  BY DEF Follows, InQueue, OnLine

LEMMA SyncsFewer ==
    ASSUME Syncs, Queued' \subseteq Queued, OnWire' \subseteq OnWire,
           waited'["master"] = waited["master"], UNCHANGED <<selfMsgSync, masterSequenceId>>
    PROVE  Syncs'
<1>1. Follows("FollowUp", "Sync")'
  BY FollowsFewer DEF Syncs
<1> QED
  BY <1>1 DEF Syncs, Stamped, SinceSync, LastSync, IsSync

LEMMA AnswersFewer ==
    ASSUME Answers, Queued' \subseteq Queued, OnWire' \subseteq OnWire,
           waited'["master"] = waited["master"],
           UNCHANGED <<selfMsgDelayReq, lastSentPdelayReqSequenceId>>,
           \A t \in Int : RequestArrivedAt(t) => RequestArrivedAt(t)',
           Alive("PdelayResp")' => rcvdPdelayResp' = rcvdPdelayResp
    PROVE  Answers'
<1>1. Follows("PdelayRespFollowUp", "PdelayResp")'
  BY FollowsFewer DEF Answers
<1>2. \A t : Stamped("PdelayResp", t)' => Stamped("PdelayResp", t)
  BY DEF Stamped
<1>3. Alive("PdelayResp")' => Alive("PdelayResp")
  BY DEF Alive, InQueue, OnLine
<1>4. \A t \in Times : Stamped("PdelayResp", t)' => t \in Int /\ RequestArrivedAt(t)'
  BY <1>2 DEF Answers
<1>5. Alive("PdelayResp")' => ~rcvdPdelayResp'
  BY <1>3 DEF Answers
<1> QED
  BY <1>1, <1>4, <1>5 DEF Answers, SinceRequest, IsAnswer, Turnaround

LEMMA DrainsFewer ==
    ASSUME SenderTypes, LinkTypes, QueueDrains, Queued' \subseteq Queued, waited'["master"] = waited["master"],
           Asked' => Asked, UNCHANGED <<selfMsgSync, selfMsgDelayReq>>
    PROVE  QueueDrains'
<1>1. SyncWork' <= SyncWork /\ SyncWork \in Nat /\ SyncWork' \in Nat /\ (SyncWork = 0 => SyncWork' = 0)
  BY ConstantFacts DEF SyncWork, Work, InQueue
<1>2. /\ AnswerWork' <= AnswerWork /\ AnswerWork \in Nat /\ AnswerWork' \in Nat
      /\ (AnswerWork = 0 => AnswerWork' = 0)
  BY ConstantFacts DEF AnswerWork, Work, InQueue
<1>3. waited["master"] \in Nat
  BY LinkFacts DEF Ports
<1>4. TimeToDrain' <= TimeToDrain /\ TimeToDrain' \in Int /\ TimeToDrain \in Int
  BY <1>1, <1>2, <1>3 DEF TimeToDrain
<1>5. /\ UNCHANGED <<SinceSync, SinceRequest, Turnaround>>
      /\ SinceSync \in Int /\ SinceRequest \in Int /\ Turnaround \in Int
  BY ConstantFacts DEF SinceSync, SinceRequest, Turnaround, SenderTypes
<1> QED
  BY <1>1, <1>2, <1>4, <1>5, ConstantFacts
  DEF QueueDrains, DrainsAnswer, DrainsSync, DrainsBoth

-----------------------------------------------------------------------------
(* The queue of the grandmaster.                                             *)

LEMMA SinceFacts ==
    ASSUME SenderTypes
    PROVE  /\ SinceSync \in 0..SyncInterval /\ SinceRequest \in Int /\ Turnaround \in Nat
           /\ LastSync \in Ids
  BY ConstantFacts DEF SinceSync, SinceRequest, Turnaround, SenderTypes, LastSync, Ids

LEMMA WorkFacts ==
    ASSUME LinkTypes, OneOfEach
    PROVE  /\ SyncWork \in Nat /\ AnswerWork \in Nat
           /\ SyncWork = 0 <=> ~InQueue("Sync") /\ ~InQueue("FollowUp")
           /\ AnswerWork = 0 <=> ~InQueue("PdelayResp") /\ ~InQueue("PdelayRespFollowUp")
           /\ SyncWork <= 2 * MaxTxTime /\ AnswerWork <= 2 * MaxTxTime
           /\ SyncWork # 0 => SyncWork >= MaxTxTime
           /\ AnswerWork # 0 => AnswerWork >= MaxTxTime
           /\ waited["master"] \in 0..MaxTxTime
           /\ Queued = {} => waited["master"] = 0
           /\ Queued # {} => SyncWork # 0 \/ AnswerWork # 0
           /\ TimeToDrain \in Int
           /\ Queued # {} => TimeToDrain >= 0
<1>1. /\ SyncWork \in Nat /\ AnswerWork \in Nat
      /\ SyncWork = 0 <=> ~InQueue("Sync") /\ ~InQueue("FollowUp")
      /\ AnswerWork = 0 <=> ~InQueue("PdelayResp") /\ ~InQueue("PdelayRespFollowUp")
      /\ SyncWork <= 2 * MaxTxTime /\ AnswerWork <= 2 * MaxTxTime
      /\ SyncWork # 0 => SyncWork >= MaxTxTime
      /\ AnswerWork # 0 => AnswerWork >= MaxTxTime
  BY ConstantFacts DEF SyncWork, AnswerWork, Work
<1>2. waited["master"] \in 0..MaxTxTime /\ (Queued = {} => waited["master"] = 0)
  BY LinkFacts, SetFacts DEF Ports
<1>3. \A m \in Queued : m.kind \in FromMaster
  BY DEF OneOfEach, Queued, Range
<1>4. Queued # {} => SyncWork # 0 \/ AnswerWork # 0
  BY <1>1, <1>3 DEF InQueue, FromMaster
<1> QED
  BY <1>1, <1>2, <1>4, ConstantFacts DEF TimeToDrain

(* All is over with the last Sync when the next one is due.                  *)
LEMMA SyncOver ==
    ASSUME IntervalsSuffice, Types, OneOfEach, Syncs, QueueDrains, selfMsgSync = 0
    PROVE  /\ ~Alive("Sync") /\ ~Alive("FollowUp")
           /\ Queued # {} => DrainsAnswer
<1>1. SinceSync = SyncInterval
  BY ConstantFacts DEF SinceSync
<1>2. Queued # {} => DrainsAnswer
  BY <1>1, WorkFacts, ConstantFacts
  DEF QueueDrains, DrainsSync, DrainsBoth, IntervalsSuffice, Types
<1>3. ~InQueue("Sync") /\ ~InQueue("FollowUp")
  BY <1>2, WorkFacts DEF DrainsAnswer, Types, InQueue
<1>4. \A x \in OnWire : x.left \in Nat
  BY SetFacts, ConstantFacts DEF Types, UnderWay
<1>5. ~OnLine("Sync") /\ ~OnLine("FollowUp")
  BY <1>1, <1>4, ConstantFacts DEF OnLine, Syncs, IsSync, IntervalsSuffice
<1> QED
  BY <1>2, <1>3, <1>5 DEF Alive

(* All is over with the last exchange when the next one begins.              *)
LEMMA ExchangeOver ==
    ASSUME IntervalsSuffice, Types, OneOfEach, Requests, Answers, QueueDrains,
           selfMsgDelayReq = 0
    PROVE  ~Asked /\ ~Answered /\ (Queued # {} => DrainsSync)
<1>1. SinceRequest = PdelayInterval /\ Turnaround = PropagationDelay + PDelayReqProcessingTime
  BY ConstantFacts DEF SinceRequest, Turnaround
<1>2. Queued # {} => DrainsSync
  BY <1>1, WorkFacts, SinceFacts, ConstantFacts
  DEF QueueDrains, DrainsAnswer, DrainsBoth, IntervalsSuffice, Types
<1>3. ~InQueue("PdelayResp") /\ ~InQueue("PdelayRespFollowUp")
  BY <1>2, WorkFacts DEF DrainsSync, Types, InQueue
<1>4. \A x \in OnWire : x.left \in Nat
  BY SetFacts, ConstantFacts DEF Types, UnderWay
<1>5. ~OnLine("PdelayResp") /\ ~OnLine("PdelayRespFollowUp")
  BY <1>1, <1>4, ConstantFacts DEF OnLine, Answers, IsAnswer, IntervalsSuffice
<1>6. /\ waited["slave"] \in 0..MaxTxTime
      /\ queue["slave"] \in Seq(Messages) /\ wire["slave"] \in Seq(UnderWay)
      /\ answers \in Seq(ReqAnswers)
  BY LinkFacts DEF Types, Ports, LinkTypes
<1>7. queue["slave"] = <<>>
  <2> SUFFICES ASSUME queue["slave"] # <<>> PROVE FALSE
    OBVIOUS
  <2>1. 1 \in DOMAIN queue["slave"]
    BY <1>6
  <2> QED
    BY <1>1, <1>6, <2>1, ConstantFacts DEF Requests, IntervalsSuffice
<1>8. wire["slave"] = <<>>
  <2> SUFFICES ASSUME wire["slave"] # <<>> PROVE FALSE
    OBVIOUS
  <2>1. 1 \in DOMAIN wire["slave"] /\ wire["slave"][1] \in UnderWay
    BY <1>6
  <2>2. wire["slave"][1].left \in Nat
    BY <2>1, ConstantFacts DEF UnderWay
  <2> QED
    BY <1>1, <2>1, <2>2, ConstantFacts DEF Requests, IntervalsSuffice
<1>9. answers = <<>>
  <2> SUFFICES ASSUME answers # <<>> PROVE FALSE
    OBVIOUS
  <2>1. 1 \in DOMAIN answers /\ answers[1] \in ReqAnswers
    BY <1>6
  <2>2. answers[1].left \in Nat
    BY <2>1, ConstantFacts DEF ReqAnswers
  <2> QED
    BY <1>1, <2>1, <2>2, ConstantFacts DEF Requests, IntervalsSuffice
<1> QED
  BY <1>2, <1>3, <1>5, <1>7, <1>8, <1>9 DEF Asked, Answered, Alive

-----------------------------------------------------------------------------
(* One lemma per action.                                                     *)

LEMMA Multiples ==
    ASSUME NEW n \in Nat
    PROVE  n * SyncInterval \in Nat /\ (n + 1) * SyncInterval = n * SyncInterval + SyncInterval
  BY ConstantFacts

LEMMA SendSyncInv ==
    ASSUME IntervalsSuffice, LossesLeaveIds, GptpInv, SendSync
    PROVE  GptpInv'
<1> DEFINE m == Message("Sync", masterSequenceId, Unset)
<1>1. /\ m \in Messages /\ m.kind = "Sync" /\ m.seq = masterSequenceId /\ m.time = Unset
      /\ m.kind \in FromMaster /\ ClassOf(m) = FALSE
  BY DEF Message, Messages, FromMaster, GptpInv, Types, SenderTypes, Times, ClassOf
<1>2. ~Alive("Sync") /\ ~Alive("FollowUp") /\ (Queued # {} => DrainsAnswer)
  BY SyncOver DEF GptpInv, SendSync
<1>3. \A x \in Queued : ClassOf(x) # ClassOf(m)
  BY <1>1, <1>2 DEF GptpInv, OneOfEach, Alive, InQueue, Queued, Range, ClassOf, FromMaster
<1>4. /\ queue' \in [Ports -> Seq(Messages)] /\ OneOfEach'
      /\ Queued' = Queued \cup {m} /\ OnWire' = OnWire
      /\ queue'["slave"] = queue["slave"] /\ queue'["master"] # <<>>
  BY <1>1, <1>3, EnqueueStep DEF GptpInv, Types, SendSync
<1> HIDE DEF m
<1>5. /\ masterSequenceId' \in Ids /\ LastSync' = masterSequenceId
      /\ masterSequenceId \in Ids /\ LastSync \in Ids
      /\ LastSync = IF masterSequenceId = 0 THEN SeqIds - 1 ELSE masterSequenceId - 1
  BY NextSeqFacts, SinceFacts, ConstantFacts
  DEF GptpInv, Types, SenderTypes, SendSync, LastSync, Ids
<1>6. SinceSync = SyncInterval /\ SinceSync' = 0 /\ UNCHANGED <<SinceRequest, Turnaround>>
  BY ConstantFacts DEF SendSync, SinceSync, SinceRequest, Turnaround, ids
<1>7. Types'
  <2>1. SenderTypes'
    BY <1>5, ConstantFacts DEF GptpInv, Types, SenderTypes, SendSync, ids
  <2>2. ReceiverTypes'
    BY DEF GptpInv, Types, ReceiverTypes, SendSync, clock, pairing, exchange
  <2>3. LinkTypes'
    BY <1>4 DEF GptpInv, Types, LinkTypes, SendSync, Ports
  <2> QED
    BY <2>1, <2>2, <2>3 DEF Types
<1>8. /\ InQueue("Sync")' /\ UNCHANGED <<Asked, wire, waited, answers>>
      /\ \A kind : OnLine(kind)' = OnLine(kind)
      /\ \A kind : kind # "Sync" => InQueue(kind)' = InQueue(kind)
      /\ \A kind, t : kind # "Sync" => Stamped(kind, t)' = Stamped(kind, t)
  BY <1>1, <1>4 DEF InQueue, OnLine, Stamped, Asked, SendSync
<1>9. UNCHANGED <<Alive("PdelayResp"), Alive("PdelayRespFollowUp"), Answered, Alive("FollowUp")>>
  BY <1>8 DEF Alive, Answered
<1>10. Syncs'
  <2>1. Follows("FollowUp", "Sync")'
    BY <1>1, <1>2, <1>4 DEF Follows, Alive, InQueue, OnLine
  <2> QED
    BY <1>1, <1>2, <1>4, <1>5, <1>8, <2>1 DEF Syncs, Alive, InQueue, OnLine, IsSync, Stamped
<1>11. SyncPaired'
  BY <1>2, <1>8 DEF SyncPaired, Alive, InQueue, OnLine, Stamped
<1>12. Requests'
  BY <1>4, <1>6, <1>8, <1>9
  DEF GptpInv, Requests, SendSync, exchange, clock, RequestArrivedAt
<1>13. Answers'
  <2>1. Follows("PdelayRespFollowUp", "PdelayResp")'
    BY <1>1, <1>4, <1>8 DEF GptpInv, Answers, Follows
  <2> QED
    BY <1>1, <1>4, <1>6, <1>8, <1>9, <2>1
    DEF GptpInv, Answers, IsAnswer, SendSync, exchange, clock, RequestArrivedAt
<1>14. AnswerPaired'
  BY <1>8 DEF GptpInv, AnswerPaired, SendSync, exchange, clock, RequestArrivedAt
<1>15. QueueDrains'
  <2>1. SyncWork' = 2 * MaxTxTime /\ AnswerWork' = AnswerWork
    BY <1>8 DEF SyncWork, AnswerWork, Work
  <2>2. /\ SyncWork \in Nat /\ AnswerWork \in Nat /\ AnswerWork <= 2 * MaxTxTime
        /\ waited["master"] \in 0..MaxTxTime
        /\ Queued = {} => AnswerWork = 0
    BY WorkFacts DEF GptpInv, Types, InQueue
  <2>3. TimeToDrain' = 2 * MaxTxTime + AnswerWork - waited["master"]
    BY <1>8, <2>1 DEF TimeToDrain
  <2>4. CASE Queued = {}
    BY <1>6, <2>1, <2>2, <2>3, <2>4, ConstantFacts DEF QueueDrains, DrainsSync
  <2>5. CASE Queued # {}
    <3>1. DrainsAnswer
      BY <1>2, <2>5
    <3>2. TimeToDrain = AnswerWork - waited["master"]
      BY <2>2, <3>1 DEF DrainsAnswer, TimeToDrain
    <3>3. SinceRequest \in Int /\ Turnaround \in Nat
      BY SinceFacts DEF GptpInv, Types
    <3>4. DrainsBoth'
      BY <1>6, <1>8, <2>2, <2>3, <3>1, <3>2, <3>3, ConstantFacts DEF DrainsAnswer, DrainsBoth
    <3> QED
      BY <3>4 DEF QueueDrains
  <2> QED
    BY <2>4, <2>5
<1>16. ~Pending /\ Pending'
  BY <1>2, <1>8 DEF Pending, Alive
<1>17. UselessLost'
  <2>1. UNCHANGED <<rcvdGptpSync, lastReceivedGptpSyncSequenceId, lost>>
    BY DEF SendSync, pairing
  <2>2. lost \in 0..MaxLost /\ lastReceivedGptpSyncSequenceId \in Ids
    BY DEF GptpInv, Types, SenderTypes, ReceiverTypes
  <2>3. ASSUME rcvdGptpSync
        PROVE  \E n \in 0..lost : Behind(n)' /\ n > 0
    <3>1. PICK n \in 0..lost : Behind(n) /\ n + 1 <= lost
      BY <1>16, <2>3 DEF GptpInv, UselessLost
    <3>2. n + 1 \in 0..lost /\ n + 1 > 0
      BY <2>2, <3>1, ConstantFacts
    <3>3. Behind(n + 1)'
      BY <1>5, <2>1, <2>2, <3>1, ConstantFacts DEF Behind, Ids, LossesLeaveIds
    <3> QED
      BY <3>2, <3>3
  <2> QED
    BY <1>16, <2>1, <2>3 DEF UselessLost
<1>18. Holdover'
  <2>1. oldPeerSentTimeSync' = oldPeerSentTimeSync /\ lost' = lost
    BY DEF SendSync, clock
  <2>2. lost \in Nat /\ oldPeerSentTimeSync \in Times
    BY ConstantFacts DEF GptpInv, Types, SenderTypes, ReceiverTypes
  <2> QED
    BY <1>6, <1>16, <2>1, <2>2, Multiples, ConstantFacts DEF GptpInv, Holdover, Times
<1>19. ClockSet'
  BY DEF GptpInv, ClockSet, SendSync, clock, exchange
<1> QED
  BY <1>4, <1>7, <1>10, <1>11, <1>12, <1>13, <1>14, <1>15, <1>17, <1>18, <1>19 DEF GptpInv

LEMMA SendPdelayReqInv ==
    ASSUME IntervalsSuffice, GptpInv, SendPdelayReq
    PROVE  GptpInv'
<1> DEFINE m == Message("PdelayReq", sequenceId, Unset)
<1>1. /\ m \in Messages /\ m.kind = "PdelayReq" /\ m.seq = sequenceId
      /\ sequenceId \in Ids /\ sequenceId' \in Ids
  BY NextSeqFacts
  DEF Message, Messages, GptpInv, Types, SenderTypes, Times, SendPdelayReq
<1>2. ~Asked /\ ~Answered /\ (Queued # {} => DrainsSync)
  BY ExchangeOver DEF GptpInv, SendPdelayReq
<1>3. queue["slave"] = <<>> /\ wire["slave"] = <<>> /\ answers = <<>>
  BY <1>2 DEF Asked
<1>4. /\ queue' \in [Ports -> Seq(Messages)] /\ queue'["slave"] = <<m>>
      /\ queue'["master"] = queue["master"]
  BY <1>1, <1>3 DEF SendPdelayReq, Enqueue, GptpInv, Types, LinkTypes, Ports
<1> HIDE DEF m
<1>5. queue'["slave"] # <<>> /\ Len(queue'["slave"]) = 1 /\ \A i \in DOMAIN queue'["slave"] : queue'["slave"][i] = m
  BY <1>1, <1>4
<1>6. UNCHANGED <<Queued, OnWire, waited, wire, answers>>
  BY <1>4 DEF SendPdelayReq, Queued, OnWire, grandmaster
<1>7. /\ \A kind : OnLine(kind)' = OnLine(kind) /\ InQueue(kind)' = InQueue(kind)
      /\ \A kind, t : Stamped(kind, t)' = Stamped(kind, t)
      /\ \A kind : Alive(kind)' = Alive(kind)
      /\ Answered' = Answered
  BY <1>6 DEF InQueue, OnLine, Stamped, Alive, Answered
<1>8. Types'
  <2>1. SenderTypes'
    BY <1>1, ConstantFacts DEF GptpInv, Types, SenderTypes, SendPdelayReq, grandmaster
  <2>2. ReceiverTypes'
    BY <1>1 DEF GptpInv, Types, ReceiverTypes, SendPdelayReq, clock, pairing, Times
  <2>3. LinkTypes'
    BY <1>4, <1>5, <1>6 DEF GptpInv, Types, LinkTypes, Ports
  <2> QED
    BY <2>1, <2>2, <2>3 DEF Types
<1>9. OneOfEach'
  BY <1>4, <1>6 DEF GptpInv, OneOfEach
<1>10. /\ UNCHANGED <<SinceSync, Turnaround, LastSync>> /\ SinceRequest' = 0
       /\ UNCHANGED <<clockTime, rcvdGptpSync, lastReceivedGptpSyncSequenceId,
                      syncIngressTimestamp, oldPeerSentTimeSync, receivedTimeSync,
                      gmRateRatio, peerDelay, lost>>
       /\ rcvdPdelayResp' = FALSE /\ lastSentPdelayReqSequenceId' = sequenceId
  BY ConstantFacts
  DEF SendPdelayReq, SinceSync, SinceRequest, Turnaround, LastSync, grandmaster, clock, pairing
<1>11. Syncs'
  BY <1>6, <1>7, <1>10 DEF GptpInv, Syncs, Follows
<1>12. SyncPaired'
  BY <1>7, <1>10 DEF GptpInv, SyncPaired
<1>13. Requests'
  <2>1. 0 <= waited'["slave"]
    BY <1>8, LinkFacts, ConstantFacts DEF Types, Ports, LinkTypes
  <2>2. DOMAIN wire'["slave"] = {} /\ DOMAIN answers' = {} /\ Len(wire'["slave"]) = 0 /\ Len(answers') = 0
    BY <1>3, <1>6
  <2> QED
    BY <1>1, <1>2, <1>3, <1>5, <1>6, <1>7, <1>10, <2>1, <2>2 DEF Requests
<1>14. Answers' /\ AnswerPaired'
  <2>1. Follows("PdelayRespFollowUp", "PdelayResp")'
    BY <1>6, <1>7 DEF GptpInv, Answers, Follows
  <2>2. /\ \A x \in Queued : ~IsAnswer(x)
        /\ \A x \in OnWire : ~IsAnswer(x.message)
        /\ \A t : ~Stamped("PdelayResp", t)
    BY <1>2 DEF Answered, Alive, InQueue, OnLine, IsAnswer, Stamped
  <2>3. ~Alive("PdelayResp")
    BY <1>2 DEF Answered
  <2> QED
    BY <1>6, <1>7, <1>10, <2>1, <2>2, <2>3 DEF Answers, AnswerPaired
<1>15. QueueDrains'
  <2>1. UNCHANGED <<SyncWork, AnswerWork, TimeToDrain>>
    BY <1>6, <1>7 DEF SyncWork, AnswerWork, Work, TimeToDrain
  <2> QED
    BY <1>2, <1>6, <1>10, <2>1 DEF QueueDrains, DrainsSync
<1>16. Pending' = Pending
  BY <1>7, <1>10 DEF Pending
<1>17. UselessLost' /\ Holdover'
  BY <1>7, <1>10, <1>16 DEF GptpInv, UselessLost, Holdover, Behind
<1>18. ClockSet'
  BY <1>10 DEF GptpInv, ClockSet
<1> QED
  BY <1>8, <1>9, <1>11, <1>12, <1>13, <1>14, <1>15, <1>17, <1>18 DEF GptpInv

LEMMA SendPdelayRespInv ==
    ASSUME GptpInv, SendPdelayResp
    PROVE  GptpInv'
<1> DEFINE a == Head(answers)
           m == Message("PdelayResp", a.seq, a.ingress)
<1>1. /\ answers # <<>> /\ a = answers[1] /\ 1 \in DOMAIN answers /\ Len(answers) = 1
      /\ a \in ReqAnswers /\ Tail(answers) = <<>> /\ a.left = 0
  <2>1. answers \in Seq(ReqAnswers) /\ answers # <<>> /\ Len(answers) <= 1 /\ a.left = 0
    BY DEF GptpInv, Types, LinkTypes, SendPdelayResp, Requests
  <2> QED
    BY <2>1, SingleFacts
<1>2. /\ m \in Messages /\ m.kind = "PdelayResp" /\ m.seq = a.seq /\ m.time = a.ingress
      /\ m.kind \in FromMaster /\ ClassOf(m) = TRUE /\ a.ingress \in Int
  BY <1>1 DEF Message, Messages, FromMaster, Times, ClassOf, ReqAnswers
<1>3. Asked /\ ~Answered /\ ~rcvdPdelayResp
  BY <1>1 DEF GptpInv, Requests, Asked
<1>4. /\ a.seq = lastSentPdelayReqSequenceId /\ RequestArrivedAt(a.ingress)
      /\ SinceRequest <= MaxTxTime + Turnaround
  <2>1. SinceRequest + a.left <= MaxTxTime + Turnaround
    BY <1>1 DEF GptpInv, Requests
  <2>2. SinceRequest \in Int
    BY SinceFacts DEF GptpInv, Types
  <2> QED
    BY <1>1, <2>1, <2>2 DEF GptpInv, Requests
<1>5. queue["slave"] = <<>> /\ wire["slave"] = <<>>
  <2>1. queue["slave"] \in Seq(Messages) /\ wire["slave"] \in Seq(UnderWay)
    BY LinkFacts DEF GptpInv, Types, Ports
  <2>2. ASSUME queue["slave"] # <<>> PROVE FALSE
    <3>1. 1 \in DOMAIN queue["slave"]
      BY <2>1, <2>2
    <3> QED
      BY <1>1, <3>1 DEF GptpInv, Requests
  <2>3. ASSUME wire["slave"] # <<>> PROVE FALSE
    <3>1. 1 \in DOMAIN wire["slave"]
      BY <2>1, <2>3
    <3> QED
      BY <1>1, <3>1 DEF GptpInv, Requests
  <2> QED
    BY <2>2, <2>3
<1>6. \A x \in Queued : ClassOf(x) # ClassOf(m)
  BY <1>2, <1>3 DEF Answered, Alive, InQueue, ClassOf
<1> HIDE DEF m, a
<1> PICK ingress \in Int : ingress = a.ingress
  BY <1>2
<1>7. /\ queue' \in [Ports -> Seq(Messages)] /\ OneOfEach'
      /\ Queued' = Queued \cup {m} /\ OnWire' = OnWire
      /\ queue'["slave"] = queue["slave"] /\ queue'["master"] # <<>>
  BY <1>2, <1>6, EnqueueStep DEF GptpInv, Types, SendPdelayResp, m, a
<1>8. answers' = <<>> /\ UNCHANGED <<wire, waited>>
  BY <1>1 DEF SendPdelayResp
<1>9. ~Asked'
  BY <1>5, <1>7, <1>8 DEF Asked
<1>10. Types'
  <2>1. SenderTypes'
    BY DEF GptpInv, Types, SenderTypes, SendPdelayResp, ids
  <2>2. ReceiverTypes'
    BY DEF GptpInv, Types, ReceiverTypes, SendPdelayResp, clock, pairing, exchange
  <2>3. LinkTypes'
    BY <1>7, <1>8 DEF GptpInv, Types, LinkTypes, Ports
  <2> QED
    BY <2>1, <2>2, <2>3 DEF Types
<1>11. /\ InQueue("PdelayResp")'
       /\ \A kind : OnLine(kind)' = OnLine(kind)
       /\ \A kind : kind # "PdelayResp" => InQueue(kind)' = InQueue(kind)
       /\ \A kind, t : kind # "PdelayResp" => Stamped(kind, t)' = Stamped(kind, t)
       /\ \A t : Stamped("PdelayResp", t)' => t = ingress
  BY <1>2, <1>3, <1>7 DEF InQueue, OnLine, Stamped, Answered, Alive
<1>12. /\ UNCHANGED <<SinceSync, SinceRequest, Turnaround, LastSync>>
       /\ UNCHANGED <<Alive("Sync"), Alive("FollowUp")>>
       /\ UNCHANGED <<clock, pairing, exchange, lost>>
  BY <1>11 DEF SendPdelayResp, SinceSync, SinceRequest, Turnaround, LastSync, Alive, ids
<1>13. Syncs'
  <2>1. Follows("FollowUp", "Sync")'
    BY <1>2, <1>7, <1>8, <1>11 DEF GptpInv, Syncs, Follows
  <2> QED
    BY <1>2, <1>7, <1>11, <1>12, <2>1 DEF GptpInv, Syncs, IsSync
<1>14. SyncPaired'
  BY <1>11, <1>12 DEF GptpInv, SyncPaired, clock, pairing
<1>15. Requests'
  <2>1. /\ DOMAIN answers' = {} /\ DOMAIN queue'["slave"] = {} /\ DOMAIN wire'["slave"] = {}
        /\ Len(answers') = 0 /\ Len(queue'["slave"]) = 0 /\ Len(wire'["slave"]) = 0
    BY <1>5, <1>7, <1>8
  <2> QED
    BY <1>9, <2>1 DEF Requests
<1>16. Answers'
  <2>1. Follows("PdelayRespFollowUp", "PdelayResp")'
    BY <1>2, <1>3, <1>7, <1>8 DEF Follows, Answered, Alive, InQueue, OnLine
  <2>2. RequestArrivedAt(ingress)'
    BY <1>4, <1>12 DEF RequestArrivedAt, clock, exchange
  <2>3. ~rcvdPdelayResp'
    BY <1>3, <1>12 DEF exchange
  <2>4. /\ \A x \in Queued' : IsAnswer(x) => x = m
        /\ \A x \in OnWire' : ~IsAnswer(x.message)
    BY <1>3, <1>7 DEF Answered, Alive, InQueue, OnLine, IsAnswer
  <2>5. m.seq = lastSentPdelayReqSequenceId'
    BY <1>2, <1>4, <1>12 DEF exchange
  <2> QED
    BY <1>2, <1>11, <2>1, <2>2, <2>3, <2>4, <2>5 DEF Answers
<1>17. AnswerPaired'
  BY <1>3, <1>12 DEF AnswerPaired, exchange
<1>18. QueueDrains'
  <2>1. SyncWork' = SyncWork /\ AnswerWork' = 2 * MaxTxTime /\ AnswerWork = 0
    BY <1>3, <1>11 DEF SyncWork, AnswerWork, Work, Answered, Alive
  <2>2. /\ SyncWork \in Nat /\ SyncWork <= 2 * MaxTxTime
        /\ waited["master"] \in 0..MaxTxTime
        /\ Queued = {} => SyncWork = 0 /\ waited["master"] = 0
    BY WorkFacts DEF GptpInv, Types, InQueue
  <2>3. /\ TimeToDrain' = SyncWork + 2 * MaxTxTime - waited["master"]
        /\ TimeToDrain = SyncWork - waited["master"]
    BY <1>8, <2>1, <2>2, ConstantFacts DEF TimeToDrain
  <2>4. SinceRequest \in Int /\ Turnaround \in Nat /\ SinceSync \in Nat
    BY SinceFacts, ConstantFacts DEF GptpInv, Types
  <2>5. CASE Queued = {}
    <3>1. DrainsAnswer'
      BY <1>4, <1>9, <1>12, <2>1, <2>2, <2>3, <2>4, <2>5, ConstantFacts DEF DrainsAnswer
    <3> QED
      BY <3>1 DEF QueueDrains
  <2>6. CASE Queued # {}
    <3>1. DrainsSync
      BY <1>3, <2>6 DEF GptpInv, QueueDrains, DrainsAnswer, DrainsBoth
    <3>2. DrainsBoth'
      BY <1>4, <1>9, <1>12, <2>2, <2>3, <2>4, <3>1, ConstantFacts DEF DrainsSync, DrainsBoth
    <3> QED
      BY <3>2 DEF QueueDrains
  <2> QED
    BY <2>5, <2>6
<1>19. Pending' = Pending
  BY <1>11, <1>12 DEF Pending, pairing
<1>20. UselessLost' /\ Holdover'
  BY <1>11, <1>12, <1>19
  DEF GptpInv, UselessLost, Holdover, Behind, clock, pairing
<1>21. ClockSet'
  BY <1>12 DEF GptpInv, ClockSet, clock, exchange
<1> QED
  BY <1>7, <1>10, <1>13, <1>14, <1>15, <1>16, <1>17, <1>18, <1>20, <1>21 DEF GptpInv

(* A message of the grandmaster is lost.  If it is the Sync, the one that    *)
(* was received last has another id.                                         *)
LEMMA LoseOneInv ==
    ASSUME LossesLeaveIds, GptpInv, lost < MaxLost, lost' = lost + 1,
           LinkTypes', OneOfEach', Queued' \subseteq Queued, OnWire' \subseteq OnWire,
           queue'["slave"] = queue["slave"], wire'["slave"] = wire["slave"],
           UNCHANGED <<grandmaster, clock, pairing, exchange, ids, waited>>
    PROVE  GptpInv'
<1>1. /\ lost \in Nat /\ MaxLost \in Nat
      /\ SenderTypes /\ ReceiverTypes /\ LinkTypes
  BY ConstantFacts DEF GptpInv, Types, SenderTypes
<1>2. Types'
  <2>1. SenderTypes'
    BY <1>1, ConstantFacts DEF SenderTypes, grandmaster, ids
  <2>2. ReceiverTypes'
    BY <1>1 DEF ReceiverTypes, clock, pairing, exchange
  <2> QED
    BY <2>1, <2>2 DEF Types
<1>3. /\ UNCHANGED <<SinceSync, SinceRequest, Turnaround, LastSync, Asked>>
      /\ \A kind : InQueue(kind)' => InQueue(kind)
      /\ \A kind : OnLine(kind)' => OnLine(kind)
      /\ \A kind, t : Stamped(kind, t)' => Stamped(kind, t)
  BY DEF SinceSync, SinceRequest, Turnaround, LastSync, grandmaster, ids, Asked, InQueue,
         OnLine, Stamped
<1>4. /\ \A kind : Alive(kind)' => Alive(kind)
      /\ Answered' => Answered
      /\ \A t : RequestArrivedAt(t)' <=> RequestArrivedAt(t)
  BY <1>3 DEF Alive, Answered, RequestArrivedAt, clock, exchange
<1>5. Syncs'
  BY SyncsFewer DEF GptpInv, grandmaster
<1>6. ASSUME rcvdGptpSync
      PROVE  \E n \in 0..lost' : Behind(n)' /\ n + 1 <= lost' /\ (Alive("Sync") => n > 0)
  <2>1. PICK n \in 0..lost : Behind(n) /\ (Alive("Sync") => n > 0)
    BY <1>6 DEF GptpInv, UselessLost
  <2>2. n \in 0..lost' /\ n + 1 <= lost' /\ Behind(n)'
    BY <1>1, <1>3, <2>1 DEF Behind, pairing
  <2> QED
    BY <2>1, <2>2
<1>7. SyncPaired'
  <2> SUFFICES ASSUME rcvdGptpSync, lastReceivedGptpSyncSequenceId = LastSync, ~OnLine("Sync")',
                      NEW t \in Int, Stamped("FollowUp", t)
               PROVE  /\ syncIngressTimestamp \in Int
                      /\ syncIngressTimestamp = clockTime + t + PropagationDelay
    BY <1>3 DEF SyncPaired, clock, pairing
  <2>1. ASSUME OnLine("Sync") PROVE FALSE
    <3>1. PICK n \in 0..lost' : Behind(n)' /\ n + 1 <= lost' /\ n > 0
      BY <1>6, <2>1 DEF Alive
    <3>2. LastSync \in Ids /\ LastSync' = LastSync
      BY <1>1, <1>3, SinceFacts
    <3>3. lost' <= SeqIds
      BY <1>1, ConstantFacts DEF LossesLeaveIds
    <3> QED
      BY <1>1, <3>1, <3>2, <3>3, ConstantFacts DEF Behind, Ids, pairing
  <2> QED
    BY <2>1 DEF GptpInv, SyncPaired
<1>8. Requests'
  BY <1>3, <1>4 DEF GptpInv, Requests, grandmaster, exchange
<1>9. Answers'
  BY <1>4, AnswersFewer DEF GptpInv, ids, exchange
<1>10. AnswerPaired'
  BY <1>3, <1>4 DEF GptpInv, AnswerPaired, exchange, clock
<1>11. QueueDrains'
  BY <1>1, <1>3, DrainsFewer DEF GptpInv, ids, grandmaster
<1>12. UselessLost'
  <2>1. rcvdGptpSync' = rcvdGptpSync
    BY DEF pairing
  <2>2. lost' > 0
    BY <1>1
  <2> QED
    BY <1>4, <1>6, <2>1, <2>2 DEF UselessLost
<1>13. Holdover'
  <2>1. oldPeerSentTimeSync' = oldPeerSentTimeSync /\ oldPeerSentTimeSync \in Times
    BY <1>1 DEF clock, ReceiverTypes
  <2>2. SinceSync \in Int
    BY <1>1, SinceFacts
  <2>3. ASSUME oldPeerSentTimeSync # Unset PROVE -oldPeerSentTimeSync <= SinceSync + lost' * SyncInterval
    <3>1. oldPeerSentTimeSync \in Int
      BY <2>1, <2>3 DEF Times
    <3>2. /\ lost * SyncInterval \in Nat /\ (lost + 1) * SyncInterval = lost * SyncInterval + SyncInterval
      BY <1>1, Multiples
    <3> QED
      BY <1>1, <2>2, <2>3, <3>1, <3>2, ConstantFacts DEF GptpInv, Holdover
  <2>4. /\ lost' * SyncInterval \in Nat /\ (lost' + 1) * SyncInterval = lost' * SyncInterval + SyncInterval
    BY <1>1, Multiples
  <2>5. oldPeerSentTimeSync # Unset => oldPeerSentTimeSync \in Int
    BY <2>1 DEF Times
  <2> QED
    BY <1>3, <2>1, <2>2, <2>3, <2>4, <2>5, ConstantFacts DEF Holdover
<1>14. ClockSet'
  BY DEF GptpInv, ClockSet, clock, exchange
<1> QED
  BY <1>2, <1>5, <1>7, <1>8, <1>9, <1>10, <1>11, <1>12, <1>13, <1>14 DEF GptpInv

LEMMA LoseMasterInv ==
    ASSUME LossesLeaveIds, GptpInv, LoseQueued("master") \/ LoseOnWire("master")
    PROVE  GptpInv'
<1>1. LinkTypes /\ OneOfEach
  BY DEF GptpInv, Types
<1>2. CASE LoseQueued("master")
  <2>1. /\ queue' \in [Ports -> Seq(Messages)] /\ OneOfEach'
        /\ Queued' \subseteq Queued
        /\ OnWire' = OnWire /\ queue'["slave"] = queue["slave"]
        /\ waited' = waited /\ waited["master"] = 0
    BY <1>1, <1>2, LoseQueuedStep
  <2>2. /\ lost < MaxLost /\ lost' = lost + 1 /\ wire' = wire
        /\ UNCHANGED <<grandmaster, clock, pairing, exchange, ids>>
    BY <1>2 DEF LoseQueued
  <2>3. LinkTypes'
    BY <1>1, <2>1, <2>2 DEF LinkTypes, grandmaster, Ports
  <2> QED
    BY <2>1, <2>2, <2>3, LoseOneInv
<1>3. CASE LoseOnWire("master")
  <2>1. /\ wire["master"] # <<>> /\ Head(wire["master"]).left = 0 /\ queue' = queue
        /\ wire' = [wire EXCEPT !["master"] = Tail(wire["master"])]
        /\ lost < MaxLost /\ lost' = lost + 1 /\ waited' = waited
        /\ UNCHANGED <<grandmaster, clock, pairing, exchange, ids>>
    BY <1>3 DEF LoseOnWire
  <2>2. /\ wire' \in [Ports -> Seq(UnderWay)] /\ OneOfEach'
        /\ OnWire' \subseteq OnWire /\ Queued' = Queued
        /\ wire'["slave"] = wire["slave"]
    BY <1>1, <2>1, UnwireStep
  <2>3. LinkTypes'
    BY <1>1, <2>1, <2>2 DEF LinkTypes, grandmaster
  <2> QED
    BY <2>1, <2>2, <2>3, LoseOneInv
<1> QED
  BY <1>2, <1>3

(* The messages of the grandmaster stay as they are.                         *)
LEMMA MasterUnchanged ==
    ASSUME GptpInv, lost' \in {lost, lost + 1},
           UNCHANGED <<queue["master"], wire["master"], waited["master"]>>,
           UNCHANGED <<selfMsgSync, masterSequenceId, ids, clock, pairing,
                       lastSentPdelayReqSequenceId, rcvdPdelayResp, peerDelay,
                       pdelayRespEventIngressTimestamp, peerRequestReceiptTimestamp>>,
           Asked' => Asked, Asked \/ UNCHANGED pdelayReqEventEgressTimestamp
    PROVE  /\ OneOfEach' /\ Syncs' /\ SyncPaired' /\ Answers' /\ AnswerPaired' /\ QueueDrains'
           /\ UselessLost' /\ Holdover' /\ ClockSet' /\ Answered' = Answered
<1>1. Queued' = Queued /\ OnWire' = OnWire
  BY DEF Queued, OnWire
<1>2. /\ UNCHANGED <<SinceSync, SinceRequest, Turnaround, LastSync>>
      /\ \A kind : InQueue(kind)' = InQueue(kind) /\ OnLine(kind)' = OnLine(kind)
      /\ \A kind, t : Stamped(kind, t)' = Stamped(kind, t)
      /\ \A kind : Alive(kind)' = Alive(kind)
      /\ Answered' = Answered
  BY <1>1 DEF SinceSync, SinceRequest, Turnaround, LastSync, ids, InQueue, OnLine, Stamped,
              Alive, Answered
<1>3. Types /\ SenderTypes /\ lost \in Nat /\ lost' \in Nat /\ lost <= lost'
  BY ConstantFacts DEF GptpInv, Types, SenderTypes
<1>4. OneOfEach'
  BY DEF GptpInv, OneOfEach
<1>5. Syncs'
  BY <1>1, SyncsFewer DEF GptpInv
<1>6. SyncPaired'
  BY <1>2 DEF GptpInv, SyncPaired, clock, pairing
<1>7. Answers' /\ AnswerPaired'
  <2>1. CASE Asked
    <3>1. ~Answered /\ ~rcvdPdelayResp
      BY <2>1 DEF GptpInv, Requests
    <3>2. /\ \A x \in Queued : ~IsAnswer(x)
          /\ \A x \in OnWire : ~IsAnswer(x.message)
          /\ \A t : ~Stamped("PdelayResp", t)
      BY <3>1 DEF Answered, Alive, InQueue, OnLine, IsAnswer, Stamped
    <3>3. Follows("PdelayRespFollowUp", "PdelayResp")'
      BY <1>1, FollowsFewer DEF GptpInv, Answers
    <3> QED
      BY <1>1, <1>2, <3>1, <3>2, <3>3 DEF Answers, AnswerPaired
  <2>2. CASE UNCHANGED pdelayReqEventEgressTimestamp
    <3>1. \A t : RequestArrivedAt(t)' <=> RequestArrivedAt(t)
      BY <2>2 DEF RequestArrivedAt, clock
    <3>2. Answers'
      BY <1>1, <3>1, AnswersFewer DEF GptpInv, ids
    <3> QED
      BY <1>2, <3>1, <3>2 DEF GptpInv, AnswerPaired, clock
  <2> QED
    BY <2>1, <2>2
<1>8. QueueDrains'
  BY <1>1, <1>3, DrainsFewer DEF GptpInv, Types, ids
<1>9. Pending' = Pending
  BY <1>2 DEF Pending, pairing
<1>10. UselessLost'
  <2>1. ASSUME rcvdGptpSync
        PROVE  \E n \in 0..lost' : Behind(n)' /\ (Pending \/ n + 1 <= lost') /\ (Alive("Sync") => n > 0)
    <3>1. PICK n \in 0..lost : Behind(n) /\ (Pending \/ n + 1 <= lost) /\ (Alive("Sync") => n > 0)
      BY <2>1 DEF GptpInv, UselessLost
    <3>2. n \in 0..lost' /\ (Pending \/ n + 1 <= lost') /\ Behind(n)'
      BY <1>2, <1>3, <3>1 DEF Behind, pairing
    <3> QED
      BY <3>1, <3>2
  <2>2. lost > 0 => lost' > 0
    BY <1>3
  <2> QED
    BY <1>2, <1>9, <2>1, <2>2 DEF GptpInv, UselessLost, pairing
<1>11. Holdover'
  <2>1. oldPeerSentTimeSync' = oldPeerSentTimeSync /\ oldPeerSentTimeSync \in Times
    BY DEF clock, GptpInv, Types, ReceiverTypes
  <2>2. SinceSync \in Int
    BY <1>3, SinceFacts
  <2>3. /\ lost * SyncInterval \in Nat /\ lost' * SyncInterval \in Nat
        /\ (lost + 1) * SyncInterval = lost * SyncInterval + SyncInterval
        /\ (lost' + 1) * SyncInterval = lost' * SyncInterval + SyncInterval
        /\ lost' * SyncInterval >= lost * SyncInterval
    <3>1. /\ lost * SyncInterval \in Nat
          /\ (lost + 1) * SyncInterval = lost * SyncInterval + SyncInterval
      BY <1>3, Multiples
    <3>2. /\ lost' * SyncInterval \in Nat
          /\ (lost' + 1) * SyncInterval = lost' * SyncInterval + SyncInterval
      BY <1>3, Multiples
    <3>3. CASE lost' = lost
      BY <3>1, <3>2, <3>3
    <3>4. CASE lost' = lost + 1
      <4>1. lost' * SyncInterval = lost * SyncInterval + SyncInterval
        BY <3>1, <3>4
      <4> QED
        BY <3>1, <3>2, <4>1, ConstantFacts
    <3> QED
      BY <3>3, <3>4
  <2> QED
    BY <1>2, <1>9, <2>1, <2>2, <2>3, ConstantFacts DEF GptpInv, Holdover, Times
<1>12. ClockSet'
  BY DEF GptpInv, ClockSet, clock
<1> QED
  BY <1>2, <1>4, <1>5, <1>6, <1>7, <1>8, <1>10, <1>11, <1>12

(* The request is queued, on the wire, or waits to be answered.              *)
LEMMA RequestFacts ==
    ASSUME Types, Requests
    PROVE  /\ queue["slave"] # <<>> =>
                /\ DOMAIN queue["slave"] = {1} /\ queue["slave"][1] \in Messages
                /\ RemoveAt(queue["slave"], 1) = <<>>
                /\ queue["slave"][1].kind = "PdelayReq"
                /\ queue["slave"][1].seq = lastSentPdelayReqSequenceId
                /\ SinceRequest <= waited["slave"]
                /\ wire["slave"] = <<>> /\ answers = <<>>
           /\ wire["slave"] # <<>> =>
                /\ wire["slave"][1] \in UnderWay
                /\ Head(wire["slave"]) = wire["slave"][1] /\ Tail(wire["slave"]) = <<>>
                /\ wire["slave"][1].message.seq = lastSentPdelayReqSequenceId
                /\ SinceRequest + wire["slave"][1].left <= MaxTxTime + PropagationDelay
                /\ RequestArrivedAt(wire["slave"][1].left)
                /\ queue["slave"] = <<>> /\ answers = <<>>
<1>1. queue["slave"] \in Seq(Messages) /\ wire["slave"] \in Seq(UnderWay)
  BY LinkFacts DEF Types, Ports
<1>2. Len(queue["slave"]) <= 1 /\ Len(wire["slave"]) <= 1
  BY DEF Requests
<1>3. ASSUME queue["slave"] # <<>>
      PROVE  /\ DOMAIN queue["slave"] = {1} /\ queue["slave"][1] \in Messages
             /\ RemoveAt(queue["slave"], 1) = <<>>
  BY <1>1, <1>2, <1>3, SingleFacts
<1>4. ASSUME wire["slave"] # <<>>
      PROVE  /\ DOMAIN wire["slave"] = {1} /\ wire["slave"][1] \in UnderWay
             /\ Head(wire["slave"]) = wire["slave"][1] /\ Tail(wire["slave"]) = <<>>
  BY <1>1, <1>2, <1>4, SingleFacts
<1>5. 1 \in {1}
  OBVIOUS
<1> QED
  BY <1>3, <1>4, <1>5, Zenon DEF Requests

LEMMA SlaveTransmissionInv ==
    ASSUME GptpInv, TransmissionEnded("slave")
    PROVE  GptpInv'
<1> DEFINE q == queue["slave"]
<1>1. Types /\ Requests /\ SenderTypes /\ ReceiverTypes /\ LinkTypes
  BY DEF GptpInv, Types
<1>2. PICK i \in DOMAIN q :
        /\ queue' = [queue EXCEPT !["slave"] = RemoveAt(q, i) \o FollowUpOf(q[i])]
        /\ wire' = [wire EXCEPT !["slave"] =
                       Append(@, [message |-> q[i], left |-> PropagationDelay])]
        /\ pdelayReqEventEgressTimestamp' =
                IF q[i].kind = "PdelayReq" THEN clockTime ELSE pdelayReqEventEgressTimestamp
  BY DEF TransmissionEnded, NextOnes
<1>3. /\ q # <<>> /\ i = 1 /\ q[1] \in Messages /\ RemoveAt(q, 1) = <<>>
      /\ q[1].kind = "PdelayReq" /\ q[1].seq = lastSentPdelayReqSequenceId
      /\ SinceRequest <= waited["slave"] /\ wire["slave"] = <<>> /\ answers = <<>>
  <2>1. q # <<>>
    BY <1>2
  <2> QED
    BY <1>1, <1>2, <2>1, RequestFacts
<1> DEFINE x == [message |-> q[1], left |-> PropagationDelay]
<1>4. x \in UnderWay /\ x.message.seq = q[1].seq /\ x.left = PropagationDelay
      /\ x.message.kind = "PdelayReq"
  BY <1>3, ConstantFacts DEF UnderWay
<1> HIDE DEF x
<1>5. FollowUpOf(q[1]) = <<>>
  BY <1>3 DEF FollowUpOf
<1>6. /\ queue' = [queue EXCEPT !["slave"] = <<>>]
      /\ wire' = [wire EXCEPT !["slave"] = <<x>>]
      /\ pdelayReqEventEgressTimestamp' = clockTime
  <2>1. RemoveAt(q, i) \o FollowUpOf(q[i]) = <<>>
    BY <1>3, <1>5
  <2>2. Append(wire["slave"], [message |-> q[i], left |-> PropagationDelay]) = <<x>>
    BY <1>3 DEF x
  <2> QED
    BY <1>2, <1>3, <2>1, <2>2
<1>7. /\ queue' \in [Ports -> Seq(Messages)] /\ wire' \in [Ports -> Seq(UnderWay)]
      /\ queue'["slave"] = <<>> /\ wire'["slave"] = <<x>>
      /\ queue'["master"] = queue["master"] /\ wire'["master"] = wire["master"]
  BY <1>1, <1>4, <1>6 DEF LinkTypes, Ports
<1>8. /\ waited' \in [Ports -> 0..MaxTxTime] /\ waited'["slave"] = 0
      /\ waited'["master"] = waited["master"]
      /\ UNCHANGED <<grandmaster, clock, pairing, ids, lastSentPdelayReqSequenceId,
                     rcvdPdelayResp, pdelayRespEventIngressTimestamp,
                     peerRequestReceiptTimestamp, peerDelay, lost>>
  BY <1>1, ConstantFacts DEF TransmissionEnded, LinkTypes, Ports
<1>9. Types'
  <2>1. SenderTypes'
    BY <1>1, <1>8 DEF SenderTypes, grandmaster, ids
  <2>2. ReceiverTypes'
    BY <1>1, <1>6, <1>8 DEF ReceiverTypes, clock, pairing, Times
  <2>3. LinkTypes'
    <3>1. answers' = answers
      BY <1>8 DEF grandmaster
    <3> QED
      BY <1>1, <1>7, <1>8, <3>1 DEF LinkTypes, Ports
  <2> QED
    BY <2>1, <2>2, <2>3 DEF Types
<1>10. Asked /\ Asked' /\ ~rcvdPdelayResp /\ ~Answered
  BY <1>1, <1>3, <1>7 DEF Asked, Requests
<1>11. /\ OneOfEach' /\ Syncs' /\ SyncPaired' /\ Answers' /\ AnswerPaired' /\ QueueDrains'
       /\ UselessLost' /\ Holdover' /\ ClockSet' /\ Answered' = Answered
  BY <1>7, <1>8, <1>10, MasterUnchanged DEF grandmaster
<1>12. Requests'
  <2>1. /\ SinceRequest' = SinceRequest /\ SinceRequest \in Int
        /\ waited["slave"] \in 0..MaxTxTime
    BY <1>1, <1>8, SinceFacts, LinkFacts DEF SinceRequest, ids, Ports
  <2>2. SinceRequest + PropagationDelay <= MaxTxTime + PropagationDelay
    BY <1>3, <2>1, ConstantFacts
  <2>3. RequestArrivedAt(PropagationDelay)'
    BY <1>1, <1>6, <1>8, ConstantFacts DEF RequestArrivedAt, clock, ReceiverTypes
  <2>4. /\ DOMAIN queue'["slave"] = {} /\ Len(queue'["slave"]) = 0
        /\ DOMAIN wire'["slave"] = {1} /\ Len(wire'["slave"]) = 1 /\ wire'["slave"][1] = x
        /\ DOMAIN answers' = {} /\ Len(answers') = 0 /\ answers' = <<>>
    BY <1>3, <1>7, <1>8 DEF grandmaster
  <2>5. ~rcvdPdelayResp' /\ ~Answered' /\ lastSentPdelayReqSequenceId' = lastSentPdelayReqSequenceId
    BY <1>8, <1>10, <1>11
  <2> QED
    BY <1>3, <1>4, <2>1, <2>2, <2>3, <2>4, <2>5 DEF Requests
<1> QED
  BY <1>9, <1>11, <1>12 DEF GptpInv

(* The request is lost.                                                      *)
LEMMA LoseSlaveInv ==
    ASSUME GptpInv, LoseQueued("slave") \/ LoseOnWire("slave")
    PROVE  GptpInv'
<1>1. Types /\ Requests /\ SenderTypes /\ ReceiverTypes /\ LinkTypes
  BY DEF GptpInv, Types
<1>2. /\ queue' \in [Ports -> Seq(Messages)] /\ wire' \in [Ports -> Seq(UnderWay)]
      /\ queue'["slave"] = <<>> /\ wire'["slave"] = <<>> /\ answers = <<>>
      /\ queue'["master"] = queue["master"] /\ wire'["master"] = wire["master"]
      /\ queue["slave"] # <<>> \/ wire["slave"] # <<>>
  <2>1. CASE LoseQueued("slave")
    <3>1. PICK i \in DOMAIN queue["slave"] :
              queue' = [queue EXCEPT !["slave"] = RemoveAt(queue["slave"], i)]
      BY <2>1 DEF LoseQueued, NextOnes
    <3>2. queue["slave"] # <<>>
      BY <3>1
    <3>3. /\ queue' = [queue EXCEPT !["slave"] = <<>>]
          /\ wire["slave"] = <<>> /\ answers = <<>>
      BY <1>1, <3>1, <3>2, RequestFacts
    <3> QED
      BY <1>1, <2>1, <3>2, <3>3 DEF LinkTypes, Ports, LoseQueued
  <2>2. CASE LoseOnWire("slave")
    <3>1. wire["slave"] # <<>> /\ wire' = [wire EXCEPT !["slave"] = Tail(wire["slave"])]
      BY <2>2 DEF LoseOnWire
    <3>2. /\ wire' = [wire EXCEPT !["slave"] = <<>>]
          /\ queue["slave"] = <<>> /\ answers = <<>>
      BY <1>1, <3>1, RequestFacts
    <3> QED
      BY <1>1, <2>2, <3>1, <3>2 DEF LinkTypes, Ports, LoseOnWire
  <2> QED
    BY <2>1, <2>2
<1>3. /\ lost < MaxLost /\ lost' = lost + 1
      /\ UNCHANGED <<grandmaster, clock, pairing, exchange, ids>>
      /\ waited' \in [Ports -> 0..MaxTxTime] /\ waited'["master"] = waited["master"]
      /\ waited'["slave"] = waited["slave"]
  BY <1>1 DEF LoseQueued, LoseOnWire, LinkTypes, Ports
<1>4. waited'["slave"] = 0
  <2>1. CASE LoseQueued("slave")
    BY <1>3, <2>1 DEF LoseQueued
  <2>2. CASE LoseOnWire("slave")
    <3>1. wire["slave"] # <<>>
      BY <2>2 DEF LoseOnWire
    <3>2. queue["slave"] = <<>>
      BY <1>1, <3>1, RequestFacts
    <3> QED
      BY <1>1, <1>3, <3>2, LinkFacts DEF Ports
  <2> QED
    BY <2>1, <2>2
<1>5. Types'
  <2>1. SenderTypes'
    BY <1>1, <1>3, ConstantFacts DEF SenderTypes, grandmaster, ids
  <2>2. ReceiverTypes'
    BY <1>1, <1>3 DEF ReceiverTypes, clock, pairing, exchange
  <2>3. LinkTypes'
    BY <1>1, <1>2, <1>3, <1>4 DEF LinkTypes, Ports, grandmaster
  <2> QED
    BY <2>1, <2>2, <2>3 DEF Types
<1>6. Asked
  BY <1>2 DEF Asked
<1>7. /\ OneOfEach' /\ Syncs' /\ SyncPaired' /\ Answers' /\ AnswerPaired' /\ QueueDrains'
      /\ UselessLost' /\ Holdover' /\ ClockSet'
  BY <1>2, <1>3, <1>6, MasterUnchanged DEF grandmaster, exchange
<1>8. Requests'
  <2>1. answers' = <<>>
    BY <1>2, <1>3 DEF grandmaster
  <2>2. /\ DOMAIN answers' = {} /\ Len(answers') = 0
        /\ DOMAIN queue'["slave"] = {} /\ Len(queue'["slave"]) = 0
        /\ DOMAIN wire'["slave"] = {} /\ Len(wire'["slave"]) = 0
    BY <1>2, <2>1
  <2> QED
    BY <1>2, <2>1, <2>2 DEF Requests, Asked
<1> QED
  BY <1>5, <1>7, <1>8 DEF GptpInv

LEMMA ProcessPdelayReqInv ==
    ASSUME GptpInv, ProcessPdelayReq
    PROVE  GptpInv'
<1> DEFINE w == wire["slave"]
<1>1. Types /\ Requests /\ SenderTypes /\ ReceiverTypes /\ LinkTypes
  BY DEF GptpInv, Types
<1>2. /\ w # <<>> /\ w[1] \in UnderWay /\ Head(w) = w[1] /\ Tail(w) = <<>>
      /\ w[1].message.seq = lastSentPdelayReqSequenceId
      /\ SinceRequest + w[1].left <= MaxTxTime + PropagationDelay
      /\ RequestArrivedAt(w[1].left) /\ w[1].left = 0
      /\ queue["slave"] = <<>> /\ answers = <<>>
  <2>1. w # <<>> /\ Head(w).left = 0
    BY DEF ProcessPdelayReq, Arrives
  <2> QED
    BY <1>1, <2>1, RequestFacts
<1> DEFINE a == [left |-> PDelayReqProcessingTime, seq |-> w[1].message.seq, ingress |-> 0]
<1>3. /\ a \in ReqAnswers /\ a.left = PDelayReqProcessingTime /\ a.ingress = 0
      /\ a.seq = lastSentPdelayReqSequenceId
  <2>1. w[1].message.seq \in Ids
    BY <1>2 DEF UnderWay, Messages
  <2> QED
    BY <1>2, <2>1, ConstantFacts DEF ReqAnswers
<1>4. answers' = <<a>>
  BY <1>2 DEF ProcessPdelayReq, Arrived
<1> HIDE DEF a
<1>5. /\ queue' = queue /\ waited' = waited /\ lost' = lost
      /\ wire' \in [Ports -> Seq(UnderWay)] /\ wire'["slave"] = <<>>
      /\ wire'["master"] = wire["master"]
      /\ UNCHANGED <<selfMsgSync, masterSequenceId, clock, pairing, exchange, ids>>
  <2>1. wire' = [wire EXCEPT !["slave"] = <<>>]
    BY <1>2 DEF ProcessPdelayReq, Arrives
  <2> QED
    BY <1>1, <2>1 DEF ProcessPdelayReq, Arrives, LinkTypes, Ports
<1>6. Types'
  <2>1. SenderTypes'
    BY <1>1, <1>5 DEF SenderTypes, ids
  <2>2. ReceiverTypes'
    BY <1>1, <1>5 DEF ReceiverTypes, clock, pairing, exchange
  <2>3. answers' \in Seq(ReqAnswers)
    BY <1>3, <1>4
  <2>4. LinkTypes'
    BY <1>1, <1>5, <2>3 DEF LinkTypes
  <2> QED
    BY <2>1, <2>2, <2>4 DEF Types
<1>7. Asked /\ ~rcvdPdelayResp /\ ~Answered
  BY <1>1, <1>2 DEF Asked, Requests
<1>8. /\ OneOfEach' /\ Syncs' /\ SyncPaired' /\ Answers' /\ AnswerPaired' /\ QueueDrains'
      /\ UselessLost' /\ Holdover' /\ ClockSet' /\ Answered' = Answered
  BY <1>5, <1>7, MasterUnchanged DEF exchange
<1>9. Requests'
  <2>1. SinceRequest' = SinceRequest /\ SinceRequest \in Int
    BY <1>1, <1>5, SinceFacts DEF SinceRequest, ids
  <2>2. SinceRequest + PDelayReqProcessingTime <= MaxTxTime + Turnaround
    BY <1>2, <2>1, ConstantFacts DEF Turnaround
  <2>3. RequestArrivedAt(0)'
    BY <1>2, <1>5 DEF RequestArrivedAt, clock, exchange
  <2>4. /\ DOMAIN queue'["slave"] = {} /\ Len(queue'["slave"]) = 0
        /\ DOMAIN wire'["slave"] = {} /\ Len(wire'["slave"]) = 0
        /\ DOMAIN answers' = {1} /\ Len(answers') = 1 /\ answers'[1] = a
    BY <1>2, <1>4, <1>5
  <2>5. /\ ~rcvdPdelayResp' /\ ~Answered' /\ Turnaround' = Turnaround
        /\ lastSentPdelayReqSequenceId' = lastSentPdelayReqSequenceId
    BY <1>5, <1>7, <1>8 DEF exchange, Turnaround
  <2> QED
    BY <1>3, <2>1, <2>2, <2>3, <2>4, <2>5 DEF Requests
<1> QED
  BY <1>6, <1>8, <1>9 DEF GptpInv

(* The grandmaster's transmission ends.                                      *)
LEMMA QueuedOnce ==
    ASSUME OneOfEach, NEW m \in Queued, NEW n \in Queued, ClassOf(m) = ClassOf(n)
    PROVE  m = n
<1>1. PICK i \in DOMAIN queue["master"] : m = queue["master"][i]
  BY DEF Queued, Range
<1>2. PICK j \in DOMAIN queue["master"] : n = queue["master"][j]
  BY DEF Queued, Range
<1> QED
  BY <1>1, <1>2 DEF OneOfEach

FollowedUp(kind, followUp) == \/ kind = "Sync" /\ followUp = "FollowUp"
                              \/ kind = "PdelayResp" /\ followUp = "PdelayRespFollowUp"

LEMMA FollowUpFacts ==
    ASSUME NEW m \in Messages
    PROVE  /\ \A f \in Range(FollowUpOf(m)) :
                 f.seq = m.seq /\ f.time = 0 /\ FollowedUp(m.kind, f.kind)
           /\ m.kind \in {"Sync", "PdelayResp"} => Range(FollowUpOf(m)) # {}
<1>1. \A f : Range(<<f>>) = {f}
  BY DEF Range
<1>2. Range(<<>>) = {}
  BY DEF Range
<1>3. CASE m.kind = "Sync"
  BY <1>1, <1>3 DEF FollowUpOf, Message, FollowedUp
<1>4. CASE m.kind = "PdelayResp"
  BY <1>1, <1>4 DEF FollowUpOf, Message, FollowedUp
<1>5. CASE m.kind \notin {"Sync", "PdelayResp"}
  <2>1. FollowUpOf(m) = <<>>
    BY <1>5 DEF FollowUpOf
  <2> QED
    BY <1>2, <1>5, <2>1
<1> QED
  BY <1>3, <1>4, <1>5

LEMMA TransmitFollows ==
    ASSUME LinkTypes, OneOfEach, NEW f, NEW e,
           <<f, e>> \in {<<"FollowUp", "Sync">>, <<"PdelayRespFollowUp", "PdelayResp">>},
           Follows(f, e), NEW m \in Queued,
           Queued' = (Queued \ {m}) \cup Range(FollowUpOf(m)),
           OnWire' = OnWire \cup {[message |-> m, left |-> PropagationDelay]},
           waited["master"] >= 1, waited'["master"] = 0
    PROVE  Follows(f, e)'
<1> DEFINE x == [message |-> m, left |-> PropagationDelay]
<1>1. /\ m \in Messages /\ \A n \in Queued : n \in Messages
      /\ \A y \in OnWire : y \in UnderWay /\ y.left \in Nat
      /\ waited["master"] \in Nat /\ PropagationDelay \in Nat
  BY SetFacts, LinkFacts, ConstantFacts DEF UnderWay, Ports
<1>2. x.message = m /\ x.left = PropagationDelay
  OBVIOUS
<1>3. OnWire' = OnWire \cup {x}
  OBVIOUS
<1> HIDE DEF x
<1>4. \A n \in Queued : n.kind \in {e, f} /\ m.kind \in {e, f} => n = m
  BY QueuedOnce DEF ClassOf
<1>5. \A n \in Queued' : n.kind = f =>
        \/ n \in Queued /\ n # m
        \/ n.time = 0 /\ m.kind = e
  BY <1>1, FollowUpFacts DEF FollowedUp
<1>6. \A n \in Queued' : n.kind = e => n \in Queued /\ n # m
  BY <1>1, FollowUpFacts DEF FollowedUp
<1>7. CASE m.kind = e
  <2>1. e # f /\ InQueue(e) /\ ~OnLine(e) /\ ~OnLine(f)
    BY <1>7 DEF Follows, InQueue
  <2>2. ~InQueue(e)' /\ ~OnLine(f)'
    BY <1>2, <1>3, <1>4, <1>6, <1>7, <2>1 DEF InQueue, OnLine
  <2>3. \A n \in Queued' : n.kind = f => n.time = 0
    BY <1>4, <1>5, <1>7
  <2>4. \A y \in OnWire' : y.message.kind = e => y.left = PropagationDelay
    BY <1>2, <1>3, <2>1 DEF OnLine
  <2>5. \A y \in OnWire' : y.message.kind # f
    BY <2>2 DEF OnLine
  <2>6. \A n \in Queued' : n.kind = f =>
          /\ n.time \in Int /\ waited'["master"] + n.time <= 0
          /\ \A y \in OnWire' : y.message.kind = e => n.time = y.left - PropagationDelay
    BY <1>1, <2>3, <2>4
  <2> QED
    BY <2>2, <2>5, <2>6 DEF Follows
<1>8. CASE m.kind = f
  <2>1. e # f /\ InQueue(f) /\ ~OnLine(f) /\ m.time \in Int /\ waited["master"] + m.time <= 0
    BY <1>8 DEF Follows, InQueue
  <2>2. ~InQueue(e)' /\ ~InQueue(f)'
    BY <1>4, <1>5, <1>6, <1>8, <2>1 DEF InQueue
  <2>3. \A y \in OnWire' : /\ y.message.kind = f => y = x
                           /\ y.message.kind = e => y \in OnWire
    BY <1>2, <1>3, <1>8, <2>1 DEF OnLine
  <2>4. \A y \in OnWire : y.message.kind = e =>
            m.time = y.left - PropagationDelay /\ y.left < PropagationDelay
    BY <1>1, <1>8, <2>1 DEF Follows
  <2> QED
    BY <1>1, <1>2, <2>1, <2>2, <2>3, <2>4 DEF Follows, InQueue
<1>9. CASE m.kind # e /\ m.kind # f
  <2>1. \A n \in Queued' : n.kind \in {e, f} => n \in Queued
    BY <1>5, <1>6, <1>9
  <2>2. \A y \in OnWire' : y.message.kind \in {e, f} => y \in OnWire
    BY <1>2, <1>3, <1>9
  <2>3. \A n \in Queued : n.kind = f => waited'["master"] + n.time <= 0
    BY <1>1 DEF Follows
  <2> QED
    BY <2>1, <2>2, <2>3 DEF Follows, InQueue, OnLine
<1> QED
  BY <1>7, <1>8, <1>9

(* What is queued, on the wire and under way after the transmission.         *)
LEMMA TransmitKinds ==
    ASSUME LinkTypes, OneOfEach, NEW m \in Queued,
           Queued' = (Queued \ {m}) \cup Range(FollowUpOf(m)),
           OnWire' = OnWire \cup {[message |-> m, left |-> PropagationDelay]}
    PROVE  /\ m.kind \in FromMaster
           /\ InQueue("Sync")' <=> InQueue("Sync") /\ m.kind # "Sync"
           /\ InQueue("PdelayResp")' <=> InQueue("PdelayResp") /\ m.kind # "PdelayResp"
           /\ InQueue("FollowUp")' <=> \/ m.kind = "Sync"
                                       \/ InQueue("FollowUp") /\ m.kind # "FollowUp"
           /\ InQueue("PdelayRespFollowUp")' <=>
                 \/ m.kind = "PdelayResp"
                 \/ InQueue("PdelayRespFollowUp") /\ m.kind # "PdelayRespFollowUp"
           /\ \A k : OnLine(k)' <=> OnLine(k) \/ m.kind = k
           /\ \A k, t : Stamped(k, t)' =>
                 Stamped(k, t) \/ (t = 0 /\ FollowedUp(m.kind, k))
           /\ InQueue(m.kind)
           /\ m.kind \in {"Sync", "FollowUp"} =>
                 ~(InQueue("Sync") /\ InQueue("FollowUp"))
           /\ m.kind \in {"PdelayResp", "PdelayRespFollowUp"} =>
                 ~(InQueue("PdelayResp") /\ InQueue("PdelayRespFollowUp"))
<1> DEFINE x == [message |-> m, left |-> PropagationDelay]
<1>1. x.message = m /\ OnWire' = OnWire \cup {x}
  OBVIOUS
<1> HIDE DEF x
<1>2. m \in Messages /\ m.kind \in FromMaster
  BY SetFacts DEF OneOfEach, Queued, Range
<1>3. \A n \in Queued : ClassOf(n) = ClassOf(m) => n = m
  BY QueuedOnce
<1>4. /\ \A f \in Range(FollowUpOf(m)) : f.time = 0 /\ FollowedUp(m.kind, f.kind)
      /\ m.kind \in {"Sync", "PdelayResp"} => Range(FollowUpOf(m)) # {}
  BY <1>2, FollowUpFacts
<1>5. \A k : OnLine(k)' <=> OnLine(k) \/ m.kind = k
  BY <1>1 DEF OnLine
<1>6. \A k, t : Stamped(k, t)' => Stamped(k, t) \/ (t = 0 /\ FollowedUp(m.kind, k))
  BY <1>1, <1>4 DEF Stamped
<1>7. \A k : InQueue(k)' <=> \/ \E n \in Queued : n.kind = k /\ n # m
                             \/ \E f \in Range(FollowUpOf(m)) : f.kind = k
  BY DEF InQueue
<1>8. \A k : (\E f \in Range(FollowUpOf(m)) : f.kind = k) <=> FollowedUp(m.kind, k)
  BY <1>4 DEF FollowedUp
<1>9. \A k : (\E n \in Queued : n.kind = k /\ n # m) <=> InQueue(k) /\ m.kind # k
  BY <1>3 DEF InQueue, ClassOf
<1>10. \A k : InQueue(k)' <=> (InQueue(k) /\ m.kind # k) \/ FollowedUp(m.kind, k)
  BY <1>7, <1>8, <1>9
<1>11. /\ m.kind \in {"Sync", "FollowUp"} => ~(InQueue("Sync") /\ InQueue("FollowUp"))
       /\ m.kind \in {"PdelayResp", "PdelayRespFollowUp"} =>
             ~(InQueue("PdelayResp") /\ InQueue("PdelayRespFollowUp"))
  BY <1>3 DEF InQueue, ClassOf
<1>12. InQueue(m.kind)
  BY DEF InQueue
<1> QED
  BY <1>2, <1>5, <1>6, <1>10, <1>11, <1>12 DEF FollowedUp

LEMMA MasterTransmissionInv ==
    ASSUME GptpInv, TransmissionEnded("master")
    PROVE  GptpInv'
<1>1. Types /\ SenderTypes /\ ReceiverTypes /\ LinkTypes /\ OneOfEach
  BY DEF GptpInv, Types
<1>2. /\ queue' \in [Ports -> Seq(Messages)] /\ wire' \in [Ports -> Seq(UnderWay)]
      /\ OneOfEach'
      /\ \E m \in Queued :
            /\ Queued' = (Queued \ {m}) \cup Range(FollowUpOf(m))
            /\ OnWire' = OnWire \cup {[message |-> m, left |-> PropagationDelay]}
      /\ queue'["slave"] = queue["slave"] /\ wire'["slave"] = wire["slave"]
      /\ waited["master"] >= 1 /\ waited' = [waited EXCEPT !["master"] = 0]
      /\ pdelayReqEventEgressTimestamp' = pdelayReqEventEgressTimestamp
  BY <1>1, TransmitStep DEF GptpInv, Syncs, Answers
<1>3. PICK m \in Queued :
          /\ Queued' = (Queued \ {m}) \cup Range(FollowUpOf(m))
          /\ OnWire' = OnWire \cup {[message |-> m, left |-> PropagationDelay]}
  BY <1>2
<1>4. /\ UNCHANGED <<grandmaster, clock, pairing, ids, lastSentPdelayReqSequenceId,
                     rcvdPdelayResp, pdelayReqEventEgressTimestamp,
                     pdelayRespEventIngressTimestamp, peerRequestReceiptTimestamp,
                     peerDelay, lost>>
      /\ waited'["master"] = 0 /\ waited'["slave"] = waited["slave"]
      /\ waited' \in [Ports -> 0..MaxTxTime]
      /\ queue["slave"] = <<>> => waited'["slave"] = 0
  BY <1>1, <1>2, ConstantFacts DEF TransmissionEnded, LinkTypes, Ports
<1>5. /\ m.kind \in FromMaster
      /\ InQueue("Sync")' <=> InQueue("Sync") /\ m.kind # "Sync"
      /\ InQueue("PdelayResp")' <=> InQueue("PdelayResp") /\ m.kind # "PdelayResp"
      /\ InQueue("FollowUp")' <=> \/ m.kind = "Sync"
                                  \/ InQueue("FollowUp") /\ m.kind # "FollowUp"
      /\ InQueue("PdelayRespFollowUp")' <=>
            \/ m.kind = "PdelayResp"
            \/ InQueue("PdelayRespFollowUp") /\ m.kind # "PdelayRespFollowUp"
      /\ \A k : OnLine(k)' <=> OnLine(k) \/ m.kind = k
      /\ \A k, t : Stamped(k, t)' => Stamped(k, t) \/ (t = 0 /\ FollowedUp(m.kind, k))
      /\ InQueue(m.kind)
      /\ m.kind \in {"Sync", "FollowUp"} => ~(InQueue("Sync") /\ InQueue("FollowUp"))
      /\ m.kind \in {"PdelayResp", "PdelayRespFollowUp"} =>
            ~(InQueue("PdelayResp") /\ InQueue("PdelayRespFollowUp"))
  BY <1>1, <1>3, TransmitKinds
<1>6. /\ Alive("Sync")' = Alive("Sync") /\ Alive("PdelayResp")' = Alive("PdelayResp")
      /\ Answered' <=> Answered
  BY <1>5 DEF Alive, Answered
<1>7. /\ UNCHANGED <<SinceSync, SinceRequest, Turnaround, LastSync, Asked>>
      /\ \A t : RequestArrivedAt(t)' <=> RequestArrivedAt(t)
  BY <1>2, <1>4 DEF SinceSync, SinceRequest, Turnaround, LastSync, Asked, RequestArrivedAt,
                    grandmaster, clock, ids
<1>8. Types'
  <2>1. SenderTypes'
    BY <1>1, <1>4 DEF SenderTypes, grandmaster, ids
  <2>2. ReceiverTypes'
    BY <1>1, <1>4 DEF ReceiverTypes, clock, pairing
  <2>3. answers' = answers
    BY <1>4 DEF grandmaster
  <2>4. LinkTypes'
    BY <1>1, <1>2, <1>4, <2>3 DEF LinkTypes, Ports
  <2> QED
    BY <2>1, <2>2, <2>4 DEF Types
<1>9. /\ m \in Messages
      /\ \A f \in Range(FollowUpOf(m)) :
            f.seq = m.seq /\ f.time = 0 /\ FollowedUp(m.kind, f.kind)
  BY <1>1, SetFacts, FollowUpFacts
<1> DEFINE x == [message |-> m, left |-> PropagationDelay]
<1>10. x.message = m /\ x.left = PropagationDelay /\ OnWire' = OnWire \cup {x}
  BY <1>3
<1> HIDE DEF x
<1>11. /\ SinceSync \in 0..SyncInterval /\ SinceRequest \in Int /\ Turnaround \in Nat
       /\ LastSync \in Ids
  BY <1>1, SinceFacts
<1>12. /\ SyncWork \in Nat /\ AnswerWork \in Nat
       /\ SyncWork = 0 <=> ~InQueue("Sync") /\ ~InQueue("FollowUp")
       /\ AnswerWork = 0 <=> ~InQueue("PdelayResp") /\ ~InQueue("PdelayRespFollowUp")
       /\ waited["master"] \in 0..MaxTxTime
       /\ TimeToDrain \in Int /\ TimeToDrain >= 0
  BY <1>1, WorkFacts
<1>13. DrainsAnswer \/ DrainsSync \/ DrainsBoth
  BY DEF GptpInv, QueueDrains
<1>14. Syncs'
  <2>1. Follows("FollowUp", "Sync")'
    BY <1>1, <1>2, <1>3, <1>4, TransmitFollows DEF GptpInv, Syncs
  <2>2. IsSync(m) => m.seq = LastSync /\ SinceSync <= 4 * MaxTxTime
    <3>1. IsSync(m) => SyncWork # 0
      BY <1>5, <1>12 DEF IsSync
    <3>2. SyncWork # 0 => SinceSync <= 4 * MaxTxTime
      BY <1>11, <1>12, <1>13, ConstantFacts DEF DrainsAnswer, DrainsSync, DrainsBoth
    <3> QED
      BY <3>1, <3>2 DEF GptpInv, Syncs
  <2>3. \A n \in Queued' : IsSync(n) => n.seq = LastSync'
    <3>1. \A f \in Range(FollowUpOf(m)) : IsSync(f) => IsSync(m)
      BY <1>9 DEF FollowedUp, IsSync
    <3> QED
      BY <1>3, <1>7, <1>9, <2>2, <3>1 DEF GptpInv, Syncs
  <2>4. \A y \in OnWire' : IsSync(y.message) =>
            /\ y.message.seq = LastSync'
            /\ SinceSync' + y.left <= 4 * MaxTxTime + PropagationDelay
    BY <1>7, <1>10, <1>11, <2>2, ConstantFacts DEF GptpInv, Syncs
  <2>5. \A t \in Int : Stamped("FollowUp", t)' => t + SinceSync' >= 0
    BY <1>5, <1>7, <1>11 DEF GptpInv, Syncs
  <2> QED
    BY <2>1, <2>3, <2>4, <2>5 DEF Syncs
<1>15. SyncPaired'
  <2>1. ~OnLine("Sync")' => ~OnLine("Sync") /\ m.kind # "Sync"
    BY <1>5
  <2>2. m.kind # "Sync" => \A t : Stamped("FollowUp", t)' => Stamped("FollowUp", t)
    BY <1>5 DEF FollowedUp
  <2> QED
    BY <1>4, <1>7, <2>1, <2>2 DEF GptpInv, SyncPaired, clock, pairing
<1>16. Requests'
  BY <1>2, <1>4, <1>6, <1>7 DEF GptpInv, Requests, grandmaster
<1>17. Answers'
  <2>1. Follows("PdelayRespFollowUp", "PdelayResp")'
    BY <1>1, <1>2, <1>3, <1>4, TransmitFollows DEF GptpInv, Answers
  <2>2. IsAnswer(m) => /\ m.seq = lastSentPdelayReqSequenceId
                       /\ SinceRequest <= 5 * MaxTxTime + Turnaround
    <3>1. IsAnswer(m) => AnswerWork # 0
      BY <1>5, <1>12 DEF IsAnswer
    <3>2. AnswerWork # 0 => SinceRequest <= 5 * MaxTxTime + Turnaround
      BY <1>11, <1>12, <1>13, ConstantFacts DEF DrainsAnswer, DrainsSync, DrainsBoth
    <3> QED
      BY <3>1, <3>2 DEF GptpInv, Answers
  <2>3. \A n \in Queued' : IsAnswer(n) => n.seq = lastSentPdelayReqSequenceId'
    <3>1. \A f \in Range(FollowUpOf(m)) : IsAnswer(f) => IsAnswer(m)
      BY <1>9 DEF FollowedUp, IsAnswer
    <3> QED
      BY <1>3, <1>4, <1>9, <2>2, <3>1 DEF GptpInv, Answers
  <2>4. \A y \in OnWire' : IsAnswer(y.message) =>
            /\ y.message.seq = lastSentPdelayReqSequenceId'
            /\ SinceRequest' + y.left <= 5 * MaxTxTime + Turnaround' + PropagationDelay
    BY <1>4, <1>7, <1>10, <1>11, <2>2, ConstantFacts DEF GptpInv, Answers
  <2>5. \A t : Stamped("PdelayResp", t)' => Stamped("PdelayResp", t)
    BY <1>5 DEF FollowedUp
  <2>6. \A t \in Times : Stamped("PdelayResp", t)' => t \in Int /\ RequestArrivedAt(t)'
    BY <1>7, <2>5 DEF GptpInv, Answers
  <2>7. Alive("PdelayResp")' => ~rcvdPdelayResp'
    BY <1>4, <1>6 DEF GptpInv, Answers
  <2> QED
    BY <2>1, <2>3, <2>4, <2>6, <2>7 DEF Answers
<1>18. AnswerPaired'
  <2>1. rcvdPdelayResp => m.kind # "PdelayResp"
    BY <1>5 DEF GptpInv, Answers, Alive
  <2>2. rcvdPdelayResp => \A t : Stamped("PdelayRespFollowUp", t)' => Stamped("PdelayRespFollowUp", t)
    BY <1>5, <2>1 DEF FollowedUp
  <2> QED
    BY <1>4, <1>7, <2>2 DEF GptpInv, AnswerPaired, clock
<1>19. QueueDrains'
  <2>1. SyncWork' = IF m.kind \in {"Sync", "FollowUp"} THEN SyncWork - MaxTxTime ELSE SyncWork
    BY <1>5, ConstantFacts DEF SyncWork, Work, FromMaster
  <2>2. AnswerWork' = IF m.kind \in {"Sync", "FollowUp"} THEN AnswerWork ELSE AnswerWork - MaxTxTime
    BY <1>5, ConstantFacts DEF AnswerWork, Work, FromMaster
  <2>3. TimeToDrain' = SyncWork + AnswerWork - MaxTxTime
    BY <1>4, <1>12, <2>1, <2>2, ConstantFacts DEF TimeToDrain
  <2>4. TimeToDrain' <= TimeToDrain /\ TimeToDrain' \in Int
    BY <1>12, <2>3, ConstantFacts DEF TimeToDrain
  <2>5. /\ SyncWork = 0 => SyncWork' = 0
        /\ AnswerWork = 0 => AnswerWork' = 0
    BY <1>5, <1>12, <2>1, <2>2 DEF FromMaster
  <2> QED
    BY <1>7, <1>11, <1>12, <1>13, <2>4, <2>5, ConstantFacts
    DEF QueueDrains, DrainsAnswer, DrainsSync, DrainsBoth
<1>20. Pending' <=> Pending
  <2>1. UNCHANGED <<rcvdGptpSync, lastReceivedGptpSyncSequenceId, LastSync>>
    BY <1>4, <1>7 DEF pairing
  <2>2. CASE m.kind = "Sync"
    <3>1. InQueue("Sync") /\ InQueue("FollowUp")' /\ OnLine("Sync")'
      BY <1>5, <2>2
    <3> QED
      BY <3>1 DEF Pending, Alive
  <2>3. CASE m.kind = "FollowUp"
    <3>1. /\ ~InQueue("Sync") /\ ~InQueue("Sync")' /\ (OnLine("Sync")' <=> OnLine("Sync"))
          /\ InQueue("FollowUp") /\ OnLine("FollowUp")'
      BY <1>5, <2>3
    <3> QED
      BY <2>1, <3>1 DEF Pending, Alive
  <2>4. CASE m.kind # "Sync" /\ m.kind # "FollowUp"
    <3>1. /\ InQueue("Sync")' <=> InQueue("Sync")
          /\ OnLine("Sync")' <=> OnLine("Sync")
          /\ InQueue("FollowUp")' <=> InQueue("FollowUp")
          /\ OnLine("FollowUp")' <=> OnLine("FollowUp")
      BY <1>5, <2>4
    <3> QED
      BY <2>1, <3>1 DEF Pending, Alive
  <2> QED
    BY <2>2, <2>3, <2>4
<1>21. UselessLost'
  <2>1. UNCHANGED <<rcvdGptpSync, lastReceivedGptpSyncSequenceId, lost>>
    BY <1>4 DEF pairing
  <2>2. rcvdGptpSync' => \E n \in 0..lost' :
            Behind(n)' /\ (Pending' \/ n + 1 <= lost') /\ (Alive("Sync")' => n > 0)
    BY <1>6, <1>7, <1>20, <2>1 DEF GptpInv, UselessLost, Behind
  <2>3. OnLine("Sync")' /\ ~Pending' => OnLine("Sync") /\ ~Pending
    BY <1>5, <1>20 DEF Pending
  <2> QED
    BY <2>1, <2>2, <2>3 DEF GptpInv, UselessLost
<1>22. Holdover' /\ ClockSet'
  BY <1>4, <1>7, <1>20 DEF GptpInv, Holdover, ClockSet, clock
<1> QED
  BY <1>2, <1>8, <1>14, <1>15, <1>16, <1>17, <1>18, <1>19, <1>21, <1>22 DEF GptpInv

(* A message of the grandmaster arrives, and is processed.                   *)
LEMMA ArrivesStep ==
    ASSUME GptpInv, NEW kind, Arrives("master", kind), queue' = queue
    PROVE  \E h \in OnWire :
             /\ h = Head(wire["master"]) /\ h \in UnderWay
             /\ h.left = 0 /\ h.message.kind = kind /\ kind \in FromMaster
             /\ wire' \in [Ports -> Seq(UnderWay)] /\ OneOfEach'
             /\ OnWire' = OnWire \ {h} /\ Queued' = Queued
             /\ wire'["slave"] = wire["slave"] /\ waited' = waited /\ lost' = lost
             /\ \A k : k # kind => (OnLine(k)' <=> OnLine(k))
             /\ \A k : InQueue(k)' <=> InQueue(k)
             /\ \A k, t : Stamped(k, t)' => Stamped(k, t)
             /\ OnLine(kind) /\ ~OnLine(kind)' /\ Stamped(kind, h.message.time)
<1>1. LinkTypes /\ OneOfEach
  BY DEF GptpInv, Types
<1>2. /\ wire["master"] # <<>> /\ Head(wire["master"]).left = 0
      /\ Head(wire["master"]).message.kind = kind
      /\ wire' = [wire EXCEPT !["master"] = Tail(wire["master"])]
      /\ waited' = waited /\ lost' = lost
  BY DEF Arrives
<1>3. /\ wire' \in [Ports -> Seq(UnderWay)] /\ OneOfEach'
      /\ Head(wire["master"]) \in OnWire
      /\ OnWire' = OnWire \ {Head(wire["master"])} /\ Queued' = Queued
      /\ \A x \in OnWire' : x.message.kind # Head(wire["master"]).message.kind
      /\ wire'["slave"] = wire["slave"]
  BY <1>1, <1>2, UnwireStep
<1>4. PICK h \in OnWire : h = Head(wire["master"])
  BY <1>3
<1>5. /\ h.left = 0 /\ h.message.kind = kind /\ OnWire' = OnWire \ {h}
      /\ \A x \in OnWire' : x.message.kind # kind
  BY <1>2, <1>3, <1>4
<1>6. h \in UnderWay /\ kind \in FromMaster
  BY <1>1, <1>5, SetFacts DEF OneOfEach, OnWire, Range
<1>7. \A k : k # kind => (OnLine(k)' <=> OnLine(k))
  BY <1>5 DEF OnLine
<1>8. /\ \A k : InQueue(k)' <=> InQueue(k)
      /\ \A k, t : Stamped(k, t)' => Stamped(k, t)
  BY <1>3, <1>5 DEF InQueue, Stamped
<1>9. OnLine(kind) /\ ~OnLine(kind)' /\ Stamped(kind, h.message.time)
  BY <1>5 DEF OnLine, Stamped
<1> QED
  BY <1>2, <1>3, <1>4, <1>5, <1>6, <1>7, <1>8, <1>9

LEMMA ArrivesInv ==
    ASSUME GptpInv, NEW kind, Arrives("master", kind), queue' = queue,
           UNCHANGED <<grandmaster, selfMsgDelayReq, lastSentPdelayReqSequenceId>>,
           sequenceId' \in Ids, ReceiverTypes',
           \A t \in Int : RequestArrivedAt(t) => RequestArrivedAt(t)',
           rcvdPdelayResp' = rcvdPdelayResp \/ kind = "PdelayResp"
    PROVE  /\ Types' /\ OneOfEach' /\ Syncs' /\ Requests' /\ Answers' /\ QueueDrains'
           /\ UNCHANGED <<SinceSync, LastSync>>
<1>1. Types /\ SenderTypes /\ ReceiverTypes /\ LinkTypes /\ OneOfEach
  BY DEF GptpInv, Types
<1>2. PICK h \in OnWire :
        /\ h \in UnderWay /\ h.left = 0 /\ h.message.kind = kind
        /\ wire' \in [Ports -> Seq(UnderWay)] /\ OneOfEach'
        /\ OnWire' = OnWire \ {h} /\ Queued' = Queued
        /\ wire'["slave"] = wire["slave"] /\ waited' = waited /\ lost' = lost
        /\ \A k : k # kind => (OnLine(k)' <=> OnLine(k))
        /\ \A k : InQueue(k)' <=> InQueue(k)
        /\ OnLine(kind) /\ ~OnLine(kind)'
  BY ArrivesStep
<1>3. /\ UNCHANGED <<selfMsgSync, masterSequenceId, answers, SinceSync, SinceRequest,
                     Turnaround, LastSync, Asked>>
  BY <1>2 DEF grandmaster, SinceSync, SinceRequest, Turnaround, LastSync, Asked
<1>4. Types'
  <2>1. SenderTypes'
    BY <1>1, <1>2, <1>3 DEF SenderTypes
  <2>2. LinkTypes'
    BY <1>1, <1>2, <1>3 DEF LinkTypes
  <2> QED
    BY <2>1, <2>2 DEF Types
<1>5. Syncs'
  BY <1>2, <1>3, SyncsFewer DEF GptpInv
<1>6. \A k : Alive(k)' => Alive(k)
  BY <1>2 DEF Alive
<1>7. kind = "PdelayResp" => Answered /\ ~Alive("PdelayResp")'
  BY <1>2 DEF Answered, Alive, GptpInv, Answers, Follows
<1>8. Answers'
  BY <1>2, <1>7, AnswersFewer DEF GptpInv
<1>9. QueueDrains'
  BY <1>1, <1>2, <1>3, DrainsFewer DEF GptpInv
<1>10. Requests'
  <2>1. Asked' => ~Answered' /\ ~rcvdPdelayResp'
    BY <1>3, <1>6, <1>7 DEF GptpInv, Requests, Answered
  <2>2. /\ \A i \in DOMAIN wire["slave"] : wire["slave"][i].left \in Int
        /\ \A i \in DOMAIN answers : answers[i].ingress \in Int
    <3>1. wire["slave"] \in Seq(UnderWay) /\ answers \in Seq(ReqAnswers)
      BY <1>1, LinkFacts DEF Ports, LinkTypes
    <3>2. /\ \A i \in DOMAIN wire["slave"] : wire["slave"][i] \in UnderWay
          /\ \A i \in DOMAIN answers : answers[i] \in ReqAnswers
      BY <3>1
    <3> QED
      BY <3>2, ConstantFacts DEF UnderWay, ReqAnswers
  <2> QED
    BY <1>2, <1>3, <2>1, <2>2 DEF GptpInv, Requests
<1> QED
  BY <1>2, <1>3, <1>4, <1>5, <1>8, <1>9, <1>10

LEMMA ProcessSyncInv ==
    ASSUME GptpInv, ProcessSync
    PROVE  GptpInv'
<1>1. /\ Arrives("master", "Sync") /\ queue' = queue
      /\ UNCHANGED <<grandmaster, clock, exchange, ids>>
      /\ rcvdGptpSync' = TRUE /\ syncIngressTimestamp' = clockTime
      /\ lastReceivedGptpSyncSequenceId' = Head(wire["master"]).message.seq
  BY DEF ProcessSync, Arrived
<1>2. PICK h \in OnWire :
        /\ h = Head(wire["master"]) /\ h \in UnderWay
        /\ h.left = 0 /\ h.message.kind = "Sync"
        /\ OnWire' = OnWire \ {h} /\ Queued' = Queued /\ lost' = lost
        /\ \A k : k # "Sync" => (OnLine(k)' <=> OnLine(k))
        /\ \A k : InQueue(k)' <=> InQueue(k)
        /\ \A k, t : Stamped(k, t)' => Stamped(k, t)
        /\ OnLine("Sync") /\ ~OnLine("Sync")'
  BY <1>1, ArrivesStep
<1>3. /\ h.message.seq \in Ids /\ h.message.seq = LastSync
      /\ lastReceivedGptpSyncSequenceId' = LastSync
  BY <1>1, <1>2 DEF UnderWay, Messages, GptpInv, Syncs, IsSync
<1>4. ReceiverTypes'
  BY <1>1, <1>2, <1>3 DEF GptpInv, Types, ReceiverTypes, clock, exchange, Times
<1>5. \A t : RequestArrivedAt(t)' <=> RequestArrivedAt(t)
  BY <1>1 DEF RequestArrivedAt, clock, exchange
<1>6. /\ Types' /\ OneOfEach' /\ Syncs' /\ Requests' /\ Answers' /\ QueueDrains'
      /\ UNCHANGED <<SinceSync, LastSync>>
  <2>1. /\ UNCHANGED <<selfMsgDelayReq, lastSentPdelayReqSequenceId, rcvdPdelayResp>>
        /\ sequenceId' \in Ids
    BY <1>1 DEF ids, exchange, GptpInv, Types, SenderTypes
  <2> QED
    BY <1>1, <1>4, <1>5, <2>1, ArrivesInv
<1>7. ~InQueue("Sync")
  BY <1>2 DEF GptpInv, Syncs, Follows
<1>8. SyncPaired'
  <2>1. \A t \in Int : Stamped("FollowUp", t) => t = -PropagationDelay
    BY <1>2, ConstantFacts DEF Stamped, GptpInv, Syncs, Follows
  <2>2. clockTime \in Int /\ clockTime' = clockTime
    BY <1>1 DEF clock, GptpInv, Types, ReceiverTypes
  <2>3. clockTime = clockTime + (-PropagationDelay) + PropagationDelay
    BY <2>2, ConstantFacts
  <2> QED
    BY <1>1, <1>2, <2>1, <2>2, <2>3 DEF SyncPaired
<1>9. AnswerPaired'
  BY <1>1, <1>2, <1>5 DEF GptpInv, AnswerPaired, clock, exchange
<1>10. Pending' <=> Pending
  <2>1. Pending <=> InQueue("FollowUp") \/ OnLine("FollowUp")
    BY <1>2, <1>7 DEF Pending, Alive
  <2>2. Pending' <=> InQueue("FollowUp")' \/ OnLine("FollowUp")'
    BY <1>1, <1>2, <1>3, <1>6, <1>7 DEF Pending, Alive
  <2> QED
    BY <1>2, <2>1, <2>2
<1>11. UselessLost'
  <2>1. lost \in Nat /\ LastSync \in Ids
    BY SinceFacts, ConstantFacts DEF GptpInv, Types, SenderTypes
  <2>2. 0 \in 0..lost' /\ (Pending' \/ 0 + 1 <= lost')
    BY <1>2, <1>10, <2>1 DEF GptpInv, UselessLost
  <2>3. Behind(0)'
    BY <1>3, <1>6, <2>1 DEF Behind, Ids
  <2>4. ~Alive("Sync")'
    BY <1>2, <1>7 DEF Alive
  <2> QED
    BY <1>2, <2>2, <2>3, <2>4 DEF UselessLost
<1>12. Holdover' /\ ClockSet'
  BY <1>1, <1>2, <1>6, <1>10 DEF GptpInv, Holdover, ClockSet, clock, exchange
<1> QED
  BY <1>6, <1>8, <1>9, <1>11, <1>12 DEF GptpInv

(* The messages of the other protocol stay paired.                           *)
LEMMA SyncPartsUnchanged ==
    ASSUME GptpInv, NEW kind, Arrives("master", kind), queue' = queue,
           kind \in {"PdelayResp", "PdelayRespFollowUp"},
           UNCHANGED <<clock, pairing, SinceSync, LastSync>>
    PROVE  SyncPaired' /\ UselessLost' /\ Holdover'
<1>1. /\ lost' = lost
      /\ \A k : k # kind => (OnLine(k)' <=> OnLine(k))
      /\ \A k : InQueue(k)' <=> InQueue(k)
      /\ \A k, t : Stamped(k, t)' => Stamped(k, t)
  BY ArrivesStep
<1>2. /\ OnLine("Sync")' <=> OnLine("Sync")
      /\ Alive("Sync")' <=> Alive("Sync")
      /\ Alive("FollowUp")' <=> Alive("FollowUp")
  BY <1>1 DEF Alive
<1>3. Pending' <=> Pending
  BY <1>1, <1>2 DEF Pending, pairing
<1>4. SyncPaired'
  BY <1>1, <1>2 DEF GptpInv, SyncPaired, clock, pairing
<1>5. UselessLost'
  BY <1>1, <1>2, <1>3 DEF GptpInv, UselessLost, Behind, pairing
<1>6. Holdover'
  BY <1>1, <1>3 DEF GptpInv, Holdover, clock
<1> QED
  BY <1>4, <1>5, <1>6

LEMMA ProcessPdelayRespInv ==
    ASSUME GptpInv, ProcessPdelayResp
    PROVE  GptpInv'
<1>1. /\ Arrives("master", "PdelayResp") /\ queue' = queue
      /\ UNCHANGED <<grandmaster, clock, pairing, ids, lastSentPdelayReqSequenceId,
                     pdelayReqEventEgressTimestamp, peerDelay>>
  BY DEF ProcessPdelayResp
<1>2. PICK h \in OnWire :
        /\ h = Head(wire["master"]) /\ h \in UnderWay
        /\ h.left = 0 /\ h.message.kind = "PdelayResp"
        /\ \A k, t : Stamped(k, t)' => Stamped(k, t)
        /\ Stamped("PdelayResp", h.message.time)
  BY <1>1, ArrivesStep
<1>3. h.message.seq = lastSentPdelayReqSequenceId
  BY <1>2 DEF GptpInv, Answers, IsAnswer
<1>4. /\ rcvdPdelayResp' = TRUE /\ pdelayRespEventIngressTimestamp' = clockTime
      /\ peerRequestReceiptTimestamp' = h.message.time
  BY <1>2, <1>3 DEF ProcessPdelayResp, AnswersLastRequest, Arrived
<1>5. PICK receipt \in Int : receipt = h.message.time /\ RequestArrivedAt(receipt)
  <2>1. h.message.time \in Times
    BY <1>2 DEF UnderWay, Messages
  <2> QED
    BY <1>2, <2>1 DEF GptpInv, Answers
<1>6. clockTime \in Int /\ clockTime' = clockTime
  BY <1>1 DEF clock, GptpInv, Types, ReceiverTypes
<1>7. ReceiverTypes'
  BY <1>1, <1>4, <1>5, <1>6 DEF GptpInv, Types, ReceiverTypes, clock, pairing, Times
<1>8. \A t : RequestArrivedAt(t)' <=> RequestArrivedAt(t)
  BY <1>1 DEF RequestArrivedAt, clock
<1>9. /\ Types' /\ OneOfEach' /\ Syncs' /\ Requests' /\ Answers' /\ QueueDrains'
      /\ UNCHANGED <<SinceSync, LastSync>>
  <2>1. sequenceId' \in Ids /\ selfMsgDelayReq' = selfMsgDelayReq
    BY <1>1 DEF ids, GptpInv, Types, SenderTypes
  <2> QED
    BY <1>1, <1>7, <1>8, <2>1, ArrivesInv
<1>10. SyncPaired' /\ UselessLost' /\ Holdover'
  BY <1>1, <1>9, SyncPartsUnchanged
<1>11. AnswerPaired'
  <2>1. \A t \in Int : Stamped("PdelayRespFollowUp", t) => t = -PropagationDelay
    BY <1>2, ConstantFacts DEF Stamped, GptpInv, Answers, Follows
  <2>2. clockTime = clockTime + (-PropagationDelay) + PropagationDelay
    BY <1>6, ConstantFacts
  <2>3. peerRequestReceiptTimestamp' = receipt /\ RequestArrivedAt(receipt)'
    BY <1>4, <1>5, <1>8
  <2>4. /\ peerRequestReceiptTimestamp' \in Int
        /\ RequestArrivedAt(peerRequestReceiptTimestamp)'
    BY <2>3 DEF RequestArrivedAt
  <2> QED
    BY <1>2, <1>4, <1>6, <2>1, <2>2, <2>4 DEF AnswerPaired
<1>12. ClockSet'
  BY <1>1 DEF GptpInv, ClockSet, clock
<1> QED
  BY <1>9, <1>10, <1>11, <1>12 DEF GptpInv

LEMMA ProcessPdelayRespFollowUpInv ==
    ASSUME GptpInv, ProcessPdelayRespFollowUp
    PROVE  GptpInv'
<1>1. /\ Arrives("master", "PdelayRespFollowUp") /\ queue' = queue
      /\ UNCHANGED <<grandmaster, clock, pairing, ids, lastSentPdelayReqSequenceId,
                     rcvdPdelayResp, pdelayReqEventEgressTimestamp,
                     pdelayRespEventIngressTimestamp, peerRequestReceiptTimestamp>>
      /\ peerDelay' = IF rcvdPdelayResp /\ AnswersLastRequest(Arrived("master"))
                      THEN PeerDelay(Arrived("master").time)
                      ELSE peerDelay
  BY DEF ProcessPdelayRespFollowUp
<1>2. PICK h \in OnWire :
        /\ h = Head(wire["master"]) /\ h.message.kind = "PdelayRespFollowUp"
        /\ \A k, t : Stamped(k, t)' => Stamped(k, t)
        /\ Stamped("PdelayRespFollowUp", h.message.time)
  BY <1>1, ArrivesStep
<1>3. ReceiverTypes'
  BY <1>1 DEF GptpInv, Types, ReceiverTypes, clock, pairing
<1>4. \A t : RequestArrivedAt(t)' <=> RequestArrivedAt(t)
  BY <1>1 DEF RequestArrivedAt, clock
<1>5. /\ Types' /\ OneOfEach' /\ Syncs' /\ Requests' /\ Answers' /\ QueueDrains'
      /\ UNCHANGED <<SinceSync, LastSync>>
  <2>1. sequenceId' \in Ids /\ selfMsgDelayReq' = selfMsgDelayReq
    BY <1>1 DEF ids, GptpInv, Types, SenderTypes
  <2> QED
    BY <1>1, <1>3, <1>4, <2>1, ArrivesInv
<1>6. SyncPaired' /\ UselessLost' /\ Holdover'
  BY <1>1, <1>5, SyncPartsUnchanged
<1>7. AnswerPaired'
  BY <1>1, <1>2, <1>4 DEF GptpInv, AnswerPaired, clock
<1>8. ClockSet'
  <2>1. CASE ~(rcvdPdelayResp /\ AnswersLastRequest(Arrived("master")))
    BY <1>1, <2>1 DEF GptpInv, ClockSet, clock
  <2>2. CASE rcvdPdelayResp /\ AnswersLastRequest(Arrived("master"))
    <3>1. PICK t \in Int : t = h.message.time
      BY <1>2 DEF GptpInv, Answers, Follows
    <3>2. /\ pdelayRespEventIngressTimestamp \in Int /\ peerRequestReceiptTimestamp \in Int
          /\ pdelayRespEventIngressTimestamp = clockTime + t + PropagationDelay
          /\ pdelayReqEventEgressTimestamp \in Int
          /\ pdelayReqEventEgressTimestamp =
                clockTime - PropagationDelay + peerRequestReceiptTimestamp
          /\ clockTime \in Int
      BY <1>2, <2>2, <3>1
      DEF GptpInv, AnswerPaired, RequestArrivedAt, Types, ReceiverTypes
    <3> DEFINE roundTrip == pdelayRespEventIngressTimestamp - pdelayReqEventEgressTimestamp
               turnaround == t - peerRequestReceiptTimestamp
    <3>3. roundTrip = turnaround + 2 * PropagationDelay /\ roundTrip \in Int /\ turnaround \in Int
      BY <3>2, ConstantFacts
    <3>4. PeerDelay(t) = ((1 * roundTrip) \div 1 - turnaround) \div 2
      BY DEF PeerDelay, GptpInv, ClockSet
    <3> HIDE DEF roundTrip, turnaround
    <3>5. (1 * roundTrip) \div 1 = roundTrip
      BY <3>3
    <3>6. roundTrip - turnaround = 2 * PropagationDelay
      BY <3>3, ConstantFacts
    <3>7. (2 * PropagationDelay) \div 2 = PropagationDelay
      BY ConstantFacts
    <3>8. peerDelay' = PropagationDelay
      BY <1>1, <1>2, <2>2, <3>1, <3>4, <3>5, <3>6, <3>7 DEF Arrived
    <3> QED
      BY <1>1, <3>8 DEF GptpInv, ClockSet, clock
  <2> QED
    BY <2>1, <2>2
<1> QED
  BY <1>5, <1>6, <1>7, <1>8 DEF GptpInv

(* The clock is set by a FollowUp to the time of its Sync.                   *)
LEMMA SynchronizeStep ==
    ASSUME GptpInv, NEW t \in Int, Stamped("FollowUp", t), Synchronize(t),
           rcvdGptpSync, lastReceivedGptpSyncSequenceId = LastSync, ~OnLine("Sync"),
           UNCHANGED peerDelay
    PROVE  /\ clockTime' = peerDelay - PropagationDelay
           /\ clockTime' \in Int /\ receivedTimeSync' \in Int /\ oldPeerSentTimeSync' = t
           /\ pdelayReqEventEgressTimestamp' \in Times
           /\ pdelayRespEventIngressTimestamp' \in Times
           /\ ClockSet'
           /\ \A s \in Int : RequestArrivedAt(s) => RequestArrivedAt(s)'
           /\ pdelayRespEventIngressTimestamp \in Int =>
                 /\ pdelayRespEventIngressTimestamp' \in Int
                 /\ pdelayRespEventIngressTimestamp' =
                       clockTime' + (pdelayRespEventIngressTimestamp - clockTime)
<1>1. /\ clockTime \in Int /\ peerDelay \in {0, PropagationDelay} /\ peerDelay \in Int
      /\ pdelayReqEventEgressTimestamp \in Times /\ pdelayRespEventIngressTimestamp \in Times
      /\ receivedTimeSync \in Times /\ oldPeerSentTimeSync \in Times
      /\ PropagationDelay \in Nat /\ Unset \notin Int
  BY ConstantFacts DEF GptpInv, Types, ReceiverTypes, ClockSet
<1>2. syncIngressTimestamp \in Int /\ syncIngressTimestamp = clockTime + t + PropagationDelay
  BY DEF GptpInv, SyncPaired
<1> DEFINE newTime == t + peerDelay + (clockTime - syncIngressTimestamp)
           delta == newTime - clockTime
<1>3. newTime = peerDelay - PropagationDelay /\ newTime \in Int /\ delta \in Int
  BY <1>1, <1>2
<1>4. /\ clockTime' = newTime
      /\ receivedTimeSync' = Shifted(syncIngressTimestamp, delta)
      /\ pdelayRespEventIngressTimestamp' = Shifted(pdelayRespEventIngressTimestamp, delta)
      /\ pdelayReqEventEgressTimestamp' = Shifted(pdelayReqEventEgressTimestamp, delta)
      /\ oldPeerSentTimeSync' = t
      /\ gmRateRatio' = IF oldPeerSentTimeSync = Unset
                        THEN <<1, 1>>
                        ELSE Ratio(t - oldPeerSentTimeSync,
                                   syncIngressTimestamp - receivedTimeSync)
  BY DEF Synchronize, ReceivedSync, AdjustPdelayTimestamps
<1>5. delta = newTime - clockTime
  OBVIOUS
<1> HIDE DEF newTime, delta
<1>6. receivedTimeSync' = syncIngressTimestamp + delta
  BY <1>1, <1>2, <1>4 DEF Shifted
<1>7. /\ receivedTimeSync' \in Int
      /\ receivedTimeSync' = clockTime' + oldPeerSentTimeSync' + PropagationDelay
  BY <1>1, <1>2, <1>3, <1>4, <1>5, <1>6
<1>8. gmRateRatio' = <<1, 1>>
  <2>1. CASE oldPeerSentTimeSync = Unset
    BY <1>4, <2>1
  <2>2. CASE oldPeerSentTimeSync # Unset
    <3>1. /\ oldPeerSentTimeSync \in Int /\ receivedTimeSync \in Int
          /\ receivedTimeSync = clockTime + oldPeerSentTimeSync + PropagationDelay
      BY <1>1, <2>2 DEF GptpInv, ClockSet, Times
    <3>2. syncIngressTimestamp - receivedTimeSync = t - oldPeerSentTimeSync
      BY <1>1, <1>2, <3>1
    <3> QED
      BY <1>4, <2>2, <3>2 DEF Ratio
  <2> QED
    BY <2>1, <2>2
<1>9. ClockSet'
  <2>1. receivedTimeSync' # Unset /\ oldPeerSentTimeSync' # Unset
    BY <1>1, <1>4, <1>7
  <2> QED
    BY <1>1, <1>7, <1>8, <2>1 DEF ClockSet
<1>10. \A s \in Int : RequestArrivedAt(s) => RequestArrivedAt(s)'
  <2> TAKE s \in Int
  <2> SUFFICES ASSUME RequestArrivedAt(s) PROVE RequestArrivedAt(s)'
    OBVIOUS
  <2>1. /\ pdelayReqEventEgressTimestamp \in Int
        /\ pdelayReqEventEgressTimestamp = clockTime - PropagationDelay + s
    BY DEF RequestArrivedAt
  <2>2. pdelayReqEventEgressTimestamp' = pdelayReqEventEgressTimestamp + delta
    BY <1>1, <1>4, <2>1 DEF Shifted
  <2>3. /\ pdelayReqEventEgressTimestamp' \in Int
        /\ pdelayReqEventEgressTimestamp' = clockTime' - PropagationDelay + s
    BY <1>1, <1>3, <1>4, <1>5, <2>1, <2>2
  <2> QED
    BY <2>3 DEF RequestArrivedAt
<1>11. \A s \in Times : Shifted(s, delta) \in Times
  BY <1>3 DEF Shifted, Times
<1>12. /\ pdelayReqEventEgressTimestamp' \in Times
       /\ pdelayRespEventIngressTimestamp' \in Times
  BY <1>1, <1>4, <1>11
<1>13. ASSUME pdelayRespEventIngressTimestamp \in Int
       PROVE  /\ pdelayRespEventIngressTimestamp' \in Int
              /\ pdelayRespEventIngressTimestamp' =
                    clockTime' + (pdelayRespEventIngressTimestamp - clockTime)
  <2>1. pdelayRespEventIngressTimestamp' = pdelayRespEventIngressTimestamp + delta
    BY <1>1, <1>4, <1>13 DEF Shifted
  <2> QED
    BY <1>1, <1>3, <1>4, <1>5, <1>13, <2>1
<1> QED
  BY <1>3, <1>4, <1>7, <1>9, <1>10, <1>12, <1>13

LEMMA ProcessFollowUpInv ==
    ASSUME GptpInv, ProcessFollowUp
    PROVE  /\ GptpInv'
           /\ clockTime' = clockTime \/ clockTime' = peerDelay' - PropagationDelay
<1>1. /\ Arrives("master", "FollowUp") /\ queue' = queue
      /\ UNCHANGED <<grandmaster, selfMsgDelayReq, lastReceivedGptpSyncSequenceId,
                     syncIngressTimestamp, lastSentPdelayReqSequenceId, rcvdPdelayResp,
                     peerRequestReceiptTimestamp, peerDelay>>
      /\ sequenceId' = IF IsBridge THEN NextSeq(sequenceId) ELSE sequenceId
  BY DEF ProcessFollowUp
<1>2. PICK h \in OnWire :
        /\ h = Head(wire["master"]) /\ h \in UnderWay
        /\ h.left = 0 /\ h.message.kind = "FollowUp"
        /\ lost' = lost
        /\ \A k : k # "FollowUp" => (OnLine(k)' <=> OnLine(k))
        /\ \A k : InQueue(k)' <=> InQueue(k)
        /\ \A k, t : Stamped(k, t)' => Stamped(k, t)
        /\ OnLine("FollowUp") /\ ~OnLine("FollowUp")'
        /\ Stamped("FollowUp", h.message.time)
  BY <1>1, ArrivesStep
<1>3. h.message.seq = LastSync
  BY <1>2 DEF GptpInv, Syncs, IsSync
<1>4. PICK t \in Int : t = h.message.time /\ t + SinceSync >= 0
  <2>1. h.message.time \in Int
    BY <1>2 DEF GptpInv, Syncs, Follows
  <2> QED
    BY <1>2, <2>1 DEF GptpInv, Syncs
<1>5. ~OnLine("Sync") /\ ~InQueue("Sync") /\ ~InQueue("FollowUp")
  <2>1. \A x \in OnWire : x.left \in Nat
    BY SetFacts, ConstantFacts DEF GptpInv, Types, UnderWay
  <2>2. ~OnLine("Sync")
    BY <1>2, <2>1 DEF OnLine, GptpInv, Syncs, Follows
  <2> QED
    BY <1>2, <2>2 DEF GptpInv, Syncs, Follows
<1>6. /\ ~Alive("Sync")' /\ ~Alive("FollowUp")' /\ ~OnLine("Sync")' /\ ~Pending'
  BY <1>2, <1>5 DEF Alive, Pending
<1>7. \A k : ~Stamped("FollowUp", k)'
  BY <1>6 DEF Alive, Stamped, InQueue, OnLine
<1>8. sequenceId' \in Ids
  BY <1>1, NextSeqFacts DEF GptpInv, Types, SenderTypes
<1>9. ReceiverTypes
  BY DEF GptpInv, Types
<1>10. SyncPaired'
  BY <1>7 DEF SyncPaired
<1>11. SinceSync \in 0..SyncInterval /\ lost \in Nat /\ lost * SyncInterval \in Nat
  BY SinceFacts, Multiples, ConstantFacts DEF GptpInv, Types, SenderTypes
<1>12. CASE BelongsToSync(Arrived("master"))
  <2>1. /\ rcvdGptpSync /\ lastReceivedGptpSyncSequenceId = LastSync
        /\ Synchronize(t) /\ rcvdGptpSync' = FALSE
    BY <1>2, <1>3, <1>4, <1>12 DEF ProcessFollowUp, BelongsToSync, Arrived
  <2>2. /\ clockTime' = peerDelay - PropagationDelay
        /\ clockTime' \in Int /\ receivedTimeSync' \in Int /\ oldPeerSentTimeSync' = t
        /\ pdelayReqEventEgressTimestamp' \in Times
        /\ pdelayRespEventIngressTimestamp' \in Times
        /\ ClockSet'
        /\ \A s \in Int : RequestArrivedAt(s) => RequestArrivedAt(s)'
        /\ pdelayRespEventIngressTimestamp \in Int =>
              /\ pdelayRespEventIngressTimestamp' \in Int
              /\ pdelayRespEventIngressTimestamp' =
                    clockTime' + (pdelayRespEventIngressTimestamp - clockTime)
    BY <1>1, <1>2, <1>4, <1>5, <2>1, SynchronizeStep
  <2>3. ReceiverTypes'
    BY <1>1, <1>9, <2>1, <2>2 DEF ReceiverTypes, Times
  <2>4. /\ Types' /\ OneOfEach' /\ Syncs' /\ Requests' /\ Answers' /\ QueueDrains'
        /\ UNCHANGED <<SinceSync, LastSync>>
    BY <1>1, <1>8, <2>2, <2>3, ArrivesInv
  <2>5. AnswerPaired'
    <3> SUFFICES ASSUME rcvdPdelayResp, NEW s \in Int, Stamped("PdelayRespFollowUp", s)
                 PROVE  /\ pdelayRespEventIngressTimestamp' \in Int
                        /\ peerRequestReceiptTimestamp \in Int
                        /\ pdelayRespEventIngressTimestamp' = clockTime' + s + PropagationDelay
                        /\ RequestArrivedAt(peerRequestReceiptTimestamp)'
      BY <1>1, <1>2 DEF AnswerPaired
    <3>1. /\ pdelayRespEventIngressTimestamp \in Int
          /\ peerRequestReceiptTimestamp \in Int
          /\ pdelayRespEventIngressTimestamp = clockTime + s + PropagationDelay
          /\ RequestArrivedAt(peerRequestReceiptTimestamp)
      BY DEF GptpInv, AnswerPaired
    <3>2. pdelayRespEventIngressTimestamp' = clockTime' + s + PropagationDelay
      BY <1>9, <2>2, <3>1, ConstantFacts DEF ReceiverTypes
    <3>3. PICK receipt \in Int : receipt = peerRequestReceiptTimestamp
      BY <3>1
    <3>4. RequestArrivedAt(receipt)'
      BY <2>2, <3>1, <3>3
    <3>5. RequestArrivedAt(peerRequestReceiptTimestamp)'
      BY <1>1, <3>3, <3>4 DEF RequestArrivedAt
    <3> QED
      BY <2>2, <3>1, <3>2, <3>5
  <2>6. UselessLost'
    BY <1>6, <2>1 DEF UselessLost
  <2>7. Holdover'
    <3>1. -t <= SinceSync + lost * SyncInterval
      BY <1>4, <1>11, ConstantFacts
    <3> QED
      BY <1>2, <1>6, <2>2, <2>4, <3>1 DEF Holdover
  <2> QED
    BY <1>1, <1>10, <2>2, <2>4, <2>5, <2>6, <2>7 DEF GptpInv
<1>13. CASE ~BelongsToSync(Arrived("master"))
  <2>1. /\ UNCHANGED <<clock, rcvdGptpSync, pdelayReqEventEgressTimestamp,
                       pdelayRespEventIngressTimestamp>>
        /\ ~(rcvdGptpSync /\ lastReceivedGptpSyncSequenceId = LastSync)
    BY <1>2, <1>3, <1>13 DEF ProcessFollowUp, BelongsToSync, Arrived
  <2>2. \A s : RequestArrivedAt(s)' <=> RequestArrivedAt(s)
    BY <2>1 DEF RequestArrivedAt, clock
  <2>3. ReceiverTypes'
    BY <1>1, <1>9, <2>1 DEF ReceiverTypes, clock
  <2>4. /\ Types' /\ OneOfEach' /\ Syncs' /\ Requests' /\ Answers' /\ QueueDrains'
        /\ UNCHANGED <<SinceSync, LastSync>>
    BY <1>1, <1>8, <2>2, <2>3, ArrivesInv
  <2>5. AnswerPaired'
    BY <1>1, <1>2, <2>1, <2>2 DEF GptpInv, AnswerPaired, clock
  <2>6. ~Pending
    BY <1>5, <2>1 DEF Pending
  <2>7. UselessLost'
    BY <1>1, <1>2, <1>6, <2>1, <2>4, <2>6 DEF GptpInv, UselessLost, Behind
  <2>8. Holdover' /\ ClockSet'
    BY <1>1, <1>2, <1>6, <2>1, <2>4, <2>6 DEF GptpInv, Holdover, ClockSet, clock
  <2> QED
    BY <1>10, <2>1, <2>4, <2>5, <2>7, <2>8 DEF GptpInv, clock
<1> QED
  BY <1>12, <1>13

LEMMA SameLength ==
    ASSUME NEW S, NEW T, NEW s \in Seq(S), NEW t \in Seq(T), DOMAIN s = DOMAIN t
    PROVE  Len(s) = Len(t)
<1>1. Len(s) \in Nat /\ Len(t) \in Nat /\ 1..Len(s) = 1..Len(t)
  OBVIOUS
<1> QED
  BY <1>1

(* Time passes, for what has been stamped and for what is under way.         *)
LEMMA TickInv ==
    ASSUME GptpInv, GptpTick
    PROVE  GptpInv'
<1>1. Types /\ SenderTypes /\ ReceiverTypes /\ LinkTypes /\ OneOfEach
  BY DEF GptpInv, Types
<1>2. /\ LinkTypes' /\ OneOfEach'
      /\ Queued' = {LaterMessage(m) : m \in Queued}
      /\ OnWire' = {TickOf(x) : x \in OnWire}
      /\ waited'["master"] = IF Queued = {} THEN 0 ELSE waited["master"] + 1
      /\ waited'["slave"] = IF queue["slave"] = <<>> THEN 0 ELSE waited["slave"] + 1
      /\ queue'["slave"] = [i \in DOMAIN queue["slave"] |-> LaterMessage(queue["slave"][i])]
      /\ wire'["slave"] = [i \in DOMAIN wire["slave"] |-> TickOf(wire["slave"][i])]
  BY <1>1, LinkTickStep
<1>3. UNCHANGED <<masterSequenceId, clockTime, gmRateRatio, rcvdGptpSync,
                  lastReceivedGptpSyncSequenceId, sequenceId,
                  lastSentPdelayReqSequenceId, rcvdPdelayResp, peerDelay, lost>>
  BY DEF GptpTick
<1>25. /\ selfMsgSync # 0 /\ selfMsgSync' = selfMsgSync - 1
       /\ selfMsgDelayReq # 0 /\ selfMsgDelayReq' = selfMsgDelayReq - 1
  BY DEF GptpTick
<1>26. answers' = [i \in DOMAIN answers |->
                     [answers[i] EXCEPT !.left = @ - 1, !.ingress = Later(@)]]
  BY DEF GptpTick
<1>27. /\ syncIngressTimestamp' = Later(syncIngressTimestamp)
       /\ receivedTimeSync' = Later(receivedTimeSync)
       /\ oldPeerSentTimeSync' = Later(oldPeerSentTimeSync)
       /\ pdelayReqEventEgressTimestamp' = Later(pdelayReqEventEgressTimestamp)
       /\ pdelayRespEventIngressTimestamp' = Later(pdelayRespEventIngressTimestamp)
       /\ peerRequestReceiptTimestamp' = Later(peerRequestReceiptTimestamp)
  BY DEF GptpTick
<1>4. Types'
  <2>1. SenderTypes'
    BY <1>1, <1>3, <1>25, ConstantFacts DEF SenderTypes
  <2>2. ReceiverTypes'
    BY <1>1, <1>3, <1>27, LaterTimes DEF ReceiverTypes
  <2> QED
    BY <1>2, <2>1, <2>2 DEF Types
<1>5. /\ SinceSync' = SinceSync + 1 /\ SinceRequest' = SinceRequest + 1
      /\ SinceSync \in Int /\ SinceRequest \in Int /\ Turnaround \in Nat
      /\ UNCHANGED <<Turnaround, LastSync>>
  BY <1>1, <1>3, <1>25, ConstantFacts DEF SinceSync, SinceRequest, Turnaround, LastSync, SenderTypes
<1>6. /\ \A m \in Queued : m \in Messages
      /\ \A x \in OnWire : x \in UnderWay /\ x.message \in Messages /\ x.left \in Int
      /\ PropagationDelay \in Nat /\ MaxTxTime \in Nat /\ Unset \notin Int
      /\ waited["master"] \in Nat /\ waited["slave"] \in Nat
  BY <1>1, SetFacts, LinkFacts, ConstantFacts DEF UnderWay, Ports
<1>7. \A m \in Messages :
        /\ LaterMessage(m).kind = m.kind /\ LaterMessage(m).seq = m.seq
        /\ m.time \in Times
        /\ m.time \in Int => LaterMessage(m).time = m.time - 1
        /\ LaterMessage(m).time \in Int => m.time \in Int
        /\ LaterMessage(m).time = Unset <=> m.time = Unset
  <2> TAKE m \in Messages
  <2>1. m.time \in Times
    BY DEF Messages
  <2> QED
    BY <2>1, LaterFacts, LaterTimes
<1>8. \A x \in OnWire : TickOf(x).message = LaterMessage(x.message) /\ TickOf(x).left = x.left - 1
  BY DEF TickOf
<1>9. \A k : (InQueue(k)' <=> InQueue(k)) /\ (OnLine(k)' <=> OnLine(k))
  BY <1>2, <1>6, <1>7, <1>8 DEF InQueue, OnLine
<1>10. \A k : \A t \in Int : Stamped(k, t)' => Stamped(k, t + 1)
  <2>1. ASSUME NEW m \in Messages, NEW t \in Int, LaterMessage(m).time = t
        PROVE  m.time = t + 1
    <3>1. m.time \in Int
      BY <1>7, <2>1
    <3>2. LaterMessage(m).time = m.time - 1
      BY <1>7, <3>1
    <3> QED
      BY <2>1, <3>1, <3>2
  <2> QED
    BY <1>2, <1>6, <1>7, <1>8, <2>1 DEF Stamped
<1>11. \A k : Stamped(k, Unset)' => Stamped(k, Unset)
  BY <1>2, <1>6, <1>7, <1>8 DEF Stamped
<1>12. /\ Alive("Sync")' <=> Alive("Sync")
       /\ Alive("FollowUp")' <=> Alive("FollowUp")
       /\ Alive("PdelayResp")' <=> Alive("PdelayResp")
       /\ Answered' <=> Answered
  BY <1>9 DEF Alive, Answered
<1>13. \A t \in Int : RequestArrivedAt(t) => RequestArrivedAt(t - 1)'
  <2> SUFFICES ASSUME NEW t \in Int, RequestArrivedAt(t) PROVE RequestArrivedAt(t - 1)'
    OBVIOUS
  <2>1. /\ pdelayReqEventEgressTimestamp \in Int
        /\ pdelayReqEventEgressTimestamp = clockTime - PropagationDelay + t
        /\ clockTime \in Int /\ clockTime' = clockTime
    BY <1>1, <1>3 DEF RequestArrivedAt, ReceiverTypes
  <2>2. pdelayReqEventEgressTimestamp' = pdelayReqEventEgressTimestamp - 1
    BY <1>27, <2>1, LaterTimes DEF Times
  <2>3. /\ pdelayReqEventEgressTimestamp' \in Int
        /\ pdelayReqEventEgressTimestamp' = clockTime' - PropagationDelay + (t - 1)
    BY <1>6, <2>1, <2>2
  <2> QED
    BY <2>3 DEF RequestArrivedAt
<1>14. ASSUME NEW f, NEW e, Follows(f, e) PROVE Follows(f, e)'
  <2>1. \A n \in Queued' : n.kind = f =>
            /\ n.time \in Int /\ waited'["master"] + n.time <= 0
            /\ \A y \in OnWire' : y.message.kind = e => n.time = y.left - PropagationDelay
    <3> SUFFICES ASSUME NEW m \in Queued, LaterMessage(m).kind = f
                 PROVE  /\ LaterMessage(m).time \in Int
                        /\ waited'["master"] + LaterMessage(m).time <= 0
                        /\ \A x \in OnWire : TickOf(x).message.kind = e =>
                              LaterMessage(m).time = TickOf(x).left - PropagationDelay
      BY <1>2
    <3>1. m.kind = f /\ m.time \in Int /\ LaterMessage(m).time = m.time - 1
          /\ waited["master"] + m.time <= 0 /\ waited'["master"] = waited["master"] + 1
      BY <1>2, <1>6, <1>7, <1>14 DEF Follows
    <3>2. \A x \in OnWire : TickOf(x).message.kind = e => m.time = x.left - PropagationDelay
      BY <1>6, <1>7, <1>8, <1>14, <3>1 DEF Follows
    <3> QED
      BY <1>6, <1>8, <3>1, <3>2
  <2>2. \A y \in OnWire' : y.message.kind = f =>
            /\ y.message.time \in Int
            /\ \A x \in OnWire' : x.message.kind = e =>
                  x.left < y.left /\ y.message.time = x.left - PropagationDelay
    <3> SUFFICES ASSUME NEW y \in OnWire, TickOf(y).message.kind = f
                 PROVE  /\ TickOf(y).message.time \in Int
                        /\ \A x \in OnWire : TickOf(x).message.kind = e =>
                              /\ TickOf(x).left < TickOf(y).left
                              /\ TickOf(y).message.time = TickOf(x).left - PropagationDelay
      BY <1>2
    <3>1. /\ y.message.kind = f /\ y.message.time \in Int
          /\ TickOf(y).message.time = y.message.time - 1
      BY <1>6, <1>7, <1>8, <1>14 DEF Follows
    <3>2. \A x \in OnWire : TickOf(x).message.kind = e =>
              x.left < y.left /\ y.message.time = x.left - PropagationDelay
      BY <1>6, <1>7, <1>8, <1>14, <3>1 DEF Follows
    <3> QED
      BY <1>6, <1>8, <3>1, <3>2
  <2>3. /\ InQueue(e)' => ~OnLine(e)' /\ ~OnLine(f)'
        /\ InQueue(f)' => ~OnLine(f)'
    BY <1>9, <1>14 DEF Follows
  <2> QED
    BY <2>1, <2>2, <2>3 DEF Follows
<1>15. Syncs'
  <2>1. Follows("FollowUp", "Sync")'
    BY <1>14 DEF GptpInv, Syncs
  <2>2. \A n \in Queued' : IsSync(n) => n.seq = LastSync'
    BY <1>2, <1>5, <1>6, <1>7 DEF GptpInv, Syncs, IsSync
  <2>3. \A y \in OnWire' : IsSync(y.message) =>
            /\ y.message.seq = LastSync'
            /\ SinceSync' + y.left <= 4 * MaxTxTime + PropagationDelay
    <3> SUFFICES ASSUME NEW x \in OnWire, IsSync(TickOf(x).message)
                 PROVE  /\ TickOf(x).message.seq = LastSync'
                        /\ SinceSync' + TickOf(x).left <= 4 * MaxTxTime + PropagationDelay
      BY <1>2
    <3>1. /\ x.message.seq = LastSync
          /\ SinceSync + x.left <= 4 * MaxTxTime + PropagationDelay
      BY <1>6, <1>7, <1>8 DEF GptpInv, Syncs, IsSync
    <3> QED
      BY <1>5, <1>6, <1>7, <1>8, <3>1
  <2>4. \A t \in Int : Stamped("FollowUp", t)' => t + SinceSync' >= 0
    <3> SUFFICES ASSUME NEW t \in Int, Stamped("FollowUp", t)' PROVE t + SinceSync' >= 0
      OBVIOUS
    <3>1. t + 1 + SinceSync >= 0
      BY <1>10 DEF GptpInv, Syncs
    <3> QED
      BY <1>5, <3>1
  <2> QED
    BY <2>1, <2>2, <2>3, <2>4 DEF Syncs
<1>16. SyncPaired'
  <2> SUFFICES ASSUME rcvdGptpSync, lastReceivedGptpSyncSequenceId = LastSync, ~OnLine("Sync"),
                      NEW t \in Int, Stamped("FollowUp", t + 1)
               PROVE  /\ syncIngressTimestamp' \in Int
                      /\ syncIngressTimestamp' = clockTime' + t + PropagationDelay
    BY <1>3, <1>5, <1>9, <1>10 DEF SyncPaired
  <2>1. /\ syncIngressTimestamp \in Int
        /\ syncIngressTimestamp = clockTime + (t + 1) + PropagationDelay
    BY DEF GptpInv, SyncPaired
  <2>2. syncIngressTimestamp' = syncIngressTimestamp - 1
    BY <1>27, <2>1, LaterTimes DEF Times
  <2> QED
    BY <1>1, <1>3, <1>6, <2>1, <2>2 DEF ReceiverTypes
<1>17. Requests'
  <2>1. /\ queue["slave"] \in Seq(Messages) /\ queue'["slave"] \in Seq(Messages)
        /\ wire["slave"] \in Seq(UnderWay) /\ wire'["slave"] \in Seq(UnderWay)
        /\ answers \in Seq(ReqAnswers) /\ answers' \in Seq(ReqAnswers)
    BY <1>1, <1>2 DEF LinkTypes, Ports
  <2>2. /\ DOMAIN queue'["slave"] = DOMAIN queue["slave"]
        /\ DOMAIN wire'["slave"] = DOMAIN wire["slave"] /\ DOMAIN answers' = DOMAIN answers
    BY <1>2, <1>26
  <2>3. /\ Len(queue'["slave"]) = Len(queue["slave"]) /\ Len(wire'["slave"]) = Len(wire["slave"])
        /\ Len(answers') = Len(answers)
    BY <2>1, <2>2, SameLength
  <2>4. /\ queue'["slave"] = <<>> <=> queue["slave"] = <<>>
        /\ wire'["slave"] = <<>> <=> wire["slave"] = <<>>
        /\ answers' = <<>> <=> answers = <<>>
    BY <2>1, <2>2, EmptyFacts
  <2>5. \A i \in DOMAIN queue'["slave"] :
          /\ queue'["slave"][i].kind = "PdelayReq"
          /\ queue'["slave"][i].seq = lastSentPdelayReqSequenceId'
          /\ SinceRequest' <= waited'["slave"]
          /\ wire'["slave"] = <<>> /\ answers' = <<>>
    <3> TAKE i \in DOMAIN queue'["slave"]
    <3>1. i \in DOMAIN queue["slave"] /\ queue["slave"][i] \in Messages /\ queue["slave"] # <<>>
      BY <2>1, <2>2
    <3>2. /\ queue["slave"][i].kind = "PdelayReq"
          /\ queue["slave"][i].seq = lastSentPdelayReqSequenceId
          /\ SinceRequest <= waited["slave"] /\ wire["slave"] = <<>> /\ answers = <<>>
      BY <3>1 DEF GptpInv, Requests
    <3>3. waited'["slave"] = waited["slave"] + 1
      BY <1>2, <3>1
    <3>4. queue'["slave"][i] = LaterMessage(queue["slave"][i])
      BY <1>2, <3>1
    <3>5. SinceRequest' <= waited'["slave"]
      BY <1>5, <1>6, <3>2, <3>3
    <3> QED
      BY <1>3, <1>7, <2>4, <3>1, <3>2, <3>4, <3>5
  <2>6. \A i \in DOMAIN wire'["slave"] :
          /\ wire'["slave"][i].message.kind = "PdelayReq"
          /\ wire'["slave"][i].message.seq = lastSentPdelayReqSequenceId'
          /\ SinceRequest' + wire'["slave"][i].left <= MaxTxTime + PropagationDelay
          /\ RequestArrivedAt(wire["slave"][i].left)'
          /\ answers' = <<>>
    <3> TAKE i \in DOMAIN wire'["slave"]
    <3>1. i \in DOMAIN wire["slave"] /\ wire["slave"][i] \in UnderWay
      BY <2>1, <2>2
    <3>2. PICK x \in UnderWay : x = wire["slave"][i]
      BY <3>1
    <3>3. /\ x.message.kind = "PdelayReq" /\ x.message.seq = lastSentPdelayReqSequenceId
          /\ SinceRequest + x.left <= MaxTxTime + PropagationDelay
          /\ RequestArrivedAt(x.left) /\ answers = <<>>
      BY <3>1, <3>2 DEF GptpInv, Requests
    <3>4. x.left \in Int /\ x.message \in Messages
      BY ConstantFacts DEF UnderWay
    <3>5. wire'["slave"][i] = TickOf(x)
      BY <1>2, <3>1, <3>2
    <3>6. RequestArrivedAt(x.left - 1)'
      BY <1>13, <3>3, <3>4
    <3>7. TickOf(x).left = x.left - 1 /\ TickOf(x).message = LaterMessage(x.message)
      BY DEF TickOf
    <3>8. RequestArrivedAt(wire["slave"][i].left)'
      BY <3>5, <3>6, <3>7 DEF RequestArrivedAt
    <3>9. SinceRequest' + (x.left - 1) <= MaxTxTime + PropagationDelay
      BY <1>5, <1>6, <3>3, <3>4
    <3> QED
      BY <1>3, <1>7, <2>4, <3>3, <3>4, <3>5, <3>7, <3>8, <3>9
  <2>7. \A i \in DOMAIN answers' :
          /\ answers'[i].seq = lastSentPdelayReqSequenceId'
          /\ SinceRequest' + answers'[i].left <= MaxTxTime + Turnaround'
          /\ RequestArrivedAt(answers[i].ingress)'
    <3> TAKE i \in DOMAIN answers'
    <3>1. i \in DOMAIN answers /\ answers[i] \in ReqAnswers
      BY <2>1, <2>2
    <3>2. PICK a \in ReqAnswers : a = answers[i]
      BY <3>1
    <3>3. /\ a.seq = lastSentPdelayReqSequenceId
          /\ SinceRequest + a.left <= MaxTxTime + Turnaround
          /\ RequestArrivedAt(a.ingress) /\ a.left \in Int /\ a.ingress \in Int
      BY <3>1, <3>2, ConstantFacts DEF GptpInv, Requests, ReqAnswers
    <3>4. answers'[i] = [a EXCEPT !.left = @ - 1, !.ingress = Later(@)]
      BY <1>26, <3>1, <3>2
    <3>5. answers'[i].seq = a.seq /\ answers'[i].left = a.left - 1
      BY <3>4 DEF ReqAnswers
    <3>6. answers'[i].ingress = a.ingress - 1
      <4> DEFINE b == [a EXCEPT !.left = @ - 1]
      <4>1. b \in [left : Int, seq : Ids, ingress : Int] /\ b.ingress = a.ingress
        BY <3>3 DEF ReqAnswers
      <4>2. answers'[i] = [b EXCEPT !.ingress = Later(@)]
        BY <3>4 DEF ReqAnswers
      <4> HIDE DEF b
      <4>3. answers'[i].ingress = Later(a.ingress)
        BY <4>1, <4>2
      <4> QED
        BY <3>3, <4>3, LaterTimes DEF Times
    <3>7. RequestArrivedAt(a.ingress - 1)'
      BY <1>13, <3>3
    <3>8. RequestArrivedAt(answers[i].ingress)'
      BY <3>6, <3>7 DEF RequestArrivedAt
    <3>9. SinceRequest' + (a.left - 1) <= MaxTxTime + Turnaround'
      BY <1>5, <1>6, <3>3
    <3> QED
      BY <1>3, <3>3, <3>5, <3>8, <3>9
  <2>8. Asked' => ~Answered' /\ ~rcvdPdelayResp'
    BY <1>3, <1>12, <2>4 DEF GptpInv, Requests, Asked
  <2> QED
    BY <2>3, <2>5, <2>6, <2>7, <2>8 DEF GptpInv, Requests

<1>18. Answers'
  <2>1. Follows("PdelayRespFollowUp", "PdelayResp")'
    BY <1>14 DEF GptpInv, Answers
  <2>2. \A n \in Queued' : IsAnswer(n) => n.seq = lastSentPdelayReqSequenceId'
    BY <1>2, <1>3, <1>6, <1>7 DEF GptpInv, Answers, IsAnswer
  <2>3. \A y \in OnWire' : IsAnswer(y.message) =>
            /\ y.message.seq = lastSentPdelayReqSequenceId'
            /\ SinceRequest' + y.left <= 5 * MaxTxTime + Turnaround' + PropagationDelay
    <3> SUFFICES ASSUME NEW x \in OnWire, IsAnswer(TickOf(x).message)
                 PROVE  /\ TickOf(x).message.seq = lastSentPdelayReqSequenceId
                        /\ SinceRequest' + TickOf(x).left
                              <= 5 * MaxTxTime + Turnaround + PropagationDelay
      BY <1>2, <1>3, <1>5
    <3>1. /\ x.message.seq = lastSentPdelayReqSequenceId
          /\ SinceRequest + x.left <= 5 * MaxTxTime + Turnaround + PropagationDelay
      BY <1>6, <1>7, <1>8 DEF GptpInv, Answers, IsAnswer
    <3> QED
      BY <1>5, <1>6, <1>7, <1>8, <3>1
  <2>4. \A t \in Times : Stamped("PdelayResp", t)' => t \in Int /\ RequestArrivedAt(t)'
    <3> SUFFICES ASSUME NEW t \in Times, Stamped("PdelayResp", t)'
                 PROVE  t \in Int /\ RequestArrivedAt(t)'
      OBVIOUS
    <3>1. t \in Int
      BY <1>6, <1>11 DEF GptpInv, Answers, Times
    <3>2. Stamped("PdelayResp", t + 1) /\ t + 1 \in Times
      BY <1>10, <3>1 DEF Times
    <3>3. PICK s \in Int : s = t + 1
      BY <3>1
    <3>4. RequestArrivedAt(s)
      BY <3>2, <3>3 DEF GptpInv, Answers
    <3>5. RequestArrivedAt(s - 1)' /\ s - 1 = t
      BY <1>13, <3>1, <3>3, <3>4
    <3> QED
      BY <3>1, <3>5
  <2>5. Alive("PdelayResp")' => ~rcvdPdelayResp'
    BY <1>3, <1>12 DEF GptpInv, Answers
  <2> QED
    BY <2>1, <2>2, <2>3, <2>4, <2>5 DEF Answers
<1>19. AnswerPaired'
  <2> SUFFICES ASSUME rcvdPdelayResp, NEW t \in Int, Stamped("PdelayRespFollowUp", t + 1)
               PROVE  /\ pdelayRespEventIngressTimestamp' \in Int
                      /\ peerRequestReceiptTimestamp' \in Int
                      /\ pdelayRespEventIngressTimestamp' = clockTime' + t + PropagationDelay
                      /\ RequestArrivedAt(peerRequestReceiptTimestamp)'
    BY <1>3, <1>10 DEF AnswerPaired
  <2>1. /\ pdelayRespEventIngressTimestamp \in Int
        /\ peerRequestReceiptTimestamp \in Int
        /\ pdelayRespEventIngressTimestamp = clockTime + (t + 1) + PropagationDelay
        /\ RequestArrivedAt(peerRequestReceiptTimestamp)
    BY DEF GptpInv, AnswerPaired
  <2>2. /\ pdelayRespEventIngressTimestamp' = pdelayRespEventIngressTimestamp - 1
        /\ peerRequestReceiptTimestamp' = peerRequestReceiptTimestamp - 1
    BY <1>27, <2>1, LaterTimes DEF Times
  <2>3. PICK receipt \in Int : receipt = peerRequestReceiptTimestamp
    BY <2>1
  <2>4. RequestArrivedAt(receipt - 1)'
    BY <1>13, <2>1, <2>3
  <2>5. RequestArrivedAt(peerRequestReceiptTimestamp)'
    BY <2>2, <2>3, <2>4 DEF RequestArrivedAt
  <2> QED
    BY <1>1, <1>3, <1>6, <2>1, <2>2, <2>5 DEF ReceiverTypes
<1>20. QueueDrains'
  <2>1. Queued' # {} => Queued # {}
    BY <1>2
  <2>2. SyncWork' = SyncWork /\ AnswerWork' = AnswerWork
    BY <1>9 DEF SyncWork, AnswerWork, Work
  <2>3. SyncWork \in Nat /\ AnswerWork \in Nat
    BY <1>1, WorkFacts
  <2>4. Queued # {} => TimeToDrain' = TimeToDrain - 1 /\ TimeToDrain \in Int
    BY <1>2, <1>6, <2>2, <2>3 DEF TimeToDrain
  <2>5. Asked' => Asked
    <3>1. /\ queue["slave"] = <<>> => queue'["slave"] = <<>>
          /\ wire["slave"] = <<>> => wire'["slave"] = <<>>
          /\ answers = <<>> => answers' = <<>>
      <4>1. /\ queue["slave"] \in Seq(Messages) /\ queue'["slave"] \in Seq(Messages)
            /\ wire["slave"] \in Seq(UnderWay) /\ wire'["slave"] \in Seq(UnderWay)
            /\ answers \in Seq(ReqAnswers) /\ answers' \in Seq(ReqAnswers)
        BY <1>1, <1>2 DEF LinkTypes, Ports
      <4>2. /\ DOMAIN queue'["slave"] = DOMAIN queue["slave"]
            /\ DOMAIN wire'["slave"] = DOMAIN wire["slave"] /\ DOMAIN answers' = DOMAIN answers
        BY <1>2, <1>26
      <4> QED
        BY <4>1, <4>2, EmptyFacts
    <3> QED
      BY <3>1 DEF Asked
  <2> QED
    BY <1>5, <1>6, <2>1, <2>2, <2>4, <2>5
    DEF GptpInv, QueueDrains, DrainsAnswer, DrainsSync, DrainsBoth
<1>21. Pending' <=> Pending
  BY <1>3, <1>5, <1>9, <1>12 DEF Pending
<1>22. UselessLost'
  BY <1>3, <1>5, <1>9, <1>12, <1>21 DEF GptpInv, UselessLost, Behind
<1>23. Holdover'
  <2> DEFINE spoilt == (IF Pending THEN lost + 1 ELSE lost) * SyncInterval
  <2>1. spoilt \in Nat
    <3>1. lost \in Nat
      BY <1>1, ConstantFacts DEF SenderTypes
    <3>2. lost * SyncInterval \in Nat /\ (lost + 1) * SyncInterval \in Nat
      BY <3>1, Multiples, ConstantFacts
    <3> QED
      BY <3>2
  <2>2. spoilt' = spoilt
    BY <1>3, <1>21
  <2>3. oldPeerSentTimeSync # Unset => -oldPeerSentTimeSync <= SinceSync + spoilt
    BY DEF GptpInv, Holdover
  <2> HIDE DEF spoilt
  <2>4. oldPeerSentTimeSync' # Unset =>
            oldPeerSentTimeSync \in Int /\ oldPeerSentTimeSync' = oldPeerSentTimeSync - 1
    BY <1>1, <1>27, LaterTimes DEF ReceiverTypes, Times
  <2>5. oldPeerSentTimeSync' # Unset => -oldPeerSentTimeSync' <= SinceSync' + spoilt'
    BY <1>5, <1>6, <2>1, <2>2, <2>3, <2>4
  <2> QED
    BY <2>5 DEF Holdover, spoilt
<1>24. ClockSet'
  <2>1. /\ receivedTimeSync' = Unset <=> receivedTimeSync = Unset
        /\ oldPeerSentTimeSync' = Unset <=> oldPeerSentTimeSync = Unset
    BY <1>1, <1>27, LaterTimes DEF ReceiverTypes
  <2>2. ASSUME receivedTimeSync # Unset
        PROVE  receivedTimeSync' = clockTime' + oldPeerSentTimeSync' + PropagationDelay
    <3>1. /\ receivedTimeSync \in Int /\ oldPeerSentTimeSync \in Int /\ clockTime \in Int
          /\ receivedTimeSync = clockTime + oldPeerSentTimeSync + PropagationDelay
      BY <1>1, <2>2 DEF GptpInv, ClockSet, ReceiverTypes, Times
    <3>2. /\ receivedTimeSync' = receivedTimeSync - 1
          /\ oldPeerSentTimeSync' = oldPeerSentTimeSync - 1
      BY <1>27, <3>1, LaterTimes DEF Times
    <3> QED
      BY <1>3, <1>6, <3>1, <3>2
  <2> QED
    BY <1>3, <2>1, <2>2 DEF GptpInv, ClockSet
<1> QED
  BY <1>2, <1>4, <1>15, <1>16, <1>17, <1>18, <1>19, <1>20, <1>22, <1>23, <1>24 DEF GptpInv

-----------------------------------------------------------------------------

LEMMA InitInv == GptpInit => GptpInv
<1> SUFFICES ASSUME GptpInit PROVE GptpInv
  OBVIOUS
<1>1. /\ queue = [p \in Ports |-> <<>>] /\ wire = [p \in Ports |-> <<>>]
      /\ waited = [p \in Ports |-> 0] /\ answers = <<>>
      /\ rcvdGptpSync = FALSE /\ rcvdPdelayResp = FALSE
      /\ oldPeerSentTimeSync = Unset /\ receivedTimeSync = Unset
      /\ peerDelay = 0 /\ gmRateRatio = <<1, 1>>
  BY DEF GptpInit
<1>2. /\ queue["master"] = <<>> /\ wire["master"] = <<>>
      /\ queue["slave"] = <<>> /\ wire["slave"] = <<>>
  BY <1>1 DEF Ports
<1>3. Types
  <2>1. SenderTypes
    BY ConstantFacts DEF GptpInit, SenderTypes, Ids
  <2>2. ReceiverTypes
    <3>1. /\ clockTime \in InitialErrors
          /\ lastReceivedGptpSyncSequenceId = SeqIds - 1 /\ lastSentPdelayReqSequenceId = 0
          /\ syncIngressTimestamp = Unset /\ pdelayReqEventEgressTimestamp = Unset
          /\ pdelayRespEventIngressTimestamp = Unset /\ peerRequestReceiptTimestamp = Unset
      BY DEF GptpInit
    <3>2. SeqIds - 1 \in Ids /\ 0 \in Ids
      BY ConstantFacts DEF Ids
    <3>3. clockTime \in Int /\ Unset \in Times
      BY <3>1, ConstantFacts DEF Times
    <3> QED
      BY <1>1, <3>1, <3>2, <3>3, Zenon DEF ReceiverTypes
  <2>3. LinkTypes
    BY <1>1, ConstantFacts DEF LinkTypes
  <2> QED
    BY <2>1, <2>2, <2>3 DEF Types
<1>4. DOMAIN queue["master"] = {} /\ DOMAIN wire["master"] = {}
  BY <1>2
<1>5. Queued = {} /\ OnWire = {}
  BY <1>4 DEF Queued, OnWire, Range
<1>6. \A k : ~InQueue(k) /\ ~OnLine(k) /\ ~Alive(k) /\ \A t : ~Stamped(k, t)
  BY <1>5 DEF InQueue, OnLine, Alive, Stamped
<1>7. OneOfEach
  BY <1>4 DEF OneOfEach
<1>8. \A f, e : Follows(f, e)
  BY <1>5, <1>6 DEF Follows
<1>9. Syncs /\ SyncPaired /\ Answers /\ AnswerPaired
  BY <1>1, <1>5, <1>6, <1>8 DEF Syncs, SyncPaired, Answers, AnswerPaired
<1>10. Requests
  <2>1. /\ DOMAIN answers = {} /\ DOMAIN queue["slave"] = {} /\ DOMAIN wire["slave"] = {}
        /\ Len(answers) = 0 /\ Len(queue["slave"]) = 0 /\ Len(wire["slave"]) = 0
    BY <1>1, <1>2
  <2> QED
    BY <1>1, <1>2, <2>1 DEF Requests, Asked
<1>11. QueueDrains /\ UselessLost /\ Holdover /\ ClockSet
  BY <1>1, <1>5, <1>6 DEF QueueDrains, UselessLost, Holdover, ClockSet
<1> QED
  BY <1>3, <1>7, <1>9, <1>10, <1>11 DEF GptpInv

LEMMA StutterInv == GptpInv /\ UNCHANGED gptpVars => GptpInv'
<1> SUFFICES ASSUME GptpInv, UNCHANGED gptpVars PROVE GptpInv'
  OBVIOUS
<1>1. Requests /\ Types
  BY DEF GptpInv
<1>2. UNCHANGED <<grandmaster, clock, pairing, exchange, ids, link>>
  BY DEF gptpVars
<1>3. UNCHANGED <<queue["master"], wire["master"], waited["master"], lost, Asked>>
  BY <1>2 DEF link, grandmaster, Asked
<1>4. /\ OneOfEach' /\ Syncs' /\ SyncPaired' /\ Answers' /\ AnswerPaired' /\ QueueDrains'
      /\ UselessLost' /\ Holdover' /\ ClockSet' /\ Answered' = Answered
  BY <1>2, <1>3, MasterUnchanged DEF grandmaster, exchange
<1>5. Types'
  BY <1>1, <1>2 DEF Types, SenderTypes, ReceiverTypes, LinkTypes,
     grandmaster, clock, pairing, exchange, ids, link
<1>6. Requests'
  BY <1>1, <1>2, <1>3, <1>4
  DEF Requests, SinceRequest, Turnaround, RequestArrivedAt,
      grandmaster, clock, pairing, exchange, ids, link
<1> QED
  BY <1>4, <1>5, <1>6 DEF GptpInv

LEMMA StepInv ==
    ASSUME IntervalsSuffice, LossesLeaveIds, GptpInv, [GptpNext]_gptpVars
    PROVE  GptpInv'
<1>1. CASE SendSync
  BY <1>1, SendSyncInv
<1>2. CASE SendPdelayReq
  BY <1>2, SendPdelayReqInv
<1>3. CASE SendPdelayResp
  BY <1>3, SendPdelayRespInv
<1>4. CASE \E p \in Ports : TransmissionEnded(p) \/ LoseQueued(p) \/ LoseOnWire(p)
  BY <1>4, SlaveTransmissionInv, MasterTransmissionInv, LoseSlaveInv, LoseMasterInv DEF Ports
<1>5. CASE Process
  BY <1>5, ProcessSyncInv, ProcessFollowUpInv, ProcessPdelayReqInv, ProcessPdelayRespInv,
     ProcessPdelayRespFollowUpInv DEF Process
<1>6. CASE GptpTick
  BY <1>6, TickInv
<1>7. CASE UNCHANGED gptpVars
  BY <1>7, StutterInv
<1> QED
  BY <1>1, <1>2, <1>3, <1>4, <1>5, <1>6, <1>7 DEF GptpNext

(* GptpInv holds in every reachable state: each message is under way once,   *)
(* belongs to the last Sync or the last request, and carries the time its    *)
(* event went at; what was stamped on receiving the event fits it, in the    *)
(* node's clock as it is now (sendFollowUp, processSync, processPdelayResp,   *)
(* synchronize).                                                             *)
THEOREM InductiveInvariant ==
    ASSUME IntervalsSuffice, LossesLeaveIds
    PROVE  GptpSpec => []GptpInv
<1>1. GptpInit => GptpInv
  BY InitInv
<1>2. GptpInv /\ [GptpNext]_gptpVars => GptpInv'
  BY StepInv
<1> QED
  BY <1>1, <1>2, PTL DEF GptpSpec

(* The peer delay is the propagation delay, or 0 while none has been         *)
(* measured (processPdelayRespFollowUp), for any delays, initial errors and  *)
(* losses.                                                                   *)
THEOREM PeerDelayIsExact ==
    ASSUME IntervalsSuffice, LossesLeaveIds
    PROVE  GptpSpec => []PeerDelayExact
<1>1. GptpInv => PeerDelayExact
  BY DEF GptpInv, ClockSet, PeerDelayExact
<1> QED
  BY <1>1, InductiveInvariant, PTL

(* Synchronising never gives the clock a rate of its own: synchronize finds  *)
(* the ratio of the rates to be 1 each time.                                 *)
THEOREM RateRatioStaysOne ==
    ASSUME IntervalsSuffice, LossesLeaveIds
    PROVE  GptpSpec => []RateRatioIsOne
<1>1. GptpInv => RateRatioIsOne
  BY DEF GptpInv, ClockSet, RateRatioIsOne
<1> QED
  BY <1>1, InductiveInvariant, PTL

(* The Sync that the clock was set by is at most one interval older for      *)
(* every message that was lost (processSync, processFollowUp).               *)
THEOREM HoldoverIsBounded ==
    ASSUME IntervalsSuffice, LossesLeaveIds
    PROVE  GptpSpec => []HoldoverBounded
<1>1. ASSUME GptpInv PROVE HoldoverBounded
  <2> SUFFICES ASSUME receivedTimeSync # Unset
               PROVE  clockTime - receivedTimeSync <= (lost + 1) * SyncInterval + Jitter
    BY DEF HoldoverBounded
  <2>1. Types /\ SenderTypes /\ ReceiverTypes /\ LinkTypes /\ OneOfEach
    BY <1>1 DEF GptpInv, Types
  <2>2. /\ SinceSync \in 0..SyncInterval /\ lost \in Nat
        /\ receivedTimeSync \in Int /\ clockTime \in Int /\ oldPeerSentTimeSync \in Int
        /\ receivedTimeSync = clockTime + oldPeerSentTimeSync + PropagationDelay
    BY <1>1, <2>1, SinceFacts, ConstantFacts
    DEF GptpInv, ClockSet, SenderTypes, ReceiverTypes, Times
  <2>3. /\ lost * SyncInterval \in Nat
        /\ (lost + 1) * SyncInterval = lost * SyncInterval + SyncInterval
    BY <2>2, Multiples
  <2>4. clockTime - receivedTimeSync = -oldPeerSentTimeSync - PropagationDelay
    BY <2>2, ConstantFacts
  <2>5. Jitter \in Nat /\ Jitter = 4 * MaxTxTime
    BY ConstantFacts DEF Jitter
  <2>6. CASE ~Pending
    <3>1. -oldPeerSentTimeSync <= SinceSync + lost * SyncInterval
      BY <1>1, <2>2, <2>6, ConstantFacts DEF GptpInv, Holdover
    <3> QED
      BY <2>2, <2>3, <2>4, <2>5, <3>1, ConstantFacts
  <2>7. CASE Pending
    <3>1. -oldPeerSentTimeSync <= SinceSync + (lost + 1) * SyncInterval
      BY <1>1, <2>2, <2>7, ConstantFacts DEF GptpInv, Holdover
    <3>2. SinceSync <= 4 * MaxTxTime + PropagationDelay
      <4>1. CASE InQueue("Sync") \/ InQueue("FollowUp")
        <5>1. Queued # {} /\ SyncWork # 0 /\ SyncWork \in Nat /\ TimeToDrain \in Int
              /\ (Queued # {} => TimeToDrain >= 0)
          BY <2>1, <4>1, WorkFacts DEF InQueue
        <5> QED
          BY <1>1, <2>2, <5>1, ConstantFacts
          DEF GptpInv, QueueDrains, DrainsAnswer, DrainsSync, DrainsBoth
      <4>2. CASE OnLine("FollowUp")
        <5>1. \A x \in OnWire : x.left \in Nat
          BY <2>1, SetFacts, ConstantFacts DEF UnderWay
        <5> QED
          BY <1>1, <2>2, <4>2, <5>1, ConstantFacts DEF OnLine, GptpInv, Syncs, IsSync
      <4> QED
        BY <2>7, <4>1, <4>2 DEF Pending, Alive
    <3> QED
      BY <2>2, <2>3, <2>4, <2>5, <3>1, <3>2, ConstantFacts
  <2> QED
    BY <2>6, <2>7
<1> QED
  BY <1>1, InductiveInvariant, PTL

(* Whenever the node sets its clock, in processFollowUp, it sets it to the   *)
(* grandmaster's time but for what the measured peer delay misses.           *)
THEOREM SyncsAreExact ==
    ASSUME IntervalsSuffice, LossesLeaveIds
    PROVE  GptpSpec => SyncsExactly
<1> DEFINE Exact == clockTime' # clockTime => clockTime' = peerDelay - PropagationDelay
<1>1. ASSUME GptpInv, [GptpNext]_gptpVars PROVE [Exact]_gptpVars
  <2>1. CASE ProcessFollowUp
    <3>1. peerDelay' = peerDelay
      BY <2>1 DEF ProcessFollowUp
    <3> QED
      BY <1>1, <2>1, <3>1, ProcessFollowUpInv
  <2>2. CASE ~ProcessFollowUp
    <3>1. clockTime' = clockTime
      BY <1>1, <2>2 DEF GptpNext, Process, gptpVars, clock, SendSync, SendPdelayReq, SendPdelayResp,
         TransmissionEnded, LoseQueued, LoseOnWire, ProcessSync, ProcessPdelayReq,
         ProcessPdelayResp, ProcessPdelayRespFollowUp, GptpTick
    <3> QED
      BY <3>1
  <2> QED
    BY <2>1, <2>2
<1> QED
  BY <1>1, InductiveInvariant, PTL DEF GptpSpec, SyncsExactly

-----------------------------------------------------------------------------
(* The clock is set, and the events that are scheduled by it move.           *)

(* The mode of the events of PeriodicGate, which all others share here.      *)
AllExecute == \A e \in Events : Mode[e] = "execute"

-----------------------------------------------------------------------------
(* The vector of the clock has every event once.                             *)

Elements(s) == {s[p] : p \in 1..Len(s)}

Distinct(s) == \A p, q \in 1..Len(s) : s[p] = s[q] => p = q

EachOnce(s) == s \in Seq(Events) /\ Elements(s) = Events /\ Distinct(s)

(* When an event of the clock that is left away from its time is due.        *)
Arrival(away) == IF away < 0 THEN 0 ELSE away

(* The clock part of the inductive invariant.                                *)
ClockInv ==
    /\ failed = "no"
    /\ EachOnce(events)
    /\ left \in [Events -> Int]
    /\ timer \in [Events -> Nat]
    /\ relative \in [Events -> BOOLEAN]
    /\ \A e \in Events :
        timer[e] = IF relative[e] THEN left[e] ELSE Arrival(left[e])

(* Gate g is in interval k of its list, counted from 0, and its change event *)
(* as far from the clock time as the end of the interval.                    *)
InInterval(g, k) ==
    /\ index[g] = (k + 1) % Len(Durations[g])
    /\ isOpen[g] = OpenIn(InitiallyOpen[g], k)
    /\ phase[g] % TotalDuration(Durations[g])
            = (EndTimes(Durations[g])[k+1] - left[g]) % TotalDuration(Durations[g])

GateInv(g) == \E k \in 0..Len(Durations[g])-1 : InInterval(g, k)

(* The inductive invariant.                                                  *)
SyncInv ==
    /\ ClockInv
    /\ relative = [e \in Events |-> e \notin Gates]
    /\ setNow \in BOOLEAN
    /\ \A e \in Events : 0 <= left[e] + MaxStep /\ (~setNow => 0 <= left[e])
    /\ isOpen \in [Gates -> BOOLEAN]
    /\ index \in [Gates -> Nat]
    /\ phase \in [Gates -> Int]
    /\ \A g \in Gates : GateInv(g)

-----------------------------------------------------------------------------
(* What the erasing and pushing back of an event makes of the vector.        *)

LEMMA AppendOnce ==
    ASSUME NEW S, NEW s \in Seq(S), Distinct(s), NEW x \in S, x \notin Elements(s)
    PROVE  /\ Append(s, x) \in Seq(S)
           /\ Elements(Append(s, x)) = Elements(s) \cup {x}
           /\ Distinct(Append(s, x))
<1> DEFINE n == Len(s)
           t == Append(s, x)
<1>1. /\ n \in Nat /\ t \in Seq(S) /\ Len(t) = n + 1 /\ t[n+1] = x
      /\ \A p \in 1..n : t[p] = s[p]
  OBVIOUS
<1>2. \A p \in 1..n : s[p] # x
  BY DEF Elements
<1> HIDE DEF n, t
<1>3. Elements(t) = Elements(s) \cup {x}
  BY <1>1 DEF Elements, n
<1>4. Distinct(t)
  <2> SUFFICES ASSUME NEW p \in 1..n+1, NEW q \in 1..n+1, t[p] = t[q] PROVE p = q
    BY <1>1 DEF Distinct
  <2>1. (p \in 1..n \/ p = n + 1) /\ (q \in 1..n \/ q = n + 1)
    BY <1>1
  <2> QED
    BY <1>1, <1>2, <2>1 DEF Distinct, n
<1> QED
  BY <1>1, <1>3, <1>4 DEF t

(* The recursion of Kept has a solution, which Kept is.                      *)
LEMMA KeptDef ==
    ASSUME NEW s, Len(s) \in Nat, NEW e
    PROVE  Kept(s, e) =
            [i \in 0..Len(s) |->
                IF i = 0 THEN <<>>
                ELSE IF s[i] = e THEN Kept(s, e)[i-1]
                     ELSE Append(Kept(s, e)[i-1], s[i])]
<1> DEFINE Solves(f, n) == f = [i \in 0..n |->
                                    IF i = 0 THEN <<>>
                                    ELSE IF s[i] = e THEN f[i-1]
                                         ELSE Append(f[i-1], s[i])]
           S == {n \in Nat : \E f : Solves(f, n)}
<1>1. 0 \in S
  <2>1. Solves([i \in 0..0 |-> <<>>], 0)
    OBVIOUS
  <2> QED
    BY <2>1
<1>2. ASSUME NEW n \in Nat, n \in S PROVE n + 1 \in S
  <2>1. PICK f : Solves(f, n)
    BY <1>2
  <2> DEFINE last == IF s[n+1] = e THEN f[n] ELSE Append(f[n], s[n+1])
             g == [i \in 0..n+1 |-> IF i = n + 1 THEN last ELSE f[i]]
  <2>2. Solves(g, n + 1)
    <3>1. \A i \in 0..n : f[i] = IF i = 0 THEN <<>>
                                 ELSE IF s[i] = e THEN f[i-1] ELSE Append(f[i-1], s[i])
      BY <2>1
    <3>2. \A i \in 0..n+1 : g[i] = IF i = 0 THEN <<>>
                                   ELSE IF s[i] = e THEN g[i-1] ELSE Append(g[i-1], s[i])
      BY <3>1
    <3> QED
      BY <3>2
  <2> HIDE DEF g, Solves
  <2>3. \E h : Solves(h, n + 1)
    BY <2>2
  <2> QED
    BY <2>3
<1> HIDE DEF S
<1>3. Len(s) \in S
  BY <1>1, <1>2, NaturalInduction
<1>4. \E f : Solves(f, Len(s))
  BY <1>3 DEF S
<1> QED
  BY <1>4 DEF Kept

(* Erasing keeps the other elements, and these distinct.                     *)
LEMMA WithoutFacts ==
    ASSUME NEW S, NEW s \in Seq(S), Distinct(s), NEW e
    PROVE  /\ Without(s, e) \in Seq(S)
           /\ Distinct(Without(s, e))
           /\ Elements(Without(s, e)) = Elements(s) \ {e}
<1> DEFINE K == Kept(s, e)
           First(i) == {s[p] : p \in 1..i}
           Right(i) == /\ K[i] \in Seq(S)
                       /\ Distinct(K[i])
                       /\ Elements(K[i]) = First(i) \ {e}
           I == {i \in Nat : i <= Len(s) => Right(i)}
<1>1. Len(s) \in Nat
  OBVIOUS
<1>2. K = [i \in 0..Len(s) |->
                IF i = 0 THEN <<>>
                ELSE IF s[i] = e THEN K[i-1] ELSE Append(K[i-1], s[i])]
  BY <1>1, KeptDef
<1> HIDE DEF K
<1>3. 0 \in I
  <2>1. K[0] = <<>>
    BY <1>1, <1>2
  <2>2. First(0) = {}
    OBVIOUS
  <2> HIDE DEF First
  <2>3. <<>> \in Seq(S) /\ Distinct(<<>>) /\ Elements(<<>>) = {}
    BY DEF Distinct, Elements
  <2> QED
    BY <2>1, <2>2, <2>3
<1>4. ASSUME NEW i \in Nat, i \in I PROVE i + 1 \in I
  <2> SUFFICES ASSUME i + 1 <= Len(s) PROVE Right(i + 1)
    OBVIOUS
  <2>1. Right(i)
    BY <1>1, <1>4
  <2>2. K[i+1] = IF s[i+1] = e THEN K[i] ELSE Append(K[i], s[i+1])
    <3>1. i + 1 \in 0..Len(s) /\ i + 1 # 0 /\ (i + 1) - 1 = i
      BY <1>1
    <3> QED
      BY <1>2, <3>1
  <2>3. First(i + 1) = First(i) \cup {s[i+1]}
    <3>1. 1..i+1 = (1..i) \cup {i + 1}
      OBVIOUS
    <3> QED
      BY <3>1
  <2>4. s[i+1] \in S /\ s[i+1] \notin First(i)
    <3>1. \A p \in 1..i : p \in 1..Len(s) /\ i + 1 \in 1..Len(s) /\ p # i + 1
      BY <1>1
    <3>2. \A p \in 1..i : s[p] # s[i+1]
      BY <3>1 DEF Distinct
    <3> QED
      BY <1>1, <3>2
  <2>5. CASE s[i+1] = e
    BY <2>1, <2>2, <2>3, <2>5, Zenon
  <2>6. CASE s[i+1] # e
    <3> HIDE DEF First
    <3>1. s[i+1] \notin Elements(K[i])
      BY <2>1, <2>4
    <3>2. /\ Append(K[i], s[i+1]) \in Seq(S)
          /\ Elements(Append(K[i], s[i+1])) = Elements(K[i]) \cup {s[i+1]}
          /\ Distinct(Append(K[i], s[i+1]))
      BY <2>1, <2>4, <3>1, AppendOnce, Zenon
    <3>3. Elements(K[i]) \cup {s[i+1]} = First(i + 1) \ {e}
      BY <2>1, <2>3, <2>6
    <3> QED
      BY <2>2, <2>6, <3>2, <3>3
  <2> QED
    BY <2>5, <2>6
<1> HIDE DEF I, Right
<1>5. Len(s) \in I
  BY <1>1, <1>3, <1>4, NaturalInduction
<1>6. Right(Len(s))
  BY <1>1, <1>5 DEF I
<1> QED
  BY <1>6 DEF Right, Without, Elements, K

LEMMA MovedToTheEnd ==
    ASSUME NEW s, EachOnce(s), NEW e \in Events
    PROVE  EachOnce(Append(Without(s, e), e))
<1> DEFINE w == Without(s, e)
<1>1. s \in Seq(Events) /\ Distinct(s) /\ Elements(s) = Events
  BY DEF EachOnce
<1>2. w \in Seq(Events) /\ Distinct(w) /\ Elements(w) = Events \ {e}
  BY <1>1, WithoutFacts
<1> HIDE DEF w
<1>3. e \notin Elements(w) /\ Elements(w) \cup {e} = Events
  BY <1>2
<1>4. /\ Append(w, e) \in Seq(Events)
      /\ Elements(Append(w, e)) = Elements(w) \cup {e}
      /\ Distinct(Append(w, e))
  BY <1>2, <1>3, AppendOnce
<1> QED
  BY <1>3, <1>4, Zenon DEF EachOnce, w

-----------------------------------------------------------------------------
(* The loop of setClockTime.                                                 *)

(* The events at the first i positions.                                      *)
Seen(i) == {events[p] : p \in 1..i}

(* The loop has moved the arrival of these that are absolute, and kept that  *)
(* of these that are relative.                                               *)
MovedTimer(delta, i) ==
    [e \in Events |-> IF e \in Seen(i) /\ ~relative[e]
                      THEN Arrival(left[e] - delta) ELSE timer[e]]

MovedLeft(delta, i) ==
    [e \in Events |-> IF e \in Seen(i) /\ relative[e]
                      THEN left[e] ELSE left[e] - delta]

After(delta, i) ==
    [memory |-> events, size |-> Len(events), timer |-> MovedTimer(delta, i),
     left |-> MovedLeft(delta, i), failed |-> failed]

(* The recursion of Visited has a solution, which Visited is.                *)
LEMMA VisitedDef ==
    ASSUME NEW delta, Len(events) \in Nat
    PROVE  Visited(delta) =
            [i \in 0..Len(events) |->
                IF i = 0
                THEN [memory |-> events, size |-> Len(events), timer |-> timer,
                      left |-> [e \in Events |-> left[e] - delta], failed |-> failed]
                ELSE Visit(Visited(delta)[i-1], i, delta)]
<1> DEFINE before == [memory |-> events, size |-> Len(events), timer |-> timer,
                      left |-> [e \in Events |-> left[e] - delta], failed |-> failed]
           Solves(f, n) ==
                f = [i \in 0..n |-> IF i = 0 THEN before ELSE Visit(f[i-1], i, delta)]
           S == {n \in Nat : \E f : Solves(f, n)}
<1> HIDE DEF before
<1>1. 0 \in S
  <2>1. Solves([i \in 0..0 |-> before], 0)
    OBVIOUS
  <2> QED
    BY <2>1
<1>2. ASSUME NEW n \in Nat, n \in S PROVE n + 1 \in S
  <2>1. PICK f : Solves(f, n)
    BY <1>2
  <2> DEFINE g == [i \in 0..n+1 |->
                        IF i = n + 1 THEN Visit(f[n], n + 1, delta) ELSE f[i]]
  <2>2. Solves(g, n + 1)
    <3>1. \A i \in 0..n : f[i] = IF i = 0 THEN before ELSE Visit(f[i-1], i, delta)
      BY <2>1
    <3>2. \A i \in 0..n+1 : g[i] = IF i = 0 THEN before ELSE Visit(g[i-1], i, delta)
      BY <3>1
    <3> QED
      BY <3>2
  <2> HIDE DEF g, Solves
  <2>3. \E h : Solves(h, n + 1)
    BY <2>2
  <2> QED
    BY <2>3
<1> HIDE DEF S
<1>3. Len(events) \in S
  BY <1>1, <1>2, NaturalInduction
<1>4. \E f : Solves(f, Len(events))
  BY <1>3 DEF S
<1> QED
  BY <1>4 DEF Visited, before

LEMMA VectorFacts ==
    ASSUME ClockInv
    PROVE  /\ Len(events) \in Nat
           /\ \A p \in 1..Len(events) : events[p] \in Events
           /\ \A i \in 0..Len(events)-1 :
                /\ i + 1 \in 1..Len(events)
                /\ events[i+1] \in Events
                /\ events[i+1] \notin Seen(i)
                /\ Seen(i + 1) = Seen(i) \cup {events[i+1]}
           /\ Seen(0) = {} /\ Seen(Len(events)) = Events
<1>1. events \in Seq(Events) /\ Elements(events) = Events /\ Distinct(events)
  BY DEF ClockInv, EachOnce
<1>2. Len(events) \in Nat /\ \A p \in 1..Len(events) : events[p] \in Events
  BY <1>1
<1>3. ASSUME NEW i \in 0..Len(events)-1
      PROVE  /\ i + 1 \in 1..Len(events)
             /\ events[i+1] \in Events
             /\ events[i+1] \notin Seen(i)
             /\ Seen(i + 1) = Seen(i) \cup {events[i+1]}
  <2>1. i + 1 \in 1..Len(events) /\ \A p \in 1..i : p \in 1..Len(events) /\ p # i + 1
    BY <1>2
  <2>2. \A p \in 1..i : events[p] # events[i+1]
    BY <1>1, <2>1 DEF Distinct
  <2>3. 1..i+1 = (1..i) \cup {i + 1}
    OBVIOUS
  <2> QED
    BY <1>2, <2>1, <2>2, <2>3 DEF Seen
<1>4. Seen(0) = {}
  BY DEF Seen
<1>5. Seen(Len(events)) = Events
  BY <1>1 DEF Seen, Elements
<1> QED
  BY <1>2, <1>3, <1>4, <1>5

(* One pass of the loop.                                                     *)
LEMMA VisitStep ==
    ASSUME AllExecute, ClockInv, NEW delta \in Int, NEW i \in 0..Len(events)-1
    PROVE  Visit(After(delta, i), i + 1, delta) = After(delta, i + 1)
<1> DEFINE a == After(delta, i)
           e == events[i+1]
<1>1. /\ a.memory = events /\ a.size = Len(events) /\ a.failed = "no" /\ failed = "no"
      /\ a.left = MovedLeft(delta, i) /\ a.timer = MovedTimer(delta, i)
      /\ a = [memory |-> events, size |-> Len(events), timer |-> a.timer,
              left |-> a.left, failed |-> "no"]
  BY DEF After, ClockInv
<1>2. e \in Events /\ e \notin Seen(i) /\ Seen(i + 1) = Seen(i) \cup {e}
  BY VectorFacts
<1>3. Visit(a, i + 1, delta) = VisitEvent(a, e, delta)
  BY <1>1 DEF Visit
<1>4. left[e] \in Int /\ timer[e] \in Nat /\ relative[e] \in BOOLEAN /\ Mode[e] = "execute"
  BY <1>2 DEF ClockInv, AllExecute
<1>5. a.left[e] = left[e] - delta /\ a.timer[e] = timer[e]
  BY <1>1, <1>2 DEF MovedLeft, MovedTimer
<1> HIDE DEF a, e
<1>6. CASE relative[e]
  <2>1. VisitEvent(a, e, delta) = [a EXCEPT !.left[e] = @ + delta]
    BY <1>6 DEF VisitEvent
  <2>2. MovedTimer(delta, i + 1) = a.timer
    BY <1>1, <1>2, <1>6 DEF MovedTimer
  <2>3. MovedLeft(delta, i + 1) = [a.left EXCEPT ![e] = @ + delta]
    <3>1. a.left[e] + delta = left[e]
      BY <1>4, <1>5
    <3> QED
      BY <1>1, <1>2, <1>6, <3>1 DEF MovedLeft
  <2> QED
    BY <1>1, <1>3, <2>1, <2>2, <2>3 DEF After, a
<1>7. CASE ~relative[e]
  <2>1. VisitEvent(a, e, delta) = [a EXCEPT !.timer[e] = Arrival(left[e] - delta)]
    <3>1. CASE left[e] - delta < 0
      BY <1>4, <1>5, <1>7, <3>1 DEF VisitEvent, HandleOverdue, Arrival
    <3>2. CASE ~(left[e] - delta < 0)
      BY <1>4, <1>5, <1>7, <3>2 DEF VisitEvent, Arrival, Unscheduled
    <3> QED
      BY <3>1, <3>2
  <2>2. MovedLeft(delta, i + 1) = a.left
    BY <1>1, <1>2, <1>7 DEF MovedLeft
  <2>3. MovedTimer(delta, i + 1) = [a.timer EXCEPT ![e] = Arrival(left[e] - delta)]
    BY <1>1, <1>2, <1>7 DEF MovedTimer
  <2> QED
    BY <1>1, <1>3, <2>1, <2>2, <2>3 DEF After, a
<1> QED
  BY <1>6, <1>7 DEF a

LEMMA VisitedFacts ==
    ASSUME AllExecute, ClockInv, NEW delta \in Int
    PROVE  Visited(delta)[Len(events)] = After(delta, Len(events))
<1> DEFINE V == Visited(delta)
           n == Len(events)
           I == {i \in Nat : i <= n => V[i] = After(delta, i)}
           before == [memory |-> events, size |-> Len(events), timer |-> timer,
                      left |-> [e \in Events |-> left[e] - delta], failed |-> failed]
<1>1. n \in Nat /\ Seen(0) = {}
  BY VectorFacts
<1>2. V = [i \in 0..n |-> IF i = 0 THEN before ELSE Visit(V[i-1], i, delta)]
  BY <1>1, VisitedDef
<1>3. before = After(delta, 0)
  <2>1. timer = [e \in Events |-> timer[e]]
    BY DEF ClockInv
  <2>2. MovedTimer(delta, 0) = timer
    BY <1>1, <2>1 DEF MovedTimer
  <2>3. MovedLeft(delta, 0) = [e \in Events |-> left[e] - delta]
    BY <1>1 DEF MovedLeft
  <2> QED
    BY <2>2, <2>3 DEF After
<1> HIDE DEF V, before
<1>4. 0 \in I
  BY <1>1, <1>2, <1>3
<1>5. ASSUME NEW i \in Nat, i \in I PROVE i + 1 \in I
  <2> SUFFICES ASSUME i + 1 <= n PROVE V[i+1] = After(delta, i + 1)
    OBVIOUS
  <2>1. i \in 0..n-1 /\ V[i] = After(delta, i)
    BY <1>1, <1>5
  <2>2. i + 1 \in 0..n /\ i + 1 # 0 /\ (i + 1) - 1 = i
    BY <1>1, <2>1
  <2>3. V[i+1] = Visit(V[i], i + 1, delta)
    BY <1>2, <2>2
  <2> QED
    BY <2>1, <2>3, VisitStep
<1> HIDE DEF I
<1>6. n \in I
  BY <1>1, <1>4, <1>5, NaturalInduction
<1> QED
  BY <1>1, <1>6 DEF I, V

(* setClockTime moves the arrival of the absolute events and keeps that of   *)
(* the relative ones, whatever the order of the vector.                      *)
LEMMA SetClockTimeFacts ==
    ASSUME AllExecute, ClockInv, NEW delta \in Int, SetClockTime(delta)
    PROVE  /\ ClockInv'
           /\ relative' = relative
           /\ left' = [e \in Events |-> IF relative[e] THEN left[e] ELSE left[e] - delta]
<1> DEFINE n == Len(events)
<1>1. n \in Nat /\ Seen(n) = Events /\ events \in Seq(Events)
  BY VectorFacts DEF ClockInv, EachOnce
<1>2. Visited(delta)[n] = After(delta, n)
  BY VisitedFacts
<1>3. /\ events' = SubSeq(After(delta, n).memory, 1, After(delta, n).size)
      /\ timer' = After(delta, n).timer
      /\ left' = [e \in Events |-> IF After(delta, n).timer[e] = Unscheduled
                                   THEN 0 ELSE After(delta, n).left[e]]
      /\ failed' = After(delta, n).failed
      /\ relative' = relative
  BY <1>2 DEF SetClockTime
<1>4. events' = events
  BY <1>1, <1>3 DEF After
<1>5. timer' = [e \in Events |-> IF ~relative[e] THEN Arrival(left[e] - delta) ELSE timer[e]]
  BY <1>1, <1>3 DEF After, MovedTimer
<1>6. \A e \in Events : timer[e] \in Nat /\ left[e] \in Int /\ relative[e] \in BOOLEAN
  BY DEF ClockInv
<1>7. timer' \in [Events -> Nat] /\ \A e \in Events : timer'[e] # Unscheduled
  BY <1>5, <1>6 DEF Arrival, Unscheduled
<1>8. left' = [e \in Events |-> IF relative[e] THEN left[e] ELSE left[e] - delta]
  <2>1. left' = [e \in Events |-> MovedLeft(delta, n)[e]]
    BY <1>3, <1>7 DEF After
  <2> QED
    BY <1>1, <2>1 DEF MovedLeft
<1>9. failed' = "no"
  BY <1>3 DEF After, ClockInv
<1>10. left' \in [Events -> Int]
  BY <1>6, <1>8
<1>11. \A e \in Events : timer'[e] = IF relative[e] THEN left'[e] ELSE Arrival(left'[e])
  BY <1>5, <1>8 DEF ClockInv
<1> QED
  BY <1>3, <1>4, <1>7, <1>8, <1>9, <1>10, <1>11 DEF ClockInv, EachOnce

-----------------------------------------------------------------------------
(* Arithmetic.                                                               *)

LEMMA Negated ==
    ASSUME NEW a \in Int
    PROVE  -a \in Int /\ \A n \in Int : n - (-a) = n + a
  OBVIOUS

LEMMA NegatedZero ==
    ASSUME NEW a \in Int, a = 0
    PROVE  -a = 0
<1> DEFINE c == -a
<1>1. c \in Int /\ 0 \in Int
  BY Negated
<1>2. 0 - c = 0 + a
  BY <1>1, Negated, Zenon
<1> HIDE DEF c
<1>3. c = 0
  BY <1>1, <1>2
<1> QED
  BY <1>3 DEF c

LEMMA ScheduledTimer ==
    ASSUME NEW n \in Nat
    PROVE  n # Unscheduled
  BY DEF Unscheduled

(* A position t later, or after the clock was set by t.                      *)
LEMMA LaterInCycle ==
    ASSUME NEW T \in Nat \ {0}, NEW x \in Int, NEW y \in Int, NEW t \in Int,
           x % T = y % T
    PROVE  ((x + t) % T) % T = (y + t) % T
<1>1. (x + t) % T = (y + t) % T
  BY PositionLater
<1> DEFINE z == x + t
<1>2. z \in Int
  OBVIOUS
<1> HIDE DEF z
<1>3. z % T \in 0..T-1
  BY <1>2, DivMod
<1>4. (z % T) % T = z % T
  BY <1>3, ModSmall
<1> QED
  BY <1>1, <1>4 DEF z

(* The interval before the next one.                                         *)
LEMMA IndexBefore ==
    ASSUME NEW n \in Nat \ {0}, NEW k \in 0..n-1
    PROVE  (((k + 1) % n) - 1) % n = k
<1> DEFINE a == k + 1
           b == 0 - 1
<1>1. a \in Int /\ b \in Int /\ a + b = k
  OBVIOUS
<1>2. a % n \in Int
  <2> HIDE DEF a
  <2> QED
    BY <1>1, DivMod
<1>3. (a % n) + b = (a % n) - 1
  BY <1>2
<1> HIDE DEF a, b
<1>4. ((a % n) + b) % n = (a + b) % n
  BY <1>1, ModPlus
<1>5. k % n = k
  BY ModSmall
<1> QED
  BY <1>1, <1>3, <1>4, <1>5 DEF a

-----------------------------------------------------------------------------
(* The parts of the steps.                                                   *)

LEMMA GateFacts ==
    ASSUME NEW g \in Gates
    PROVE  /\ g \in Events
           /\ InitiallyOpen[g] \in BOOLEAN
           /\ IsDurationList(Durations[g]) /\ Durations[g] # <<>>
           /\ IsPositiveList(Durations[g])
           /\ Len(Durations[g]) \in Nat \ {0}
           /\ TotalDuration(Durations[g]) \in Nat \ {0}
           /\ MaxStep \in Nat
           /\ \A k \in 0..Len(Durations[g])-1 :
                /\ Durations[g][k+1] \in Nat \ {0}
                /\ MaxStep <= Durations[g][k+1]
                /\ EndTimes(Durations[g])[k] \in Nat
                /\ EndTimes(Durations[g])[k+1] \in Nat
<1>1. /\ g \in Events /\ InitiallyOpen[g] \in BOOLEAN
      /\ IsDurationList(Durations[g]) /\ Durations[g] # <<>>
      /\ IsPositiveList(Durations[g])
      /\ MaxStep \in Nat
      /\ \A i \in DOMAIN Durations[g] : MaxStep <= Durations[g][i]
  BY GatesAssumption DEF IsDurationList
<1>2. /\ Len(Durations[g]) \in Nat \ {0}
      /\ DOMAIN Durations[g] = 1..Len(Durations[g])
  BY <1>1, ListFacts
<1>3. \A k \in 0..Len(Durations[g])-1 : k + 1 \in 1..Len(Durations[g])
  BY <1>2
<1>4. TotalDuration(Durations[g]) \in Nat \ {0}
  BY <1>1, TotalDurationFacts
<1>5. \A k \in 0..Len(Durations[g])-1 :
        /\ Durations[g][k+1] \in Nat \ {0}
        /\ EndTimes(Durations[g])[k] \in Nat
        /\ EndTimes(Durations[g])[k+1] \in Nat
  BY <1>1, EndTimesNext
<1> QED
  BY <1>1, <1>2, <1>3, <1>4, <1>5

(* Scheduling an event again, not in the past.                               *)
LEMMA ScheduleFacts ==
    ASSUME ClockInv, NEW e \in Events, NEW delay \in Int, NEW seen \in Int,
           NEW isRelative \in BOOLEAN, Schedule(e, delay, seen, isRelative),
           seen <= delay
    PROVE  /\ ClockInv'
           /\ left' = [left EXCEPT ![e] = delay - seen]
           /\ relative' = [relative EXCEPT ![e] = isRelative]
<1>1. /\ events' = Append(Without(events, e), e)
      /\ left' = [left EXCEPT ![e] = delay - seen]
      /\ timer' = [timer EXCEPT ![e] = delay - seen]
      /\ relative' = [relative EXCEPT ![e] = isRelative]
      /\ failed' = failed
  BY DEF Schedule
<1>2. EachOnce(events')
  BY <1>1, MovedToTheEnd DEF ClockInv
<1>3. delay - seen \in Nat /\ Arrival(delay - seen) = delay - seen
  BY DEF Arrival
<1>4. /\ left' \in [Events -> Int] /\ timer' \in [Events -> Nat]
      /\ relative' \in [Events -> BOOLEAN]
  BY <1>1, <1>3 DEF ClockInv
<1>5. \A f \in Events : timer'[f] = IF relative'[f] THEN left'[f] ELSE Arrival(left'[f])
  BY <1>1, <1>3 DEF ClockInv
<1> QED
  BY <1>1, <1>2, <1>4, <1>5 DEF ClockInv, EachOnce

(* A gate that is left alone.                                                *)
LEMMA GateUnchanged ==
    ASSUME NEW g \in Gates, GateInv(g), index'[g] = index[g], isOpen'[g] = isOpen[g],
           phase'[g] = phase[g], left'[g] = left[g]
    PROVE  GateInv(g)'
  BY DEF GateInv, InInterval

LEMMA GateLater ==
    ASSUME NEW g \in Gates, NEW t \in Int
    PROVE  /\ GateInv(g)
           /\ phase[g] \in Int /\ left[g] \in Int
           /\ index'[g] = index[g] /\ isOpen'[g] = isOpen[g]
           /\ phase'[g] = (phase[g] + t) % TotalDuration(Durations[g])
           /\ left'[g] = left[g] - t
           => GateInv(g)'
<1> DEFINE T == TotalDuration(Durations[g])
           p == phase[g]
           l == left[g]
<1>1. SUFFICES ASSUME GateInv(g), p \in Int, l \in Int,
                      index'[g] = index[g], isOpen'[g] = isOpen[g],
                      phase'[g] = (p + t) % T, left'[g] = l - t
               PROVE  GateInv(g)'
  OBVIOUS
<1>2. PICK k \in 0..Len(Durations[g])-1 : InInterval(g, k)
  BY <1>1 DEF GateInv
<1> DEFINE e == EndTimes(Durations[g])[k+1]
<1>3. T \in Nat \ {0} /\ p \in Int /\ l \in Int /\ e \in Int
  BY <1>1, <1>2, GateFacts
<1>4. p % T = (e - l) % T
  BY <1>2 DEF InInterval
<1> HIDE DEF T, p, l, e
<1>5. ((p + t) % T) % T = (e - (l - t)) % T
  <2> DEFINE y == e - l
  <2>1. y \in Int /\ e - (l - t) = y + t /\ p % T = y % T
    BY <1>3, <1>4
  <2> HIDE DEF y
  <2>2. ((p + t) % T) % T = (y + t) % T
    BY <1>3, <2>1, LaterInCycle
  <2> QED
    BY <2>1, <2>2
<1>6. phase'[g] % T = (e - left'[g]) % T
  BY <1>1, <1>5, Zenon
<1>7. InInterval(g, k)'
  BY <1>1, <1>2, <1>6 DEF InInterval, T, e
<1> QED
  BY <1>2, <1>7 DEF GateInv

-----------------------------------------------------------------------------
(* The initial states.                                                       *)

LEMMA EventsInitially ==
    ASSUME NEW s \in SetToSeqs(Events)
    PROVE  EachOnce(s)
<1> DEFINE n == Cardinality(Events)
<1>1. n \in Nat /\ IsFiniteSet(Events)
  BY GatesAssumption, FS_CardinalityType
<1>2. s \in [1..n -> Events] /\ \A i, j \in 1..n : i # j => s[i] # s[j]
  BY DEF SetToSeqs
<1> HIDE DEF n
<1>3. s \in Injection(1..n, Events)
  BY <1>2 DEF Injection, IsInjective
<1>4. Cardinality(1..n) = n
  BY <1>1, FS_Interval
<1>5. s \in Surjection(1..n, Events)
  BY <1>1, <1>3, <1>4, FS_Injection DEF n
<1>6. s \in Seq(Events) /\ Len(s) = n
  BY <1>1, <1>2
<1>7. \A e \in Events : \E i \in 1..n : s[i] = e
  BY <1>5 DEF Surjection
<1>8. Elements(s) = Events
  BY <1>2, <1>6, <1>7 DEF Elements
<1>9. Distinct(s)
  BY <1>2, <1>6 DEF Distinct
<1> QED
  BY <1>6, <1>8, <1>9 DEF EachOnce

(* Where a gate starts: at phase 0.                                          *)
LEMMA StartFacts ==
    ASSUME NEW g \in Gates
    PROVE  /\ Start(g).timer \in Nat /\ Start(g).index \in Nat
           /\ Start(g).isOpen \in BOOLEAN
           /\ \E k \in 0..Len(Durations[g])-1 :
                /\ Start(g).index = (k + 1) % Len(Durations[g])
                /\ Start(g).isOpen = OpenIn(InitiallyOpen[g], k)
                /\ 0 % TotalDuration(Durations[g])
                    = (EndTimes(Durations[g])[k+1] - Start(g).timer)
                            % TotalDuration(Durations[g])
<1> DEFINE d == Durations[g]
           open == InitiallyOpen[g]
<1>1. IsDurationList(d) /\ d # <<>> /\ open \in BOOLEAN /\ 0 \in Int /\ 0 + 0 = 0
  BY GateFacts
<1>2. Len(d) \in Nat \ {0} /\ \A k \in 0..Len(d)-1 : d[k+1] \in Nat
  BY GateFacts
<1>3. Start(g) = StartOf(open, 0, d)
  BY DEF Start
<1> HIDE DEF d, open
<1>4. PICK k \in 0..Len(d)-1 :
        /\ Start(g).index = (k + 1) % Len(d)
        /\ Start(g).isOpen = OpenIn(open, k)
        /\ Start(g).timer \in 0..d[k+1]
        /\ (0 + 0) % TotalDuration(d)
                = (EndTimes(d)[k+1] - Start(g).timer) % TotalDuration(d)
  BY <1>1, <1>3, StartsInInterval
<1>5. Start(g).timer \in Nat
  BY <1>2, <1>4
<1>6. Start(g).isOpen \in BOOLEAN
  BY <1>1, <1>4, Zenon DEF OpenIn
<1>7. Start(g).index \in Nat
  <2> DEFINE n == Len(d)
             i == k + 1
  <2>1. n \in Nat \ {0} /\ i \in Int
    BY <1>2, <1>4
  <2> HIDE DEF n, i
  <2>2. i % n \in 0..n-1
    BY <2>1, DivMod
  <2>3. Start(g).index \in 0..n-1
    BY <1>4, <2>2 DEF n, i
  <2> QED
    BY <2>1, <2>3
<1> QED
  BY <1>1, <1>4, <1>5, <1>6, <1>7 DEF d, open

LEMMA SyncInit == Init => SyncInv
<1> SUFFICES ASSUME Init PROVE SyncInv
  OBVIOUS
<1>1. /\ events \in SetToSeqs(Events)
      /\ left = [e \in Events |-> IF e \in Gates THEN Start(e).timer ELSE Interval]
      /\ timer = left
      /\ relative = [e \in Events |-> e \notin Gates]
      /\ failed = "no"
      /\ isOpen = [g \in Gates |-> Start(g).isOpen]
      /\ index = [g \in Gates |-> Start(g).index]
      /\ phase = [g \in Gates |-> 0]
      /\ setNow = FALSE
  BY DEF Init
<1>2. /\ left \in [Events -> Nat] /\ Interval \in Nat
      /\ Gates \subseteq Events /\ MaxStep \in Nat
  BY <1>1, GatesAssumption, StartFacts
<1>3. ClockInv
  <2>1. EachOnce(events)
    BY <1>1, EventsInitially
  <2>2. relative \in [Events -> BOOLEAN] /\ left \in [Events -> Int]
    BY <1>1, <1>2
  <2>3. ASSUME NEW e \in Events
        PROVE  timer[e] = IF relative[e] THEN left[e] ELSE Arrival(left[e])
    <3>1. left[e] \in Nat /\ timer[e] = left[e]
      BY <1>1, <1>2
    <3>2. Arrival(left[e]) = left[e]
      BY <3>1 DEF Arrival
    <3> QED
      BY <3>1, <3>2, Zenon
  <2> QED
    BY <1>1, <1>2, <2>1, <2>2, <2>3 DEF ClockInv
<1>4. \A e \in Events : 0 <= left[e] + MaxStep /\ (~setNow => 0 <= left[e])
  BY <1>2
<1>5. isOpen \in [Gates -> BOOLEAN] /\ index \in [Gates -> Nat] /\ phase \in [Gates -> Int]
  <2>1. \A g \in Gates : Start(g).isOpen \in BOOLEAN /\ Start(g).index \in Nat
    BY StartFacts
  <2>2. /\ isOpen = [g \in Gates |-> Start(g).isOpen]
        /\ index = [g \in Gates |-> Start(g).index]
    BY <1>1
  <2>3. phase \in [Gates -> Int]
    BY <1>1
  <2> QED
    BY <2>1, <2>2, <2>3, Zenon
<1>6. ASSUME NEW g \in Gates PROVE GateInv(g)
  <2>1. left[g] = Start(g).timer /\ phase[g] = 0
        /\ isOpen[g] = Start(g).isOpen /\ index[g] = Start(g).index
    BY <1>1, <1>2
  <2>2. PICK k \in 0..Len(Durations[g])-1 :
            /\ Start(g).index = (k + 1) % Len(Durations[g])
            /\ Start(g).isOpen = OpenIn(InitiallyOpen[g], k)
            /\ 0 % TotalDuration(Durations[g])
                = (EndTimes(Durations[g])[k+1] - Start(g).timer)
                        % TotalDuration(Durations[g])
    BY StartFacts
  <2>3. InInterval(g, k)
    BY <2>1, <2>2, Zenon DEF InInterval
  <2> QED
    BY <2>2, <2>3, Zenon DEF GateInv
<1>7. relative = [e \in Events |-> e \notin Gates] /\ setNow \in BOOLEAN
  BY <1>1
<1> QED
  BY <1>3, <1>4, <1>5, <1>6, <1>7, Zenon DEF SyncInv

-----------------------------------------------------------------------------
(* The steps.                                                                *)

LEMMA SyncFacts ==
    ASSUME SyncInv
    PROVE  /\ ClockInv /\ Gates \subseteq Events /\ MaxStep \in Nat
           /\ \A e \in Events : left[e] \in Int /\ timer[e] \in Nat
           /\ \A e \in Events : relative[e] = (e \notin Gates)
           /\ \A e \in Events : 0 <= left[e] + MaxStep
           /\ \A g \in Gates : phase[g] \in Int /\ index[g] \in Nat /\ isOpen[g] \in BOOLEAN
           /\ \A g \in Gates : GateInv(g)
  BY GatesAssumption DEF SyncInv, ClockInv

(* What a step that schedules one event again keeps of the invariant.        *)
LEMMA ScheduledAgain ==
    ASSUME SyncInv, NEW e \in Events, NEW n \in Nat, ClockInv',
           left' = [left EXCEPT ![e] = n],
           relative' = [relative EXCEPT ![e] = e \notin Gates],
           setNow' = setNow,
           isOpen' \in [Gates -> BOOLEAN], index' \in [Gates -> Nat],
           phase' \in [Gates -> Int],
           \A g \in Gates : g # e => /\ isOpen'[g] = isOpen[g] /\ index'[g] = index[g]
                                     /\ phase'[g] = phase[g],
           e \in Gates => GateInv(e)'
    PROVE  SyncInv'
<1>1. relative' = [f \in Events |-> f \notin Gates]
  BY DEF SyncInv
<1>2. \A f \in Events : 0 <= left'[f] + MaxStep /\ (~setNow' => 0 <= left'[f])
  BY SyncFacts DEF SyncInv
<1>3. ASSUME NEW g \in Gates, g # e PROVE GateInv(g)'
  <2>1. left'[g] = left[g] /\ GateInv(g)
    BY <1>3, SyncFacts DEF ClockInv
  <2> QED
    BY <1>3, <2>1, GateUnchanged
<1> QED
  BY <1>1, <1>2, <1>3 DEF SyncInv

LEMMA ChangeGateStep == ASSUME SyncInv, NEW g \in Gates, ChangeGate(g) PROVE SyncInv'
<1> DEFINE d == Durations[g]
           T == TotalDuration(d)
           l == left[g]
<1>1. /\ g \in Events /\ l \in Int /\ 0 <= l + MaxStep /\ ClockInv /\ MaxStep \in Nat
      /\ phase[g] \in Int /\ isOpen[g] \in BOOLEAN /\ relative[g] = (g \notin Gates)
      /\ relative[g] \in BOOLEAN
  BY SyncFacts
<1>2. /\ Len(d) \in Nat \ {0} /\ T \in Nat \ {0}
      /\ IsDurationList(d) /\ d # <<>> /\ InitiallyOpen[g] \in BOOLEAN
  BY GateFacts
<1>3. PICK k \in 0..Len(d)-1 : InInterval(g, k)
  BY SyncFacts DEF GateInv
<1>4. PICK j : j = (k + 1) % Len(d)
  OBVIOUS
<1>5. /\ j \in 0..Len(d)-1
      /\ OpenIn(InitiallyOpen[g], j) = ~OpenIn(InitiallyOpen[g], k)
      /\ EndTimes(d)[j] \in 0..T-1
      /\ EndTimes(d)[k+1] % T = EndTimes(d)[j]
      /\ EndTimes(d)[j+1] - d[j+1] = EndTimes(d)[j]
  <2> HIDE DEF d
  <2> QED
    BY <1>2, <1>3, <1>4, NextInterval
<1>6. /\ d[j+1] \in Nat \ {0} /\ MaxStep <= d[j+1]
      /\ EndTimes(d)[j] \in Nat /\ EndTimes(d)[j+1] \in Nat /\ EndTimes(d)[k+1] \in Nat
  BY <1>3, <1>5, GateFacts
<1>7. index[g] = j /\ isOpen[g] = OpenIn(InitiallyOpen[g], k)
      /\ phase[g] % T = (EndTimes(d)[k+1] - l) % T
  BY <1>3, <1>4 DEF InInterval
<1>8. /\ Schedule(g, d[j+1], -l, relative[g])
      /\ isOpen' = [isOpen EXCEPT ![g] = ~@]
      /\ index' = [index EXCEPT ![g] = (j + 1) % Len(d)]
      /\ phase' = phase /\ setNow' = setNow
  BY <1>7 DEF ChangeGate, ExecuteAndSchedule, DurationAt, IndexAfter
<1> HIDE DEF d, T, l
<1>9. -l \in Int /\ -l <= d[j+1] /\ d[j+1] \in Int /\ d[j+1] - (-l) = d[j+1] + l
  BY <1>1, <1>6, Negated
<1>10. /\ ClockInv'
       /\ left' = [left EXCEPT ![g] = d[j+1] - (-l)]
       /\ relative' = [relative EXCEPT ![g] = relative[g]]
  BY <1>1, <1>8, <1>9, ScheduleFacts
<1>11. d[j+1] + l \in Nat
  BY <1>1, <1>6
<1>12. left' = [left EXCEPT ![g] = d[j+1] + l] /\ left'[g] = d[j+1] + l
  BY <1>1, <1>9, <1>10 DEF ClockInv
<1>13. (j + 1) % Len(d) \in Nat
  <2> DEFINE n == Len(d)
             i == j + 1
  <2>1. n \in Nat \ {0} /\ i \in Int
    BY <1>2, <1>5
  <2> HIDE DEF n, i
  <2>2. i % n \in 0..n-1
    BY <2>1, DivMod
  <2>3. i % n \in Nat
    BY <2>1, <2>2
  <2> QED
    BY <2>3 DEF n, i
<1>14. /\ isOpen' \in [Gates -> BOOLEAN] /\ index' \in [Gates -> Nat]
       /\ phase' \in [Gates -> Int]
       /\ index'[g] = (j + 1) % Len(d)
       /\ isOpen'[g] = ~isOpen[g]
  BY <1>8, <1>13 DEF SyncInv
<1>15. phase'[g] % T = (EndTimes(d)[j+1] - (d[j+1] + l)) % T
  <2> DEFINE e == EndTimes(d)[k+1]
             b == EndTimes(d)[j]
             c == EndTimes(d)[j+1]
             n == d[j+1]
  <2>1. e \in Int /\ b \in Int /\ c \in Int /\ n \in Int /\ c - n = b
        /\ e % T = b /\ b \in 0..T-1
    BY <1>5, <1>6
  <2> HIDE DEF e, b, c, n
  <2>2. b % T = b
    BY <1>2, <2>1, ModSmall
  <2> DEFINE m == 0 - l
  <2>3. m \in Int /\ e - l = e + m /\ c - (n + l) = b + m
    BY <1>1, <2>1
  <2> HIDE DEF m
  <2>4. (e + m) % T = (b + m) % T
    <3>1. e \in Int /\ b \in Int /\ m \in Int /\ T \in Nat \ {0} /\ e % T = b % T
      BY <1>2, <2>1, <2>2, <2>3
    <3> QED
      BY <3>1, PositionLater
  <2>5. phase'[g] % T = (e - l) % T
    BY <1>7, <1>8 DEF e
  <2>6. phase'[g] % T = (c - (n + l)) % T
    BY <2>3, <2>4, <2>5, Zenon
  <2> QED
    BY <2>6 DEF c, n
<1>16. isOpen'[g] = OpenIn(InitiallyOpen[g], j)
  BY <1>5, <1>7, <1>14
<1>17. InInterval(g, j)'
  BY <1>12, <1>14, <1>15, <1>16 DEF InInterval, T, d
<1>18. GateInv(g)'
  BY <1>5, <1>17 DEF GateInv, d
<1>19. relative' = [relative EXCEPT ![g] = g \notin Gates]
  BY <1>1, <1>10
<1>20. \A h \in Gates : h # g => /\ isOpen'[h] = isOpen[h] /\ index'[h] = index[h]
                                 /\ phase'[h] = phase[h]
  BY <1>8 DEF SyncInv
<1> DEFINE n == d[j+1] + l
<1>21. /\ g \in Events /\ n \in Nat /\ ClockInv'
       /\ left' = [left EXCEPT ![g] = n] /\ setNow' = setNow
       /\ isOpen' \in [Gates -> BOOLEAN] /\ index' \in [Gates -> Nat]
       /\ phase' \in [Gates -> Int]
  BY <1>1, <1>8, <1>10, <1>11, <1>12, <1>14
<1> HIDE DEF n
<1> QED
  BY <1>18, <1>19, <1>20, <1>21, ScheduledAgain

LEMMA ExpireTimerStep ==
    ASSUME SyncInv, NEW e \in Events \ Gates, ExpireTimer(e)
    PROVE  SyncInv'
<1>1. /\ e \in Events /\ e \notin Gates /\ ClockInv /\ relative[e] = TRUE
      /\ left[e] \in Int /\ timer[e] \in Nat /\ Interval \in Nat
  BY SyncFacts, GatesAssumption
<1>2. /\ timer[e] = 0 /\ Schedule(e, Interval, -left[e], relative[e])
      /\ UNCHANGED <<isOpen, index, phase, setNow>>
  BY DEF ExpireTimer, ExecuteAndSchedule
<1>3. left[e] = 0
  BY <1>1, <1>2 DEF ClockInv
<1>4. -left[e] = 0
  BY <1>1, <1>3, NegatedZero, Zenon
<1>5. Schedule(e, Interval, 0, TRUE)
  BY <1>1, <1>2, <1>4, Zenon
<1>6. /\ ClockInv'
      /\ left' = [left EXCEPT ![e] = Interval - 0]
      /\ relative' = [relative EXCEPT ![e] = TRUE]
  <2>1. Interval \in Int /\ 0 \in Int /\ 0 <= Interval
    BY <1>1
  <2>2. TRUE \in BOOLEAN
    BY Zenon
  <2> QED
    BY <1>1, <1>5, <2>1, <2>2, ScheduleFacts, Zenon
<1>7. /\ left' = [left EXCEPT ![e] = Interval]
      /\ relative' = [relative EXCEPT ![e] = e \notin Gates]
  <2>1. Interval - 0 = Interval
    BY <1>1
  <2>2. (e \notin Gates) = TRUE
    BY <1>1
  <2> QED
    BY <1>6, <2>1, <2>2, Zenon
<1>8. isOpen' \in [Gates -> BOOLEAN] /\ index' \in [Gates -> Nat] /\ phase' \in [Gates -> Int]
  BY <1>2 DEF SyncInv
<1> QED
  BY <1>1, <1>2, <1>6, <1>7, <1>8, ScheduledAgain

LEMMA RestartStep == ASSUME SyncInv, NEW g \in Gates, Restart(g) PROVE SyncInv'
<1> DEFINE d == Durations[g]
           n == Start(g).timer
<1>1. /\ g \in Events /\ ClockInv /\ n \in Nat
      /\ Start(g).isOpen \in BOOLEAN /\ Start(g).index \in Nat
  BY SyncFacts, StartFacts
<1>2. /\ Schedule(g, n, 0, FALSE)
      /\ isOpen' = [isOpen EXCEPT ![g] = Start(g).isOpen]
      /\ index' = [index EXCEPT ![g] = Start(g).index]
      /\ phase' = [phase EXCEPT ![g] = 0]
      /\ setNow' = setNow
  BY DEF Restart, Reschedule
<1>3. PICK k \in 0..Len(d)-1 :
        /\ Start(g).index = (k + 1) % Len(d)
        /\ Start(g).isOpen = OpenIn(InitiallyOpen[g], k)
        /\ 0 % TotalDuration(d) = (EndTimes(d)[k+1] - n) % TotalDuration(d)
  BY StartFacts
<1> HIDE DEF n
<1>4. /\ ClockInv'
      /\ left' = [left EXCEPT ![g] = n - 0]
      /\ relative' = [relative EXCEPT ![g] = FALSE]
  <2>1. n \in Int /\ 0 \in Int /\ 0 <= n
    BY <1>1
  <2>2. FALSE \in BOOLEAN
    BY Zenon
  <2> QED
    BY <1>1, <1>2, <2>1, <2>2, ScheduleFacts, Zenon
<1>5. /\ left' = [left EXCEPT ![g] = n] /\ left'[g] = n
      /\ relative' = [relative EXCEPT ![g] = g \notin Gates]
  <2>1. n - 0 = n
    BY <1>1
  <2>2. (g \notin Gates) = FALSE
    OBVIOUS
  <2>3. left' = [left EXCEPT ![g] = n] /\ left \in [Events -> Int]
    BY <1>1, <1>4, <2>1, Zenon DEF ClockInv
  <2>4. left'[g] = n
    BY <1>1, <2>3
  <2>5. relative' = [relative EXCEPT ![g] = g \notin Gates]
    BY <1>4, <2>2, Zenon
  <2> QED
    BY <2>3, <2>4, <2>5
<1>6. /\ isOpen' \in [Gates -> BOOLEAN] /\ index' \in [Gates -> Nat]
      /\ phase' \in [Gates -> Int]
      /\ isOpen'[g] = Start(g).isOpen /\ index'[g] = Start(g).index /\ phase'[g] = 0
  BY <1>1, <1>2 DEF SyncInv
<1>7. InInterval(g, k)'
  BY <1>3, <1>5, <1>6 DEF InInterval
<1>8. GateInv(g)'
  BY <1>3, <1>7 DEF GateInv
<1>9. \A h \in Gates : h # g => /\ isOpen'[h] = isOpen[h] /\ index'[h] = index[h]
                                /\ phase'[h] = phase[h]
  BY <1>2 DEF SyncInv
<1>10. /\ g \in Events /\ n \in Nat /\ ClockInv' /\ setNow' = setNow
       /\ left' = [left EXCEPT ![g] = n]
       /\ relative' = [relative EXCEPT ![g] = g \notin Gates]
       /\ isOpen' \in [Gates -> BOOLEAN] /\ index' \in [Gates -> Nat]
       /\ phase' \in [Gates -> Int]
  BY <1>1, <1>2, <1>4, <1>5, <1>6
<1> QED
  BY <1>8, <1>9, <1>10, ScheduledAgain

LEMMA SetClockStep ==
    ASSUME AllExecute, SyncInv, NEW delta \in -MaxStep..MaxStep, SetClock(delta)
    PROVE  SyncInv'
<1>1. /\ ClockInv /\ Gates \subseteq Events /\ MaxStep \in Nat
      /\ \A e \in Events : left[e] \in Int /\ relative[e] = (e \notin Gates)
      /\ \A g \in Gates : phase[g] \in Int /\ GateInv(g)
  BY SyncFacts
<1>2. delta \in Int /\ delta <= MaxStep
  BY <1>1
<1>3. /\ SetClockTime(delta) /\ ~setNow /\ setNow' = TRUE
      /\ phase' = [g \in Gates |-> (phase[g] + delta) % TotalDuration(Durations[g])]
      /\ UNCHANGED <<isOpen, index>>
  BY DEF SetClock
<1>4. /\ ClockInv' /\ relative' = relative
      /\ left' = [e \in Events |-> IF relative[e] THEN left[e] ELSE left[e] - delta]
  BY <1>1, <1>2, <1>3, SetClockTimeFacts
<1>5. \A e \in Events : 0 <= left'[e] + MaxStep
  <2> TAKE e \in Events
  <2>1. 0 <= left[e] /\ left[e] \in Int
    BY <1>3, <1>1 DEF SyncInv
  <2>2. left'[e] = left[e] \/ left'[e] = left[e] - delta
    BY <1>4
  <2> QED
    BY <1>1, <1>2, <2>1, <2>2
<1>6. phase' \in [Gates -> Int]
  <2>1. ASSUME NEW g \in Gates
        PROVE  (phase[g] + delta) % TotalDuration(Durations[g]) \in Int
    <3> DEFINE p == phase[g] + delta
               T == TotalDuration(Durations[g])
    <3>1. p \in Int /\ T \in Nat \ {0}
      BY <1>1, <1>2, GateFacts
    <3> HIDE DEF p, T
    <3>2. p % T \in 0..T-1
      BY <3>1, DivMod
    <3>3. p % T \in Int
      BY <3>1, <3>2
    <3> QED
      BY <3>3 DEF p, T
  <2> QED
    BY <1>3, <2>1
<1>7. ASSUME NEW g \in Gates PROVE GateInv(g)'
  <2>1. left'[g] = left[g] - delta
    BY <1>1, <1>4
  <2>2. phase'[g] = (phase[g] + delta) % TotalDuration(Durations[g])
    BY <1>3
  <2>3. phase[g] \in Int /\ left[g] \in Int /\ GateInv(g)
    BY <1>1
  <2> QED
    BY <1>2, <1>3, <2>1, <2>2, <2>3, GateLater
<1> QED
  BY <1>3, <1>4, <1>5, <1>6, <1>7 DEF SyncInv

LEMMA TickStep == ASSUME SyncInv, Tick PROVE SyncInv'
<1>1. /\ ClockInv /\ Gates \subseteq Events /\ MaxStep \in Nat
      /\ \A e \in Events : left[e] \in Int /\ timer[e] \in Nat
      /\ \A g \in Gates : phase[g] \in Int /\ GateInv(g)
  BY SyncFacts
<1>2. /\ \A e \in Events : timer[e] # 0
      /\ left' = [e \in Events |-> IF timer[e] # Unscheduled THEN left[e] - 1 ELSE 0]
      /\ timer' = [e \in Events |-> IF timer[e] # Unscheduled THEN timer[e] - 1
                                                              ELSE Unscheduled]
      /\ UNCHANGED <<events, relative, failed, isOpen, index>>
      /\ phase' = [g \in Gates |-> (phase[g] + 1) % TotalDuration(Durations[g])]
      /\ setNow' = FALSE
  BY DEF Tick, TickClock, IsScheduled
<1>3. \A e \in Events : timer[e] # Unscheduled
  <2> TAKE e \in Events
  <2>1. timer[e] \in Nat
    BY <1>1
  <2> QED
    BY <2>1, ScheduledTimer, Zenon
<1>4. left' = [e \in Events |-> left[e] - 1] /\ timer' = [e \in Events |-> timer[e] - 1]
  BY <1>2, <1>3
<1>5. \A e \in Events : timer[e] = left[e]
  <2> TAKE e \in Events
  <2>1. timer[e] = left[e] \/ timer[e] = Arrival(left[e])
    BY <1>1, Zenon DEF ClockInv
  <2> QED
    BY <1>1, <1>2, <2>1 DEF Arrival
<1>6. \A e \in Events : left'[e] \in Nat /\ timer'[e] = left'[e] /\ Arrival(left'[e]) = left'[e]
  <2> TAKE e \in Events
  <2>1. timer[e] - 1 \in Nat /\ left[e] - 1 = timer[e] - 1
    BY <1>1, <1>2, <1>5
  <2>2. left'[e] \in Nat /\ timer'[e] = left'[e]
    BY <1>4, <2>1
  <2> QED
    BY <2>2 DEF Arrival
<1>7. left' \in [Events -> Int] /\ timer' \in [Events -> Nat]
  BY <1>4, <1>6
<1>8. ClockInv'
  <2>1. \A e \in Events : timer'[e] = IF relative'[e] THEN left'[e] ELSE Arrival(left'[e])
    BY <1>6, Zenon
  <2> QED
    BY <1>1, <1>2, <1>7, <2>1 DEF ClockInv, EachOnce
<1>9. \A e \in Events : 0 <= left'[e] + MaxStep /\ 0 <= left'[e]
  BY <1>1, <1>6
<1>10. ASSUME NEW g \in Gates PROVE GateInv(g)' /\ phase'[g] \in Int
  <2>1. left'[g] = left[g] - 1 /\ 1 \in Int
    BY <1>1, <1>4
  <2>2. phase'[g] = (phase[g] + 1) % TotalDuration(Durations[g])
    BY <1>2
  <2>3. phase[g] \in Int /\ left[g] \in Int /\ GateInv(g)
    BY <1>1
  <2>4. GateInv(g)'
    BY <1>2, <2>1, <2>2, <2>3, GateLater
  <2>5. phase'[g] \in Int
    <3> DEFINE p == phase[g] + 1
               T == TotalDuration(Durations[g])
    <3>1. p \in Int /\ T \in Nat \ {0}
      BY <2>3, GateFacts
    <3> HIDE DEF p, T
    <3>2. p % T \in 0..T-1
      BY <3>1, DivMod
    <3>3. p % T \in Int
      BY <3>1, <3>2
    <3> QED
      BY <2>2, <3>3 DEF p, T
  <2> QED
    BY <2>4, <2>5
<1>11. phase' \in [Gates -> Int]
  BY <1>2, <1>10
<1> QED
  BY <1>2, <1>8, <1>9, <1>10, <1>11 DEF SyncInv

LEMMA SyncNext == ASSUME AllExecute, SyncInv, [Next]_vars PROVE SyncInv'
<1>1. CASE \E g \in Gates : ChangeGate(g)
  BY <1>1, ChangeGateStep
<1>2. CASE \E g \in Gates : Restart(g)
  BY <1>2, RestartStep
<1>3. CASE \E e \in Events \ Gates : ExpireTimer(e)
  BY <1>3, ExpireTimerStep
<1>4. CASE \E delta \in -MaxStep..MaxStep : SetClock(delta)
  BY <1>4, SetClockStep
<1>5. CASE Tick
  BY <1>5, TickStep
<1>6. CASE UNCHANGED vars
  BY <1>6 DEF SyncInv, ClockInv, EachOnce, GateInv, InInterval, vars
<1> QED
  BY <1>1, <1>2, <1>3, <1>4, <1>5, <1>6 DEF Next

-----------------------------------------------------------------------------

(* With all events executed when they are overdue, each change event is at   *)
(* the end of an interval of its gate's list, measured in clock time.        *)
THEOREM SyncInvariant == ASSUME AllExecute PROVE Spec => []SyncInv
<1>1. SyncInv /\ [Next]_vars => SyncInv'
  BY SyncNext
<1> QED
  BY <1>1, SyncInit, PTL DEF Spec

(* However often the clock is set, an event that was scheduled at a clock    *)
(* time arrives when the clock shows it, or at once if that is over          *)
(* (SettableClock::setClockTime).                                            *)
THEOREM Anchored == ASSUME AllExecute PROVE Spec => []EventsAnchored
<1>1. SyncInv => EventsAnchored
  BY Zenon DEF SyncInv, ClockInv, EventsAnchored, Arrival
<1> QED
  BY <1>1, SyncInvariant, PTL

(* However often the clock is set, an event that was scheduled after a delay *)
(* keeps its simulation time, and the clock time its handler will see is     *)
(* that of the clock by then (SettableClock::setClockTime).                  *)
THEOREM DelayedOnTime == ASSUME AllExecute PROVE Spec => []DelayedEventsOnTime
<1>1. SyncInv => DelayedEventsOnTime
  BY Zenon DEF SyncInv, ClockInv, DelayedEventsOnTime
<1> QED
  BY <1>1, SyncInvariant, PTL

(* The gates of a switch follow its clock, and no change event is ever       *)
(* scheduled in the past, for every list of durations that are no shorter    *)
(* than the largest step of the clock (PeriodicGate::handleMessage,          *)
(* SettableClock::setClockTime).                                             *)
THEOREM GatesFollow == ASSUME AllExecute PROVE Spec => []GatesFollowClock
<1>1. ASSUME SyncInv PROVE GatesFollowClock
  <2>1. failed = "no"
    BY <1>1 DEF SyncInv, ClockInv
  <2>2. SUFFICES ASSUME NEW g \in Gates, timer[g] > 0, left[g] <= CurrentDuration(g)
                 PROVE  isOpen[g] = PrescribedOpen(InitiallyOpen[g], 0, Durations[g], phase[g])
    BY <2>1 DEF GatesFollowClock
  <2> DEFINE d == Durations[g]
             T == TotalDuration(d)
             l == left[g]
  <2>3. /\ l \in Int /\ phase[g] \in Int /\ g \in Events
        /\ timer[g] = Arrival(l)
    BY <1>1, SyncFacts DEF ClockInv
  <2>4. 0 < l
    BY <2>2, <2>3 DEF Arrival
  <2>5. PICK k \in 0..Len(d)-1 : InInterval(g, k)
    BY <1>1, SyncFacts DEF GateInv
  <2>6. /\ IsDurationList(d) /\ d # <<>> /\ InitiallyOpen[g] \in BOOLEAN
        /\ Len(d) \in Nat \ {0} /\ T \in Nat \ {0} /\ IsPositiveList(d)
    BY GateFacts
  <2> DEFINE b == EndTimes(d)[k]
             e == EndTimes(d)[k+1]
             n == d[k+1]
  <2>7. b \in Nat /\ e \in Nat /\ n \in Nat /\ e = b + n /\ e <= T
    BY <2>5, <2>6, EndTimesNext, TotalDurationFacts
  <2>8. CurrentDuration(g) = n
    <3>1. (((k + 1) % Len(d)) - 1) % Len(d) = k
      BY <2>5, <2>6, IndexBefore
    <3> QED
      BY <2>5, <3>1 DEF CurrentDuration, DurationAt, InInterval
  <2>9. l <= n
    BY <2>2, <2>8
  <2>10. phase[g] % T = (e - l) % T
    BY <2>5 DEF InInterval
  <2> HIDE DEF b, e, n, l, T
  <2>11. e - l \in 0..T-1 /\ b <= e - l /\ e - l < e
    BY <2>3, <2>4, <2>6, <2>7, <2>9
  <2>12. (0 + phase[g]) % T = e - l
    <3> DEFINE y == e - l
    <3>1. y \in 0..T-1 /\ phase[g] % T = y % T
      BY <2>10, <2>11
    <3> HIDE DEF y
    <3>2. y % T = y
      BY <2>6, <3>1, ModSmall
    <3>3. 0 + phase[g] = phase[g]
      BY <2>3
    <3> QED
      BY <3>1, <3>2, <3>3 DEF y
  <2>13. Within(d, k, (0 + phase[g]) % TotalDuration(d))
    BY <2>5, <2>11, <2>12 DEF Within, T, b, e
  <2>14. PrescribedOpen(InitiallyOpen[g], 0, d, phase[g]) = OpenIn(InitiallyOpen[g], k)
    <3> DEFINE t == phase[g]
               open == InitiallyOpen[g]
    <3>1. /\ t \in Int /\ 0 \in Int /\ IsDurationList(d) /\ d # <<>>
          /\ Within(d, k, (0 + t) % TotalDuration(d))
      BY <2>3, <2>6, <2>13
    <3> HIDE DEF t, open, d
    <3>2. PrescribedOpen(open, 0, d, t) = OpenIn(open, k)
      BY <3>1, PrescribedIsOpenIn
    <3> QED
      BY <3>2 DEF t, open
  <2> QED
    BY <2>5, <2>14 DEF InInterval
<1> QED
  BY <1>1, SyncInvariant, PTL

=============================================================================
