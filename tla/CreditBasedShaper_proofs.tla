----------------------- MODULE CreditBasedShaper_proofs -----------------------
(***************************************************************************)
(* The credit based gate with the standard credit limit of 0, for all frame  *)
(* lengths, gaps, spend rates, clamps of the credit, schedules and loads:    *)
(* its stale state is corrected before it matters, and behind a gate that is *)
(* always open the credit and the use of the line are bounded.               *)
(*                                                                         *)
(* With another limit GainRateIsCurrent is false: the change timer stops at  *)
(* the limit, while updateCurrentCreditGainRate looks at whether the credit  *)
(* is negative.                                                              *)
(***************************************************************************)
EXTENDS CreditBasedShaper, GateSchedule_proofs

Own == isTransmitting \/ isInterpacketGap

-----------------------------------------------------------------------------
(* The inductive invariant.                                                  *)

TypeInv ==
    /\ queue \in Seq(Lengths)
    /\ credit \in MinCredit..MaxCredit
    /\ gainRate \in {1, 0, -SpendRate}
    /\ creditTimer \in Nat \cup {NotScheduled}
    /\ creditOpen \in BOOLEAN
    /\ isTransmitting \in BOOLEAN /\ isInterpacketGap \in BOOLEAN
    /\ isOpen \in BOOLEAN
    /\ serveTimer \in BOOLEAN
    /\ txEndTimer \in 0..MaxLength \cup {NotScheduled}
    /\ gapLeft \in 0..Gap
    /\ gapTimer \in 0..Gap \cup {NotScheduled}

(* Frame and gap follow each other, and the credit based gate knows which of *)
(* them are its own.                                                         *)
LineInv ==
    /\ isTransmitting => txEndTimer # NotScheduled
    /\ isInterpacketGap => gapTimer # NotScheduled
    /\ txEndTimer # NotScheduled => gapTimer = NotScheduled
    /\ gapTimer # NotScheduled => gapLeft = gapTimer
    /\ txEndTimer = NotScheduled /\ gapTimer = NotScheduled => gapLeft = 0

(* The change timer runs down with the distance of the credit to the limit.  *)
CreditTimerInv ==
    /\ creditTimer # 0 => gainRate = GainRateNow
    /\ creditTimer # NotScheduled =>
        \/ gainRate = 1 /\ credit + creditTimer = 0
        \/ gainRate = -SpendRate /\ credit = SpendRate * creditTimer
    /\ gainRate = 1 /\ credit < 0 => creditTimer # NotScheduled

(* The gate is only wrong about the limit while its own frame or gap is on   *)
(* the line, or the change timer is due.                                     *)
OpenInv == ~Own /\ creditTimer # 0 => creditOpen = (credit >= 0)

ShaperInv == TypeInv /\ LineInv /\ CreditTimerInv /\ OpenInv

-----------------------------------------------------------------------------

LEMMA Constants ==
    /\ MaxLength \in Nat \ {0} /\ Lengths \subseteq 1..MaxLength
    /\ SpendRate \in Nat \ {0} /\ Gap \in Nat \ {0}
    /\ MinCredit \in Int /\ MaxCredit \in Int
    /\ MinCredit <= 0 /\ 0 <= MaxCredit
    /\ \A s \in Schedules : s.initiallyOpen \in BOOLEAN
  BY ShaperAssumption

LEMMA ProductStep ==
    ASSUME NEW s \in Int, NEW n \in Int
    PROVE  s * n \in Int /\ s * (n - 1) = s * n - s /\ s * (n + 1) = s * n + s
  OBVIOUS

LEMMA ProductMonotone ==
    ASSUME NEW s \in Nat, NEW n \in Int, NEW m \in Int, n <= m
    PROVE  s * n <= s * m
<1>1. s * (m - n) >= 0
  OBVIOUS
<1>2. s * (m - n) = s * m - s * n
  OBVIOUS
<1>3. s * m \in Int /\ s * n \in Int
  OBVIOUS
<1> QED
  BY <1>1, <1>2, <1>3

(* A change timer for credit c that changes by rate.                         *)
LEMMA TimerFacts ==
    ASSUME Limit = 0, NEW c \in Int, NEW rate \in {1, 0, -SpendRate}, NEW timer,
           timer = IF rate > 0 /\ c < Limit THEN Limit - c
                   ELSE IF rate < 0 /\ c > Limit /\ (c - Limit) % SpendRate = 0
                   THEN (c - Limit) \div SpendRate
                   ELSE NotScheduled
    PROVE  /\ timer \in Nat \cup {NotScheduled}
           /\ timer # NotScheduled =>
                \/ rate = 1 /\ c + timer = 0
                \/ rate = -SpendRate /\ c = SpendRate * timer
           /\ rate = 1 /\ c < 0 => timer # NotScheduled
<1>1. SpendRate \in Nat \ {0} /\ Limit = 0
  BY Constants
<1>2. CASE rate = 1
  BY <1>1, <1>2 DEF NotScheduled
<1>3. CASE rate = 0
  BY <1>1, <1>3 DEF NotScheduled
<1>4. CASE rate = -SpendRate
  <2> DEFINE q == c \div SpendRate
             r == c % SpendRate
  <2>1. timer = IF c > 0 /\ r = 0 THEN q ELSE NotScheduled
    <3>1. c - Limit = c /\ (c > Limit <=> c > 0)
      BY <1>1
    <3>2. ~(rate > 0) /\ rate < 0
      BY <1>1, <1>4
    <3> QED
      BY <3>1, <3>2
  <2>2. q \in Int /\ r \in Int /\ c = SpendRate * q + r
    BY <1>1, DivMod
  <2> HIDE DEF q, r
  <2>3. c > 0 /\ r = 0 => q \in Nat /\ c = SpendRate * q
    <3> SUFFICES ASSUME c > 0, r = 0 PROVE q \in Nat /\ c = SpendRate * q
      OBVIOUS
    <3>1. c = SpendRate * q
      BY <1>1, <2>2
    <3>2. ~(q <= 0)
      <4> SUFFICES ASSUME q <= 0 PROVE FALSE
        OBVIOUS
      <4>1. SpendRate * q <= SpendRate * 0
        BY <1>1, <2>2, ProductMonotone
      <4> QED
        BY <1>1, <3>1, <4>1
    <3> QED
      BY <2>2, <3>1, <3>2
  <2>4. rate # 1
    BY <1>1, <1>4
  <2> QED
    BY <1>4, <2>1, <2>3, <2>4
<1> QED
  BY <1>2, <1>3, <1>4

(* What the end of each handler leaves behind.                               *)
LEMMA UpdateStep ==
    ASSUME Limit = 0, NEW looks, UpdateCurrentState(looks), credit' \in Int
    PROVE  /\ creditOpen' \in BOOLEAN /\ creditOpen' = (credit' >= 0)
           /\ gainRate' \in {1, 0, -SpendRate}
           /\ creditTimer' \in Nat \cup {NotScheduled}
           /\ CreditTimerInv' /\ OpenInv'
<1>1. /\ creditOpen' = (credit' >= 0)
      /\ gainRate' = GainRateNow'
      /\ creditTimer' = TimeToLimit'
  BY DEF UpdateCurrentState
<1>2. gainRate' \in {1, 0, -SpendRate}
  BY <1>1 DEF GainRateNow
<1>3. creditTimer' = IF gainRate' > 0 /\ credit' < Limit THEN Limit - credit'
                     ELSE IF gainRate' < 0 /\ credit' > Limit
                                /\ (credit' - Limit) % SpendRate = 0
                     THEN (credit' - Limit) \div SpendRate
                     ELSE NotScheduled
  BY <1>1, Zenon DEF TimeToLimit
<1>4. PICK c \in Int, rate \in {1, 0, -SpendRate}, timer \in {creditTimer'} :
            c = credit' /\ rate = gainRate' /\ timer = creditTimer'
  BY <1>2, Zenon
<1>5. /\ timer \in Nat \cup {NotScheduled}
      /\ timer # NotScheduled =>
            \/ rate = 1 /\ c + timer = 0
            \/ rate = -SpendRate /\ c = SpendRate * timer
      /\ rate = 1 /\ c < 0 => timer # NotScheduled
  <2>1. timer = IF rate > 0 /\ c < Limit THEN Limit - c
                ELSE IF rate < 0 /\ c > Limit /\ (c - Limit) % SpendRate = 0
                THEN (c - Limit) \div SpendRate
                ELSE NotScheduled
    BY <1>3, <1>4, Zenon
  <2> QED
    BY <2>1, TimerFacts
<1>6. /\ creditTimer' # NotScheduled =>
            \/ gainRate' = 1 /\ credit' + creditTimer' = 0
            \/ gainRate' = -SpendRate /\ credit' = SpendRate * creditTimer'
      /\ gainRate' = 1 /\ credit' < 0 => creditTimer' # NotScheduled
  BY <1>4, <1>5, Zenon
<1>7. CreditTimerInv'
  BY <1>1, <1>6, Zenon DEF CreditTimerInv
<1>8. creditTimer' \in Nat \cup {NotScheduled}
  BY <1>4, <1>5, Zenon
<1> QED
  BY <1>1, <1>2, <1>7, <1>8 DEF OpenInv

-----------------------------------------------------------------------------
(* Every action preserves the invariant.                                     *)

LEMMA CreditIsInt == ASSUME TypeInv PROVE credit \in Int /\ txEndTimer \in Int /\ gapTimer \in Int
  BY Constants DEF TypeInv, NotScheduled

LEMMA ShaperInit == ASSUME Limit = 0, Init PROVE ShaperInv
<1>1. /\ credit = 0 /\ queue = <<>> /\ ~isTransmitting /\ ~isInterpacketGap
      /\ creditOpen = (credit >= 0)
      /\ isTransmitting \in BOOLEAN /\ isInterpacketGap \in BOOLEAN
  BY DEF Init
<1>2. isOpen \in BOOLEAN
  <2>1. PICK s \in Schedules :
            isOpen = StartOf(s.initiallyOpen, s.offset, s.durations).isOpen
    BY DEF Init
  <2>2. s.initiallyOpen \in BOOLEAN
    BY Constants
  <2> DEFINE k == Skipped(s.durations, s.offset % TotalDuration(s.durations))
  <2>3. \/ isOpen = s.initiallyOpen
        \/ isOpen = IF k % 2 = 0 THEN s.initiallyOpen ELSE ~s.initiallyOpen
    BY <2>1 DEF StartOf
  <2> HIDE DEF k
  <2> QED
    BY <2>2, <2>3
<1>3. GainRateNow = 0
  BY <1>1 DEF GainRateNow, HasAvailablePacket
<1>4. gainRate = 0
  BY <1>3 DEF Init
<1>5. creditTimer = NotScheduled
  BY <1>4 DEF Init, TimeToLimit
<1>6. TypeInv
  BY <1>1, <1>2, <1>4, <1>5, Constants DEF Init, TypeInv
<1>7. LineInv
  BY DEF Init, LineInv
<1>8. CreditTimerInv
  BY <1>3, <1>4, <1>5 DEF CreditTimerInv
<1> QED
  BY <1>1, <1>6, <1>7, <1>8 DEF ShaperInv, OpenInv

LEMMA ArriveStep ==
    ASSUME Limit = 0, ShaperInv, NEW frame \in Lengths, Arrive(frame)
    PROVE  ShaperInv'
<1>1. UpdateCurrentState(creditOpen')
  BY DEF Arrive
<1>2. /\ queue' = IF Len(queue) < PacketCapacity THEN Append(queue, frame) ELSE queue
      /\ UNCHANGED <<credit, isTransmitting, isInterpacketGap, isOpen, phy>>
      /\ serveTimer' = (serveTimer \/ (creditOpen' /\ isOpen) \/ WakesServer)
  BY DEF Arrive, gate
<1>3. queue' \in Seq(Lengths)
  BY <1>2 DEF ShaperInv, TypeInv
<1>4. credit' \in Int
  BY <1>2, CreditIsInt DEF ShaperInv
<1>5. /\ gainRate' \in {1, 0, -SpendRate} /\ creditTimer' \in Nat \cup {NotScheduled}
      /\ creditOpen' \in BOOLEAN /\ CreditTimerInv' /\ OpenInv'
  BY <1>1, <1>4, UpdateStep
<1>6. serveTimer' \in BOOLEAN
  BY <1>2
<1>7. TypeInv'
  BY <1>2, <1>3, <1>5, <1>6 DEF ShaperInv, TypeInv, phy
<1>8. LineInv'
  BY <1>2 DEF ShaperInv, LineInv, phy
<1> QED
  BY <1>5, <1>7, <1>8 DEF ShaperInv

LEMMA ArriveOtherStep == ASSUME ShaperInv, ArriveOther PROVE ShaperInv'
<1>1. /\ UNCHANGED <<queue, credit, shaper, isTransmitting, isInterpacketGap, isOpen,
                     isInGuardBand, phy>>
      /\ serveTimer' = TRUE
  BY DEF ArriveOther, gate
<1>2. TypeInv'
  BY <1>1 DEF ShaperInv, TypeInv, phy, shaper
<1>3. LineInv'
  BY <1>1 DEF ShaperInv, LineInv, phy
<1>4. CreditTimerInv' /\ OpenInv'
  BY <1>1 DEF ShaperInv, CreditTimerInv, OpenInv, Own, GainRateNow, HasAvailablePacket, shaper
<1> QED
  BY <1>2, <1>3, <1>4 DEF ShaperInv

LEMMA ChangeGateStep == ASSUME Limit = 0, ShaperInv, ChangeGate PROVE ShaperInv'
<1>1. UpdateCurrentState(TRUE)
  BY DEF ChangeGate
<1>2. /\ UNCHANGED <<queue, credit, isTransmitting, isInterpacketGap, phy>>
      /\ serveTimer' = TRUE /\ isOpen' = ~isOpen
  BY DEF ChangeGate
<1>3. credit' \in Int
  BY <1>2, CreditIsInt DEF ShaperInv
<1>4. /\ gainRate' \in {1, 0, -SpendRate} /\ creditTimer' \in Nat \cup {NotScheduled}
      /\ creditOpen' \in BOOLEAN /\ CreditTimerInv' /\ OpenInv'
  BY <1>1, <1>3, UpdateStep
<1>5. TypeInv'
  BY <1>2, <1>4 DEF ShaperInv, TypeInv, phy
<1>6. LineInv'
  BY <1>2 DEF ShaperInv, LineInv, phy
<1> QED
  BY <1>4, <1>5, <1>6 DEF ShaperInv

LEMMA CreditReachesLimitStep ==
    ASSUME Limit = 0, ShaperInv, CreditReachesLimit PROVE ShaperInv'
<1>1. UpdateCurrentState(FALSE)
  BY DEF CreditReachesLimit
<1>2. /\ UNCHANGED <<queue, isTransmitting, isInterpacketGap, isOpen, phy>>
      /\ credit' = 0
      /\ serveTimer' = (serveTimer \/ WakesServer)
  BY DEF CreditReachesLimit, gate
<1>3. credit' \in Int /\ credit' \in MinCredit..MaxCredit
  BY <1>2, Constants
<1>4. /\ gainRate' \in {1, 0, -SpendRate} /\ creditTimer' \in Nat \cup {NotScheduled}
      /\ creditOpen' \in BOOLEAN /\ CreditTimerInv' /\ OpenInv'
  BY <1>1, <1>3, UpdateStep
<1>5. serveTimer' \in BOOLEAN
  BY <1>2
<1>6. TypeInv'
  BY <1>2, <1>3, <1>4, <1>5 DEF ShaperInv, TypeInv, phy
<1>7. LineInv'
  BY <1>2 DEF ShaperInv, LineInv, phy
<1> QED
  BY <1>4, <1>6, <1>7 DEF ShaperInv

LEMMA EndTxStep == ASSUME Limit = 0, ShaperInv, EndTx PROVE ShaperInv'
<1>1. /\ UNCHANGED <<queue, credit, isOpen>>
      /\ txEndTimer = 0 /\ txEndTimer' = NotScheduled /\ gapLeft' = Gap /\ gapTimer' = Gap
      /\ isTransmitting' = FALSE
      /\ isInterpacketGap' = (isInterpacketGap \/ isTransmitting)
  BY DEF EndTx, gate
<1>2. LineInv'
  BY <1>1, Constants DEF LineInv, NotScheduled
<1>5. /\ txEndTimer' \in 0..MaxLength \cup {NotScheduled}
      /\ gapLeft' \in 0..Gap /\ gapTimer' \in 0..Gap \cup {NotScheduled}
  BY <1>1, Constants
<1>3. CASE isTransmitting
  <2>1. UpdateCurrentState(FALSE) /\ serveTimer' = (serveTimer \/ WakesServer)
    BY <1>3 DEF EndTx
  <2>2. credit' \in Int
    BY <1>1, CreditIsInt DEF ShaperInv
  <2>3. /\ gainRate' \in {1, 0, -SpendRate} /\ creditTimer' \in Nat \cup {NotScheduled}
        /\ creditOpen' \in BOOLEAN /\ CreditTimerInv' /\ OpenInv'
    BY <2>1, <2>2, UpdateStep
  <2>4. serveTimer' \in BOOLEAN /\ isInterpacketGap' \in BOOLEAN
    BY <1>1, <2>1
  <2>5. TypeInv'
    <3>1. UNCHANGED <<queue, credit, isOpen>> /\ isTransmitting' \in BOOLEAN
      BY <1>1
    <3> QED
      BY <1>5, <2>3, <2>4, <3>1 DEF ShaperInv, TypeInv
  <2> QED
    BY <1>2, <2>3, <2>5 DEF ShaperInv
<1>4. CASE ~isTransmitting
  <2>1. UNCHANGED <<shaper, isInGuardBand, serveTimer>>
    BY <1>4 DEF EndTx
  <2>2. isInterpacketGap' = isInterpacketGap /\ isTransmitting' = isTransmitting
    BY <1>1, <1>4 DEF ShaperInv, TypeInv
  <2>3. TypeInv'
    <3>1. UNCHANGED <<queue, credit, gainRate, creditTimer, creditOpen, isTransmitting,
                      isInterpacketGap, isOpen, serveTimer>>
      BY <1>1, <2>1, <2>2 DEF shaper
    <3> QED
      BY <1>5, <3>1 DEF ShaperInv, TypeInv
  <2>4. CreditTimerInv' /\ OpenInv'
    BY <1>1, <2>1, <2>2
    DEF ShaperInv, CreditTimerInv, OpenInv, Own, GainRateNow, HasAvailablePacket, shaper
  <2> QED
    BY <1>2, <2>3, <2>4 DEF ShaperInv
<1> QED
  BY <1>3, <1>4

LEMMA EndGapStep == ASSUME Limit = 0, ShaperInv, EndGap PROVE ShaperInv'
<1>1. /\ UNCHANGED <<queue, isTransmitting, isOpen, txEndTimer, gapLeft>>
      /\ gapTimer = 0 /\ gapTimer' = NotScheduled /\ isInterpacketGap' = FALSE
  BY DEF EndGap, gate
<1>2. LineInv'
  BY <1>1 DEF ShaperInv, LineInv, NotScheduled
<1>3. CASE isInterpacketGap
  <2>1. /\ UpdateCurrentState(FALSE)
        /\ serveTimer' = (serveTimer \/ WakesServer \/ CanPush)
        /\ credit' = IF HasAvailablePacket \/ credit < 0 THEN credit ELSE 0
    BY <1>3 DEF EndGap
  <2>2. credit' \in Int /\ credit' \in MinCredit..MaxCredit
    BY <2>1, Constants, CreditIsInt DEF ShaperInv, TypeInv
  <2>3. /\ gainRate' \in {1, 0, -SpendRate} /\ creditTimer' \in Nat \cup {NotScheduled}
        /\ creditOpen' \in BOOLEAN /\ CreditTimerInv' /\ OpenInv'
    BY <2>1, <2>2, UpdateStep
  <2>4. serveTimer' \in BOOLEAN
    BY <2>1
  <2>5. TypeInv'
    BY <1>1, <2>2, <2>3, <2>4 DEF ShaperInv, TypeInv
  <2> QED
    BY <1>2, <2>3, <2>5 DEF ShaperInv
<1>4. CASE ~isInterpacketGap
  <2>1. UNCHANGED <<credit, shaper, isInGuardBand>> /\ serveTimer' = (serveTimer \/ CanPush)
    BY <1>4 DEF EndGap
  <2>2. isInterpacketGap' = isInterpacketGap /\ serveTimer' \in BOOLEAN
    BY <1>1, <1>4, <2>1 DEF ShaperInv, TypeInv
  <2>3. TypeInv'
    BY <1>1, <2>1, <2>2 DEF ShaperInv, TypeInv, shaper
  <2>4. CreditTimerInv' /\ OpenInv'
    BY <1>1, <2>1, <2>2
    DEF ShaperInv, CreditTimerInv, OpenInv, Own, GainRateNow, HasAvailablePacket, shaper
  <2> QED
    BY <1>2, <2>3, <2>4 DEF ShaperInv
<1> QED
  BY <1>3, <1>4

LEMMA FrameTime ==
    ASSUME NEW frame \in Lengths PROVE frame \in 0..MaxLength /\ frame # NotScheduled
  BY Constants DEF NotScheduled

(* When the server is called, nothing is on the line.                        *)
LEMMA LineIsFree ==
    ASSUME ShaperInv, ServeDue, CanPush
    PROVE  txEndTimer = NotScheduled /\ gapTimer = NotScheduled /\ ~Own
  BY DEF ShaperInv, LineInv, ServeDue, TimerDue, CanPush, Own

LEMMA ServeStep == ASSUME Limit = 0, ShaperInv, Serve PROVE ShaperInv'
<1>1. /\ queue # <<>> /\ queue' = Tail(queue) /\ txEndTimer' = Head(queue)
      /\ gapLeft' = Gap /\ isTransmitting' = TRUE
      /\ UNCHANGED <<credit, isInterpacketGap, isOpen, gapTimer>>
      /\ UpdateCurrentState(FALSE)
      /\ serveTimer' = WakesServer
  BY DEF Serve, CanPull, CreditGateOffers, HasAvailablePacket, gate
<1>2. credit' \in Int
  BY <1>1, CreditIsInt DEF ShaperInv
<1>3. /\ gainRate' \in {1, 0, -SpendRate} /\ creditTimer' \in Nat \cup {NotScheduled}
      /\ creditOpen' \in BOOLEAN /\ CreditTimerInv' /\ OpenInv'
  BY <1>1, <1>2, UpdateStep
<1>4. queue' \in Seq(Lengths) /\ Head(queue) \in Lengths
  BY <1>1 DEF ShaperInv, TypeInv
<1>5. Head(queue) \in 0..MaxLength /\ Head(queue) # NotScheduled
  BY <1>4, FrameTime
<1>6. serveTimer' \in BOOLEAN
  BY <1>1 DEF WakesServer
<1>7. TypeInv'
  BY <1>1, <1>3, <1>4, <1>5, <1>6, Constants DEF ShaperInv, TypeInv
<1>8. txEndTimer = NotScheduled /\ gapTimer = NotScheduled /\ ~Own
  BY LineIsFree DEF Serve
<1>9. LineInv'
  BY <1>1, <1>5, <1>8 DEF LineInv, Own
<1> QED
  BY <1>3, <1>7, <1>9 DEF ShaperInv

LEMMA ServeOtherStep ==
    ASSUME ShaperInv, NEW frame \in Lengths, ServeOther(frame) PROVE ShaperInv'
<1>1. /\ UNCHANGED <<queue, credit, shaper, isTransmitting, isInterpacketGap, isOpen,
                     isInGuardBand, gapTimer>>
      /\ serveTimer' = FALSE /\ txEndTimer' = frame /\ gapLeft' = Gap
  BY DEF ServeOther, gate
<1>2. frame \in 0..MaxLength /\ frame # NotScheduled
  BY FrameTime
<1>3. TypeInv'
  <2>1. Gap \in 0..Gap
    BY Constants
  <2> QED
    BY <1>1, <1>2, <2>1, Zenon DEF ShaperInv, TypeInv, shaper
<1>4. txEndTimer = NotScheduled /\ gapTimer = NotScheduled /\ ~Own
  BY LineIsFree DEF ServeOther
<1>5. LineInv'
  BY <1>1, <1>2, <1>4 DEF LineInv, Own
<1>6. CreditTimerInv' /\ OpenInv'
  BY <1>1 DEF ShaperInv, CreditTimerInv, OpenInv, Own, GainRateNow, HasAvailablePacket, shaper
<1> QED
  BY <1>3, <1>5, <1>6 DEF ShaperInv

LEMMA ServeNothingStep == ASSUME ShaperInv, ServeNothing PROVE ShaperInv'
<1>1. /\ UNCHANGED <<queue, credit, shaper, isTransmitting, isInterpacketGap, isOpen,
                     isInGuardBand, phy>>
      /\ serveTimer' = FALSE
  BY DEF ServeNothing, gate
<1>2. TypeInv'
  BY <1>1 DEF ShaperInv, TypeInv, phy, shaper
<1>3. LineInv'
  BY <1>1 DEF ShaperInv, LineInv, phy
<1>4. CreditTimerInv' /\ OpenInv'
  BY <1>1 DEF ShaperInv, CreditTimerInv, OpenInv, Own, GainRateNow, HasAvailablePacket, shaper
<1> QED
  BY <1>2, <1>3, <1>4 DEF ShaperInv

(* Time passes.  No timer is due, so the gain rate is the current one.       *)
LEMMA TickFacts ==
    ASSUME ShaperInv, Tick
    PROVE  /\ ~serveTimer /\ changeTimer # 0 /\ creditTimer # 0
           /\ txEndTimer # 0 /\ gapTimer # 0
           /\ gainRate = GainRateNow
           /\ Own => gainRate = -SpendRate
           /\ ~Own => /\ creditOpen = (credit >= 0)
                      /\ gainRate \in {0, 1}
                      /\ gainRate = 1 => credit < 0 \/ queue # <<>>
           /\ credit' = Clamp(credit + gainRate)
           /\ UNCHANGED <<queue, creditOpen, gainRate, isTransmitting, isInterpacketGap,
                          durations, isOpen, isInGuardBand, serveTimer>>
<1>1. /\ ~serveTimer /\ changeTimer # 0 /\ creditTimer # 0 /\ txEndTimer # 0 /\ gapTimer # 0
      /\ credit' = Clamp(credit + gainRate)
      /\ UNCHANGED <<queue, creditOpen, gainRate, isTransmitting, isInterpacketGap,
                     durations, isOpen, isInGuardBand, serveTimer>>
  BY DEF Tick, TimerDue
<1>2. gainRate = GainRateNow /\ (~Own => creditOpen = (credit >= 0))
  BY <1>1 DEF ShaperInv, CreditTimerInv, OpenInv
<1>3. /\ Own => gainRate = -SpendRate
      /\ ~Own => gainRate \in {0, 1} /\ (gainRate = 1 => credit < 0 \/ queue # <<>>)
  BY <1>2 DEF GainRateNow, Own, HasAvailablePacket
<1> QED
  BY <1>1, <1>2, <1>3

(* The clamps do not keep the credit from the limit.                         *)
LEMMA ClampFacts ==
    ASSUME NEW c \in Int
    PROVE  /\ Clamp(c) \in MinCredit..MaxCredit
           /\ Clamp(c) <= c \/ Clamp(c) <= 0
           /\ Clamp(c) >= c \/ Clamp(c) >= 0
           /\ c \in MinCredit..MaxCredit => Clamp(c) = c
           /\ MinCredit <= c => Clamp(c) <= c
  BY Constants DEF Clamp

LEMMA TickStep == ASSUME Limit = 0, ShaperInv, Tick PROVE ShaperInv'
<1>1. /\ ~serveTimer /\ creditTimer # 0 /\ txEndTimer # 0 /\ gapTimer # 0
      /\ gainRate = GainRateNow
      /\ ~Own => creditOpen = (credit >= 0) /\ gainRate \in {0, 1}
      /\ gainRate = 1 => ~Own
      /\ credit' = Clamp(credit + gainRate)
      /\ UNCHANGED <<queue, creditOpen, gainRate, isTransmitting, isInterpacketGap,
                     isOpen, isInGuardBand, serveTimer>>
  BY TickFacts, Constants
<1>2. /\ creditTimer' = IF creditTimer = NotScheduled THEN NotScheduled ELSE creditTimer - 1
      /\ txEndTimer' = IF txEndTimer = NotScheduled THEN NotScheduled ELSE txEndTimer - 1
      /\ gapTimer' = IF gapTimer = NotScheduled THEN NotScheduled ELSE gapTimer - 1
      /\ gapLeft' = IF gapLeft = 0 THEN 0 ELSE gapLeft - 1
  BY DEF Tick, TimerAfterTick
<1>3. /\ credit \in Int /\ credit \in MinCredit..MaxCredit
      /\ gainRate \in {1, 0, -SpendRate} /\ gainRate \in Int
      /\ SpendRate \in Nat \ {0}
  BY Constants, CreditIsInt DEF ShaperInv, TypeInv
<1>0. PICK c \in Int : c = credit + gainRate
  BY <1>3
<1>4. /\ Clamp(c) \in MinCredit..MaxCredit /\ credit' = Clamp(c)
      /\ Clamp(c) <= c \/ Clamp(c) <= 0
      /\ Clamp(c) >= c \/ Clamp(c) >= 0
      /\ c \in MinCredit..MaxCredit => Clamp(c) = c
  BY <1>1, <1>0, ClampFacts
<1>5. TypeInv'
  <2>1. /\ creditTimer' \in Nat \cup {NotScheduled}
        /\ txEndTimer' \in 0..MaxLength \cup {NotScheduled}
        /\ gapTimer' \in 0..Gap \cup {NotScheduled}
        /\ gapLeft' \in 0..Gap
    BY <1>1, <1>2, Constants DEF ShaperInv, TypeInv, NotScheduled
  <2> QED
    BY <1>1, <1>4, <2>1 DEF ShaperInv, TypeInv
<1>6. LineInv'
  BY <1>1, <1>2, Constants DEF ShaperInv, TypeInv, LineInv, NotScheduled
<1>7. CASE creditTimer = NotScheduled
  <2>1. creditTimer' = NotScheduled /\ ~(gainRate = 1 /\ credit < 0)
    BY <1>2, <1>7 DEF ShaperInv, CreditTimerInv
  <2>2. gainRate' = 1 => ~(credit' < 0)
    BY <1>1, <1>3, <1>4, <1>0, <2>1, Constants
  <2>3. ~Own => (credit < 0 <=> credit' < 0)
    <3> SUFFICES ASSUME ~Own PROVE credit < 0 <=> credit' < 0
      OBVIOUS
    <3>1. CASE gainRate = 0
      BY <1>3, <1>4, <1>0, <3>1
    <3>2. CASE gainRate = 1
      <4>1. ~(credit < 0) /\ ~(c < 0)
        BY <1>3, <1>0, <2>1, <3>2
      <4> QED
        BY <1>3, <1>4, <1>0, <4>1
    <3> QED
      BY <1>1, <3>1, <3>2
  <2>4. GainRateNow' = GainRateNow
    BY <1>1, <2>3 DEF GainRateNow, HasAvailablePacket, Own
  <2>5. CreditTimerInv'
    BY <1>1, <2>1, <2>2, <2>4 DEF CreditTimerInv
  <2>6. OpenInv'
    <3>1. ~Own => (credit >= 0 <=> credit' >= 0)
      BY <1>3, <1>4, <1>0, <2>3, Constants
    <3> QED
      BY <1>1, <3>1 DEF OpenInv, Own
  <2> QED
    BY <1>5, <1>6, <2>5, <2>6 DEF ShaperInv
<1>8. CASE creditTimer # NotScheduled
  <2>1. creditTimer \in Nat \ {0} /\ creditTimer' = creditTimer - 1
    BY <1>1, <1>2, <1>8 DEF ShaperInv, TypeInv
  <2>0. PICK n \in Nat : n = creditTimer - 1
    BY <2>1
  <2>2. CASE gainRate = 1
    <3>1. credit + creditTimer = 0
      BY <1>3, <1>8, <2>2 DEF ShaperInv, CreditTimerInv
    <3>2. c + n = 0 /\ c \in MinCredit..MaxCredit /\ credit < 0
      BY <1>3, <1>0, <2>1, <2>0, <2>2, <3>1, Constants
    <3>3. credit' = c /\ creditTimer' = n
      BY <1>4, <2>1, <2>0, <3>2
    <3>4. n # 0 => c < 0
      BY <3>2
    <3>5. n # 0 => GainRateNow' = GainRateNow
      BY <1>1, <3>2, <3>3, <3>4 DEF GainRateNow, HasAvailablePacket
    <3>6. CreditTimerInv'
      BY <1>1, <2>2, <3>2, <3>3, <3>5 DEF CreditTimerInv, NotScheduled
    <3>7. OpenInv'
      <4>1. n # 0 => ~(c >= 0) /\ ~(credit >= 0)
        BY <1>3, <3>2, <3>4
      <4> QED
        BY <1>1, <3>3, <4>1 DEF OpenInv, Own
    <3> QED
      BY <1>5, <1>6, <3>6, <3>7 DEF ShaperInv
  <2>3. CASE gainRate # 1
    <3>1. gainRate = -SpendRate /\ credit = SpendRate * creditTimer
      BY <1>8, <2>3 DEF ShaperInv, CreditTimerInv
    <3>2. c = SpendRate * n
      <4>1. SpendRate * (creditTimer - 1) = SpendRate * creditTimer - SpendRate
        BY <1>3, <2>1, ProductStep
      <4> QED
        BY <1>3, <1>0, <2>0, <3>1, <4>1
    <3>3. c >= 0 /\ c <= credit
      <4>1. SpendRate * 0 <= SpendRate * n
        BY <1>3, ProductMonotone
      <4> QED
        BY <1>3, <1>0, <3>1, <3>2, <4>1
    <3>4. credit' = c /\ creditTimer' = n
      BY <1>3, <1>4, <2>1, <2>0, <3>3, Constants
    <3>5. Own /\ Own'
      BY <1>1, <1>3, <3>1 DEF Own
    <3>6. GainRateNow' = GainRateNow
      BY <1>1, <3>5 DEF GainRateNow, Own
    <3>7. CreditTimerInv'
      <4>1. gainRate' = -SpendRate /\ credit' = SpendRate * creditTimer' /\ gainRate' # 1
        BY <1>1, <1>3, <2>3, <3>1, <3>2, <3>4
      <4> QED
        BY <1>1, <3>6, <4>1 DEF CreditTimerInv
    <3>8. OpenInv'
      BY <3>5 DEF OpenInv
    <3> QED
      BY <1>5, <1>6, <3>7, <3>8 DEF ShaperInv
  <2> QED
    BY <2>2, <2>3
<1> QED
  BY <1>7, <1>8

LEMMA ShaperNext == ASSUME Limit = 0, ShaperInv, [Next]_vars PROVE ShaperInv'
<1>1. CASE \E frame \in Lengths : Arrive(frame)
  BY <1>1, ArriveStep
<1>2. CASE ArriveOther
  BY <1>2, ArriveOtherStep
<1>3. CASE ChangeGate
  BY <1>3, ChangeGateStep
<1>4. CASE CreditReachesLimit
  BY <1>4, CreditReachesLimitStep
<1>5. CASE EndTx
  BY <1>5, EndTxStep
<1>6. CASE EndGap
  BY <1>6, EndGapStep
<1>7. CASE Serve
  BY <1>7, ServeStep
<1>8. CASE \E frame \in Lengths : ServeOther(frame)
  BY <1>8, ServeOtherStep
<1>9. CASE ServeNothing
  BY <1>9, ServeNothingStep
<1>10. CASE Tick
  BY <1>10, TickStep
<1>11. CASE UNCHANGED vars
  BY <1>11 DEF vars, shaper, gate, phy, ShaperInv, TypeInv, LineInv, CreditTimerInv, OpenInv,
               Own, GainRateNow, HasAvailablePacket
<1> QED
  BY <1>1, <1>2, <1>3, <1>4, <1>5, <1>6, <1>7, <1>8, <1>9, <1>10, <1>11 DEF Next, Event

(* With the standard limit, the credit based gate is in a consistent state   *)
(* after every event (CreditBasedGate.cc).                                   *)
THEOREM ShaperInvariant == ASSUME Limit = 0 PROVE Spec => []ShaperInv
<1>1. Init => ShaperInv
  BY ShaperInit
<1>2. ShaperInv /\ [Next]_vars => ShaperInv'
  BY ShaperNext
<1> QED
  BY <1>1, <1>2, PTL DEF Spec

(* The gate is open exactly when the credit is at the limit or above it,     *)
(* whenever it is asked and no frame or gap of its own is on the line: the   *)
(* lazy updates of the credit and the change timer miss nothing.             *)
THEOREM GateOpenByCredit == ASSUME Limit = 0 PROVE Spec => []OpenByCredit
<1>1. ShaperInv => OpenByCredit
  BY DEF ShaperInv, OpenInv, OpenByCredit, Quiet, TimerDue, Own
<1> QED
  BY <1>1, ShaperInvariant, PTL

(* The credit changes at the rate the state of the line, the transmission    *)
(* gate, its guard band and the queue call for.                              *)
THEOREM GainRate == ASSUME Limit = 0 PROVE Spec => []GainRateIsCurrent
<1>1. ShaperInv => GainRateIsCurrent
  BY DEF ShaperInv, CreditTimerInv, GainRateIsCurrent, Quiet, TimerDue
<1> QED
  BY <1>1, ShaperInvariant, PTL

-----------------------------------------------------------------------------
(* The bounds behind a transmission gate that is always open.                *)

(* What the class can have earned at most since the line was taken from it:  *)
(* at the start of a frame of another class its credit was not positive.     *)
Earned ==
    CASE Own -> HiCredit
      [] ~Own /\ txEndTimer # NotScheduled -> MaxLength - txEndTimer
      [] ~Own /\ txEndTimer = NotScheduled /\ gapTimer # NotScheduled -> HiCredit - gapTimer
      [] ~Own /\ txEndTimer = NotScheduled /\ gapTimer = NotScheduled -> HiCredit

(* The longest time its own frame and gap can have been on the line.         *)
Spent ==
    CASE isTransmitting -> MaxLength - txEndTimer
      [] ~isTransmitting /\ isInterpacketGap -> HiCredit - gapTimer
      [] ~Own -> HiCredit

ShutInv == ~isOpen => credit = 0 /\ ~Own
IdleInv == queue = <<>> /\ ~Own => credit <= 0
WakeInv ==
    CanPush /\ gapTimer = NotScheduled /\ queue # <<>> /\ creditOpen /\ isOpen => serveTimer
EarnedInv == credit <= Earned
SpentInv == credit + SpendRate * Spent >= 0
UsageInv == usage \in Nat /\ (MinCredit <= LoCredit => usage + credit <= HiCredit)

BoundInv ==
    AlwaysOpen => /\ changeTimer = NotScheduled
                  /\ ShutInv /\ IdleInv /\ WakeInv
                  /\ EarnedInv /\ SpentInv /\ UsageInv

LEMMA BoundFacts ==
    /\ HiCredit \in Nat \ {0} /\ HiCredit = MaxLength + Gap
    /\ SpendRate * HiCredit \in Nat
    /\ LoCredit + SpendRate * HiCredit = 0 /\ LoCredit \in Int /\ LoCredit <= 0
<1>1. MaxLength \in Nat \ {0} /\ Gap \in Nat \ {0} /\ SpendRate \in Nat \ {0}
  BY Constants
<1>2. HiCredit \in Nat \ {0} /\ HiCredit = MaxLength + Gap
  BY <1>1 DEF HiCredit
<1>3. SpendRate * 0 <= SpendRate * HiCredit /\ SpendRate * HiCredit \in Int
  BY <1>1, <1>2, ProductMonotone, ProductStep
<1>4. LoCredit = -(SpendRate * HiCredit)
  BY <1>1, <1>2 DEF LoCredit
<1> QED
  BY <1>1, <1>2, <1>3, <1>4

LEMMA EarnedSpentType ==
    ASSUME ShaperInv
    PROVE  Earned \in Nat /\ Earned <= HiCredit /\ Spent \in Nat /\ Spent <= HiCredit
<1>1. /\ MaxLength \in Nat /\ Gap \in Nat /\ HiCredit \in Nat /\ HiCredit = MaxLength + Gap
      /\ txEndTimer # NotScheduled => txEndTimer \in 0..MaxLength
      /\ gapTimer # NotScheduled => gapTimer \in 0..Gap
  BY BoundFacts, Constants DEF ShaperInv, TypeInv
<1>2. /\ isTransmitting => txEndTimer # NotScheduled
      /\ isInterpacketGap => gapTimer # NotScheduled
  BY DEF ShaperInv, LineInv
<1>3. \A t \in 0..MaxLength : MaxLength - t \in Nat /\ MaxLength - t <= HiCredit
  BY <1>1
<1>4. \A t \in 0..Gap : HiCredit - t \in Nat /\ HiCredit - t <= HiCredit
  BY <1>1
<1>5. Earned \in Nat /\ Earned <= HiCredit
  BY <1>1, <1>3, <1>4 DEF Earned
<1>6. Spent \in Nat /\ Spent <= HiCredit
  BY <1>1, <1>2, <1>3, <1>4 DEF Spent, Own
<1> QED
  BY <1>5, <1>6

(* As long as the line and the credit stay as they are, so do the bounds.    *)
LEMMA SameLine ==
    ASSUME UNCHANGED <<isTransmitting, isInterpacketGap, txEndTimer, gapTimer, credit, usage>>,
           EarnedInv, SpentInv, UsageInv
    PROVE  EarnedInv' /\ SpentInv' /\ UsageInv'
<1>1. Earned' = Earned
  BY DEF Earned, Own
<1>2. Spent' = Spent
  BY DEF Spent, Own
<1> QED
  BY <1>1, <1>2 DEF EarnedInv, SpentInv, UsageInv

LEMMA BoundInit == ASSUME Limit = 0, Init PROVE BoundInv
<1> SUFFICES ASSUME AlwaysOpen
             PROVE  /\ changeTimer = NotScheduled
                    /\ ShutInv /\ IdleInv /\ WakeInv /\ EarnedInv /\ SpentInv /\ UsageInv
  BY DEF BoundInv
<1>1. changeTimer = NotScheduled
  BY DEF Init, AlwaysOpen, StartOf
<1>2. /\ credit = 0 /\ queue = <<>> /\ ~Own /\ usage = 0
      /\ txEndTimer = NotScheduled /\ gapTimer = NotScheduled
  BY DEF Init, Own
<1>3. Earned = HiCredit /\ Spent = HiCredit
  BY <1>2 DEF Earned, Spent, Own
<1> QED
  BY <1>1, <1>2, <1>3, BoundFacts
  DEF ShutInv, IdleInv, WakeInv, EarnedInv, SpentInv, UsageInv

LEMMA ArriveBound ==
    ASSUME ShaperInv, BoundInv, NEW frame \in Lengths, Arrive(frame)
    PROVE  BoundInv'
<1> SUFFICES ASSUME AlwaysOpen'
             PROVE  /\ changeTimer' = NotScheduled
                    /\ ShutInv' /\ IdleInv' /\ WakeInv' /\ EarnedInv' /\ SpentInv' /\ UsageInv'
  BY DEF BoundInv
<1>1. /\ queue' = IF Len(queue) < PacketCapacity THEN Append(queue, frame) ELSE queue
      /\ UNCHANGED <<credit, isTransmitting, isInterpacketGap, durations, isOpen, changeTimer,
                     txEndTimer, gapTimer, usage>>
      /\ creditOpen' /\ isOpen => serveTimer'
  BY DEF Arrive, gate, phy
<1>2. /\ changeTimer = NotScheduled
      /\ ShutInv /\ IdleInv /\ WakeInv /\ EarnedInv /\ SpentInv /\ UsageInv
  BY <1>1 DEF BoundInv, AlwaysOpen
<1>3. queue' = <<>> => queue = <<>>
  BY <1>1 DEF ShaperInv, TypeInv
<1>4. ShutInv' /\ IdleInv' /\ WakeInv'
  BY <1>1, <1>2, <1>3 DEF ShutInv, IdleInv, WakeInv, Own
<1>5. EarnedInv' /\ SpentInv' /\ UsageInv'
  BY <1>1, <1>2, SameLine
<1> QED
  BY <1>1, <1>2, <1>4, <1>5

LEMMA ArriveOtherBound == ASSUME BoundInv, ArriveOther PROVE BoundInv'
<1> SUFFICES ASSUME AlwaysOpen'
             PROVE  /\ changeTimer' = NotScheduled
                    /\ ShutInv' /\ IdleInv' /\ WakeInv' /\ EarnedInv' /\ SpentInv' /\ UsageInv'
  BY DEF BoundInv
<1>1. /\ UNCHANGED <<queue, credit, isTransmitting, isInterpacketGap, durations, isOpen,
                     changeTimer, txEndTimer, gapTimer, usage>>
      /\ serveTimer' = TRUE
  BY DEF ArriveOther, gate, phy
<1>2. /\ changeTimer = NotScheduled
      /\ ShutInv /\ IdleInv /\ WakeInv /\ EarnedInv /\ SpentInv /\ UsageInv
  BY <1>1 DEF BoundInv, AlwaysOpen
<1>3. ShutInv' /\ IdleInv' /\ WakeInv'
  BY <1>1, <1>2 DEF ShutInv, IdleInv, WakeInv, Own
<1>4. EarnedInv' /\ SpentInv' /\ UsageInv'
  BY <1>1, <1>2, SameLine
<1> QED
  BY <1>1, <1>2, <1>3, <1>4

LEMMA CreditReachesLimitBound ==
    ASSUME Limit = 0, ShaperInv, BoundInv, CreditReachesLimit PROVE BoundInv'
<1> SUFFICES ASSUME AlwaysOpen'
             PROVE  /\ changeTimer' = NotScheduled
                    /\ ShutInv' /\ IdleInv' /\ WakeInv' /\ EarnedInv' /\ SpentInv' /\ UsageInv'
  BY DEF BoundInv
<1>1. credit = 0
  BY CreditIsInt, Constants
  DEF CreditReachesLimit, ShaperInv, TypeInv, CreditTimerInv, NotScheduled
<1>2. /\ UNCHANGED <<queue, credit, isTransmitting, isInterpacketGap, durations, isOpen,
                     changeTimer, txEndTimer, gapTimer, gapLeft, usage>>
      /\ serveTimer' = (serveTimer \/ WakesServer)
  BY <1>1 DEF CreditReachesLimit, gate, phy
<1>3. /\ changeTimer = NotScheduled
      /\ ShutInv /\ IdleInv /\ WakeInv /\ EarnedInv /\ SpentInv /\ UsageInv
  BY <1>2 DEF BoundInv, AlwaysOpen
<1>4. ShutInv' /\ IdleInv'
  BY <1>2, <1>3 DEF ShutInv, IdleInv, Own
<1>5. WakeInv'
  BY <1>2, <1>3 DEF WakeInv, WakesServer, CanPush
<1>6. EarnedInv' /\ SpentInv' /\ UsageInv'
  BY <1>2, <1>3, SameLine
<1> QED
  BY <1>2, <1>3, <1>4, <1>5, <1>6

LEMMA EndTxBound == ASSUME ShaperInv, BoundInv, EndTx PROVE BoundInv'
<1> SUFFICES ASSUME AlwaysOpen'
             PROVE  /\ changeTimer' = NotScheduled
                    /\ ShutInv' /\ IdleInv' /\ WakeInv' /\ EarnedInv' /\ SpentInv' /\ UsageInv'
  BY DEF BoundInv
<1>1. /\ UNCHANGED <<queue, credit, durations, isOpen, changeTimer, usage>>
      /\ txEndTimer = 0 /\ txEndTimer' = NotScheduled /\ gapTimer' = Gap
      /\ isTransmitting' = FALSE
      /\ isInterpacketGap' = (isInterpacketGap \/ isTransmitting)
  BY DEF EndTx, gate
<1>2. /\ changeTimer = NotScheduled
      /\ ShutInv /\ IdleInv /\ WakeInv /\ EarnedInv /\ SpentInv /\ UsageInv
  BY <1>1 DEF BoundInv, AlwaysOpen
<1>3. Own' <=> Own
  BY <1>1 DEF Own
<1>4. ~isInterpacketGap /\ Gap # NotScheduled
  BY <1>1, Constants DEF ShaperInv, LineInv, NotScheduled
<1>5. ShutInv' /\ IdleInv' /\ WakeInv'
  BY <1>1, <1>2, <1>3, <1>4 DEF ShutInv, IdleInv, WakeInv
<1>6. MaxLength - 0 = HiCredit - Gap
  BY BoundFacts, Constants
<1>7. Earned' = Earned /\ Spent' = Spent
  <2>1. CASE isTransmitting
    <3>1. Earned = HiCredit /\ Spent = MaxLength - 0
      BY <1>1, <2>1 DEF Earned, Spent, Own
    <3>2. Earned' = HiCredit /\ Spent' = HiCredit - Gap
      BY <1>1, <2>1 DEF Earned, Spent, Own
    <3> QED
      BY <1>6, <3>1, <3>2
  <2>2. CASE ~isTransmitting
    <3>1. Earned = MaxLength - 0 /\ Spent = HiCredit
      BY <1>1, <1>4, <2>2 DEF Earned, Spent, Own, NotScheduled
    <3>2. Earned' = HiCredit - Gap /\ Spent' = HiCredit
      BY <1>1, <1>4, <2>2 DEF Earned, Spent, Own
    <3> QED
      BY <1>6, <3>1, <3>2
  <2> QED
    BY <2>1, <2>2
<1>8. EarnedInv' /\ SpentInv' /\ UsageInv'
  BY <1>1, <1>2, <1>7 DEF EarnedInv, SpentInv, UsageInv
<1> QED
  BY <1>1, <1>2, <1>5, <1>8

LEMMA EndGapBound == ASSUME Limit = 0, ShaperInv, BoundInv, EndGap PROVE BoundInv'
<1> SUFFICES ASSUME AlwaysOpen'
             PROVE  /\ changeTimer' = NotScheduled
                    /\ ShutInv' /\ IdleInv' /\ WakeInv' /\ EarnedInv' /\ SpentInv' /\ UsageInv'
  BY DEF BoundInv
<1>1. /\ UNCHANGED <<queue, durations, isOpen, changeTimer, usage, isTransmitting, txEndTimer>>
      /\ gapTimer = 0 /\ gapTimer' = NotScheduled /\ isInterpacketGap' = FALSE
  BY DEF EndGap, gate
<1>2. /\ changeTimer = NotScheduled
      /\ ShutInv /\ IdleInv /\ WakeInv /\ EarnedInv /\ SpentInv /\ UsageInv
  BY <1>1 DEF BoundInv, AlwaysOpen
<1>3. txEndTimer = NotScheduled /\ ~isTransmitting /\ gapLeft = 0
  BY <1>1 DEF ShaperInv, LineInv, NotScheduled
<1>4. ~Own' /\ Earned' = HiCredit /\ Spent' = HiCredit
  BY <1>1, <1>3 DEF Earned, Spent, Own
<1>5. WakeInv'
  <2>1. CanPush
    BY <1>3 DEF CanPush
  <2>2. serveTimer' = TRUE
    BY <2>1 DEF EndGap
  <2> QED
    BY <2>2 DEF WakeInv
<1>6. credit \in Int
  BY CreditIsInt DEF ShaperInv
<1>7. credit' = credit \/ (credit >= 0 /\ credit' = 0)
  <2>1. \/ credit' = credit
        \/ ~(credit < 0) /\ credit' = 0
    BY DEF EndGap
  <2> QED
    BY <1>6, <2>1
<1>8. ShutInv' /\ IdleInv'
  <2>1. CASE isInterpacketGap
    <3>1. credit' = IF HasAvailablePacket \/ credit < 0 THEN credit ELSE 0
      BY <2>1 DEF EndGap
    <3> QED
      BY <1>1, <1>2, <1>4, <1>6, <2>1, <3>1 DEF ShutInv, IdleInv, HasAvailablePacket, Own
  <2>2. CASE ~isInterpacketGap
    <3>1. credit' = credit /\ ~Own
      BY <1>3, <2>2 DEF EndGap, Own
    <3> QED
      BY <1>1, <1>2, <1>4, <3>1 DEF ShutInv, IdleInv
  <2> QED
    BY <2>1, <2>2
<1>9. EarnedInv' /\ SpentInv' /\ UsageInv'
  <2>1. Spent = HiCredit
    <3>1. HiCredit - 0 = HiCredit
      BY BoundFacts
    <3> QED
      BY <1>1, <1>3, <3>1 DEF Spent, Own
  <2>2. credit <= HiCredit
    BY <1>2, <1>6, EarnedSpentType, BoundFacts DEF EarnedInv
  <2>3. credit + SpendRate * HiCredit >= 0 /\ usage \in Nat
        /\ (MinCredit <= LoCredit => usage + credit <= HiCredit)
    BY <1>2, <2>1 DEF SpentInv, UsageInv
  <2>4. CASE credit' = credit
    BY <1>1, <1>4, <2>2, <2>3, <2>4 DEF EarnedInv, SpentInv, UsageInv
  <2>5. CASE credit >= 0 /\ credit' = 0
    <3>1. MinCredit <= LoCredit => usage + 0 <= HiCredit
      BY <1>6, <2>3, <2>5, BoundFacts
    <3>2. 0 <= HiCredit /\ 0 + SpendRate * HiCredit >= 0
      BY BoundFacts
    <3> QED
      BY <1>1, <1>4, <2>3, <2>5, <3>1, <3>2 DEF EarnedInv, SpentInv, UsageInv
  <2> QED
    BY <1>7, <2>4, <2>5
<1> QED
  BY <1>1, <1>2, <1>5, <1>8, <1>9

(* The gate has the credit whenever the server takes a frame of the class.   *)
LEMMA ServeBound == ASSUME Limit = 0, ShaperInv, BoundInv, Serve PROVE BoundInv'
<1> SUFFICES ASSUME AlwaysOpen'
             PROVE  /\ changeTimer' = NotScheduled
                    /\ ShutInv' /\ IdleInv' /\ WakeInv' /\ EarnedInv' /\ SpentInv' /\ UsageInv'
  BY DEF BoundInv
<1>1. /\ queue # <<>> /\ creditOpen /\ isOpen
      /\ txEndTimer' = Head(queue) /\ isTransmitting' = TRUE
      /\ UNCHANGED <<credit, durations, isOpen, changeTimer, usage>>
      /\ ServeDue /\ CanPush
  BY DEF Serve, CanPull, CreditGateOffers, HasAvailablePacket, gate
<1>2. /\ changeTimer = NotScheduled
      /\ ShutInv /\ IdleInv /\ WakeInv /\ EarnedInv /\ SpentInv /\ UsageInv
  BY <1>1 DEF BoundInv, AlwaysOpen
<1>3. Head(queue) \in Lengths
  BY <1>1 DEF ShaperInv, TypeInv
<1>4. PICK n \in 0..MaxLength : n = txEndTimer' /\ n # NotScheduled
  BY <1>1, <1>3, FrameTime
<1>5. ShutInv' /\ IdleInv' /\ WakeInv'
  BY <1>1, <1>4 DEF ShutInv, IdleInv, WakeInv, Own, CanPush
<1>6. credit >= 0 /\ credit \in Int
  <2>1. ~Own /\ creditTimer # 0
    BY <1>1, LineIsFree DEF ServeDue, TimerDue
  <2> QED
    BY <1>1, <2>1, CreditIsInt DEF ShaperInv, OpenInv
<1>7. Earned' = HiCredit /\ Spent' = MaxLength - n
  BY <1>1, <1>4 DEF Earned, Spent, Own
<1>8. credit <= HiCredit
  BY <1>2, <1>6, EarnedSpentType, BoundFacts DEF EarnedInv
<1>9. credit + SpendRate * (MaxLength - n) >= 0
  <2>0. n \in 0..MaxLength
    BY <1>4
  <2>1. MaxLength - n \in Nat
    BY <2>0, Constants
  <2>2. SpendRate * 0 <= SpendRate * (MaxLength - n)
        /\ SpendRate * (MaxLength - n) \in Int /\ SpendRate * 0 = 0
    BY <2>1, ProductMonotone, ProductStep, Constants
  <2> QED
    BY <1>6, <2>2
<1>10. EarnedInv' /\ SpentInv' /\ UsageInv'
  BY <1>1, <1>2, <1>7, <1>8, <1>9 DEF EarnedInv, SpentInv, UsageInv
<1> QED
  BY <1>1, <1>2, <1>5, <1>10

(* A frame of another class is only taken when the class has nothing to send *)
(* or a debt.                                                                *)
LEMMA ServeOtherBound ==
    ASSUME Limit = 0, ShaperInv, BoundInv, NEW frame \in Lengths, ServeOther(frame)
    PROVE  BoundInv'
<1> SUFFICES ASSUME AlwaysOpen'
             PROVE  /\ changeTimer' = NotScheduled
                    /\ ShutInv' /\ IdleInv' /\ WakeInv' /\ EarnedInv' /\ SpentInv' /\ UsageInv'
  BY DEF BoundInv
<1>1. /\ ~CanPull /\ ServeDue /\ CanPush
      /\ txEndTimer' = frame
      /\ UNCHANGED <<queue, credit, creditOpen, isTransmitting, isInterpacketGap, durations,
                     isOpen, changeTimer, gapTimer, usage>>
  BY DEF ServeOther, gate, shaper
<1>2. /\ changeTimer = NotScheduled
      /\ ShutInv /\ IdleInv /\ WakeInv /\ EarnedInv /\ SpentInv /\ UsageInv
  BY <1>1 DEF BoundInv, AlwaysOpen
<1>3. frame \in 0..MaxLength /\ frame # NotScheduled
  BY FrameTime
<1>4. ~Own /\ gapTimer = NotScheduled /\ creditTimer # 0
  BY <1>1, LineIsFree DEF ServeDue, TimerDue
<1>5. credit <= 0 /\ credit \in Int
  <2>1. queue = <<>> \/ ~creditOpen \/ ~isOpen
    BY <1>1, <1>2 DEF CanPull, CreditGateOffers, HasAvailablePacket, CanPacketFlowThrough
  <2>2. ~creditOpen => ~(credit >= 0)
    BY <1>4 DEF ShaperInv, OpenInv
  <2> QED
    BY <1>2, <1>4, <2>1, <2>2, CreditIsInt DEF ShutInv, IdleInv, ShaperInv
<1>6. ShutInv' /\ IdleInv' /\ WakeInv'
  BY <1>1, <1>2, <1>3 DEF ShutInv, IdleInv, WakeInv, Own, CanPush
<1>7. Earned' = MaxLength - frame /\ Spent' = Spent
  BY <1>1, <1>3, <1>4 DEF Earned, Spent, Own
<1>8. credit <= MaxLength - frame
  BY <1>3, <1>5, Constants
<1>9. EarnedInv' /\ SpentInv' /\ UsageInv'
  BY <1>1, <1>2, <1>7, <1>8 DEF EarnedInv, SpentInv, UsageInv
<1> QED
  BY <1>1, <1>2, <1>6, <1>9

LEMMA ServeNothingBound == ASSUME ShaperInv, BoundInv, ServeNothing PROVE BoundInv'
<1> SUFFICES ASSUME AlwaysOpen'
             PROVE  /\ changeTimer' = NotScheduled
                    /\ ShutInv' /\ IdleInv' /\ WakeInv' /\ EarnedInv' /\ SpentInv' /\ UsageInv'
  BY DEF BoundInv
<1>1. /\ UNCHANGED <<queue, credit, creditOpen, isTransmitting, isInterpacketGap, durations,
                     isOpen, changeTimer, txEndTimer, gapTimer, gapLeft, usage>>
      /\ ~(CanPush /\ CanPull)
  BY DEF ServeNothing, gate, phy, shaper
<1>2. /\ changeTimer = NotScheduled
      /\ ShutInv /\ IdleInv /\ WakeInv /\ EarnedInv /\ SpentInv /\ UsageInv
  BY <1>1 DEF BoundInv, AlwaysOpen
<1>3. WakeInv'
  BY <1>1, <1>2
  DEF WakeInv, CanPush, CanPull, CreditGateOffers, HasAvailablePacket, CanPacketFlowThrough
<1>4. ShutInv' /\ IdleInv'
  BY <1>1, <1>2 DEF ShutInv, IdleInv, Own
<1>5. EarnedInv' /\ SpentInv' /\ UsageInv'
  BY <1>1, <1>2, SameLine
<1> QED
  BY <1>1, <1>2, <1>3, <1>4, <1>5

LEMMA TickBound == ASSUME Limit = 0, ShaperInv, BoundInv, Tick PROVE BoundInv'
<1> SUFFICES ASSUME AlwaysOpen'
             PROVE  /\ changeTimer' = NotScheduled
                    /\ ShutInv' /\ IdleInv' /\ WakeInv' /\ EarnedInv' /\ SpentInv' /\ UsageInv'
  BY DEF BoundInv
<1>1. /\ ~serveTimer /\ creditTimer # 0 /\ txEndTimer # 0 /\ gapTimer # 0
      /\ Own => gainRate = -SpendRate
      /\ ~Own => /\ creditOpen = (credit >= 0)
                 /\ gainRate \in {0, 1}
                 /\ gainRate = 1 => credit < 0 \/ queue # <<>>
      /\ credit' = Clamp(credit + gainRate)
      /\ UNCHANGED <<queue, creditOpen, gainRate, isTransmitting, isInterpacketGap,
                     durations, isOpen, isInGuardBand, serveTimer>>
  BY TickFacts
<1>2. /\ txEndTimer' = IF txEndTimer = NotScheduled THEN NotScheduled ELSE txEndTimer - 1
      /\ gapTimer' = IF gapTimer = NotScheduled THEN NotScheduled ELSE gapTimer - 1
      /\ gapLeft' = IF gapLeft = 0 THEN 0 ELSE gapLeft - 1
      /\ usage' = IF Own THEN usage + SpendRate ELSE IF usage > 0 THEN usage - 1 ELSE 0
      /\ changeTimer' = IF changeTimer = NotScheduled THEN NotScheduled ELSE changeTimer - 1
  BY DEF Tick, TimerAfterTick, Own
<1>3. /\ changeTimer = NotScheduled
      /\ ShutInv /\ IdleInv /\ WakeInv /\ EarnedInv /\ SpentInv /\ UsageInv
  BY <1>1 DEF BoundInv, AlwaysOpen
<1>4. /\ credit \in Int /\ gainRate \in {1, 0, -SpendRate} /\ gainRate \in Int
      /\ SpendRate \in Nat \ {0}
      /\ txEndTimer # NotScheduled => txEndTimer \in 1..MaxLength
      /\ gapTimer # NotScheduled => gapTimer \in 1..Gap
  BY <1>1, Constants, CreditIsInt DEF ShaperInv, TypeInv
<1>5. PICK c \in Int : c = credit + gainRate
  BY <1>4
<1>6. PICK e \in Int :
        /\ credit' = e
        /\ e <= c \/ e <= 0
        /\ e >= c \/ e >= 0
        /\ MinCredit <= c => e <= c
        /\ c = 0 => e = 0
  <2>1. Clamp(c) \in Int /\ (c = 0 => Clamp(c) = 0)
    BY Constants DEF Clamp
  <2>2. credit' = Clamp(c)
    BY <1>1, <1>5
  <2> QED
    BY <2>1, <2>2, ClampFacts
<1>7. Own' <=> Own
  BY <1>1 DEF Own
<1>8. ~isOpen => gainRate = 0 /\ credit = 0 /\ ~Own
  <2>1. gainRate = GainRateNow
    BY TickFacts
  <2> QED
    BY <1>3, <2>1 DEF ShutInv, GainRateNow, Own
<1>9. ShutInv'
  BY <1>1, <1>5, <1>6, <1>7, <1>8 DEF ShutInv
<1>10. queue = <<>> /\ ~Own => e <= 0
  BY <1>1, <1>3, <1>4, <1>5, <1>6 DEF IdleInv
<1>11. IdleInv'
  BY <1>1, <1>6, <1>7, <1>10 DEF IdleInv
<1>12. ~(CanPush /\ gapTimer = NotScheduled /\ queue # <<>> /\ creditOpen /\ isOpen)
  BY <1>1, <1>3 DEF WakeInv
<1>13. WakeInv'
  <2> SUFFICES ASSUME CanPush', gapTimer' = NotScheduled PROVE CanPush /\ gapTimer = NotScheduled
    BY <1>1, <1>12 DEF WakeInv
  <2>1. txEndTimer = NotScheduled /\ gapTimer = NotScheduled
    BY <1>2, <1>4 DEF CanPush, NotScheduled
  <2> QED
    BY <2>1 DEF CanPush, ShaperInv, LineInv
<1>14. /\ MaxLength \in Nat /\ Gap \in Nat /\ HiCredit \in Nat
       /\ HiCredit = MaxLength + Gap /\ SpendRate * HiCredit \in Nat
       /\ LoCredit + SpendRate * HiCredit = 0 /\ LoCredit \in Int
  BY BoundFacts, Constants
<1>15. /\ Earned \in Nat /\ Earned <= HiCredit /\ Spent \in Nat /\ Spent <= HiCredit
       /\ credit <= Earned /\ credit + SpendRate * Spent >= 0
       /\ usage \in Nat /\ (MinCredit <= LoCredit => usage + credit <= HiCredit)
  BY <1>3, EarnedSpentType DEF EarnedInv, SpentInv, UsageInv
<1>16. CASE Own
  <2>1. Earned = HiCredit /\ Earned' = HiCredit
    BY <1>7, <1>16 DEF Earned
  <2>2. Spent' = Spent + 1 /\ Spent + 1 <= HiCredit
    <3>1. CASE isTransmitting
      <4>1. txEndTimer \in 1..MaxLength /\ txEndTimer' = txEndTimer - 1
        BY <1>2, <1>4, <3>1 DEF ShaperInv, LineInv
      <4>2. Spent = MaxLength - txEndTimer
        BY <3>1 DEF Spent, Own
      <4>3. isTransmitting'
        BY <1>1, <3>1
      <4>4. Spent' = MaxLength - txEndTimer'
        BY <4>3 DEF Spent, Own
      <4> QED
        BY <1>14, <4>1, <4>2, <4>4
    <3>2. CASE ~isTransmitting
      <4>1. isInterpacketGap /\ gapTimer \in 1..Gap /\ gapTimer' = gapTimer - 1
        BY <1>2, <1>4, <1>16, <3>2 DEF ShaperInv, LineInv, Own
      <4>2. Spent = HiCredit - gapTimer /\ Spent' = HiCredit - (gapTimer - 1)
        BY <1>1, <3>2, <4>1 DEF Spent, Own
      <4> QED
        BY <1>14, <4>1, <4>2
    <3> QED
      BY <3>1, <3>2
  <2>3. c = credit - SpendRate
    BY <1>1, <1>4, <1>5, <1>16
  <2>4. SpendRate * (Spent + 1) = SpendRate * Spent + SpendRate
        /\ SpendRate * Spent \in Int /\ SpendRate * (Spent + 1) \in Int
        /\ SpendRate * 0 = 0
    BY <1>4, <1>15, ProductStep
  <2>5. SpendRate * (Spent + 1) <= SpendRate * HiCredit /\ 0 <= SpendRate * (Spent + 1)
    <3>1. Spent + 1 \in Int /\ HiCredit \in Int /\ SpendRate \in Nat /\ 0 <= Spent + 1
      BY <1>4, <1>14, <1>15
    <3>2. SpendRate * 0 <= SpendRate * (Spent + 1)
      BY <3>1, ProductMonotone
    <3> QED
      BY <2>2, <2>4, <3>1, <3>2, ProductMonotone
  <2> DEFINE x == SpendRate * (Spent + 1)
             y == SpendRate * Spent
             z == SpendRate * HiCredit
  <2>6. /\ x \in Int /\ y \in Int /\ z \in Int /\ x = y + SpendRate /\ x <= z /\ 0 <= x
        /\ credit + y >= 0 /\ LoCredit + z = 0
    BY <1>14, <1>15, <2>4, <2>5
  <2> HIDE DEF x, y, z
  <2>7. c + x >= 0 /\ e + x >= 0
    BY <1>4, <1>6, <2>3, <2>6
  <2>8. SpentInv'
    <3>1. SpendRate * Spent' = x
      BY <2>2 DEF x
    <3> QED
      BY <1>6, <2>7, <3>1 DEF SpentInv
  <2>9. e <= HiCredit
    BY <1>4, <1>6, <1>14, <1>15, <2>3
  <2>10. EarnedInv'
    BY <1>6, <2>1, <2>9 DEF EarnedInv
  <2>11. UsageInv'
    <3>1. usage' = usage + SpendRate
      BY <1>2, <1>16
    <3>2. usage + SpendRate \in Nat
      BY <1>4, <1>15
    <3>3. MinCredit <= LoCredit => usage + SpendRate + e <= HiCredit
      <4> SUFFICES ASSUME MinCredit <= LoCredit PROVE usage + SpendRate + e <= HiCredit
        OBVIOUS
      <4>1. LoCredit <= c
        BY <1>14, <2>6, <2>7
      <4>2. e <= c
        BY <1>6, <1>14, <4>1, Constants
      <4> QED
        BY <1>4, <1>14, <1>15, <2>3, <4>2
    <3> QED
      BY <1>6, <3>1, <3>2, <3>3 DEF UsageInv
  <2> QED
    BY <1>2, <1>3, <1>9, <1>11, <1>13, <2>8, <2>10, <2>11
<1>17. CASE ~Own
  <2>1. gainRate \in {0, 1} /\ credit <= c /\ c <= credit + 1
    BY <1>1, <1>4, <1>5, <1>17
  <2>2. Spent = HiCredit /\ Spent' = HiCredit
    BY <1>1, <1>7, <1>17 DEF Spent, Own
  <2> DEFINE z == SpendRate * HiCredit
  <2>3. z \in Nat /\ credit + z >= 0 /\ LoCredit + z = 0
    BY <1>14, <1>15, <2>2
  <2> HIDE DEF z
  <2>4. e + z >= 0
    BY <1>4, <1>6, <2>1, <2>3
  <2>5. SpentInv'
    BY <1>6, <2>2, <2>4 DEF SpentInv, z
  <2>6. /\ Earned' \in Nat /\ Earned' <= HiCredit
        /\ \/ Earned' = Earned + 1
           \/ Earned' = HiCredit /\ txEndTimer = NotScheduled /\ gapTimer = NotScheduled
    <3>1. CASE txEndTimer # NotScheduled
      <4>1. txEndTimer \in 1..MaxLength /\ txEndTimer' = txEndTimer - 1
            /\ txEndTimer - 1 # NotScheduled
        BY <1>2, <1>4, <3>1 DEF NotScheduled
      <4>2. Earned = MaxLength - txEndTimer /\ Earned' = MaxLength - (txEndTimer - 1)
        BY <1>7, <1>17, <3>1, <4>1 DEF Earned
      <4> QED
        BY <1>14, <4>1, <4>2
    <3>2. CASE txEndTimer = NotScheduled /\ gapTimer # NotScheduled
      <4>1. gapTimer \in 1..Gap /\ gapTimer' = gapTimer - 1 /\ gapTimer - 1 # NotScheduled
            /\ txEndTimer' = NotScheduled
        BY <1>2, <1>4, <3>2 DEF NotScheduled
      <4>2. Earned = HiCredit - gapTimer /\ Earned' = HiCredit - (gapTimer - 1)
        BY <1>7, <1>17, <3>2, <4>1 DEF Earned
      <4> QED
        BY <1>14, <4>1, <4>2
    <3>3. CASE txEndTimer = NotScheduled /\ gapTimer = NotScheduled
      <4>1. Earned' = HiCredit
        BY <1>2, <1>7, <1>17, <3>3 DEF Earned
      <4> QED
        BY <1>14, <3>3, <4>1
    <3> QED
      BY <3>1, <3>2, <3>3
  <2> PICK d \in Nat : d = Earned'
    BY <2>6
  <2>7. e <= d
    <3>1. CASE d = Earned + 1
      BY <1>4, <1>6, <1>15, <2>1, <3>1
    <3>2. CASE d = HiCredit /\ txEndTimer = NotScheduled /\ gapTimer = NotScheduled
      <4>1. CanPush
        BY <3>2 DEF CanPush, ShaperInv, LineInv
      <4>2. queue = <<>> \/ ~creditOpen \/ ~isOpen
        BY <1>12, <3>2, <4>1
      <4>3. CASE gainRate = 0
        BY <1>4, <1>5, <1>6, <1>14, <1>15, <3>2, <4>3
      <4>4. CASE gainRate = 1
        <5>1. isOpen /\ (credit < 0 \/ queue # <<>>) /\ (credit >= 0 => creditOpen)
          <6>1. creditOpen = (credit >= 0) /\ (gainRate = 1 => credit < 0 \/ queue # <<>>)
            BY <1>1, <1>17, Zenon
          <6>2. gainRate # 0
            BY <4>4
          <6> QED
            BY <1>8, <4>4, <6>1, <6>2
        <5>2. credit < 0
          <6> SUFFICES ASSUME ~(credit < 0) PROVE FALSE
            OBVIOUS
          <6>1. credit >= 0
            BY <1>4
          <6> QED
            BY <4>2, <5>1, <6>1
        <5> QED
          BY <1>4, <1>5, <1>6, <1>14, <3>2, <4>4, <5>2
      <4> QED
        BY <2>1, <4>3, <4>4
    <3> QED
      BY <2>6, <3>1, <3>2
  <2>8. EarnedInv'
    BY <1>6, <2>7 DEF EarnedInv
  <2>9. UsageInv'
    <3>1. usage' = IF usage > 0 THEN usage - 1 ELSE 0
      BY <1>2, <1>17
    <3>2. MinCredit <= LoCredit => (IF usage > 0 THEN usage - 1 ELSE 0) + e <= HiCredit
      <4> SUFFICES ASSUME MinCredit <= LoCredit
                   PROVE  (IF usage > 0 THEN usage - 1 ELSE 0) + e <= HiCredit
        OBVIOUS
      <4>1. LoCredit <= c
        BY <1>4, <1>14, <2>1, <2>3
      <4>2. e <= c
        BY <1>6, <1>14, <4>1, Constants
      <4>3. d <= HiCredit
        BY <2>6
      <4>4. CASE usage > 0
        BY <1>4, <1>14, <1>15, <2>1, <4>2, <4>4
      <4>5. CASE ~(usage > 0)
        BY <1>14, <2>7, <4>3, <4>5
      <4> QED
        BY <4>4, <4>5
    <3>3. (IF usage > 0 THEN usage - 1 ELSE 0) \in Nat
      BY <1>15
    <3> QED
      BY <1>6, <3>1, <3>2, <3>3 DEF UsageInv
  <2> QED
    BY <1>2, <1>3, <1>9, <1>11, <1>13, <2>5, <2>8, <2>9
<1> QED
  BY <1>16, <1>17

LEMMA BoundNext == ASSUME Limit = 0, ShaperInv, BoundInv, [Next]_vars PROVE BoundInv'
<1>1. CASE \E frame \in Lengths : Arrive(frame)
  BY <1>1, ArriveBound
<1>2. CASE ArriveOther
  BY <1>2, ArriveOtherBound
<1>3. CASE ChangeGate
  <2>1. ~AlwaysOpen /\ durations' = durations
    BY <1>3 DEF ChangeGate, BoundInv, NotScheduled
  <2> QED
    BY <2>1 DEF BoundInv, AlwaysOpen
<1>4. CASE CreditReachesLimit
  BY <1>4, CreditReachesLimitBound
<1>5. CASE EndTx
  BY <1>5, EndTxBound
<1>6. CASE EndGap
  BY <1>6, EndGapBound
<1>7. CASE Serve
  BY <1>7, ServeBound
<1>8. CASE \E frame \in Lengths : ServeOther(frame)
  BY <1>8, ServeOtherBound
<1>9. CASE ServeNothing
  BY <1>9, ServeNothingBound
<1>10. CASE Tick
  BY <1>10, TickBound
<1>11. CASE UNCHANGED vars
  BY <1>11 DEF vars, shaper, gate, phy, BoundInv, AlwaysOpen, ShutInv, IdleInv, WakeInv,
               EarnedInv, SpentInv, UsageInv, Earned, Spent, Own, CanPush
<1> QED
  BY <1>1, <1>2, <1>3, <1>4, <1>5, <1>6, <1>7, <1>8, <1>9, <1>10, <1>11 DEF Next, Event

LEMMA BoundInvariant == ASSUME Limit = 0 PROVE Spec => [](ShaperInv /\ BoundInv)
<1>1. Init => ShaperInv /\ BoundInv
  BY ShaperInit, BoundInit
<1>2. (ShaperInv /\ BoundInv) /\ [Next]_vars => (ShaperInv /\ BoundInv)'
  BY ShaperNext, BoundNext
<1> QED
  BY <1>1, <1>2, PTL DEF Spec

(* Whatever the frame lengths, the gap and the spend rate, the credit stays  *)
(* between what one frame and gap of its own can spend and what one frame    *)
(* and gap of another class can earn.                                        *)
THEOREM CreditBounds == ASSUME Limit = 0 PROVE Spec => []CreditBounded
<1>1. ShaperInv /\ BoundInv => CreditBounded
  <2> SUFFICES ASSUME ShaperInv, BoundInv, AlwaysOpen
               PROVE  LoCredit <= credit /\ credit <= HiCredit
    BY DEF CreditBounded
  <2>1. /\ credit \in Int /\ credit <= Earned /\ credit + SpendRate * Spent >= 0
        /\ Earned \in Nat /\ Earned <= HiCredit /\ Spent \in Nat /\ Spent <= HiCredit
    BY CreditIsInt, EarnedSpentType DEF BoundInv, EarnedInv, SpentInv, ShaperInv
  <2>2. /\ HiCredit \in Nat /\ SpendRate \in Nat /\ LoCredit \in Int
        /\ LoCredit + SpendRate * HiCredit = 0
    BY BoundFacts, Constants
  <2> DEFINE y == SpendRate * Spent
             z == SpendRate * HiCredit
  <2>3. y \in Int /\ z \in Int /\ y <= z
    BY <2>1, <2>2, ProductMonotone, ProductStep
  <2> HIDE DEF y, z
  <2>4. credit + y >= 0 /\ LoCredit + z = 0
    BY <2>1, <2>2 DEF y, z
  <2> QED
    BY <2>1, <2>2, <2>3, <2>4
<1> QED
  BY <1>1, BoundInvariant, PTL

(* A credit that is not cut off at its lower end keeps the class to its      *)
(* share of the line, but for a burst of one frame and gap in each           *)
(* direction.                                                                *)
THEOREM UsageBound == ASSUME Limit = 0, MinCredit <= LoCredit PROVE Spec => []UsageBounded
<1>1. ShaperInv /\ BoundInv /\ CreditBounded => UsageBounded
  <2> SUFFICES ASSUME ShaperInv, BoundInv, CreditBounded, AlwaysOpen
               PROVE  usage <= HiCredit - LoCredit
    BY DEF UsageBounded
  <2>1. /\ usage \in Nat /\ usage + credit <= HiCredit /\ LoCredit <= credit
        /\ credit \in Int /\ HiCredit \in Nat /\ LoCredit \in Int
    BY CreditIsInt, BoundFacts DEF BoundInv, UsageInv, CreditBounded, ShaperInv
  <2> QED
    BY <2>1
<1> QED
  BY <1>1, BoundInvariant, CreditBounds, PTL

=============================================================================
