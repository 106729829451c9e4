------------------------- MODULE GateSchedule_proofs -------------------------
(***************************************************************************)
(* What the operators of GateSchedule compute, for every list of durations.  *)
(* Induction is over sets of numbers, so that it needs no operator as a      *)
(* parameter.                                                                *)
(***************************************************************************)
EXTENDS GateSchedule, WellFoundedInduction, TLAPS

(* A set of numbers with 0 and every successor is the set of all.            *)
LEMMA NaturalInduction ==
    ASSUME NEW S, 0 \in S, \A n \in Nat : n \in S => n + 1 \in S
    PROVE  \A n \in Nat : n \in S
<1> SUFFICES ASSUME NEW x \in Nat, x \notin S PROVE FALSE
  OBVIOUS
<1> DEFINE R == Nat \ S
<1>1. IsWellFoundedOn({r \in Nat \X Nat : r[1] < r[2]}, Nat)
  BY NatLessThanWellFounded, Zenon DEF OpToRel
<1>2. PICK n \in R : \A m \in R : <<m, n>> \notin {r \in Nat \X Nat : r[1] < r[2]}
  BY <1>1, WFMin, Zenon
<1>3. n # 0
  OBVIOUS
<1>4. n - 1 \in Nat /\ n - 1 < n /\ n - 1 + 1 = n
  BY <1>3
<1>5. n - 1 \in S
  <2> SUFFICES ASSUME n - 1 \in R PROVE FALSE
    BY <1>4
  <2>1. <<n - 1, n>> \in {r \in Nat \X Nat : r[1] < r[2]}
    BY <1>4
  <2> QED
    BY <1>2, <2>1
<1> QED
  BY <1>4, <1>5

-----------------------------------------------------------------------------
(* Remainders.  The modulus is a variable, so the solvers need to be told    *)
(* the quotients.                                                            *)

LEMMA DivMod == ASSUME NEW m \in Nat \ {0}, NEW a \in Int
  PROVE a \div m \in Int /\ a % m \in 0..m-1 /\ a = m * (a \div m) + (a % m)
  OBVIOUS

LEMMA ModUnique == ASSUME NEW m \in Nat \ {0}, NEW q \in Int, NEW r \in 0..m-1 PROVE (m*q+r) % m = r
  OBVIOUS

(* A remainder may be taken early.                                           *)
LEMMA ModPlus == ASSUME NEW m \in Nat \ {0}, NEW a \in Int, NEW b \in Int
  PROVE ((a % m) + b) % m = (a + b) % m
<1> DEFINE q == a \div m
           r == a % m
           p == (r + b) \div m
           s == (r + b) % m
<1>1. q \in Int /\ r \in Int /\ a = m * q + r
   BY DivMod
<1> HIDE DEF q, r
<1> DEFINE c == r + b
<1>2. p \in Int /\ s \in 0..m-1 /\ r + b = m * p + s
  <2>1. c \in Int
    BY <1>1
  <2> HIDE DEF c
  <2>2. c \div m \in Int /\ c % m \in 0..m-1 /\ c = m * (c \div m) + (c % m)
   BY <2>1, DivMod
  <2> QED BY <2>2 DEF c
<1> HIDE DEF p, s
<1>3. a + b = m * (q + p) + s
  <2>1. a + b = m * q + (m * p + s)
    BY <1>1, <1>2
  <2>2. m * (q + p) = m * q + m * p
    BY <1>1, <1>2
  <2>3. m * q \in Int /\ m * p \in Int /\ m * (q + p) \in Int
    BY <1>1, <1>2
  <2> QED BY <1>2, <2>1, <2>2, <2>3
<1> DEFINE u == q + p
<1>4. u \in Int
   BY <1>1, <1>2
<1> HIDE DEF u
<1>5. (m*u + s) % m = s
   BY <1>2, <1>4, ModUnique
<1> QED BY <1>3, <1>5 DEF u, s, r

LEMMA ModSmall ==
    ASSUME NEW m \in Nat \ {0}, NEW a \in 0..m-1
    PROVE  a % m = a
  OBVIOUS

-----------------------------------------------------------------------------
(* The end times of a list of durations.                                     *)

(* The recursion of EndTimes has a solution, which EndTimes is.              *)
LEMMA EndTimesDef ==
    ASSUME NEW d, d \in Seq(Nat)
    PROVE  EndTimes(d) =
            [k \in 0..Len(d) |-> IF k = 0 THEN 0 ELSE EndTimes(d)[k-1] + d[k]]
<1> DEFINE Solves(f, n) == f = [k \in 0..n |-> IF k = 0 THEN 0 ELSE f[k-1] + d[k]]
           S == {n \in Nat : \E f : Solves(f, n)}
<1>1. 0 \in S
  <2>1. Solves([k \in 0..0 |-> 0], 0)
    OBVIOUS
  <2> QED
    BY <2>1
<1>2. ASSUME NEW n \in Nat, n \in S PROVE n + 1 \in S
  <2>1. PICK f : Solves(f, n)
    BY <1>2
  <2> DEFINE g == [k \in 0..n+1 |-> IF k = n + 1 THEN f[n] + d[n+1] ELSE f[k]]
  <2>2. Solves(g, n + 1)
    <3>1. \A k \in 0..n : f[k] = IF k = 0 THEN 0 ELSE f[k-1] + d[k]
      BY <2>1
    <3>2. \A k \in 0..n+1 : g[k] = IF k = 0 THEN 0 ELSE g[k-1] + d[k]
      BY <3>1
    <3> QED
      BY <3>2
  <2> HIDE DEF g, Solves
  <2>3. \E h : Solves(h, n + 1)
    BY <2>2
  <2> QED
    BY <2>3
<1> HIDE DEF S
<1>3. Len(d) \in S
  BY <1>1, <1>2, NaturalInduction
<1>4. \E f : Solves(f, Len(d))
  BY <1>3 DEF S
<1> QED
  BY <1>4 DEF EndTimes

LEMMA ListFacts ==
    ASSUME NEW d, IsPositiveList(d)
    PROVE  /\ d \in Seq(Nat)
           /\ Len(d) \in Nat
           /\ \A k \in 1..Len(d) : d[k] \in Nat \ {0}
           /\ d # <<>> => Len(d) > 0
  BY DEF IsPositiveList

LEMMA EndTimesStep ==
    ASSUME NEW d, IsPositiveList(d)
    PROVE  /\ EndTimes(d)[0] = 0
           /\ \A k \in 1..Len(d) : EndTimes(d)[k] = EndTimes(d)[k-1] + d[k]
<1>1. EndTimes(d) = [k \in 0..Len(d) |-> IF k = 0 THEN 0 ELSE EndTimes(d)[k-1] + d[k]]
  BY ListFacts, EndTimesDef
<1>2. \A k \in 0..Len(d) :
        EndTimes(d)[k] = IF k = 0 THEN 0 ELSE EndTimes(d)[k-1] + d[k]
  BY <1>1, Zenon
<1>3. \A k \in 1..Len(d) : k \in 0..Len(d) /\ k # 0
  BY ListFacts
<1>4. 0 \in 0..Len(d)
  BY ListFacts
<1> QED
  BY <1>2, <1>3, <1>4

LEMMA EndTimesType ==
    ASSUME NEW d, IsPositiveList(d)
    PROVE  \A k \in 0..Len(d) : EndTimes(d)[k] \in Nat
<1> DEFINE E == EndTimes(d)
           S == {k \in Nat : k <= Len(d) => E[k] \in Nat}
<1>1. E[0] = 0 /\ \A k \in 1..Len(d) : E[k] = E[k-1] + d[k]
  BY EndTimesStep
<1> HIDE DEF E
<1>2. 0 \in S
  BY <1>1
<1>3. ASSUME NEW n \in Nat, n \in S PROVE n + 1 \in S
  <2> SUFFICES ASSUME n + 1 <= Len(d) PROVE E[n+1] \in Nat
    OBVIOUS
  <2>1. E[n] \in Nat /\ d[n+1] \in Nat
    BY <1>3, ListFacts
  <2>2. E[n+1] = E[(n+1)-1] + d[n+1]
    BY <1>1, ListFacts
  <2>3. (n + 1) - 1 = n
    OBVIOUS
  <2> QED
    BY <2>1, <2>2, <2>3
<1> HIDE DEF S
<1>4. \A n \in Nat : n \in S
  BY <1>2, <1>3, NaturalInduction
<1> QED
  BY <1>4, ListFacts DEF S, E

(* Each interval of the cycle is as long as its duration, and so not empty.  *)
LEMMA EndTimesNext ==
    ASSUME NEW d, IsPositiveList(d), NEW k \in 0..Len(d)-1
    PROVE  /\ EndTimes(d)[k] \in Nat /\ EndTimes(d)[k+1] \in Nat
           /\ d[k+1] \in Nat \ {0}
           /\ EndTimes(d)[k+1] = EndTimes(d)[k] + d[k+1]
<1>1. k \in 0..Len(d) /\ k + 1 \in 1..Len(d) /\ k + 1 \in 0..Len(d) /\ (k + 1) - 1 = k
  BY ListFacts
<1>2. EndTimes(d)[k+1] = EndTimes(d)[(k+1)-1] + d[k+1]
  BY <1>1, EndTimesStep
<1> QED
  BY <1>1, <1>2, ListFacts, EndTimesType

LEMMA EndTimesGrow ==
    ASSUME NEW d, IsPositiveList(d)
    PROVE  \A j \in 0..Len(d) : \A i \in 0..j-1 : EndTimes(d)[i] < EndTimes(d)[j]
<1> DEFINE E == EndTimes(d)
           S == {j \in Nat : j <= Len(d) => \A i \in 0..j-1 : E[i] < E[j]}
<1>1. \A k \in 0..Len(d)-1 : E[k] \in Nat /\ E[k+1] \in Nat /\ E[k] < E[k+1]
  BY EndTimesNext
<1>2. 0 \in S
  OBVIOUS
<1> HIDE DEF E
<1>3. ASSUME NEW n \in Nat, n \in S PROVE n + 1 \in S
  <2> SUFFICES ASSUME n + 1 <= Len(d), NEW i \in 0..n PROVE E[i] < E[n+1]
    OBVIOUS
  <2>1. n \in 0..Len(d)-1 /\ i \in 0..Len(d)-1
    BY ListFacts
  <2>2. i = n \/ E[i] < E[n]
    BY <1>3, ListFacts
  <2> QED
    BY <1>1, <2>1, <2>2
<1> HIDE DEF S
<1>4. \A n \in Nat : n \in S
  BY <1>2, <1>3, NaturalInduction
<1> QED
  BY <1>4, ListFacts DEF S, E

LEMMA TotalDurationFacts ==
    ASSUME NEW d, IsPositiveList(d), d # <<>>
    PROVE  /\ TotalDuration(d) \in Nat \ {0}
           /\ \A k \in 0..Len(d)-1 : EndTimes(d)[k] < TotalDuration(d)
           /\ \A k \in 0..Len(d)-1 : EndTimes(d)[k+1] <= TotalDuration(d)
<1>1. Len(d) \in Nat /\ Len(d) > 0
  BY ListFacts
<1>2. \A k \in 0..Len(d) : EndTimes(d)[k] \in Nat
  BY EndTimesType
<1>3. \A i \in 0..Len(d)-1 : EndTimes(d)[i] < EndTimes(d)[Len(d)]
  BY <1>1, EndTimesGrow
<1>4. EndTimes(d)[0] = 0
  BY EndTimesStep
<1> QED
  BY <1>1, <1>2, <1>3, <1>4 DEF TotalDuration

-----------------------------------------------------------------------------
(* Where a position lies in the cycle.                                       *)

(* Position p is in the k-th interval of the list, counted from 0.           *)
Within(d, k, p) ==
    /\ k \in 0..Len(d)-1
    /\ EndTimes(d)[k] <= p
    /\ p < EndTimes(d)[k+1]

(* The state of a gate in the k-th interval.                                 *)
OpenIn(open, k) == IF k % 2 = 0 THEN open ELSE ~open

LEMMA IntervalExists ==
    ASSUME NEW d, IsPositiveList(d), d # <<>>, NEW p \in 0..TotalDuration(d)-1
    PROVE  \E k \in 0..Len(d)-1 : Within(d, k, p)
<1> DEFINE E == EndTimes(d)
           S == {n \in Nat : n <= Len(d) /\ p < E[n] => \E k \in 0..n-1 : Within(d, k, p)}
<1>1. 0 \in S
  BY EndTimesStep, TotalDurationFacts
<1>2. ASSUME NEW n \in Nat, n \in S PROVE n + 1 \in S
  <2> SUFFICES ASSUME n + 1 <= Len(d), p < E[n+1]
               PROVE  \E k \in 0..n : Within(d, k, p)
    OBVIOUS
  <2>1. n \in 0..Len(d)-1
    BY ListFacts
  <2>2. E[n] \in Nat /\ p \in Int
    BY <2>1, EndTimesNext, TotalDurationFacts
  <2>3. CASE E[n] <= p
    BY <2>1, <2>3 DEF Within
  <2>4. CASE ~(E[n] <= p)
    <3>1. \E k \in 0..n-1 : Within(d, k, p)
      BY <1>2, <2>1, <2>2, <2>4, ListFacts
    <3> QED
      BY <3>1
  <2> QED
    BY <2>3, <2>4
<1> HIDE DEF S
<1>3. Len(d) \in S
  BY <1>1, <1>2, NaturalInduction, ListFacts
<1>4. p < E[Len(d)]
  BY TotalDurationFacts DEF TotalDuration
<1> QED
  BY <1>3, <1>4, ListFacts DEF S

(* The intervals do not overlap.                                             *)
LEMMA IntervalUnique ==
    ASSUME NEW d, IsPositiveList(d), NEW p \in Int, NEW k, Within(d, k, p)
    PROVE  /\ \A j \in 0..Len(d) : EndTimes(d)[j] <= p => j <= k
           /\ \A j \in 0..k : EndTimes(d)[j] <= p
<1>1. Len(d) \in Nat /\ k \in 0..Len(d)-1 /\ k + 1 \in 0..Len(d)
  BY ListFacts DEF Within
<1>2. \A j \in 0..Len(d) : EndTimes(d)[j] \in Nat
  BY EndTimesType
<1>3. ASSUME NEW j \in 0..Len(d), EndTimes(d)[j] <= p PROVE j <= k
  <2> SUFFICES ASSUME k < j PROVE FALSE
    BY <1>1
  <2>1. k + 1 = j \/ k + 1 \in 0..j-1
    BY <1>1
  <2>2. EndTimes(d)[k+1] <= EndTimes(d)[j]
    BY <1>1, <1>2, <2>1, EndTimesGrow
  <2> QED
    BY <1>1, <1>2, <1>3, <2>2 DEF Within
<1>4. ASSUME NEW j \in 0..k PROVE EndTimes(d)[j] <= p
  <2>1. j = k \/ j \in 0..k-1
    BY <1>1
  <2>2. EndTimes(d)[j] <= EndTimes(d)[k]
    BY <1>1, <1>2, <2>1, EndTimesGrow
  <2> QED
    BY <1>1, <1>2, <2>2 DEF Within
<1> QED
  BY <1>3, <1>4

(* initializeGating skips the durations that are over at the offset.         *)
LEMMA SkippedIsInterval ==
    ASSUME NEW d, IsPositiveList(d), NEW p \in Int, NEW k, Within(d, k, p)
    PROVE  Skipped(d, p) = k
<1>1. Len(d) \in Nat /\ k \in 0..Len(d)-1 /\ k \in 0..Len(d)
  BY ListFacts DEF Within
<1>2. /\ EndTimes(d)[k] <= p
      /\ k < Len(d) => p < EndTimes(d)[k+1]
  BY DEF Within
<1>3. ASSUME NEW j \in 0..Len(d), EndTimes(d)[j] <= p,
             j < Len(d) => p < EndTimes(d)[j+1]
      PROVE  j = k
  <2>1. j <= k
    BY <1>3, IntervalUnique
  <2>2. ~(j < k)
    <3> SUFFICES ASSUME j < k PROVE FALSE
      OBVIOUS
    <3>1. j + 1 \in 0..k /\ j + 1 \in 0..Len(d) /\ j < Len(d)
      BY <1>1
    <3>2. EndTimes(d)[j+1] <= p
      BY <3>1, IntervalUnique
    <3>3. EndTimes(d)[j+1] \in Nat
      BY <3>1, EndTimesType
    <3> QED
      BY <1>3, <3>1, <3>2, <3>3
  <2> QED
    BY <1>1, <2>1, <2>2
<1> QED
  BY <1>1, <1>2, <1>3 DEF Skipped

(* What the parameters mean, in terms of the interval.                       *)
LEMMA PrescribedIsOpenIn ==
    ASSUME NEW d, IsDurationList(d), d # <<>>, NEW offset \in Int, NEW t \in Int,
           NEW open, NEW k, Within(d, k, (offset + t) % TotalDuration(d))
    PROVE  PrescribedOpen(open, offset, d, t) = OpenIn(open, k)
<1> IsPositiveList(d)
  BY DEF IsDurationList
<1> DEFINE p == (offset + t) % TotalDuration(d)
           over == {j \in 1..Len(d) : EndTimes(d)[j] <= p}
<1>1. p \in Int /\ Within(d, k, p)
  BY TotalDurationFacts
<1>2. Len(d) \in Nat /\ k \in 0..Len(d)-1
  BY <1>1, ListFacts DEF Within
<1> HIDE DEF p
<1>3. over = 1..k
  <2>1. \A j \in 1..Len(d) : j \in 0..Len(d)
    BY <1>2
  <2>2. \A j \in 1..k : j \in 0..k /\ j \in 1..Len(d)
    BY <1>2
  <2> QED
    BY <1>1, <1>2, <2>1, <2>2, IntervalUnique
<1>4. ASSUME NEW n \in 0..Len(d), 1..k = 1..n PROVE n = k
  <2>1. n \in Nat /\ k \in Nat
    BY <1>2
  <2>2. k # 0 => k <= n
    <3> SUFFICES ASSUME k # 0 PROVE k <= n
      OBVIOUS
    <3>1. k \in 1..k
      BY <2>1
    <3> QED
      BY <1>4, <2>1, <3>1
  <2>3. n # 0 => n <= k
    <3> SUFFICES ASSUME n # 0 PROVE n <= k
      OBVIOUS
    <3>1. n \in 1..n
      BY <2>1
    <3>2. n \in 1..k
      BY <1>4, <3>1, Zenon
    <3> QED
      BY <2>1, <3>2
  <2> QED
    BY <2>1, <2>2, <2>3
<1>5. k \in 0..Len(d)
  BY <1>2
<1>6. (\E n \in 0..Len(d) : over = 1..n /\ n % 2 = 0) <=> k % 2 = 0
  BY <1>3, <1>4, <1>5
<1> HIDE DEF over
<1>7. PrescribedOpen(open, offset, d, t)
        = IF \E n \in 0..Len(d) : over = 1..n /\ n % 2 = 0 THEN open ELSE ~open
  BY DEF PrescribedOpen, over, p
<1> QED
  BY <1>6, <1>7 DEF OpenIn

(* Where a gate starts.                                                      *)
LEMMA StartOfFacts ==
    ASSUME NEW d, IsDurationList(d), d # <<>>, NEW offset \in Int, NEW open
    PROVE  \E k \in 0..Len(d)-1 :
            /\ Within(d, k, offset % TotalDuration(d))
            /\ StartOf(open, offset, d) =
                [isOpen |-> OpenIn(open, k), index |-> (k + 1) % Len(d),
                 timer |-> EndTimes(d)[k+1] - (offset % TotalDuration(d))]
<1> IsPositiveList(d)
  BY DEF IsDurationList
<1> DEFINE p == offset % TotalDuration(d)
<1>1. p \in 0..TotalDuration(d)-1 /\ p \in Int
  BY TotalDurationFacts
<1> HIDE DEF p
<1>2. PICK k \in 0..Len(d)-1 : Within(d, k, p)
  BY <1>1, IntervalExists
<1>3. Skipped(d, p) = k
  BY <1>1, <1>2, SkippedIsInterval
<1> QED
  BY <1>2, <1>3 DEF StartOf, OpenIn, p

-----------------------------------------------------------------------------
(* From one interval to the next.                                            *)

(* The interval after interval k begins where interval k ends, and the gate  *)
(* is in the other state in it: the number of durations is even.             *)
LEMMA NextInterval ==
    ASSUME NEW d, IsDurationList(d), d # <<>>, NEW k \in 0..Len(d)-1,
           NEW open \in BOOLEAN, NEW j, j = (k + 1) % Len(d)
    PROVE  /\ j \in 0..Len(d)-1
           /\ OpenIn(open, j) = ~OpenIn(open, k)
           /\ EndTimes(d)[j] \in 0..TotalDuration(d)-1
           /\ EndTimes(d)[k+1] % TotalDuration(d) = EndTimes(d)[j]
           /\ EndTimes(d)[j+1] - d[j+1] = EndTimes(d)[j]
<1> IsPositiveList(d)
  BY DEF IsDurationList
<1> DEFINE T == TotalDuration(d)
<1>1. Len(d) \in Nat \ {0} /\ Len(d) % 2 = 0 /\ k \in 0..Len(d)-1
  BY ListFacts DEF IsDurationList
<1>2. j \in 0..Len(d)-1
  BY <1>1
<1>3. j = (IF k + 1 = Len(d) THEN 0 ELSE k + 1)
  <2>1. CASE k + 1 = Len(d)
    <3> DEFINE n == Len(d)
    <3>1. n \in Nat \ {0} /\ 0 \in 0..n-1
      BY <1>1
    <3> HIDE DEF n
    <3>2. (n*1+0) % n = 0
      BY <3>1, ModUnique
    <3>3. n % n = 0
      BY <3>1, <3>2
    <3> QED
      BY <2>1, <3>3 DEF n
  <2>2. CASE k + 1 # Len(d)
    <3>1. k + 1 \in 0..Len(d)-1
      BY <1>1, <2>2
    <3> QED
      BY <1>1, <2>2, <3>1, ModSmall
  <2> QED
    BY <2>1, <2>2
<1>4. OpenIn(open, j) = ~OpenIn(open, k)
  <2>1. k % 2 = 0 <=> j % 2 # 0
    BY <1>1, <1>3
  <2> QED
    BY <2>1 DEF OpenIn
<1>5. T \in Nat \ {0} /\ EndTimes(d)[j] \in 0..T-1
  BY <1>2, EndTimesNext, TotalDurationFacts
<1>6. EndTimes(d)[k+1] % T = EndTimes(d)[j]
  <2>1. CASE k + 1 = Len(d)
    <3>1. EndTimes(d)[k+1] = T /\ EndTimes(d)[j] = 0
      BY <1>3, <2>1, EndTimesStep DEF TotalDuration
    <3> HIDE DEF T
    <3>2. (T*1+0) % T = 0 /\ T*1+0 = T
      BY <1>5, ModUnique
    <3> QED
      BY <3>1, <3>2
  <2>2. CASE k + 1 # Len(d)
    <3> HIDE DEF T
    <3> QED
      BY <1>3, <1>5, <2>2, ModSmall
  <2> QED
    BY <2>1, <2>2
<1>7. EndTimes(d)[j+1] - d[j+1] = EndTimes(d)[j]
  BY <1>2, EndTimesNext
<1> QED
  BY <1>2, <1>4, <1>5, <1>6, <1>7

(* t time units from now, the gate will be as far in its cycle as it would   *)
(* be t after the present point of the interval.                             *)
LEMMA PositionLater ==
    ASSUME NEW T \in Nat \ {0}, NEW a \in Int, NEW b \in Int, NEW t \in Int,
           a % T = b % T
    PROVE  (a + t) % T = (b + t) % T
<1>1. ((a % T) + t) % T = (a + t) % T
  BY ModPlus
<1>2. ((b % T) + t) % T = (b + t) % T
  BY ModPlus
<1> QED
  BY <1>1, <1>2

(* Where a gate starts, in the terms the invariants of gates are stated in.  *)
LEMMA StartsInInterval ==
    ASSUME NEW d, IsDurationList(d), NEW open \in BOOLEAN, NEW offset \in Int
    PROVE  LET s == StartOf(open, offset, d)
           IN  IF d = <<>>
               THEN s = [isOpen |-> open, index |-> 0, timer |-> NotScheduled]
               ELSE \E k \in 0..Len(d)-1 :
                        /\ s.index = (k + 1) % Len(d)
                        /\ s.isOpen = OpenIn(open, k)
                        /\ s.timer \in 0..d[k+1]
                        /\ (offset + 0) % TotalDuration(d)
                                = (EndTimes(d)[k+1] - s.timer) % TotalDuration(d)
<1> IsPositiveList(d)
  BY DEF IsDurationList
<1>1. CASE d = <<>>
  BY <1>1 DEF StartOf
<1>2. CASE d # <<>>
  <2> DEFINE T == TotalDuration(d)
             p == offset % T
  <2>1. T \in Nat \ {0}
    BY <1>2, TotalDurationFacts
  <2>2. PICK k \in 0..Len(d)-1 :
            /\ Within(d, k, p)
            /\ StartOf(open, offset, d) =
                [isOpen |-> OpenIn(open, k), index |-> (k + 1) % Len(d),
                 timer |-> EndTimes(d)[k+1] - p]
    BY <1>2, StartOfFacts
  <2>3. p \in 0..T-1
    <3> HIDE DEF T
    <3> QED
      BY <2>1
  <2> HIDE DEF p, T
  <2>4. p % T = p
    BY <2>1, <2>3, ModSmall
  <2> DEFINE timer == EndTimes(d)[k+1] - p
  <2>5. timer \in 0..d[k+1] /\ EndTimes(d)[k+1] - timer = p
    <3>1. /\ EndTimes(d)[k] \in Nat /\ EndTimes(d)[k+1] \in Nat /\ d[k+1] \in Nat
          /\ EndTimes(d)[k+1] = EndTimes(d)[k] + d[k+1]
      BY <2>2, EndTimesNext
    <3>2. EndTimes(d)[k] <= p /\ p < EndTimes(d)[k+1]
      BY <2>2 DEF Within
    <3>3. p \in Int
      BY <2>1, <2>3
    <3> DEFINE b == EndTimes(d)[k]
               e == EndTimes(d)[k+1]
               n == d[k+1]
    <3> HIDE DEF b, e, n
    <3>4. b \in Nat /\ e \in Nat /\ n \in Nat /\ e = b + n /\ b <= p /\ p < e
      BY <3>1, <3>2 DEF b, e, n
    <3>5. e - p \in 0..n /\ e - (e - p) = p
      BY <3>3, <3>4
    <3> QED
      BY <3>5 DEF e, n
  <2>6. offset + 0 = offset
    OBVIOUS
  <2>7. (offset + 0) % T = (EndTimes(d)[k+1] - timer) % T
    BY <2>4, <2>5, <2>6 DEF p
  <2> HIDE DEF timer
  <2>8. /\ StartOf(open, offset, d).index = (k + 1) % Len(d)
        /\ StartOf(open, offset, d).isOpen = OpenIn(open, k)
        /\ StartOf(open, offset, d).timer = timer
    BY <2>2 DEF timer
  <2> QED
    BY <1>2, <2>5, <2>7, <2>8 DEF T
<1> QED
  BY <1>1, <1>2

-----------------------------------------------------------------------------
(* Lists that grow, and lists whose last duration is merged into the first.  *)

LEMMA AppendFacts ==
    ASSUME NEW d, IsPositiveList(d), NEW x \in Nat \ {0}
    PROVE  /\ IsPositiveList(Append(d, x)) /\ Append(d, x) # <<>>
           /\ Len(Append(d, x)) = Len(d) + 1
           /\ \A k \in 1..Len(d) : Append(d, x)[k] = d[k]
           /\ Append(d, x)[Len(d)+1] = x
  BY DEF IsPositiveList

(* Where two lists have the same durations, their intervals stay as far      *)
(* apart as they were.                                                       *)
LEMMA EndTimesShift ==
    ASSUME NEW d, IsPositiveList(d), NEW e, IsPositiveList(e),
           NEW n \in Nat, n <= Len(d), n <= Len(e), NEW m \in 0..n, NEW x \in Int,
           EndTimes(e)[m] = EndTimes(d)[m] + x,
           \A k \in m+1..n : e[k] = d[k]
    PROVE  \A k \in m..n : EndTimes(e)[k] = EndTimes(d)[k] + x
<1> DEFINE A == EndTimes(d)
           B == EndTimes(e)
           S == {k \in Nat : k \in m..n => B[k] = A[k] + x}
<1>1. /\ \A k \in 1..n : A[k] = A[k-1] + d[k] /\ B[k] = B[k-1] + e[k]
      /\ \A k \in 0..n : A[k] \in Nat /\ B[k] \in Nat
      /\ \A k \in 1..n : d[k] \in Nat
      /\ B[m] = A[m] + x
  <2>1. Len(d) \in Nat /\ Len(e) \in Nat
    BY ListFacts
  <2>2. \A k \in 1..n : k \in 1..Len(d) /\ k \in 1..Len(e)
    BY <2>1
  <2>3. \A k \in 0..n : k \in 0..Len(d) /\ k \in 0..Len(e)
    BY <2>1
  <2> QED
    BY <2>2, <2>3, EndTimesStep, EndTimesType, ListFacts
<1> HIDE DEF A, B
<1>2. 0 \in S
  BY <1>1
<1>3. ASSUME NEW k \in Nat, k \in S PROVE k + 1 \in S
  <2> SUFFICES ASSUME k + 1 \in m..n PROVE B[k+1] = A[k+1] + x
    OBVIOUS
  <2>1. CASE k + 1 = m
    BY <1>1, <2>1
  <2>2. CASE k + 1 # m
    <3>1. k \in m..n /\ k \in 0..n /\ k + 1 \in 1..n /\ k + 1 \in m+1..n /\ (k + 1) - 1 = k
      BY <2>2
    <3>2. A[k+1] = A[k] + d[k+1] /\ B[k+1] = B[k] + e[k+1] /\ e[k+1] = d[k+1]
      BY <1>1, <3>1
    <3>3. B[k] = A[k] + x
      BY <1>3, <3>1
    <3>4. A[k] \in Nat /\ B[k] \in Nat /\ d[k+1] \in Nat
      BY <1>1, <3>1
    <3> QED
      BY <3>2, <3>3, <3>4
  <2> QED
    BY <2>1, <2>2
<1> HIDE DEF S
<1>4. \A k \in Nat : k \in S
  BY <1>2, <1>3, NaturalInduction
<1> QED
  BY <1>4 DEF S, A, B

LEMMA EndTimesAppend ==
    ASSUME NEW d, IsPositiveList(d), NEW x \in Nat \ {0}
    PROVE  /\ \A k \in 0..Len(d) : EndTimes(Append(d, x))[k] = EndTimes(d)[k]
           /\ TotalDuration(Append(d, x)) = TotalDuration(d) + x
<1> DEFINE e == Append(d, x)
           n == Len(d)
<1>1. /\ IsPositiveList(e) /\ Len(e) = n + 1 /\ n \in Nat
      /\ \A k \in 0+1..n : e[k] = d[k]
      /\ e[n+1] = x
  BY AppendFacts, ListFacts
<1> HIDE DEF e
<1>2. EndTimes(e)[0] = EndTimes(d)[0] + 0
  BY <1>1, EndTimesStep
<1>3. 0 \in 0..n /\ 0 \in Int /\ n <= Len(d) /\ n <= Len(e)
  BY <1>1
<1>4. \A k \in 0..n : EndTimes(e)[k] = EndTimes(d)[k] + 0
  BY <1>1, <1>2, <1>3, EndTimesShift
<1>5. \A k \in 0..n : EndTimes(d)[k] \in Nat
  BY EndTimesType
<1>6. n + 1 \in 1..Len(e) /\ (n + 1) - 1 = n /\ n \in 0..n
  BY <1>1
<1>7. EndTimes(e)[n+1] = EndTimes(e)[n] + x
  BY <1>1, <1>6, EndTimesStep
<1>8. EndTimes(e)[n+1] = EndTimes(d)[n] + x
  BY <1>4, <1>5, <1>6, <1>7
<1> QED
  BY <1>1, <1>4, <1>5, <1>8 DEF TotalDuration, e

(* The same for a list e with a name of its own.                             *)
Extends(e, d, x) == e = Append(d, x)

LEMMA ExtendFacts ==
    ASSUME NEW d, IsPositiveList(d), NEW x \in Nat \ {0}, NEW e, Extends(e, d, x)
    PROVE  /\ IsPositiveList(e) /\ e # <<>> /\ Len(e) = Len(d) + 1 /\ Len(d) \in Nat
           /\ \A k \in 0..Len(d) : EndTimes(d)[k] \in Nat /\ EndTimes(e)[k] = EndTimes(d)[k]
           /\ EndTimes(e)[Len(d)+1] = EndTimes(d)[Len(d)] + x
           /\ TotalDuration(e) = EndTimes(e)[Len(d)+1]
<1>1. /\ IsPositiveList(e) /\ e # <<>> /\ Len(e) = Len(d) + 1
  BY AppendFacts DEF Extends
<1>2. /\ \A k \in 0..Len(d) : EndTimes(e)[k] = EndTimes(d)[k]
      /\ TotalDuration(e) = TotalDuration(d) + x
  BY EndTimesAppend DEF Extends
<1>3. \A k \in 0..Len(d) : EndTimes(d)[k] \in Nat
  BY EndTimesType
<1>4. Len(d) \in Nat
  BY ListFacts
<1>5. TotalDuration(e) = EndTimes(e)[Len(d)+1] /\ TotalDuration(d) = EndTimes(d)[Len(d)]
  BY <1>1 DEF TotalDuration
<1> QED
  BY <1>1, <1>2, <1>3, <1>4, <1>5

(* A list b that x is appended to may have its x merged into its first       *)
(* duration instead: every interval but the first moves by x.                *)
Merges(f, b, x) == f = [b EXCEPT ![1] = @ + x]

LEMMA MergedFacts ==
    ASSUME NEW b, IsDurationList(b), b # <<>>, NEW x \in Nat \ {0},
           NEW f, Merges(f, b, x)
    PROVE  /\ IsDurationList(f) /\ f # <<>> /\ Len(f) = Len(b)
           /\ \A k \in 1..Len(b) : EndTimes(f)[k] = EndTimes(Append(b, x))[k] + x
           /\ TotalDuration(f) = TotalDuration(Append(b, x))
           /\ EndTimes(Append(b, x))[Len(b)] = TotalDuration(f) - x
<1> IsPositiveList(b)
  BY DEF IsDurationList
<1> DEFINE n == Len(b)
<1>1. n \in Nat \ {0} /\ \A k \in 1..n : b[k] \in Nat \ {0}
  BY ListFacts
<1>2. /\ IsPositiveList(f) /\ f # <<>> /\ Len(f) = n /\ f[1] = b[1] + x
      /\ \A k \in 1+1..n : f[k] = b[k]
  BY <1>1 DEF IsPositiveList, Merges
<1>3. IsDurationList(f)
  BY <1>2 DEF IsDurationList
<1>4. /\ EndTimes(f)[1] = f[1] /\ EndTimes(b)[1] = b[1]
  <2>1. 1 \in 1..n /\ 1 - 1 = 0 /\ f[1] \in Nat /\ b[1] \in Nat
    BY <1>1, <1>2
  <2>2. EndTimes(f)[1] = EndTimes(f)[1-1] + f[1] /\ EndTimes(f)[0] = 0
    BY <1>2, <2>1, EndTimesStep
  <2>3. EndTimes(b)[1] = EndTimes(b)[1-1] + b[1] /\ EndTimes(b)[0] = 0
    BY <2>1, EndTimesStep
  <2> QED
    BY <2>1, <2>2, <2>3
<1>5. \A k \in 1..n : EndTimes(f)[k] = EndTimes(b)[k] + x
  <2>1. /\ EndTimes(f)[1] = EndTimes(b)[1] + x /\ 1 \in 0..n /\ x \in Int
        /\ n <= Len(b) /\ n <= Len(f) /\ n \in Nat
    BY <1>1, <1>2, <1>4
  <2> QED
    BY <1>2, <2>1, EndTimesShift
<1>6. /\ \A k \in 1..n : k \in 0..Len(b)
      /\ \A k \in 0..Len(b) : EndTimes(Append(b, x))[k] = EndTimes(b)[k]
      /\ TotalDuration(Append(b, x)) = TotalDuration(b) + x
  BY <1>1, EndTimesAppend
<1>7. n \in 1..n /\ TotalDuration(f) = EndTimes(f)[n] /\ TotalDuration(b) = EndTimes(b)[n]
      /\ TotalDuration(b) \in Nat
  BY <1>1, <1>2, TotalDurationFacts DEF TotalDuration
<1>8. TotalDuration(f) = TotalDuration(b) + x
  BY <1>5, <1>7
<1>9. EndTimes(Append(b, x))[n] = TotalDuration(b)
  BY <1>6, <1>7
<1>10. TotalDuration(f) - x = TotalDuration(b)
  BY <1>7, <1>8
<1> QED
  BY <1>2, <1>3, <1>5, <1>6, <1>8, <1>9, <1>10

(* With x as the offset, the merged list asks for the states that b with x   *)
(* at its end stands for.                                                    *)
LEMMA MergedMeaning ==
    ASSUME NEW b, IsDurationList(b), b # <<>>, NEW x \in Nat \ {0},
           NEW f, Merges(f, b, x), NEW open \in BOOLEAN, NEW t \in Nat,
           NEW k, Within(Append(b, x), k, t % TotalDuration(Append(b, x)))
    PROVE  PrescribedOpen(open, x, f, t) = OpenIn(open, k)
<1> DEFINE d == Append(b, x)
           T == TotalDuration(f)
           n == Len(b)
           p == t % T
<1>1. /\ IsPositiveList(d) /\ d # <<>> /\ Len(d) = n + 1
      /\ n \in Nat \ {0} /\ n % 2 = 0
  <2>1. IsPositiveList(b) /\ n % 2 = 0
    BY DEF IsDurationList
  <2>2. n \in Nat \ {0}
    BY <2>1, ListFacts
  <2> QED
    BY <2>1, <2>2, AppendFacts
<1>2. /\ IsDurationList(f) /\ IsPositiveList(f) /\ f # <<>> /\ Len(f) = n
      /\ \A i \in 1..n : EndTimes(f)[i] = EndTimes(d)[i] + x
      /\ T = TotalDuration(d) /\ EndTimes(d)[n] = T - x
  <2>1. /\ IsDurationList(f) /\ f # <<>> /\ Len(f) = n
        /\ \A i \in 1..n : EndTimes(f)[i] = EndTimes(d)[i] + x
        /\ T = TotalDuration(d) /\ EndTimes(d)[n] = T - x
    BY MergedFacts
  <2> QED
    BY <2>1 DEF IsDurationList
<1>3. T \in Nat \ {0} /\ p \in 0..T-1
  <2>1. T \in Nat \ {0}
    BY <1>2, TotalDurationFacts
  <2> HIDE DEF T
  <2> QED
    BY <2>1
<1>4. /\ Within(d, k, p) /\ k \in 0..n
      /\ EndTimes(d)[k] \in Nat /\ EndTimes(d)[k+1] \in Nat
      /\ EndTimes(d)[k] <= p /\ p < EndTimes(d)[k+1]
  <2>1. Within(d, k, p)
    BY <1>2
  <2> HIDE DEF d, p, n
  <2>2. k \in 0..Len(d)-1
    BY <2>1 DEF Within
  <2> QED
    BY <1>1, <2>1, <2>2, EndTimesNext DEF Within
<1> HIDE DEF d, T, p
<1>7. x \in Int /\ t \in Int
  OBVIOUS
<1>5. (x + t) % T = (p + x) % T
  <2>1. ((t % T) + x) % T = (t + x) % T
    BY <1>3, <1>7, ModPlus, Zenon
  <2>2. x + t = t + x
    OBVIOUS
  <2> QED
    BY <2>1, <2>2 DEF p
<1>6. EndTimes(f)[0] = 0 /\ EndTimes(f)[1] = EndTimes(d)[1] + x /\ EndTimes(d)[1] \in Nat
  <2>1. 1 \in 1..n /\ 1 \in 0..Len(d)
    BY <1>1
  <2> QED
    BY <1>1, <1>2, <2>1, EndTimesStep, EndTimesType
<1>8. CASE k = n
  <2> DEFINE q == p + x - T
  <2>1. q \in 0..T-1 /\ q < x
    BY <1>2, <1>3, <1>4, <1>8
  <2> HIDE DEF q
  <2>2. (p + x) % T = q
    <3>1. T * 1 + q = p + x /\ 1 \in Int
      BY <1>3, <2>1 DEF q
    <3>2. (T * 1 + q) % T = q
      BY <1>3, <2>1, <3>1, ModUnique
    <3> QED
      BY <3>1, <3>2
  <2>3. 0 \in 0..Len(f)-1 /\ EndTimes(f)[0] <= q /\ q < EndTimes(f)[0+1]
    BY <1>1, <1>2, <1>3, <1>6, <2>1
  <2>4. Within(f, 0, (x + t) % TotalDuration(f))
    BY <1>5, <2>2, <2>3 DEF Within, T
  <2>5. PrescribedOpen(open, x, f, t) = OpenIn(open, 0)
    BY <1>2, <1>7, <2>4, PrescribedIsOpenIn
  <2>6. k % 2 = 0 /\ 0 % 2 = 0
    BY <1>1, <1>8
  <2> QED
    BY <2>5, <2>6 DEF OpenIn
<1>9. CASE k # n
  <2>1. k \in 0..n-1 /\ k + 1 \in 1..n
    BY <1>1, <1>4, <1>9
  <2> DEFINE j == k + 1
  <2> j \in 1..n
    BY <2>1
  <2> HIDE DEF j
  <2>2. /\ EndTimes(d)[j] <= T - x /\ EndTimes(d)[j] \in Nat
        /\ p < EndTimes(d)[j]
    <3>1. j = n \/ j \in 0..n-1
      BY <1>1
    <3>2. n \in 0..Len(d) /\ j \in 0..Len(d)
      BY <1>1
    <3>3. EndTimes(d)[j] \in Nat /\ EndTimes(d)[n] \in Nat
      BY <1>1, <3>2, EndTimesType
    <3>4. j \in 0..n-1 => EndTimes(d)[j] < EndTimes(d)[n]
      BY <1>1, <3>2, EndTimesGrow
    <3>5. EndTimes(d)[j] <= EndTimes(d)[n]
      BY <3>1, <3>3, <3>4
    <3>6. p < EndTimes(d)[j]
      BY <1>4 DEF j
    <3> QED
      BY <1>2, <3>3, <3>5, <3>6
  <2> DEFINE q == p + x
  <2>3. q \in 0..T-1
    BY <1>3, <2>2
  <2>4. q % T = q
    BY <1>3, <2>3, ModSmall
  <2>5. EndTimes(f)[k] <= q
    <3>1. CASE k = 0
      BY <1>3, <1>6, <3>1
    <3>2. CASE k # 0
      <4>1. k \in 1..n
        BY <2>1, <3>2
      <4>2. EndTimes(f)[k] = EndTimes(d)[k] + x
        BY <1>2, <4>1
      <4> QED
        BY <1>3, <1>4, <4>2
    <3> QED
      BY <3>1, <3>2
  <2>6. q < EndTimes(f)[k+1]
    <3>1. EndTimes(f)[j] = EndTimes(d)[j] + x
      BY <1>2
    <3>2. q < EndTimes(f)[j]
      BY <1>3, <2>2, <3>1
    <3> QED
      BY <3>2 DEF j
  <2>7. Within(f, k, (x + t) % TotalDuration(f))
    BY <1>2, <1>5, <2>1, <2>4, <2>5, <2>6 DEF Within, T
  <2> QED
    BY <1>2, <1>7, <2>7, PrescribedIsOpenIn
<1> QED
  BY <1>8, <1>9

=============================================================================
