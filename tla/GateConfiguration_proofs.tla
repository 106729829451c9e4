----------------------- MODULE GateConfiguration_proofs -----------------------
(***************************************************************************)
(* The first part is about the parameters that the writers of                *)
(* GateConfiguration derive from a gate control list or from the slots of a  *)
(* computed schedule: they ask for the states that list or schedule asks     *)
(* for, at every instant.  Both are turned into a list of the durations      *)
(* between two changes of state, as the code builds it row by row or slot by *)
(* slot; the last duration of an odd list is merged into the first.          *)
(*                                                                         *)
(* The second part is about the gate: it follows its parameters, for every   *)
(* list of durations and every offset, and its change event is where its     *)
(* state changes next (PeriodicGate); a gate whose parameters are written    *)
(* one after the other by a gate control list or a configurator is such a    *)
(* gate (GateConfiguration).                                                 *)
(*                                                                         *)
(* The third part is about where the slots of a computed schedule come from: *)
(* those that EagerGateScheduler reserves do not collide, and the first      *)
(* packet of a flow finds each of its slots at the time it gets there.       *)
(***************************************************************************)
EXTENDS GateConfiguration, EagerGateScheduler, GateSchedule_proofs

-----------------------------------------------------------------------------
(* What a request asks for, as a list of durations: the state asked for      *)
(* changes at the end of each of them, and nowhere else.                     *)

(* The parameters w stand for the list d, which begins in the state open: an *)
(* odd list has its last duration merged into the first.                     *)
Derives(w, open, d) ==
    /\ w.initiallyOpen = open
    /\ Len(d) = 1 => w.offset = 0 /\ w.durations = <<>>
    /\ Len(d) % 2 = 0 => w.offset = 0 /\ w.durations = d
    /\ Len(d) % 2 # 0 /\ Len(d) # 1 =>
        \E b : /\ d = Append(b, w.offset) /\ w.offset \in Nat \ {0}
               /\ IsDurationList(b) /\ b # <<>>
               /\ Merges(w.durations, b, w.offset)

(* The list d, from the state open on, has the cycle of the request r and    *)
(* the state r asks for at every instant, and r's writer derives its         *)
(* parameters from it.                                                       *)
Describes(d, open, r) ==
    /\ IsPositiveList(d) /\ d # <<>>
    /\ open \in BOOLEAN
    /\ TotalDuration(d) = CycleOf(r)
    /\ \A t \in Nat : \A k :
        Within(d, k, t % CycleOf(r)) => RequestedOpen(r, t) = OpenIn(open, k)
    /\ Derives(ParametersOf(r), open, d)

LEMMA DerivedMeaning ==
    ASSUME NEW w, NEW open \in BOOLEAN, NEW d, IsPositiveList(d), d # <<>>,
           Derives(w, open, d)
    PROVE  /\ w.initiallyOpen \in BOOLEAN /\ w.offset \in Nat
           /\ IsDurationList(w.durations)
           /\ \A t \in Nat : \A k :
                Within(d, k, t % TotalDuration(d)) =>
                    PrescribedOpen(w.initiallyOpen, w.offset, w.durations, t)
                        = OpenIn(open, k)
           /\ IF Len(d) = 1 THEN w.durations = <<>>
              ELSE w.durations # <<>> /\ TotalDuration(w.durations) = TotalDuration(d)
<1>1. Len(d) \in Nat \ {0} /\ w.initiallyOpen = open
  BY ListFacts DEF Derives
<1>2. CASE Len(d) = 1
  <2>1. w.offset = 0 /\ w.durations = <<>>
    BY <1>2 DEF Derives
  <2>2. IsDurationList(<<>>)
    BY DEF IsDurationList, IsPositiveList
  <2>3. ASSUME NEW t \in Nat, NEW k, Within(d, k, t % TotalDuration(d))
        PROVE  PrescribedOpen(open, 0, <<>>, t) = OpenIn(open, k)
    <3>1. k = 0
      BY <1>2, <2>3 DEF Within
    <3> QED
      BY <3>1 DEF PrescribedOpen, OpenIn
  <2> QED
    BY <1>1, <1>2, <2>1, <2>2, <2>3
<1>3. CASE Len(d) % 2 = 0
  <2>1. w.offset = 0 /\ w.durations = d /\ Len(d) # 1
    BY <1>3 DEF Derives
  <2>2. IsDurationList(d)
    BY <1>3 DEF IsDurationList
  <2>3. ASSUME NEW t \in Nat, NEW k, Within(d, k, t % TotalDuration(d))
        PROVE  PrescribedOpen(open, 0, d, t) = OpenIn(open, k)
    <3>1. 0 + t = t /\ t \in Int /\ 0 \in Int
      OBVIOUS
    <3>2. Within(d, k, (0 + t) % TotalDuration(d))
      BY <2>3, <3>1
    <3> QED
      BY <2>2, <3>1, <3>2, PrescribedIsOpenIn
  <2> QED
    BY <1>1, <2>1, <2>2, <2>3
<1>4. CASE Len(d) % 2 # 0 /\ Len(d) # 1
  <2> DEFINE x == w.offset
             f == w.durations
  <2>1. PICK b : /\ d = Append(b, x) /\ x \in Nat \ {0}
                 /\ IsDurationList(b) /\ b # <<>> /\ Merges(f, b, x)
    BY <1>4 DEF Derives
  <2> HIDE DEF x, f
  <2>2. IsDurationList(f) /\ f # <<>> /\ TotalDuration(f) = TotalDuration(Append(b, x))
    BY <2>1, MergedFacts
  <2>3. ASSUME NEW t \in Nat, NEW k, Within(d, k, t % TotalDuration(d))
        PROVE  PrescribedOpen(open, x, f, t) = OpenIn(open, k)
    <3>1. Within(Append(b, x), k, t % TotalDuration(Append(b, x)))
      BY <2>1, <2>3
    <3> QED
      BY <2>1, <3>1, MergedMeaning
  <2> QED
    BY <1>1, <1>4, <2>1, <2>2, <2>3 DEF x, f
<1> QED
  BY <1>1, <1>2, <1>3, <1>4

(* What is derived from a description is what was asked for.                 *)
LEMMA DescribedIsFollowed ==
    ASSUME NEW r, NEW d, NEW open, Describes(d, open, r)
    PROVE  /\ ParametersOf(r).initiallyOpen \in BOOLEAN
           /\ ParametersOf(r).offset \in Nat
           /\ IsDurationList(ParametersOf(r).durations)
           /\ \A t \in Nat :
                PrescribedOpen(ParametersOf(r).initiallyOpen, ParametersOf(r).offset,
                               ParametersOf(r).durations, t)
                    = RequestedOpen(r, t)
<1> DEFINE w == ParametersOf(r)
           T == TotalDuration(d)
<1>1. /\ IsPositiveList(d) /\ d # <<>> /\ open \in BOOLEAN /\ Derives(w, open, d)
      /\ T = CycleOf(r)
      /\ \A t \in Nat : \A k :
            Within(d, k, t % T) => RequestedOpen(r, t) = OpenIn(open, k)
  BY DEF Describes
<1> HIDE DEF w
<1>2. /\ w.initiallyOpen \in BOOLEAN /\ w.offset \in Nat
      /\ IsDurationList(w.durations)
      /\ \A t \in Nat : \A k :
            Within(d, k, t % T) =>
                PrescribedOpen(w.initiallyOpen, w.offset, w.durations, t) = OpenIn(open, k)
  BY <1>1, DerivedMeaning
<1>3. ASSUME NEW t \in Nat
      PROVE  \E k : Within(d, k, t % T)
  <2>1. T \in Nat \ {0}
    BY <1>1, TotalDurationFacts
  <2>2. t % T \in 0..T-1
    <3> HIDE DEF T
    <3> QED
      BY <2>1
  <2> QED
    BY <1>1, <2>2, IntervalExists
<1>4. ASSUME NEW t \in Nat
      PROVE  PrescribedOpen(w.initiallyOpen, w.offset, w.durations, t) = RequestedOpen(r, t)
  <2>1. PICK k : Within(d, k, t % T)
    BY <1>3
  <2> HIDE DEF T
  <2>2. /\ PrescribedOpen(w.initiallyOpen, w.offset, w.durations, t) = OpenIn(open, k)
        /\ RequestedOpen(r, t) = OpenIn(open, k)
    BY <1>1, <1>2, <2>1
  <2> QED
    BY <2>2, Zenon
<1> QED
  BY <1>2, <1>4 DEF w

(* A description with several durations changes within the cycle, one with   *)
(* a single duration does not.                                               *)
LEMMA DescribedCycle ==
    ASSUME NEW r, NEW d, NEW open, Describes(d, open, r)
    PROVE  IF \A t \in 1..CycleOf(r)-1 : RequestedOpen(r, t) = RequestedOpen(r, 0)
           THEN ParametersOf(r).durations = <<>>
           ELSE TotalDuration(ParametersOf(r).durations) = CycleOf(r)
<1> DEFINE w == ParametersOf(r)
           T == CycleOf(r)
<1>1. /\ IsPositiveList(d) /\ d # <<>> /\ open \in BOOLEAN /\ Derives(w, open, d)
      /\ T = TotalDuration(d)
      /\ \A t \in Nat : \A k :
            Within(d, k, t % T) => RequestedOpen(r, t) = OpenIn(open, k)
  BY DEF Describes
<1> HIDE DEF w, T
<1>2. IF Len(d) = 1 THEN w.durations = <<>> ELSE TotalDuration(w.durations) = T
  BY <1>1, DerivedMeaning
<1>3. T \in Nat \ {0} /\ Len(d) \in Nat \ {0}
  BY <1>1, TotalDurationFacts, ListFacts
<1>4. \A t \in 0..T-1 : t % T = t /\ t \in Nat
  BY <1>3, ModSmall
<1>5. ASSUME Len(d) = 1, NEW t \in 0..T-1 PROVE RequestedOpen(r, t) = OpenIn(open, 0)
  <2>1. EndTimes(d)[0] = 0 /\ EndTimes(d)[1] = T /\ 0 \in 0..Len(d)-1 /\ 0 + 1 = 1
    BY <1>1, <1>5, EndTimesStep DEF TotalDuration
  <2>2. EndTimes(d)[0] <= t /\ t < EndTimes(d)[0+1]
    BY <1>3, <2>1
  <2>3. Within(d, 0, t % T)
    BY <1>4, <2>1, <2>2 DEF Within
  <2> QED
    BY <1>1, <1>4, <2>3
<1>6. ASSUME Len(d) # 1
      PROVE  \E t \in 1..T-1 : RequestedOpen(r, t) # RequestedOpen(r, 0)
  <2>1. 0 \in 0..Len(d)-1 /\ 1 \in 0..Len(d)-1 /\ 0 + 1 = 1
    <3> DEFINE n == Len(d)
    <3>1. n \in Nat /\ 2 <= n
      BY <1>3, <1>6
    <3> HIDE DEF n
    <3>2. 0 \in 0..n-1 /\ 1 \in 0..n-1
      BY <3>1
    <3> QED
      BY <3>2 DEF n
  <2> DEFINE e == EndTimes(d)[1]
             e2 == EndTimes(d)[1+1]
  <2>2. /\ EndTimes(d)[0] = 0 /\ e \in Nat /\ e2 \in Nat
        /\ 0 < e /\ e < e2 /\ e < T
    <3>1. /\ EndTimes(d)[0] = 0 /\ EndTimes(d)[0+1] = EndTimes(d)[0] + d[0+1]
          /\ d[0+1] \in Nat \ {0}
      BY <1>1, <2>1, EndTimesStep, EndTimesNext
    <3>2. /\ EndTimes(d)[1] \in Nat /\ EndTimes(d)[1+1] \in Nat /\ d[1+1] \in Nat \ {0}
          /\ EndTimes(d)[1+1] = EndTimes(d)[1] + d[1+1]
      BY <1>1, <2>1, EndTimesNext
    <3>3. EndTimes(d)[1] < T
      BY <1>1, <2>1, TotalDurationFacts
    <3> QED
      BY <2>1, <3>1, <3>2, <3>3
  <2>3. Within(d, 0, 0) /\ Within(d, 1, e)
    <3>1. EndTimes(d)[0] <= 0 /\ 0 < EndTimes(d)[0+1]
      BY <2>1, <2>2
    <3>2. EndTimes(d)[1] <= e /\ e < EndTimes(d)[1+1]
      BY <2>2
    <3> HIDE DEF e
    <3> QED
      BY <2>1, <3>1, <3>2 DEF Within
  <2> HIDE DEF e, e2
  <2>4. 0 \in 0..T-1 /\ e \in 0..T-1 /\ e \in 1..T-1
    BY <1>3, <2>2
  <2>5. /\ RequestedOpen(r, 0) = OpenIn(open, 0)
        /\ RequestedOpen(r, e) = OpenIn(open, 1)
    BY <1>1, <1>4, <2>3, <2>4
  <2>6. OpenIn(open, 0) = open /\ OpenIn(open, 1) = ~open
    BY DEF OpenIn
  <2>7. open # ~open
    BY <1>1
  <2> QED
    BY <2>4, <2>5, <2>6, <2>7
<1>7. CASE Len(d) = 1
  <2>1. \A t \in 1..T-1 : t \in 0..T-1
    BY <1>3
  <2>2. 0 \in 0..T-1
    BY <1>3
  <2>3. \A t \in 1..T-1 : RequestedOpen(r, t) = RequestedOpen(r, 0)
    BY <1>5, <1>7, <2>1, <2>2
  <2> QED
    BY <1>2, <1>7, <2>3 DEF w, T
<1>8. CASE Len(d) # 1
  BY <1>2, <1>6, <1>8 DEF w, T
<1> QED
  BY <1>7, <1>8

-----------------------------------------------------------------------------
(* The slots of a computed schedule.                                         *)

LEMMA GapsAndSlotsDef ==
    ASSUME NEW slots, Len(slots) \in Nat
    PROVE  GapsAndSlotsUpTo(slots) =
            [n \in 0..Len(slots) |->
                IF n = 0 THEN <<>>
                ELSE IF slots[n].start = 0
                THEN Append(GapsAndSlotsUpTo(slots)[n-1], slots[n].duration)
                ELSE Append(Append(GapsAndSlotsUpTo(slots)[n-1],
                                   slots[n].start - EndBefore(slots, n)),
                            slots[n].duration)]
<1> DEFINE Next1(list, n) ==
                IF slots[n].start = 0 THEN Append(list, slots[n].duration)
                ELSE Append(Append(list, slots[n].start - EndBefore(slots, n)),
                            slots[n].duration)
           Solves(f, n) == f = [k \in 0..n |-> IF k = 0 THEN <<>> ELSE Next1(f[k-1], k)]
           S == {n \in Nat : \E f : Solves(f, n)}
<1> HIDE DEF Next1
<1>1. 0 \in S
  <2>1. Solves([k \in 0..0 |-> <<>>], 0)
    OBVIOUS
  <2> QED
    BY <2>1
<1>2. ASSUME NEW n \in Nat, n \in S PROVE n + 1 \in S
  <2>1. PICK f : Solves(f, n)
    BY <1>2
  <2> DEFINE g == [k \in 0..n+1 |-> IF k = n + 1 THEN Next1(f[n], n + 1) ELSE f[k]]
  <2>2. Solves(g, n + 1)
    <3>1. \A k \in 0..n : f[k] = IF k = 0 THEN <<>> ELSE Next1(f[k-1], k)
      BY <2>1
    <3>2. \A k \in 0..n+1 : g[k] = IF k = 0 THEN <<>> ELSE Next1(g[k-1], k)
      BY <3>1
    <3> QED
      BY <3>2
  <2> HIDE DEF g, Solves
  <2>3. \E h : Solves(h, n + 1)
    BY <2>2
  <2> QED
    BY <2>3
<1> HIDE DEF S
<1>3. Len(slots) \in S
  BY <1>1, <1>2, NaturalInduction
<1>4. \E f : Solves(f, Len(slots))
  BY <1>3 DEF S
<1> QED
  BY <1>4 DEF GapsAndSlotsUpTo, Next1

(* The list of the gaps and slots up to a slot: it begins with the slot if   *)
(* that starts with the cycle, and with the gap before it otherwise.         *)
Leading(slots) == IF slots[1].start = 0 THEN 1 ELSE 0

Lists(slots, n, list) ==
    /\ IsPositiveList(list) /\ list # <<>>
    /\ Len(list) = 2 * n - Leading(slots)
    /\ \A i \in 1..n :
        /\ EndTimes(list)[2 * i - Leading(slots)] = SlotEnd(slots[i])
        /\ EndTimes(list)[2 * i - 1 - Leading(slots)] = slots[i].start

LEMMA SlotFacts ==
    ASSUME NEW r, IsSlotRequest(r)
    PROVE  LET slots == r.schedule.slots
           IN  /\ Len(slots) \in Nat
               /\ \A i \in 1..Len(slots) :
                    /\ slots[i].start \in Nat /\ slots[i].duration \in Nat \ {0}
                    /\ SlotEnd(slots[i]) \in Nat \ {0}
                    /\ SlotEnd(slots[i]) = slots[i].start + slots[i].duration
                    /\ SlotEnd(slots[i]) <= r.schedule.cycleDuration
               /\ \A i \in 2..Len(slots) : SlotEnd(slots[i-1]) < slots[i].start
<1> DEFINE slots == r.schedule.slots
<1>1. /\ slots \in Seq([start : Nat, duration : Nat \ {0}])
      /\ \A i \in DOMAIN slots : SlotEnd(slots[i]) <= r.schedule.cycleDuration
      /\ \A i \in 2..Len(slots) : SlotEnd(slots[i-1]) < slots[i].start
  BY DEF IsSlotRequest
<1> HIDE DEF slots
<1>2. Len(slots) \in Nat /\ DOMAIN slots = 1..Len(slots)
  BY <1>1
<1>3. ASSUME NEW i \in 1..Len(slots)
      PROVE  /\ slots[i].start \in Nat /\ slots[i].duration \in Nat \ {0}
             /\ SlotEnd(slots[i]) \in Nat \ {0}
             /\ SlotEnd(slots[i]) = slots[i].start + slots[i].duration
  <2> DEFINE Slots == [start : Nat, duration : Nat \ {0}]
  <2>1. slots[i] \in Slots
    <3>1. slots \in Seq(Slots)
      BY <1>1
    <3> HIDE DEF Slots
    <3> QED
      BY <1>2, <3>1
  <2> QED
    BY <2>1 DEF SlotEnd
<1> QED
  BY <1>1, <1>2, <1>3 DEF slots

(* What the loop adds to the list for the n-th slot.                         *)
Grows(slots, n, list, next) ==
    IF slots[n].start = 0
    THEN Extends(next, list, slots[n].duration)
    ELSE \E gap : /\ Extends(gap, list, slots[n].start - EndBefore(slots, n))
                  /\ Extends(next, gap, slots[n].duration)

LEMMA ListGrows ==
    ASSUME NEW r, IsSlotRequest(r)
    PROVE  LET slots == r.schedule.slots
               list  == GapsAndSlotsUpTo(slots)
           IN  /\ list[0] = <<>>
               /\ \A n \in 1..Len(slots) : Grows(slots, n, list[n-1], list[n])
<1> DEFINE slots == r.schedule.slots
           L == GapsAndSlotsUpTo(slots)
<1>1. Len(slots) \in Nat
  BY SlotFacts
<1>2. \A k \in 0..Len(slots) :
            L[k] = IF k = 0 THEN <<>>
                   ELSE IF slots[k].start = 0 THEN Append(L[k-1], slots[k].duration)
                   ELSE Append(Append(L[k-1], slots[k].start - EndBefore(slots, k)),
                               slots[k].duration)
  <2>1. L = [n \in 0..Len(slots) |->
                IF n = 0 THEN <<>>
                ELSE IF slots[n].start = 0 THEN Append(L[n-1], slots[n].duration)
                ELSE Append(Append(L[n-1], slots[n].start - EndBefore(slots, n)),
                            slots[n].duration)]
    <3> HIDE DEF slots
    <3> QED
      BY <1>1, GapsAndSlotsDef
  <2> HIDE DEF slots, L
  <2> QED
    BY <2>1, Zenon
<1> HIDE DEF slots, L
<1>3. ASSUME NEW n \in 1..Len(slots) PROVE Grows(slots, n, L[n-1], L[n])
  <2>1. n \in 0..Len(slots) /\ n # 0
    BY <1>1
  <2>2. CASE slots[n].start = 0
    <3>1. L[n] = Append(L[n-1], slots[n].duration)
      BY <1>2, <2>1, <2>2, Zenon
    <3> QED
      BY <2>2, <3>1, Zenon DEF Grows, Extends
  <2>3. CASE slots[n].start # 0
    <3>1. L[n] = Append(Append(L[n-1], slots[n].start - EndBefore(slots, n)),
                        slots[n].duration)
      BY <1>2, <2>1, <2>3, Zenon
    <3> QED
      BY <2>3, <3>1, Zenon DEF Grows, Extends
  <2> QED
    BY <2>2, <2>3
<1>4. L[0] = <<>>
  <2>1. 0 \in 0..Len(slots)
    BY <1>1
  <2> QED
    BY <1>2, <2>1, Zenon
<1> QED
  BY <1>3, <1>4, Zenon DEF slots, L

IsEmpty(list) == list = <<>>

LEMMA FirstSlotListed ==
    ASSUME NEW r, IsSlotRequest(r), NEW none, IsEmpty(none),
           1 \in 1..Len(r.schedule.slots), NEW list,
           Grows(r.schedule.slots, 1, none, list)
    PROVE  Lists(r.schedule.slots, 1, list)
<1> DEFINE slots == r.schedule.slots
           start == slots[1].start
           n == slots[1].duration
<1>1. /\ start \in Nat /\ n \in Nat \ {0} /\ SlotEnd(slots[1]) = start + n
  BY SlotFacts
<1>2. /\ IF start = 0 THEN Extends(list, none, n)
         ELSE \E gap : Extends(gap, none, start - 0) /\ Extends(list, gap, n)
      /\ Leading(slots) = IF start = 0 THEN 1 ELSE 0
  BY DEF Grows, EndBefore, Leading
<1>7. IsPositiveList(none)
  BY DEF IsEmpty, IsPositiveList
<1>3. EndTimes(none)[0] = 0
  BY <1>7, EndTimesStep
<1>4. SUFFICES /\ IsPositiveList(list) /\ list # <<>>
               /\ Len(list) = 2 - Leading(slots)
               /\ EndTimes(list)[2 - Leading(slots)] = SlotEnd(slots[1])
               /\ EndTimes(list)[1 - Leading(slots)] = start
  <2>1. \A i \in 1..1 : i = 1
    OBVIOUS
  <2>2. 2 * 1 = 2 /\ 2 * 1 - 1 = 1
    OBVIOUS
  <2> QED
    BY <1>4, <2>1, <2>2, Zenon DEF Lists
<1> DEFINE end == SlotEnd(slots[1])
<1> HIDE DEF start, n, end
<1>5. CASE start = 0
  <2> DEFINE m == Len(none)
  <2>1. m = 0
    BY DEF IsEmpty
  <2>2. Extends(list, none, n)
    BY <1>2, <1>5
  <2> HIDE DEF m
  <2>3. /\ IsPositiveList(list) /\ list # <<>> /\ Len(list) = m + 1
        /\ \A k \in 0..m : EndTimes(list)[k] = EndTimes(none)[k]
        /\ EndTimes(list)[m+1] = EndTimes(none)[m] + n
    BY <1>1, <1>7, <2>2, ExtendFacts DEF m
  <2>4. Leading(slots) = 1 /\ m + 1 = 1 /\ 2 - 1 = 1 /\ 1 - 1 = 0
    BY <1>2, <1>5, <2>1
  <2>5. EndTimes(list)[1] = n /\ EndTimes(list)[0] = 0 /\ Len(list) = 1
    <3>1. 0 \in 0..m
      BY <2>1
    <3> QED
      BY <1>1, <1>3, <2>1, <2>3, <3>1
  <2>6. SlotEnd(slots[1]) = n
    BY <1>1, <1>5
  <2> HIDE DEF slots
  <2> QED
    BY <1>5, <2>3, <2>4, <2>5, <2>6
<1>6. CASE start # 0
  <2> DEFINE m == Len(none)
  <2>1. m = 0
    BY DEF IsEmpty
  <2>8. start \in Nat \ {0} /\ start - 0 = start
    BY <1>1, <1>6
  <2>2. PICK gap : Extends(gap, none, start) /\ Extends(list, gap, n)
    BY <1>2, <1>6, <2>8
  <2> HIDE DEF m
  <2>3. /\ IsPositiveList(gap) /\ Len(gap) = m + 1
        /\ EndTimes(gap)[m+1] = EndTimes(none)[m] + start
    BY <1>7, <2>2, <2>8, ExtendFacts DEF m
  <2> DEFINE g == Len(gap)
  <2>4. g = 1 /\ EndTimes(gap)[1] = start
    BY <1>1, <1>3, <2>1, <2>3
  <2> HIDE DEF g
  <2>5. /\ IsPositiveList(list) /\ list # <<>> /\ Len(list) = g + 1
        /\ \A k \in 0..g : EndTimes(list)[k] = EndTimes(gap)[k]
        /\ EndTimes(list)[g+1] = EndTimes(gap)[g] + n
    BY <1>1, <2>2, <2>3, ExtendFacts DEF g
  <2>6. EndTimes(list)[1] = start /\ EndTimes(list)[2] = start + n /\ Len(list) = 2
    <3>1. 1 \in 0..g /\ g + 1 = 2
      BY <2>4
    <3> QED
      BY <2>4, <2>5, <3>1
  <2>7. Leading(slots) = 0 /\ 2 - 0 = 2 /\ 1 - 0 = 1
    BY <1>2, <1>6
  <2> HIDE DEF slots
  <2> QED
    BY <1>1, <2>5, <2>6, <2>7
<1> QED
  BY <1>5, <1>6

(* A slot after the first one begins after a gap.                            *)
LEMMA NextSlotListed ==
    ASSUME NEW r, IsSlotRequest(r), NEW n \in 2..Len(r.schedule.slots), NEW list,
           Lists(r.schedule.slots, n - 1, list), NEW next,
           Grows(r.schedule.slots, n, list, next)
    PROVE  Lists(r.schedule.slots, n, next)
<1> DEFINE slots == r.schedule.slots
           start == slots[n].start
           end == SlotEnd(slots[n])
           last == SlotEnd(slots[n-1])
           d == slots[n].duration
           o == Leading(slots)
           m == Len(list)
<1>1. Len(slots) \in Nat /\ n \in 1..Len(slots) /\ n - 1 \in 1..Len(slots)
  <2>1. Len(slots) \in Nat
    BY SlotFacts
  <2> HIDE DEF slots
  <2> QED
    BY <2>1 DEF slots
<1>2. /\ start \in Nat /\ d \in Nat \ {0} /\ end = start + d
      /\ last \in Nat /\ last < start
  BY <1>1, SlotFacts
<1>3. o \in 0..1
  BY DEF Leading
<1>4. /\ IsPositiveList(list) /\ m = 2 * (n - 1) - o
      /\ \A i \in 1..n-1 : /\ EndTimes(list)[2 * i - o] = SlotEnd(slots[i])
                           /\ EndTimes(list)[2 * i - 1 - o] = slots[i].start
  BY DEF Lists
<1>5. EndTimes(list)[m] = last
  <2>1. n - 1 \in 1..n-1
    BY <1>1
  <2> HIDE DEF slots, o, m, last
  <2> QED
    BY <1>4, <2>1 DEF last
<1> DEFINE gapLength == start - last
<1>6. gapLength \in Nat \ {0} /\ gapLength + last = start
  BY <1>2
<1>7. PICK gap : Extends(gap, list, gapLength) /\ Extends(next, gap, d)
  <2>1. start # 0 /\ n # 1
    BY <1>2
  <2> QED
    BY <2>1 DEF Grows, EndBefore
<1> HIDE DEF slots, start, end, last, d, o, gapLength
<1>8. /\ IsPositiveList(gap) /\ Len(gap) = m + 1 /\ m \in Nat
      /\ \A k \in 0..m : EndTimes(gap)[k] = EndTimes(list)[k]
      /\ EndTimes(gap)[m+1] = EndTimes(list)[m] + gapLength
  <2>1. IsPositiveList(list)
    BY <1>4
  <2> QED
    BY <1>6, <1>7, <2>1, ExtendFacts
<1> DEFINE g == Len(gap)
<1>9. /\ IsPositiveList(next) /\ next # <<>> /\ Len(next) = g + 1
      /\ \A k \in 0..g : EndTimes(next)[k] = EndTimes(gap)[k]
      /\ EndTimes(next)[g+1] = EndTimes(gap)[g] + d
  <2>1. IsPositiveList(gap) /\ d \in Nat \ {0}
    BY <1>2, <1>8
  <2> QED
    BY <1>7, <2>1, ExtendFacts
<1>10. g = m + 1
  BY <1>8
<1> HIDE DEF g, m
<1>11. /\ EndTimes(next)[m+1] = start /\ EndTimes(next)[m+2] = end
       /\ \A k \in 0..m : EndTimes(next)[k] = EndTimes(list)[k]
       /\ Len(next) = m + 2
  <2>1. m + 1 \in 0..g /\ g + 1 = m + 2 /\ \A k \in 0..m : k \in 0..g
    BY <1>8, <1>10
  <2>2. EndTimes(gap)[m+1] = start
    BY <1>2, <1>5, <1>6, <1>8
  <2>3. EndTimes(next)[m+1] = start
    BY <1>9, <2>1, <2>2
  <2>4. EndTimes(next)[m+2] = start + d
    BY <1>9, <1>10, <2>1, <2>2
  <2> QED
    BY <1>2, <1>8, <1>9, <2>1, <2>3, <2>4
<1>12. 2 * n - o = m + 2 /\ 2 * n - 1 - o = m + 1
  BY <1>3, <1>4
<1>13. ASSUME NEW i \in 1..n
       PROVE  /\ EndTimes(next)[2 * i - o] = SlotEnd(slots[i])
              /\ EndTimes(next)[2 * i - 1 - o] = slots[i].start
  <2>1. CASE i = n
    BY <1>11, <1>12, <2>1 DEF start, end
  <2>2. CASE i # n
    <3>1. i \in 1..n-1 /\ 2 * i - o \in 0..m /\ 2 * i - 1 - o \in 0..m
      <4>1. m = 2 * (n - 1) - o /\ n \in Nat
        BY <1>1, <1>4
      <4>2. i \in 1..n-1
        BY <2>2, <4>1
      <4> QED
        BY <1>3, <4>1, <4>2
    <3> QED
      BY <1>4, <1>11, <3>1
  <2> QED
    BY <2>1, <2>2
<1>14. Len(next) = 2 * n - o
  BY <1>11, <1>12
<1> QED
  BY <1>9, <1>13, <1>14, Zenon DEF Lists, slots, o

LEMMA AllSlotsListed ==
    ASSUME NEW r, IsSlotRequest(r), r.schedule.slots # <<>>
    PROVE  /\ Len(r.schedule.slots) \in Nat \ {0}
           /\ Lists(r.schedule.slots, Len(r.schedule.slots), GapsAndSlots(r.schedule.slots))
<1> DEFINE slots == r.schedule.slots
           L == GapsAndSlotsUpTo(slots)
           S == {n \in Nat : n + 1 \in 1..Len(slots) => Lists(slots, n + 1, L[n+1])}
<1>1. Len(slots) \in Nat \ {0}
  <2>1. slots \in Seq([start : Nat, duration : Nat \ {0}])
    BY DEF IsSlotRequest
  <2> HIDE DEF slots
  <2> QED
    BY <2>1 DEF slots
<1>2. L[0] = <<>> /\ \A n \in 1..Len(slots) : Grows(slots, n, L[n-1], L[n])
  BY ListGrows
<1> HIDE DEF L
<1>3. 0 \in S
  <2>1. 1 \in 1..Len(slots) /\ 0 + 1 = 1 /\ 1 - 1 = 0
    BY <1>1
  <2>2. Grows(slots, 1, L[0], L[1]) /\ IsEmpty(L[0])
    BY <1>2, <2>1 DEF IsEmpty
  <2>3. Lists(slots, 1, L[1])
    BY <2>1, <2>2, FirstSlotListed, Zenon
  <2> HIDE DEF slots
  <2> QED
    BY <2>3
<1>4. ASSUME NEW n \in Nat, n \in S PROVE n + 1 \in S
  <2> DEFINE m == n + 1 + 1
  <2> SUFFICES ASSUME m \in 1..Len(slots) PROVE Lists(slots, m, L[m])
    OBVIOUS
  <2>1. m \in 2..Len(slots) /\ m - 1 = n + 1 /\ n + 1 \in 1..Len(slots)
    BY <1>1
  <2>2. Lists(slots, m - 1, L[m-1])
    BY <1>4, <2>1
  <2>3. Grows(slots, m, L[m-1], L[m])
    BY <1>2
  <2> HIDE DEF m
  <2> QED
    BY <2>1, <2>2, <2>3, NextSlotListed, Zenon
<1> HIDE DEF S
<1>5. \A n \in Nat : n \in S
  BY <1>3, <1>4, NaturalInduction
<1>6. Lists(slots, Len(slots), L[Len(slots)])
  <2> DEFINE n == Len(slots) - 1
  <2>1. n \in Nat /\ n + 1 = Len(slots) /\ n + 1 \in 1..Len(slots)
    BY <1>1
  <2> HIDE DEF n, slots
  <2>2. Lists(slots, n + 1, L[n+1])
    BY <1>5, <2>1 DEF S
  <2> QED
    BY <2>1, <2>2
<1> QED
  BY <1>1, <1>6 DEF GapsAndSlots, L

(* The whole cycle: the slots are the intervals with an odd number when the  *)
(* list begins with a gap, and the ones with an even number otherwise.       *)
LEMMA WholeCycleFacts ==
    ASSUME NEW r, IsSlotRequest(r), r.schedule.slots # <<>>
    PROVE  LET slots == r.schedule.slots
               d     == WholeCycle(r.schedule)
           IN  /\ IsPositiveList(d) /\ d # <<>>
               /\ TotalDuration(d) = r.schedule.cycleDuration
               /\ Len(d) <= 2 * Len(slots) - Leading(slots) + 1
               /\ \A i \in 1..Len(slots) :
                    /\ 2 * i - Leading(slots) \in 0..Len(d)
                    /\ EndTimes(d)[2 * i - Leading(slots)] = SlotEnd(slots[i])
                    /\ EndTimes(d)[2 * i - 1 - Leading(slots)] = slots[i].start
<1> DEFINE slots == r.schedule.slots
           N == Len(slots)
           o == Leading(slots)
           list == GapsAndSlots(slots)
           C == r.schedule.cycleDuration
           last == SlotEnd(slots[N])
           d == WholeCycle(r.schedule)
           m == Len(list)
<1>1. N \in Nat \ {0} /\ Lists(slots, N, list)
  BY AllSlotsListed
<1>2. o \in 0..1
  BY DEF Leading
<1>3. C \in Nat /\ last \in Nat /\ last <= C
  <2>1. C \in Nat
    BY DEF IsSlotRequest
  <2>2. last \in Nat \ {0} /\ last <= C
    <3>1. N \in 1..N
      BY <1>1
    <3> QED
      BY <3>1, SlotFacts
  <2> QED
    BY <2>1, <2>2
<1>4. d = IF C - last # 0 THEN Append(list, C - last) ELSE list
  BY DEF WholeCycle, Last
<1> HIDE DEF slots, o, list, C, last, d
<1>5. /\ IsPositiveList(list) /\ list # <<>> /\ m = 2 * N - o
      /\ \A i \in 1..N : /\ EndTimes(list)[2 * i - o] = SlotEnd(slots[i])
                         /\ EndTimes(list)[2 * i - 1 - o] = slots[i].start
  BY <1>1 DEF Lists, o
<1> HIDE DEF N
<1>6. EndTimes(list)[m] = last /\ TotalDuration(list) = last
  <2>1. N \in 1..N
    BY <1>1
  <2>2. EndTimes(list)[2 * N - o] = SlotEnd(slots[N])
    BY <1>5, <2>1
  <2> HIDE DEF m
  <2>3. EndTimes(list)[m] = last
    BY <1>5, <2>2 DEF last, N
  <2> QED
    BY <2>3 DEF TotalDuration, m
<1>7. \A i \in 1..N : 2 * i - o \in 0..m /\ 2 * i - 1 - o \in 0..m
  <2> HIDE DEF m
  <2> QED
    BY <1>1, <1>2, <1>5
<1>8. /\ IsPositiveList(d) /\ d # <<>> /\ TotalDuration(d) = C
      /\ Len(d) \in m..m+1 /\ m \in Nat
      /\ \A k \in 0..m : EndTimes(d)[k] = EndTimes(list)[k]
  <2>1. CASE C = last
    <3>1. d = list /\ m \in Nat
      <4>1. C - last = 0
        BY <1>3, <2>1
      <4> QED
        BY <1>4, <1>5, <4>1, ListFacts
    <3>2. Len(d) = m
      BY <3>1
    <3> HIDE DEF m
    <3>3. Len(d) \in m..m+1
      BY <3>1, <3>2
    <3> QED
      BY <1>5, <1>6, <2>1, <3>1, <3>3
  <2>2. CASE C # last
    <3> DEFINE x == C - last
    <3>1. x \in Nat \ {0} /\ last + x = C
      BY <1>3, <2>2
    <3> HIDE DEF x
    <3>2. Extends(d, list, x)
      <4>1. C - last # 0
        BY <3>1 DEF x
      <4> QED
        BY <1>4, <4>1 DEF x, Extends
    <3>3. IsPositiveList(list)
      BY <1>5
    <3>4. /\ IsPositiveList(d) /\ d # <<>> /\ Len(d) = m + 1 /\ m \in Nat
          /\ \A k \in 0..m : EndTimes(d)[k] = EndTimes(list)[k]
          /\ EndTimes(d)[m+1] = EndTimes(list)[m] + x
          /\ TotalDuration(d) = EndTimes(d)[m+1]
      BY <3>1, <3>2, <3>3, ExtendFacts
    <3> HIDE DEF m
    <3>5. Len(d) \in m..m+1
      BY <3>4
    <3>6. TotalDuration(d) = C
      BY <1>6, <3>1, <3>4
    <3> QED
      BY <3>4, <3>5, <3>6
  <2> QED
    BY <2>1, <2>2
<1> HIDE DEF m
<1>9. ASSUME NEW i \in 1..N
      PROVE  /\ 2 * i - o \in 0..Len(d)
             /\ EndTimes(d)[2 * i - o] = SlotEnd(slots[i])
             /\ EndTimes(d)[2 * i - 1 - o] = slots[i].start
  <2>1. 2 * i - o \in 0..m /\ 2 * i - 1 - o \in 0..m
    BY <1>7
  <2>2. 2 * i - o \in 0..Len(d)
    BY <1>2, <1>8, <2>1
  <2> QED
    BY <1>5, <1>8, <2>1, <2>2
<1>10. Len(d) <= 2 * N - o + 1
  BY <1>5, <1>8
<1> QED
  BY <1>8, <1>9, <1>10 DEF slots, N, o, C, d

(* The slots are the intervals in which the gate is in the schedule's state. *)
LEMMA SlotsAsIntervals ==
    ASSUME NEW r, IsSlotRequest(r), r.schedule.slots # <<>>, NEW p \in Nat,
           NEW k, Within(WholeCycle(r.schedule), k, p)
    PROVE  (\E i \in 1..Len(r.schedule.slots) :
                r.schedule.slots[i].start <= p /\ p < SlotEnd(r.schedule.slots[i]))
           <=> (k + Leading(r.schedule.slots)) % 2 = 1
<1> DEFINE slots == r.schedule.slots
           N == Len(slots)
           o == Leading(slots)
           d == WholeCycle(r.schedule)
           E == EndTimes(d)
<1>1. /\ IsPositiveList(d) /\ Len(d) \in Nat
      /\ Len(d) <= 2 * N - o + 1
      /\ \A i \in 1..N : /\ 2 * i - o \in 0..Len(d)
                         /\ E[2 * i - o] = SlotEnd(slots[i])
                         /\ E[2 * i - 1 - o] = slots[i].start
  BY WholeCycleFacts, ListFacts
<1>2. N \in Nat \ {0} /\ o \in 0..1
  BY AllSlotsListed DEF Leading
<1>3. k \in 0..Len(d)-1 /\ E[k] <= p /\ p < E[k+1]
  BY DEF Within
<1>4. Within(d, k, p) /\ p \in Int
  OBVIOUS
<1> HIDE DEF slots, N, o, d
<1>5. /\ \A j \in 0..Len(d) : E[j] <= p => j <= k
      /\ \A j \in 0..k : E[j] <= p
      /\ \A j \in 0..Len(d) : E[j] \in Nat
  BY <1>1, <1>4, IntervalUnique, EndTimesType
<1> HIDE DEF E
<1>6. ASSUME NEW i \in 1..N, slots[i].start <= p, p < SlotEnd(slots[i])
      PROVE  (k + o) % 2 = 1
  <2> DEFINE a == 2 * i - 1 - o
             b == 2 * i - o
  <2>1. b \in 0..Len(d) /\ a \in 0..Len(d) /\ a + 1 = b
    <3>1. b \in 0..Len(d)
      BY <1>1
    <3> QED
      BY <1>1, <1>2, <3>1
  <2>2. E[a] <= p /\ p < E[b] /\ E[b] \in Nat
    BY <1>1, <1>5, <1>6, <2>1
  <2> HIDE DEF a, b
  <2>3. a <= k /\ ~(b <= k)
    <3>1. a <= k
      BY <1>5, <2>1, <2>2
    <3>2. ASSUME b <= k PROVE FALSE
      <4>1. b \in 0..k
        BY <1>3, <2>1, <3>2
      <4>2. E[b] <= p
        BY <1>5, <4>1
      <4> QED
        BY <2>2, <4>2
    <3> QED
      BY <3>1, <3>2
  <2>4. k = a
    BY <1>1, <1>3, <2>1, <2>3
  <2> QED
    BY <1>2, <2>4 DEF a
<1>7. ASSUME (k + o) % 2 = 1
      PROVE  \E i \in 1..N : slots[i].start <= p /\ p < SlotEnd(slots[i])
  <2>1. PICK i \in Int : k + o = 2 * i - 1
    <3> DEFINE q == (k + o) \div 2
    <3>1. k + o \in Int /\ q \in Int /\ k + o = 2 * q + 1
      BY <1>1, <1>2, <1>3, <1>7
    <3> HIDE DEF q
    <3>2. k + o = 2 * (q + 1) - 1 /\ q + 1 \in Int
      BY <3>1
    <3> QED
      BY <3>2
  <2>2. i \in 1..N
    <3>1. k \in Nat /\ k <= 2 * N - o
      BY <1>1, <1>2, <1>3
    <3> QED
      BY <1>2, <2>1, <3>1
  <2>3. k = 2 * i - 1 - o /\ k + 1 = 2 * i - o
    BY <1>2, <1>3, <2>1
  <2> QED
    BY <1>1, <1>3, <2>2, <2>3
<1> QED
  BY <1>6, <1>7, Zenon DEF slots, N, o

(* An odd list of a configurator is the list without its last duration, and  *)
(* that duration.                                                            *)
LEMMA LastTakenOff ==
    ASSUME NEW d, IsPositiveList(d), Len(d) % 2 # 0, Len(d) # 1
    PROVE  /\ Last(d) \in Nat \ {0} /\ d = Append(Front(d), Last(d))
           /\ IsDurationList(Front(d)) /\ Front(d) # <<>>
<1> DEFINE n == Len(d)
           f == Front(d)
<1>1. n \in Nat /\ n >= 3 /\ \A k \in 1..n : d[k] \in Nat \ {0}
  <2>1. n \in Nat /\ \A k \in 1..n : d[k] \in Nat \ {0}
    BY ListFacts
  <2>2. n % 2 # 0 /\ n # 1
    OBVIOUS
  <2> HIDE DEF n
  <2> QED
    BY <2>1, <2>2
<1>2. f = [k \in 1..n-1 |-> d[k]]
  BY <1>1 DEF Front, IsPositiveList
<1>3. IsPositiveList(f) /\ Len(f) = n - 1 /\ f # <<>>
  <2> HIDE DEF f, n
  <2>1. f \in Seq(Nat \ {0}) /\ Len(f) = n - 1
    BY <1>1, <1>2
  <2> QED
    BY <1>1, <2>1 DEF IsPositiveList
<1>4. (n - 1) % 2 = 0
  BY <1>1
<1>5. Last(d) = d[n] /\ d[n] \in Nat \ {0}
  BY <1>1 DEF Last
<1>6. d = Append(f, d[n])
  BY <1>1, <1>2, <1>3 DEF IsPositiveList
<1> QED
  BY <1>3, <1>4, <1>5, <1>6 DEF IsDurationList

LEMMA ConfiguratorDerives ==
    ASSUME NEW s, s.slots # <<>>, IsPositiveList(WholeCycle(s)), WholeCycle(s) # <<>>
    PROVE  Derives(ConfigureGateScheduling(s),
                   IF s.slots[1].start = 0 THEN s.open ELSE ~s.open, WholeCycle(s))
<1> DEFINE w == ConfigureGateScheduling(s)
           open == IF s.slots[1].start = 0 THEN s.open ELSE ~s.open
           d == WholeCycle(s)
<1>1. Len(d) \in Nat \ {0}
  BY ListFacts
<1>2. w = IF Len(d) % 2 = 0
          THEN [initiallyOpen |-> open, offset |-> 0, durations |-> d]
          ELSE IF Len(d) = 1
          THEN [initiallyOpen |-> open, offset |-> 0, durations |-> <<>>]
          ELSE [initiallyOpen |-> open, offset |-> Last(d),
                durations |-> [Front(d) EXCEPT ![1] = @ + Last(d)]]
  BY DEF ConfigureGateScheduling
<1> SUFFICES Derives(w, open, d)
  OBVIOUS
<1> HIDE DEF w, open, d
<1>3. CASE Len(d) % 2 = 0
  <2>1. Len(d) # 1
    <3>1. 1 % 2 # 0
      OBVIOUS
    <3> QED
      BY <1>3, <3>1, Zenon
  <2> QED
    BY <1>2, <1>3, <2>1 DEF Derives
<1>4. CASE Len(d) = 1
  <2>1. Len(d) % 2 # 0
    BY <1>4
  <2> QED
    BY <1>2, <1>4, <2>1 DEF Derives
<1>5. CASE Len(d) % 2 # 0 /\ Len(d) # 1
  <2>1. /\ w.initiallyOpen = open /\ w.offset = Last(d)
        /\ w.durations = [Front(d) EXCEPT ![1] = @ + Last(d)]
    BY <1>2, <1>5
  <2>2. IsPositiveList(d)
    BY DEF d
  <2>3. /\ Last(d) \in Nat \ {0} /\ d = Append(Front(d), Last(d))
        /\ IsDurationList(Front(d)) /\ Front(d) # <<>>
    BY <1>5, <2>2, LastTakenOff
  <2>4. Merges(w.durations, Front(d), w.offset)
    BY <2>1, Zenon DEF Merges
  <2>5. \E b : /\ d = Append(b, w.offset) /\ w.offset \in Nat \ {0}
               /\ IsDurationList(b) /\ b # <<>>
               /\ Merges(w.durations, b, w.offset)
    BY <2>1, <2>3, <2>4, Zenon
  <2> QED
    BY <1>5, <2>1, <2>5 DEF Derives
<1> QED
  BY <1>3, <1>4, <1>5

LEMMA SlotsDescribed ==
    ASSUME NEW r, r.kind = "slots", IsSlotRequest(r)
    PROVE  \E d, open : Describes(d, open, r)
<1> DEFINE s == r.schedule
           slots == s.slots
           C == s.cycleDuration
           In(p) == \E i \in DOMAIN slots : slots[i].start <= p /\ p < SlotEnd(slots[i])
<1>1. /\ ParametersOf(r) = ConfigureGateScheduling(s) /\ CycleOf(r) = C
      /\ C \in Nat \ {0} /\ s.open \in BOOLEAN
  BY DEF ParametersOf, CycleOf, IsSlotRequest
<1>2. \A t : RequestedOpen(r, t) = (In(t % C) <=> s.open)
  BY DEF RequestedOpen
<1>3. DOMAIN slots = 1..Len(slots)
  BY DEF IsSlotRequest
<1>4. \A t \in Nat : t % C \in Nat
  <2> HIDE DEF C
  <2> QED
    BY <1>1
<1>5. CASE slots = <<>>
  <2> DEFINE open == ~s.open
             d == <<C>>
  <2>1. IsPositiveList(d) /\ d # <<>> /\ Len(d) = 1 /\ d[1] = C
    BY <1>1 DEF IsPositiveList
  <2> HIDE DEF d
  <2>2. TotalDuration(d) = C
    <3>1. 1 \in 1..Len(d) /\ 1 - 1 = 0
      BY <2>1
    <3>2. EndTimes(d)[0] = 0 /\ EndTimes(d)[1] = EndTimes(d)[1-1] + d[1]
      BY <2>1, <3>1, EndTimesStep
    <3> QED
      BY <1>1, <2>1, <3>1, <3>2 DEF TotalDuration
  <2>3. ASSUME NEW t \in Nat, NEW k, Within(d, k, t % C)
        PROVE  RequestedOpen(r, t) = OpenIn(open, k)
    <3>1. k = 0
      BY <2>1, <2>3 DEF Within
    <3>2. OpenIn(open, k) = open
      BY <3>1 DEF OpenIn
    <3>3. ~In(t % C)
      BY <1>5
    <3> HIDE DEF In
    <3>4. RequestedOpen(r, t) = ~s.open
      BY <1>1, <1>2, <3>3, Zenon
    <3> QED
      BY <3>2, <3>4
  <2>4. Derives(ParametersOf(r), open, d)
    <3>1. /\ ParametersOf(r).initiallyOpen = open /\ ParametersOf(r).offset = 0
          /\ ParametersOf(r).durations = <<>>
      BY <1>1, <1>5 DEF ConfigureGateScheduling
    <3> QED
      BY <2>1, <3>1 DEF Derives
  <2>5. open \in BOOLEAN
    OBVIOUS
  <2> HIDE DEF open
  <2>6. Describes(d, open, r)
    BY <1>1, <2>1, <2>2, <2>3, <2>4, <2>5, Zenon DEF Describes
  <2> QED
    BY <2>6
<1>6. CASE slots # <<>>
  <2> DEFINE d == WholeCycle(s)
             open == IF slots[1].start = 0 THEN s.open ELSE ~s.open
  <2>1. IsPositiveList(d) /\ d # <<>> /\ TotalDuration(d) = C
    BY <1>6, WholeCycleFacts
  <2>2. open \in BOOLEAN
    BY <1>1
  <2>3. Derives(ParametersOf(r), open, d)
    BY <1>1, <1>6, <2>1, ConfiguratorDerives
  <2>4. ASSUME NEW t \in Nat, NEW k, Within(d, k, t % C)
        PROVE  RequestedOpen(r, t) = OpenIn(open, k)
    <3> DEFINE o == Leading(slots)
               p == t % C
    <3>1. In(p) <=> (k + o) % 2 = 1
      <4>1. p \in Nat /\ Within(d, k, p)
        BY <1>4, <2>4
      <4> HIDE DEF p
      <4>2. (\E i \in 1..Len(slots) : slots[i].start <= p /\ p < SlotEnd(slots[i]))
                <=> (k + o) % 2 = 1
        BY <1>6, <4>1, SlotsAsIntervals
      <4> QED
        BY <1>3, <4>2, Zenon
    <3>2. k \in Nat
      <4>1. k \in 0..Len(d)-1
        BY <2>4 DEF Within
      <4>2. Len(d) \in Nat
        BY <2>1, ListFacts
      <4> HIDE DEF d
      <4> QED
        BY <4>1, <4>2
    <3>3. o = IF slots[1].start = 0 THEN 1 ELSE 0
      BY DEF Leading
    <3>4. RequestedOpen(r, t) = (In(p) <=> s.open)
      BY <1>2
    <3> HIDE DEF In, p, o, d, slots
    <3>5. CASE slots[1].start = 0
      <4>1. o = 1 /\ open = s.open
        BY <3>3, <3>5
      <4>2. (k + o) % 2 = 1 <=> k % 2 = 0
        BY <3>2, <4>1
      <4>3. k % 2 = 0 => RequestedOpen(r, t) = OpenIn(open, k)
        BY <1>1, <3>1, <3>4, <4>1, <4>2, Zenon DEF OpenIn
      <4>4. k % 2 # 0 => RequestedOpen(r, t) = OpenIn(open, k)
        BY <1>1, <3>1, <3>4, <4>1, <4>2, Zenon DEF OpenIn
      <4> QED
        BY <4>3, <4>4
    <3>6. CASE slots[1].start # 0
      <4>1. o = 0 /\ open = ~s.open
        BY <3>3, <3>6
      <4>2. (k + o) % 2 = 1 <=> k % 2 # 0
        BY <3>2, <4>1
      <4>3. k % 2 = 0 => RequestedOpen(r, t) = OpenIn(open, k)
        BY <1>1, <3>1, <3>4, <4>1, <4>2, Zenon DEF OpenIn
      <4>4. k % 2 # 0 => RequestedOpen(r, t) = OpenIn(open, k)
        BY <1>1, <3>1, <3>4, <4>1, <4>2, Zenon DEF OpenIn
      <4> QED
        BY <4>3, <4>4
    <3> QED
      BY <3>5, <3>6
  <2> HIDE DEF open, d
  <2>5. Describes(d, open, r)
    BY <1>1, <2>1, <2>2, <2>3, <2>4, Zenon DEF Describes
  <2> QED
    BY <2>5
<1> QED
  BY <1>5, <1>6

-----------------------------------------------------------------------------
(* The rows of a gate control list.                                          *)

(* bit[i] is the state of the gate in row i.  The list d, which begins in    *)
(* the state of the first row, covers the first m rows: each of them lies in *)
(* one interval of d, with the state the gate has in it.                     *)
RowsCovered(d, m, rows, bit) ==
    /\ IsPositiveList(d) /\ d # <<>>
    /\ TotalDuration(d) = EndTimes(rows)[m]
    /\ bit[m] = OpenIn(bit[1], Len(d)-1)
    /\ \A i \in 1..m : \E k \in 0..Len(d)-1 :
        /\ EndTimes(d)[k] <= EndTimes(rows)[i-1]
        /\ EndTimes(rows)[i] <= EndTimes(d)[k+1]
        /\ bit[i] = OpenIn(bit[1], k)

LEMMA RowFacts ==
    ASSUME NEW rows, IsPositiveList(rows), NEW m \in 1..Len(rows)
    PROVE  /\ EndTimes(rows)[m-1] \in Nat /\ EndTimes(rows)[m] \in Nat
           /\ rows[m] \in Nat \ {0}
           /\ EndTimes(rows)[m] = EndTimes(rows)[m-1] + rows[m]
<1>1. Len(rows) \in Nat
  BY ListFacts
<1>2. m \in 0..Len(rows) /\ m - 1 \in 0..Len(rows)
  BY <1>1
<1> QED
  BY <1>2, ListFacts, EndTimesStep, EndTimesType

LEMMA FirstRowCovered ==
    ASSUME NEW rows, IsPositiveList(rows), 1 \in 1..Len(rows), NEW bit,
           NEW none, IsEmpty(none), NEW d, Extends(d, none, rows[1])
    PROVE  RowsCovered(d, 1, rows, bit)
<1> DEFINE x == rows[1]
           m == Len(none)
<1>1. IsPositiveList(none) /\ m = 0
  BY DEF IsEmpty, IsPositiveList
<1>2. /\ x \in Nat \ {0} /\ EndTimes(rows)[0] = 0 /\ EndTimes(rows)[1] = x
  <2>1. EndTimes(rows)[0] = 0 /\ EndTimes(rows)[1] = EndTimes(rows)[1-1] + x
    BY EndTimesStep
  <2>2. x \in Nat \ {0} /\ 1 - 1 = 0
    BY ListFacts
  <2> HIDE DEF x
  <2> QED
    BY <2>1, <2>2
<1>3. IsPositiveList(none)
  BY <1>1
<1> HIDE DEF x
<1>8. Extends(d, none, x)
  BY DEF x
<1>4. /\ IsPositiveList(d) /\ d # <<>> /\ Len(d) = m + 1
      /\ \A k \in 0..m : EndTimes(none)[k] \in Nat /\ EndTimes(d)[k] = EndTimes(none)[k]
      /\ EndTimes(d)[m+1] = EndTimes(none)[m] + x
      /\ TotalDuration(d) = EndTimes(d)[m+1]
  BY <1>2, <1>3, <1>8, ExtendFacts
<1>5. EndTimes(none)[0] = 0
  BY <1>3, EndTimesStep
<1> HIDE DEF m
<1>6. /\ Len(d) = 1 /\ EndTimes(d)[0] = 0 /\ EndTimes(d)[1] = x /\ TotalDuration(d) = x
  <2>1. 0 \in 0..m /\ m + 1 = 1
    BY <1>1
  <2> QED
    BY <1>1, <1>2, <1>4, <1>5, <2>1
<1>7. bit[1] = OpenIn(bit[1], 0)
  BY DEF OpenIn
<1>9. ASSUME NEW i \in 1..1
      PROVE  \E k \in 0..1-1 : /\ EndTimes(d)[k] <= EndTimes(rows)[i-1]
                               /\ EndTimes(rows)[i] <= EndTimes(d)[k+1]
                               /\ bit[i] = OpenIn(bit[1], k)
  <2>1. i = 1 /\ i - 1 = 0 /\ 0 \in 0..1-1 /\ 0 + 1 = 1
    OBVIOUS
  <2>2. /\ EndTimes(d)[0] <= EndTimes(rows)[0]
        /\ EndTimes(rows)[1] <= EndTimes(d)[1]
    BY <1>2, <1>6
  <2> QED
    BY <1>7, <2>1, <2>2, Zenon
<1>10. 1 - 1 = 0
  OBVIOUS
<1> QED
  BY <1>2, <1>4, <1>6, <1>7, <1>9, <1>10, Zenon DEF RowsCovered

(* A row in which the gate keeps its state makes the last interval longer.   *)
LEMMA SameStateCovered ==
    ASSUME NEW rows, IsPositiveList(rows), NEW m, m \in 1..Len(rows), m + 1 \in 1..Len(rows),
           NEW bit, bit[m+1] = bit[m],
           NEW b, IsPositiveList(b), NEW x \in Nat \ {0},
           NEW d, Extends(d, b, x), RowsCovered(d, m, rows, bit),
           NEW e, Extends(e, b, x + rows[m+1])
    PROVE  RowsCovered(e, m + 1, rows, bit)
<1> DEFINE E == EndTimes(rows)
           y == rows[m+1]
           z == x + y
           n == Len(b)
<1>1. /\ E[m] \in Nat /\ E[m+1] \in Nat /\ y \in Nat \ {0} /\ E[m+1] = E[m] + y
      /\ \A i \in 1..m : E[i-1] \in Nat /\ E[i] \in Nat
      /\ m \in Nat
  <2>1. m \in Nat /\ (m + 1) - 1 = m
    OBVIOUS
  <2>2. \A i \in 1..m : i \in 1..Len(rows)
    BY ListFacts
  <2>3. /\ E[(m+1)-1] \in Nat /\ E[m+1] \in Nat /\ y \in Nat \ {0}
        /\ E[m+1] = E[(m+1)-1] + y
    BY RowFacts
  <2> QED
    BY <2>1, <2>2, <2>3, RowFacts
<1>2. z \in Nat \ {0} /\ z = x + y
  BY <1>1
<1> HIDE DEF E, y, z
<1>3. Extends(e, b, z)
  BY DEF z, y
<1>4. /\ IsPositiveList(d) /\ Len(d) = n + 1 /\ n \in Nat
      /\ \A k \in 0..n : EndTimes(b)[k] \in Nat /\ EndTimes(d)[k] = EndTimes(b)[k]
      /\ EndTimes(d)[n+1] = EndTimes(b)[n] + x
      /\ TotalDuration(d) = EndTimes(d)[n+1]
  BY ExtendFacts
<1>5. /\ IsPositiveList(e) /\ e # <<>> /\ Len(e) = n + 1
      /\ \A k \in 0..n : EndTimes(e)[k] = EndTimes(b)[k]
      /\ EndTimes(e)[n+1] = EndTimes(b)[n] + z
      /\ TotalDuration(e) = EndTimes(e)[n+1]
  BY <1>2, <1>3, ExtendFacts
<1> HIDE DEF n
<1>6. /\ TotalDuration(d) = E[m] /\ bit[m] = OpenIn(bit[1], n)
      /\ \A i \in 1..m : \E k \in 0..n : /\ EndTimes(d)[k] <= E[i-1]
                                         /\ E[i] <= EndTimes(d)[k+1]
                                         /\ bit[i] = OpenIn(bit[1], k)
  <2>1. Len(d) - 1 = n
    BY <1>4
  <2>2. /\ TotalDuration(d) = E[m] /\ bit[m] = OpenIn(bit[1], Len(d)-1)
        /\ \A i \in 1..m : \E k \in 0..Len(d)-1 : /\ EndTimes(d)[k] <= E[i-1]
                                         /\ E[i] <= EndTimes(d)[k+1]
                                         /\ bit[i] = OpenIn(bit[1], k)
    BY DEF RowsCovered, E
  <2> QED
    BY <2>1, <2>2, Zenon
<1>7. /\ EndTimes(e)[n+1] = EndTimes(d)[n+1] + y
      /\ EndTimes(d)[n+1] \in Nat /\ EndTimes(e)[n+1] \in Nat
      /\ TotalDuration(e) = E[m+1]
      /\ EndTimes(e)[n] <= E[m]
  <2>1. n \in 0..n /\ EndTimes(b)[n] \in Nat /\ EndTimes(e)[n] = EndTimes(b)[n]
    BY <1>4, <1>5
  <2> DEFINE c == EndTimes(b)[n]
  <2>2. /\ EndTimes(d)[n+1] = c + x /\ EndTimes(e)[n+1] = c + z /\ c \in Nat
        /\ E[m] = EndTimes(d)[n+1] /\ TotalDuration(e) = EndTimes(e)[n+1]
        /\ EndTimes(e)[n] = c
    BY <1>4, <1>5, <1>6, <2>1
  <2> HIDE DEF c
  <2> QED
    BY <1>1, <1>2, <2>2
<1>8. ASSUME NEW i \in 1..m+1
      PROVE  \E k \in 0..n : /\ EndTimes(e)[k] <= E[i-1]
                             /\ E[i] <= EndTimes(e)[k+1]
                             /\ bit[i] = OpenIn(bit[1], k)
  <2>1. CASE i = m + 1
    <3>1. n \in 0..n /\ i - 1 = m
      BY <1>1, <1>4, <2>1
    <3>2. E[m+1] <= EndTimes(e)[n+1]
      BY <1>1, <1>5, <1>7
    <3>3. bit[i] = OpenIn(bit[1], n)
      BY <1>6, <2>1
    <3> QED
      BY <1>7, <2>1, <3>1, <3>2, <3>3
  <2>2. CASE i # m + 1
    <3>1. i \in 1..m
      BY <1>1, <2>2
    <3>2. PICK k \in 0..n : /\ EndTimes(d)[k] <= E[i-1]
                            /\ E[i] <= EndTimes(d)[k+1]
                            /\ bit[i] = OpenIn(bit[1], k)
      BY <1>6, <3>1
    <3>3. EndTimes(e)[k] = EndTimes(d)[k]
      BY <1>4, <1>5
    <3>4. E[i] <= EndTimes(e)[k+1]
      <4>1. CASE k = n
        <5>1. E[i] <= EndTimes(d)[n+1] /\ E[i] \in Nat
          BY <1>1, <3>1, <3>2, <4>1
        <5>2. EndTimes(d)[n+1] <= EndTimes(e)[n+1]
          BY <1>1, <1>7
        <5>3. E[i] <= EndTimes(e)[n+1]
          BY <1>7, <5>1, <5>2
        <5> QED
          BY <4>1, <5>3
      <4>2. CASE k # n
        <5>1. k + 1 \in 0..n
          BY <1>4, <4>2
        <5>2. EndTimes(e)[k+1] = EndTimes(d)[k+1]
          BY <1>4, <1>5, <5>1
        <5> QED
          BY <3>2, <5>2
      <4> QED
        BY <4>1, <4>2
    <3> QED
      BY <3>2, <3>3, <3>4
  <2> QED
    BY <2>1, <2>2
<1>9. Len(e) - 1 = n
  BY <1>4, <1>5
<1>10. bit[m+1] = OpenIn(bit[1], n)
  BY <1>6
<1> QED
  BY <1>5, <1>7, <1>8, <1>9, <1>10, Zenon DEF RowsCovered, E

(* A row in which the gate changes its state begins a new interval.          *)
LEMMA OtherStateCovered ==
    ASSUME NEW rows, IsPositiveList(rows), NEW m, m \in 1..Len(rows), m + 1 \in 1..Len(rows),
           NEW bit \in [1..Len(rows) -> BOOLEAN], bit[m+1] # bit[m],
           NEW d, RowsCovered(d, m, rows, bit),
           NEW e, Extends(e, d, rows[m+1])
    PROVE  RowsCovered(e, m + 1, rows, bit)
<1> DEFINE E == EndTimes(rows)
           y == rows[m+1]
           n == Len(d)
<1>1. /\ E[m] \in Nat /\ E[m+1] \in Nat /\ y \in Nat \ {0} /\ E[m+1] = E[m] + y
      /\ m \in Nat
  <2>1. m \in Nat /\ (m + 1) - 1 = m
    OBVIOUS
  <2>3. /\ E[(m+1)-1] \in Nat /\ E[m+1] \in Nat /\ y \in Nat \ {0}
        /\ E[m+1] = E[(m+1)-1] + y
    BY RowFacts
  <2> QED
    BY <2>1, <2>3
<1> HIDE DEF E, y
<1>2. Extends(e, d, y)
  BY DEF y
<1>3. /\ IsPositiveList(d) /\ d # <<>>
      /\ TotalDuration(d) = E[m] /\ bit[m] = OpenIn(bit[1], n-1)
      /\ \A i \in 1..m : \E k \in 0..n-1 : /\ EndTimes(d)[k] <= E[i-1]
                                           /\ E[i] <= EndTimes(d)[k+1]
                                           /\ bit[i] = OpenIn(bit[1], k)
  BY DEF RowsCovered, E
<1>4. n \in Nat \ {0}
  BY <1>3, ListFacts
<1>5. /\ IsPositiveList(e) /\ e # <<>> /\ Len(e) = n + 1
      /\ \A k \in 0..n : EndTimes(e)[k] = EndTimes(d)[k]
      /\ EndTimes(e)[n+1] = EndTimes(d)[n] + y
      /\ TotalDuration(e) = EndTimes(e)[n+1]
  <2>1. IsPositiveList(d)
    BY <1>3
  <2> QED
    BY <1>1, <1>2, <2>1, ExtendFacts
<1>6. EndTimes(d)[n] = E[m]
  BY <1>3 DEF TotalDuration
<1> HIDE DEF n
<1>7. EndTimes(e)[n] = E[m] /\ EndTimes(e)[n+1] = E[m+1] /\ TotalDuration(e) = E[m+1]
  <2>1. n \in 0..n
    BY <1>4
  <2> QED
    BY <1>1, <1>5, <1>6, <2>1
<1>8. bit[m+1] = OpenIn(bit[1], n)
  <2>1. bit[m+1] \in BOOLEAN /\ bit[m] \in BOOLEAN /\ bit[1] \in BOOLEAN
    <3>1. 1 \in 1..Len(rows)
      BY ListFacts
    <3> QED
      BY <3>1
  <2>2. (n - 1) % 2 = 0 <=> n % 2 # 0
    BY <1>4
  <2>3. OpenIn(bit[1], n) = ~OpenIn(bit[1], n - 1)
    BY <2>1, <2>2, Zenon DEF OpenIn
  <2>4. bit[m] = OpenIn(bit[1], n - 1)
    BY <1>3
  <2>5. bit[m+1] = ~bit[m]
    BY <2>1
  <2> QED
    BY <2>3, <2>4, <2>5, Zenon
<1>9. ASSUME NEW i \in 1..m+1
      PROVE  \E k \in 0..n : /\ EndTimes(e)[k] <= E[i-1]
                             /\ E[i] <= EndTimes(e)[k+1]
                             /\ bit[i] = OpenIn(bit[1], k)
  <2>1. CASE i = m + 1
    <3>1. n \in 0..n /\ i - 1 = m
      BY <1>1, <1>4, <2>1
    <3>2. EndTimes(e)[n] <= E[m] /\ E[m+1] <= EndTimes(e)[n+1]
      BY <1>1, <1>7
    <3>3. EndTimes(e)[n] <= E[i-1] /\ E[i] <= EndTimes(e)[n+1] /\ bit[i] = OpenIn(bit[1], n)
      BY <1>8, <2>1, <3>1, <3>2, Zenon
    <3> QED
      BY <3>1, <3>3
  <2>2. CASE i # m + 1
    <3>1. i \in 1..m
      BY <1>1, <2>2
    <3>2. PICK k \in 0..n-1 : /\ EndTimes(d)[k] <= E[i-1]
                              /\ E[i] <= EndTimes(d)[k+1]
                              /\ bit[i] = OpenIn(bit[1], k)
      BY <1>3, <3>1
    <3>3. k \in 0..n /\ k + 1 \in 0..n
      BY <1>4, <3>2
    <3>4. EndTimes(e)[k] = EndTimes(d)[k] /\ EndTimes(e)[k+1] = EndTimes(d)[k+1]
      BY <1>5, <3>3
    <3> QED
      BY <3>2, <3>3, <3>4
  <2> QED
    BY <2>1, <2>2
<1>10. Len(e) - 1 = n
  BY <1>4, <1>5
<1> QED
  BY <1>5, <1>7, <1>8, <1>9, <1>10, Zenon DEF RowsCovered, E

(* The loop over the rows, as ParseGcl runs it.                              *)
RowOpen(gcl, mapping, gate, i) == ParseGclLine(gcl[i].states, mapping)[gate]

LEMMA RunsAfterDef ==
    ASSUME NEW gcl, Len(gcl) \in Nat, NEW mapping, NEW gate
    PROVE  RunsAfter(gcl, mapping, gate) =
            [n \in 0..Len(gcl) |->
                IF n = 0
                THEN [open |-> RowOpen(gcl, mapping, gate, 1), duration |-> 0, durations |-> <<>>]
                ELSE ExtendedBy(RunsAfter(gcl, mapping, gate)[n-1],
                                RowOpen(gcl, mapping, gate, n), gcl[n].duration)]
<1> DEFINE Next1(runs, n) == ExtendedBy(runs, RowOpen(gcl, mapping, gate, n), gcl[n].duration)
           None == [open |-> RowOpen(gcl, mapping, gate, 1), duration |-> 0, durations |-> <<>>]
           Solves(f, n) == f = [k \in 0..n |-> IF k = 0 THEN None ELSE Next1(f[k-1], k)]
           S == {n \in Nat : \E f : Solves(f, n)}
<1> HIDE DEF Next1, None
<1>1. 0 \in S
  <2>1. Solves([k \in 0..0 |-> None], 0)
    OBVIOUS
  <2> QED
    BY <2>1
<1>2. ASSUME NEW n \in Nat, n \in S PROVE n + 1 \in S
  <2>1. PICK f : Solves(f, n)
    BY <1>2
  <2> DEFINE g == [k \in 0..n+1 |-> IF k = n + 1 THEN Next1(f[n], n + 1) ELSE f[k]]
  <2>2. Solves(g, n + 1)
    <3>1. \A k \in 0..n : f[k] = IF k = 0 THEN None ELSE Next1(f[k-1], k)
      BY <2>1
    <3>2. \A k \in 0..n+1 : g[k] = IF k = 0 THEN None ELSE Next1(g[k-1], k)
      BY <3>1
    <3> QED
      BY <3>2
  <2> HIDE DEF g, Solves
  <2>3. \E h : Solves(h, n + 1)
    BY <2>2
  <2> QED
    BY <2>3
<1> HIDE DEF S
<1>3. Len(gcl) \in S
  BY <1>1, <1>2, NaturalInduction
<1>4. \E f : Solves(f, Len(gcl))
  BY <1>3 DEF S
<1> QED
  BY <1>4 DEF RunsAfter, Next1, None, RowOpen

Runs == [open : BOOLEAN, duration : Nat, durations : Seq(Nat \ {0})]

(* What a step of the loop does.                                             *)
Advances(next, runs, open, duration) ==
    /\ next.open = open
    /\ open # runs.open =>
            /\ next.duration = duration
            /\ Extends(next.durations, runs.durations, runs.duration)
    /\ open = runs.open =>
            /\ next.duration = runs.duration + duration
            /\ next.durations = runs.durations

LEMMA ExtendedAdvances ==
    ASSUME NEW runs \in Runs,
           NEW open, NEW duration
    PROVE  Advances(ExtendedBy(runs, open, duration), runs, open, duration)
<1>1. CASE open # runs.open
  BY <1>1 DEF Advances, ExtendedBy, Extends, Runs
<1>2. CASE open = runs.open
  BY <1>2 DEF Advances, ExtendedBy, Runs
<1> QED
  BY <1>1, <1>2

LEMMA ExtendedType ==
    ASSUME NEW runs \in Runs, NEW open \in BOOLEAN, NEW duration \in Nat,
           open # runs.open => runs.duration # 0
    PROVE  ExtendedBy(runs, open, duration) \in Runs
<1>1. runs.duration \in Nat /\ runs.durations \in Seq(Nat \ {0})
  BY DEF Runs
<1>2. CASE open # runs.open
  <2>1. runs.duration \in Nat \ {0}
    BY <1>1, <1>2
  <2>2. Append(runs.durations, runs.duration) \in Seq(Nat \ {0})
    BY <1>1, <2>1
  <2> QED
    BY <1>2, <2>2 DEF ExtendedBy, Runs
<1>3. CASE open = runs.open
  BY <1>1, <1>3 DEF ExtendedBy, Runs
<1> QED
  BY <1>2, <1>3

Rows(r) == [i \in DOMAIN r.gcl |-> r.gcl[i].duration]
Bits(r) == [i \in 1..Len(r.gcl) |-> RowOpen(r.gcl, r.mapping, r.gate, i)]

(* The state of a gate in a row is the one of the only position that is      *)
(* mapped to it, or closed if there is none.                                 *)
LEMMA RowOpenFacts ==
    ASSUME NEW states \in [1..NumGates -> BOOLEAN], NEW mapping \in [1..NumGates -> Gates],
           \A i, j \in 1..NumGates : mapping[i] = mapping[j] => i = j,
           NEW gate \in Gates
    PROVE  ParseGclLine(states, mapping)[gate]
                = (\E i \in 1..NumGates : mapping[i] = gate /\ states[i])
<1> DEFINE places == {i \in 1..NumGates : mapping[i] = gate}
<1>1. ParseGclLine(states, mapping)[gate] = (places # {} /\ states[Max(places)])
  BY DEF ParseGclLine
<1>2. CASE places = {}
  <2>1. ~ \E i \in 1..NumGates : mapping[i] = gate /\ states[i]
    BY <1>2
  <2> HIDE DEF places
  <2> QED
    BY <1>1, <1>2, <2>1, Zenon
<1>3. CASE places # {}
  <2>1. PICK i \in 1..NumGates : mapping[i] = gate
    BY <1>3
  <2>2. places = {i}
    BY <2>1
  <2>3. Max(places) = i
    <3> HIDE DEF places
    <3>1. \A x \in places : x = i
      BY <2>2
    <3>2. i \in places /\ i >= i
      BY <2>2, NumGatesAssumption
    <3> QED
      BY <3>1, <3>2 DEF Max
  <2>4. (\E j \in 1..NumGates : mapping[j] = gate /\ states[j]) <=> states[i]
    BY <2>1
  <2>5. states[i] \in BOOLEAN
    BY <2>1
  <2> HIDE DEF places
  <2> QED
    BY <1>1, <1>3, <2>3, <2>4, <2>5, Zenon
<1> QED
  BY <1>2, <1>3

LEMMA GclFacts ==
    ASSUME NEW r, IsGclRequest(r)
    PROVE  /\ Len(r.gcl) \in Nat \ {0}
           /\ IsPositiveList(Rows(r)) /\ Len(Rows(r)) = Len(r.gcl)
           /\ \A i \in 1..Len(r.gcl) : Rows(r)[i] = r.gcl[i].duration
           /\ Bits(r) \in [1..Len(r.gcl) -> BOOLEAN]
           /\ \A i \in 1..Len(r.gcl) :
                /\ Bits(r)[i] = RowOpen(r.gcl, r.mapping, r.gate, i)
                /\ Bits(r)[i] = (\E j \in 1..NumGates :
                                    r.mapping[j] = r.gate /\ r.gcl[i].states[j])
<1> DEFINE g == r.gcl
           Row == [duration : Nat \ {0}, states : [1..NumGates -> BOOLEAN]]
<1>1. /\ g \in Seq(Row) /\ g # <<>>
      /\ r.mapping \in [1..NumGates -> Gates]
      /\ \A i, j \in 1..NumGates : r.mapping[i] = r.mapping[j] => i = j
      /\ r.gate \in Gates
  BY DEF IsGclRequest
<1> HIDE DEF g
<1>2. Len(g) \in Nat \ {0} /\ DOMAIN g = 1..Len(g) /\ \A i \in 1..Len(g) : g[i] \in Row
  <2> HIDE DEF Row
  <2> QED
    BY <1>1
<1>3. \A i \in 1..Len(g) : /\ g[i].duration \in Nat \ {0}
                           /\ g[i].states \in [1..NumGates -> BOOLEAN]
  BY <1>2
<1>4. \A i \in 1..Len(g) : RowOpen(g, r.mapping, r.gate, i)
            = (\E j \in 1..NumGates : r.mapping[j] = r.gate /\ g[i].states[j])
  <2> TAKE i \in 1..Len(g)
  <2> DEFINE states == g[i].states
             mapping == r.mapping
             gate == r.gate
  <2>1. /\ states \in [1..NumGates -> BOOLEAN] /\ mapping \in [1..NumGates -> Gates]
        /\ \A j, l \in 1..NumGates : mapping[j] = mapping[l] => j = l
        /\ gate \in Gates
    BY <1>1, <1>3
  <2>2. RowOpen(g, mapping, gate, i) = ParseGclLine(states, mapping)[gate]
    BY DEF RowOpen
  <2> HIDE DEF states, mapping, gate
  <2>3. ParseGclLine(states, mapping)[gate]
            = (\E j \in 1..NumGates : mapping[j] = gate /\ states[j])
    BY <2>1, RowOpenFacts
  <2> QED
    BY <2>2, <2>3 DEF states, mapping, gate
<1>5. /\ Rows(r) = [i \in 1..Len(g) |-> g[i].duration]
      /\ Bits(r) = [i \in 1..Len(g) |-> RowOpen(g, r.mapping, r.gate, i)]
  BY <1>2 DEF Rows, Bits, g
<1>6. /\ Rows(r) \in Seq(Nat \ {0}) /\ Len(Rows(r)) = Len(g)
      /\ \A i \in 1..Len(g) : Rows(r)[i] = g[i].duration
  BY <1>2, <1>3, <1>5
<1>7. \A i \in 1..Len(g) : Bits(r)[i] = RowOpen(g, r.mapping, r.gate, i)
  BY <1>5, Zenon
<1>8. Bits(r) \in [1..Len(g) -> BOOLEAN]
  <2>1. \A i \in 1..Len(g) : RowOpen(g, r.mapping, r.gate, i) \in BOOLEAN
    BY <1>4
  <2> QED
    BY <1>5, <2>1
<1>9. \A i \in 1..Len(g) : Bits(r)[i] =
            (\E j \in 1..NumGates : r.mapping[j] = r.gate /\ g[i].states[j])
  BY <1>4, <1>7, Zenon
<1> QED
  BY <1>2, <1>6, <1>7, <1>8, <1>9, Zenon DEF g, IsPositiveList

(* After n rows, the durations that the loop has added and the one it is     *)
(* adding up are a list that covers these rows.                              *)
RunsCover(runs, n, rows, bit) ==
    /\ runs \in Runs /\ runs.duration # 0
    /\ runs.open = bit[n]
    /\ \E d : Extends(d, runs.durations, runs.duration) /\ RowsCovered(d, n, rows, bit)

LEMMA FirstRunCovers ==
    ASSUME NEW rows, IsPositiveList(rows), 1 \in 1..Len(rows),
           NEW bit \in [1..Len(rows) -> BOOLEAN],
           NEW runs \in Runs, runs.open = bit[1], runs.duration = 0, IsEmpty(runs.durations),
           NEW next \in Runs, Advances(next, runs, bit[1], rows[1])
    PROVE  RunsCover(next, 1, rows, bit)
<1>1. rows[1] \in Nat \ {0} /\ 0 + rows[1] = rows[1]
  BY ListFacts
<1>2. /\ next.open = bit[1] /\ next.duration = rows[1] /\ IsEmpty(next.durations)
  BY <1>1 DEF Advances
<1>3. \E d : Extends(d, next.durations, rows[1])
  BY DEF Extends
<1>4. PICK d : Extends(d, next.durations, rows[1])
  BY <1>3
<1>5. RowsCovered(d, 1, rows, bit)
  BY <1>2, <1>4, FirstRowCovered
<1> QED
  BY <1>1, <1>2, <1>4, <1>5 DEF RunsCover

LEMMA NextRunCovers ==
    ASSUME NEW rows, IsPositiveList(rows), NEW m \in 1..Len(rows), m + 1 \in 1..Len(rows),
           NEW bit \in [1..Len(rows) -> BOOLEAN],
           NEW runs, RunsCover(runs, m, rows, bit),
           NEW next \in Runs, Advances(next, runs, bit[m+1], rows[m+1])
    PROVE  RunsCover(next, m + 1, rows, bit)
<1> DEFINE b == runs.durations
           x == runs.duration
           y == rows[m+1]
<1>1. y \in Nat \ {0}
  BY ListFacts
<1>2. /\ runs \in Runs /\ x # 0 /\ runs.open = bit[m]
      /\ IsPositiveList(b) /\ x \in Nat \ {0}
  BY DEF RunsCover, Runs, IsPositiveList
<1>3. PICK d : Extends(d, b, x) /\ RowsCovered(d, m, rows, bit)
  BY DEF RunsCover
<1>4. /\ next.open = bit[m+1]
      /\ bit[m+1] # bit[m] => next.duration = y /\ Extends(next.durations, b, x)
      /\ bit[m+1] = bit[m] => next.duration = x + y /\ next.durations = b
  BY <1>2 DEF Advances
<1> HIDE DEF b, x
<1>5. CASE bit[m+1] = bit[m]
  <2>1. \E e : Extends(e, b, x + y)
    BY DEF Extends
  <2>2. PICK e : Extends(e, b, x + y)
    BY <2>1
  <2>3. RowsCovered(e, m + 1, rows, bit)
    BY <1>2, <1>3, <1>5, <2>2, SameStateCovered
  <2> HIDE DEF y
  <2>4. x + y # 0
    BY <1>1, <1>2
  <2> QED
    BY <1>4, <1>5, <2>2, <2>3, <2>4, Zenon DEF RunsCover
<1>6. CASE bit[m+1] # bit[m]
  <2>1. \E e : Extends(e, d, y)
    BY DEF Extends
  <2>2. PICK e : Extends(e, d, y)
    BY <2>1
  <2>3. RowsCovered(e, m + 1, rows, bit)
    BY <1>3, <1>6, <2>2, OtherStateCovered
  <2>4. next.durations = d
    BY <1>3, <1>4, <1>6, Zenon DEF Extends
  <2> HIDE DEF y
  <2>5. y # 0
    BY <1>1
  <2> QED
    BY <1>4, <1>6, <2>2, <2>3, <2>4, <2>5, Zenon DEF RunsCover
<1> QED
  BY <1>5, <1>6

LEMMA AllRunsCover ==
    ASSUME NEW r, IsGclRequest(r)
    PROVE  RunsCover(RunsOf(r.gcl, r.mapping, r.gate), Len(r.gcl), Rows(r), Bits(r))
<1> DEFINE R == RunsAfter(r.gcl, r.mapping, r.gate)
           N == Len(r.gcl)
           rows == Rows(r)
           bit == Bits(r)
           S == {n \in Nat : n + 1 \in 1..N => RunsCover(R[n+1], n + 1, rows, bit)}
<1>1. /\ N \in Nat \ {0} /\ IsPositiveList(rows) /\ Len(rows) = N
      /\ bit \in [1..N -> BOOLEAN]
      /\ \A i \in 1..N : bit[i] \in BOOLEAN /\ rows[i] \in Nat \ {0}
  <2>1. /\ N \in Nat \ {0} /\ IsPositiveList(rows) /\ Len(rows) = N
        /\ bit \in [1..N -> BOOLEAN]
    BY GclFacts
  <2> HIDE DEF N, rows, bit
  <2> QED
    BY <2>1, ListFacts
<1>2. /\ R[0] = [open |-> bit[1], duration |-> 0, durations |-> <<>>]
      /\ \A n \in 1..N : R[n] = ExtendedBy(R[n-1], bit[n], rows[n])
  <2>1. \A n \in 1..N : /\ bit[n] = RowOpen(r.gcl, r.mapping, r.gate, n)
                        /\ rows[n] = r.gcl[n].duration
    BY GclFacts
  <2>2. \A n \in 0..N : R[n] =
            IF n = 0
            THEN [open |-> RowOpen(r.gcl, r.mapping, r.gate, 1), duration |-> 0,
                  durations |-> <<>>]
            ELSE ExtendedBy(R[n-1], RowOpen(r.gcl, r.mapping, r.gate, n), r.gcl[n].duration)
    <3>1. N \in Nat
      BY <1>1
    <3>2. R = [n \in 0..N |->
            IF n = 0
            THEN [open |-> RowOpen(r.gcl, r.mapping, r.gate, 1), duration |-> 0,
                  durations |-> <<>>]
            ELSE ExtendedBy(R[n-1], RowOpen(r.gcl, r.mapping, r.gate, n), r.gcl[n].duration)]
      <4> DEFINE gcl == r.gcl
                 mapping == r.mapping
                 gate == r.gate
      <4> HIDE DEF gcl, mapping, gate
      <4>1. Len(gcl) \in Nat
        BY <3>1 DEF gcl
      <4> QED
        BY <4>1, RunsAfterDef DEF gcl, mapping, gate
    <3> HIDE DEF R
    <3> QED
      BY <3>2, Zenon
  <2> HIDE DEF R, bit, rows, N
  <2>3. 0 \in 0..N /\ 1 \in 1..N /\ \A n \in 1..N : n \in 0..N /\ n # 0
    BY <1>1
  <2>4. R[0] = [open |-> bit[1], duration |-> 0, durations |-> <<>>]
    BY <2>1, <2>2, <2>3, Zenon
  <2>5. ASSUME NEW n \in 1..N PROVE R[n] = ExtendedBy(R[n-1], bit[n], rows[n])
    BY <2>1, <2>2, <2>3, Zenon
  <2> QED
    BY <2>4, <2>5
<1> HIDE DEF R, N, rows, bit
<1>3. 0 \in S
  <2>1. 1 \in 1..N /\ 0 + 1 = 1 /\ 1 - 1 = 0
    BY <1>1
  <2>2. R[1] = ExtendedBy(R[0], bit[1], rows[1])
    BY <1>2, <2>1, Zenon
  <2>3. R[0] \in Runs /\ R[0].open = bit[1] /\ R[0].duration = 0 /\ R[0].durations = <<>>
    BY <1>1, <1>2, <2>1 DEF Runs
  <2> DEFINE none == R[0]
             next == R[1]
  <2>4. none \in Runs /\ next = ExtendedBy(none, bit[1], rows[1]) /\ IsEmpty(none.durations)
    BY <2>2, <2>3 DEF IsEmpty
  <2>5. none.open = bit[1] /\ none.duration = 0 /\ bit[1] \in BOOLEAN /\ rows[1] \in Nat
    BY <1>1, <2>1, <2>3
  <2> HIDE DEF none, next
  <2>6. next \in Runs /\ Advances(next, none, bit[1], rows[1])
    BY <2>4, <2>5, ExtendedType, ExtendedAdvances
  <2>7. RunsCover(next, 1, rows, bit)
    BY <1>1, <2>1, <2>4, <2>5, <2>6, FirstRunCovers
  <2> QED
    BY <2>1, <2>7 DEF next
<1>4. ASSUME NEW n \in Nat, n \in S PROVE n + 1 \in S
  <2> DEFINE m == n + 1
             runs == R[m]
             next == R[m+1]
  <2> SUFFICES ASSUME m + 1 \in 1..N PROVE RunsCover(next, m + 1, rows, bit)
    OBVIOUS
  <2>1. m \in 1..N /\ m + 1 \in 1..N /\ (m + 1) - 1 = m
    BY <1>1
  <2>2. RunsCover(runs, m, rows, bit)
    BY <1>4, <2>1
  <2>3. next = ExtendedBy(R[(m+1)-1], bit[m+1], rows[m+1])
    BY <1>2
  <2>4. next = ExtendedBy(runs, bit[m+1], rows[m+1])
    BY <2>1, <2>3
  <2>5. bit[m+1] \in BOOLEAN /\ rows[m+1] \in Nat
    BY <1>1
  <2> HIDE DEF m, runs, next
  <2>6. next \in Runs /\ Advances(next, runs, bit[m+1], rows[m+1])
    <3>1. runs \in Runs /\ runs.duration # 0
      BY <2>2 DEF RunsCover
    <3> QED
      BY <2>4, <2>5, <3>1, ExtendedType, ExtendedAdvances
  <2> QED
    BY <1>1, <2>1, <2>2, <2>6, NextRunCovers
<1> HIDE DEF S
<1>5. \A n \in Nat : n \in S
  BY <1>3, <1>4, NaturalInduction
<1>6. RunsCover(R[N], N, rows, bit)
  <2> DEFINE n == N - 1
  <2>1. n \in Nat /\ n + 1 = N /\ n + 1 \in 1..N
    BY <1>1
  <2> HIDE DEF n
  <2>2. RunsCover(R[n+1], n + 1, rows, bit)
    BY <1>5, <2>1 DEF S
  <2> QED
    BY <2>1, <2>2
<1> QED
  BY <1>6 DEF RunsOf, R, N, rows, bit

LEMMA GclDerives ==
    ASSUME NEW r, r.kind = "gcl",
           NEW b, NEW x, NEW d, NEW runs, runs = RunsOf(r.gcl, r.mapping, r.gate),
           runs.durations = b, runs.duration = x,
           IsPositiveList(b), x \in Nat \ {0}, Extends(d, b, x)
    PROVE  Derives(ParametersOf(r), RowOpen(r.gcl, r.mapping, r.gate, 1), d)
<1> DEFINE w == ParametersOf(r)
           open == RowOpen(r.gcl, r.mapping, r.gate, 1)
<1>1. w = CASE Len(b) % 2 # 0 ->
                [initiallyOpen |-> open, offset |-> 0, durations |-> Append(b, x)]
            [] Len(b) % 2 = 0 /\ b # <<>> ->
                [initiallyOpen |-> open, offset |-> x, durations |-> [b EXCEPT ![1] = @ + x]]
            [] OTHER -> [initiallyOpen |-> open, offset |-> 0, durations |-> b]
  BY Zenon DEF ParametersOf, ParseGcl, RowOpen
<1>2. Len(b) \in Nat /\ Len(d) = Len(b) + 1
  BY ExtendFacts
<1> SUFFICES Derives(w, open, d)
  OBVIOUS
<1> HIDE DEF w, open
<1>3. CASE Len(b) % 2 # 0
  <2>1. w = [initiallyOpen |-> open, offset |-> 0, durations |-> Append(b, x)]
    BY <1>1, <1>3
  <2>2. w.initiallyOpen = open /\ w.offset = 0 /\ w.durations = d
    BY <2>1 DEF Extends
  <2>3. Len(d) % 2 = 0 /\ Len(d) # 1
    <3> DEFINE n == Len(b)
    <3>1. n \in Nat /\ n % 2 # 0 /\ Len(d) = n + 1
      BY <1>2, <1>3
    <3> HIDE DEF n
    <3>2. (n + 1) % 2 = 0 /\ n + 1 # 1
      BY <3>1
    <3> QED
      BY <3>1, <3>2
  <2> QED
    BY <2>2, <2>3, Zenon DEF Derives
<1>4. CASE Len(b) % 2 = 0 /\ b # <<>>
  <2>1. w = [initiallyOpen |-> open, offset |-> x, durations |-> [b EXCEPT ![1] = @ + x]]
    BY <1>1, <1>4
  <2>2. /\ w.initiallyOpen = open /\ w.offset = x
        /\ w.durations = [b EXCEPT ![1] = @ + x]
    BY <2>1
  <2>3. Merges(w.durations, b, x)
    BY <2>2, Zenon DEF Merges
  <2>4. Len(d) % 2 # 0 /\ Len(d) # 1
    <3>3. Len(b) # 0
      BY <1>4, ListFacts
    <3> DEFINE n == Len(b)
    <3>1. n \in Nat /\ n % 2 = 0 /\ Len(d) = n + 1 /\ n # 0
      BY <1>2, <1>4, <3>3
    <3> HIDE DEF n
    <3>2. (n + 1) % 2 # 0 /\ n + 1 # 1
      BY <3>1
    <3> QED
      BY <3>1, <3>2
  <2>5. \E c : /\ d = Append(c, w.offset) /\ w.offset \in Nat \ {0}
               /\ IsDurationList(c) /\ c # <<>>
               /\ Merges(w.durations, c, w.offset)
    <3>1. IsDurationList(b)
      BY <1>4 DEF IsDurationList
    <3>2. d = Append(b, x)
      BY DEF Extends
    <3>3. /\ d = Append(b, w.offset) /\ w.offset \in Nat \ {0}
          /\ Merges(w.durations, b, w.offset)
      BY <2>2, <2>3, <3>2, Zenon
    <3> QED
      BY <1>4, <3>1, <3>3, Zenon
  <2> QED
    BY <2>2, <2>4, <2>5, Zenon DEF Derives
<1>5. CASE b = <<>>
  <2>1. Len(b) = 0 /\ 0 % 2 = 0 /\ 0 + 1 = 1 /\ 1 % 2 # 0
    BY <1>5
  <2>2. w = [initiallyOpen |-> open, offset |-> 0, durations |-> b]
    BY <1>1, <1>5, <2>1
  <2>3. w.initiallyOpen = open /\ w.offset = 0 /\ w.durations = <<>>
    BY <1>5, <2>2
  <2>4. Len(d) = 1 /\ Len(d) % 2 # 0
    BY <1>2, <2>1
  <2> QED
    BY <2>3, <2>4, Zenon DEF Derives
<1> QED
  BY <1>3, <1>4, <1>5

(* The row that is current at a time, and what it says about the gate.       *)
LEMMA GclMeaning ==
    ASSUME NEW r, r.kind = "gcl", IsGclRequest(r), NEW t \in Nat
    PROVE  \E j \in 1..Len(r.gcl) :
            /\ EndTimes(Rows(r))[j-1] <= t % TotalDuration(Rows(r))
            /\ t % TotalDuration(Rows(r)) < EndTimes(Rows(r))[j]
            /\ RequestedOpen(r, t) = Bits(r)[j]
<1> DEFINE rows == Rows(r)
           N == Len(r.gcl)
           T == TotalDuration(rows)
           p == t % T
           Current(j) == EndTimes(rows)[j-1] <= p /\ p < EndTimes(rows)[j]
<1>1. /\ N \in Nat \ {0} /\ IsPositiveList(rows) /\ Len(rows) = N
      /\ \A i \in 1..N : Bits(r)[i] = (\E j \in 1..NumGates :
                                    r.mapping[j] = r.gate /\ r.gcl[i].states[j])
  BY GclFacts
<1>2. DOMAIN r.gcl = 1..N
  BY DEF IsGclRequest
<1>3. RowAt(r.gcl, t) = CHOOSE j \in 1..N : Current(j)
  <2>1. T = EndTimes(rows)[N]
    BY <1>1 DEF TotalDuration
  <2>2. RowAt(r.gcl, t) =
            CHOOSE j \in DOMAIN r.gcl : /\ EndTimes(rows)[j-1] <= t % EndTimes(rows)[N]
                                        /\ t % EndTimes(rows)[N] < EndTimes(rows)[j]
    BY Zenon DEF RowAt, Rows
  <2> HIDE DEF T, rows, N
  <2> QED
    BY <1>2, <2>1, <2>2
<1>4. \E j \in 1..N : Current(j)
  <2>1. rows # <<>> /\ T \in Nat \ {0}
    <3>1. rows # <<>>
      <4> HIDE DEF rows, N
      <4> QED
        BY <1>1
    <3> QED
      BY <1>1, <3>1, TotalDurationFacts
  <2>2. p \in 0..T-1
    <3> HIDE DEF T
    <3> QED
      BY <2>1
  <2> HIDE DEF p, T
  <2>3. PICK k \in 0..Len(rows)-1 : Within(rows, k, p)
    BY <1>1, <2>1, <2>2, IntervalExists DEF T
  <2> HIDE DEF rows, N
  <2>4. k + 1 \in 1..N /\ (k + 1) - 1 = k
    BY <1>1, <2>3
  <2>5. EndTimes(rows)[k] <= p /\ p < EndTimes(rows)[k+1]
    BY <2>3 DEF Within
  <2>6. Current(k + 1)
    BY <2>4, <2>5
  <2> QED
    BY <2>4, <2>6
<1> DEFINE row == RowAt(r.gcl, t)
<1>5. row \in 1..N /\ Current(row)
  <2> HIDE DEF Current, N
  <2> QED
    BY <1>3, <1>4, Zenon
<1>6. RequestedOpen(r, t) = (\E i \in 1..NumGates :
            r.mapping[i] = r.gate /\ r.gcl[row].states[i])
  BY DEF RequestedOpen
<1>7. RequestedOpen(r, t) = Bits(r)[row]
  <2> HIDE DEF row, N
  <2> QED
    BY <1>1, <1>5, <1>6, Zenon
<1> HIDE DEF row
<1> QED
  BY <1>5, <1>7

(* Position p of the cycle is in row j.                                      *)
InRow(rows, j, p) == EndTimes(rows)[j-1] <= p /\ p < EndTimes(rows)[j]

(* What the list that covers all rows says is what the current row says.     *)
LEMMA CoveredMeaning ==
    ASSUME NEW rows, IsPositiveList(rows), NEW n, NEW bit,
           NEW d, RowsCovered(d, n, rows, bit),
           NEW p \in Int, NEW j, j \in 1..n, j \in 1..Len(rows), InRow(rows, j, p),
           NEW k, Within(d, k, p)
    PROVE  bit[j] = OpenIn(bit[1], k)
<1>1. IsPositiveList(d) /\ Len(d) \in Nat
  BY ListFacts DEF RowsCovered
<1>2. PICK l \in 0..Len(d)-1 : /\ EndTimes(d)[l] <= EndTimes(rows)[j-1]
                               /\ EndTimes(rows)[j] <= EndTimes(d)[l+1]
                               /\ bit[j] = OpenIn(bit[1], l)
  BY DEF RowsCovered
<1>3. /\ EndTimes(rows)[j-1] \in Nat /\ EndTimes(rows)[j] \in Nat
  BY RowFacts
<1>4. /\ EndTimes(d)[l] \in Nat /\ EndTimes(d)[l+1] \in Nat
  BY <1>1, EndTimesNext
<1>5. Within(d, l, p)
  <2>1. EndTimes(d)[l] <= p /\ p < EndTimes(d)[l+1]
    BY <1>2, <1>3, <1>4 DEF InRow
  <2> QED
    BY <2>1 DEF Within
<1>6. k \in 0..Len(d)-1 /\ EndTimes(d)[k] <= p /\ k \in 0..Len(d) /\ l \in 0..Len(d)
  BY <1>1 DEF Within
<1>7. l <= k /\ k <= l
  <2>1. l <= k
    <3>1. EndTimes(d)[l] <= p
      BY <1>5 DEF Within
    <3> QED
      BY <1>1, <1>6, <3>1, IntervalUnique
  <2>2. k <= l
    BY <1>1, <1>5, <1>6, IntervalUnique
  <2> QED
    BY <2>1, <2>2
<1>8. k = l
  BY <1>6, <1>7
<1> QED
  BY <1>2, <1>8

LEMMA GclDescribed ==
    ASSUME NEW r, r.kind = "gcl", IsGclRequest(r)
    PROVE  \E d, open : Describes(d, open, r)
<1> DEFINE runs == RunsOf(r.gcl, r.mapping, r.gate)
           N == Len(r.gcl)
           rows == Rows(r)
           bit == Bits(r)
           T == CycleOf(r)
<1>1. /\ N \in Nat \ {0} /\ IsPositiveList(rows) /\ Len(rows) = N
      /\ bit \in [1..N -> BOOLEAN]
      /\ bit[1] = RowOpen(r.gcl, r.mapping, r.gate, 1)
  <2>1. N \in Nat \ {0}
    BY GclFacts
  <2>2. 1 \in 1..N
    <3> HIDE DEF N
    <3> QED
      BY <2>1
  <2> QED
    BY <2>1, <2>2, GclFacts
<1>2. RunsCover(runs, N, rows, bit)
  BY AllRunsCover
<1>3. T = TotalDuration(rows)
  BY DEF CycleOf, Rows
<1> DEFINE b == runs.durations
           x == runs.duration
<1>5. PICK d : Extends(d, b, x) /\ RowsCovered(d, N, rows, bit)
  BY <1>2 DEF RunsCover
<1>6. IsPositiveList(b) /\ x \in Nat \ {0}
  BY <1>2 DEF RunsCover, Runs, IsPositiveList
<1>7. Derives(ParametersOf(r), bit[1], d)
  <2>1. Derives(ParametersOf(r), RowOpen(r.gcl, r.mapping, r.gate, 1), d)
    BY <1>5, <1>6, GclDerives
  <2> QED
    BY <1>1, <2>1
<1> HIDE DEF runs, b, x, N, rows, bit
<1>8. /\ IsPositiveList(d) /\ d # <<>> /\ TotalDuration(d) = T
  <2>1. TotalDuration(rows) = EndTimes(rows)[N]
    BY <1>1 DEF TotalDuration
  <2> HIDE DEF T
  <2> QED
    BY <1>3, <1>5, <2>1 DEF RowsCovered
<1>9. ASSUME NEW t \in Nat, NEW k, Within(d, k, t % T)
      PROVE  RequestedOpen(r, t) = OpenIn(bit[1], k)
  <2> DEFINE p == t % T
  <2>1. PICK j \in 1..N : /\ EndTimes(rows)[j-1] <= p /\ p < EndTimes(rows)[j]
                          /\ RequestedOpen(r, t) = bit[j]
    BY <1>3, GclMeaning DEF rows, bit, N
  <2>2. p \in Int
    <3>1. T \in Nat \ {0}
      BY <1>8, TotalDurationFacts
    <3> HIDE DEF T
    <3> QED
      BY <3>1
  <2>3. Within(d, k, p)
    BY <1>9
  <2> HIDE DEF p, T
  <2>5. IsPositiveList(rows) /\ j \in 1..Len(rows)
    BY <1>1, <2>1
  <2>6. RowsCovered(d, N, rows, bit)
    BY <1>5
  <2>7. j \in 1..N /\ InRow(rows, j, p)
    BY <2>1 DEF InRow
  <2>4. bit[j] = OpenIn(bit[1], k)
    BY <2>2, <2>3, <2>5, <2>6, <2>7, CoveredMeaning
  <2> QED
    BY <2>1, <2>4
<1>10. bit[1] \in BOOLEAN
  BY <1>1
<1>11. Describes(d, bit[1], r)
  <2> HIDE DEF T
  <2> QED
    BY <1>7, <1>8, <1>9, <1>10, Zenon DEF Describes, T
<1> QED
  BY <1>11

-----------------------------------------------------------------------------
(* What the writers make of every request.                                   *)

(* The parameters a writer derives are ones the gate accepts, and they ask   *)
(* for the state that was requested, at every instant.                       *)
THEOREM ParametersMeanRequest ==
    ASSUME NEW r \in Requests
    PROVE  /\ ParametersOf(r).initiallyOpen \in BOOLEAN
           /\ ParametersOf(r).offset \in Nat
           /\ IsDurationList(ParametersOf(r).durations)
           /\ \A t \in Nat :
                PrescribedOpen(ParametersOf(r).initiallyOpen, ParametersOf(r).offset,
                               ParametersOf(r).durations, t)
                    = RequestedOpen(r, t)
<1>1. CASE r.kind = "gcl" /\ IsGclRequest(r)
  BY <1>1, GclDescribed, DescribedIsFollowed
<1>2. CASE r.kind = "slots" /\ IsSlotRequest(r)
  BY <1>2, SlotsDescribed, DescribedIsFollowed
<1>3. CASE r.kind = "direct" /\ IsDirectRequest(r)
  <2>1. ParametersOf(r) = r
    BY <1>3 DEF ParametersOf
  <2>2. \A t : RequestedOpen(r, t)
                = PrescribedOpen(r.initiallyOpen, r.offset, r.durations, t)
    BY <1>3 DEF RequestedOpen
  <2> QED
    BY <1>3, <2>1, <2>2 DEF IsDirectRequest
<1> QED
  BY <1>1, <1>2, <1>3, RequestsAssumption

(* The derived list has the cycle of the request, unless the requested state *)
(* never changes: then there is no list.                                     *)
LEMMA ParametersHaveCycle ==
    ASSUME NEW r \in Requests, r.kind # "direct"
    PROVE  IF \A t \in 1..CycleOf(r)-1 : RequestedOpen(r, t) = RequestedOpen(r, 0)
           THEN ParametersOf(r).durations = <<>>
           ELSE TotalDuration(ParametersOf(r).durations) = CycleOf(r)
<1>1. CASE r.kind = "gcl" /\ IsGclRequest(r)
  BY <1>1, GclDescribed, DescribedCycle
<1>2. CASE r.kind = "slots" /\ IsSlotRequest(r)
  BY <1>2, SlotsDescribed, DescribedCycle
<1> QED
  BY <1>1, <1>2, RequestsAssumption

-----------------------------------------------------------------------------
(* The gate.                                                                 *)

(* The gate is in interval k of its list, counted from 0, and changeTimer    *)
(* before the end of it.                                                     *)
InInterval(k) ==
    /\ index = (k + 1) % Len(durations)
    /\ isOpen = OpenIn(initiallyOpen, k)
    /\ changeTimer \in 0..durations[k+1]
    /\ (initialOffset + phase) % TotalDuration(durations)
            = (EndTimes(durations)[k+1] - changeTimer) % TotalDuration(durations)

Unscheduled ==
    /\ changeTimer = NotScheduled
    /\ index = 0
    /\ isOpen = initiallyOpen

(* The inductive invariant: the state of the gate and its pending event are  *)
(* those of one interval, which is the one the time since the start of the   *)
(* gating lies in.                                                           *)
GateInv ==
    /\ initiallyOpen \in BOOLEAN
    /\ initialOffset \in Nat
    /\ IsDurationList(durations)
    /\ phase \in Nat
    /\ IF durations = <<>> THEN Unscheduled
                           ELSE \E k \in 0..Len(durations)-1 : InInterval(k)

(* Outside of the instant of a change, the gate is in the state its          *)
(* parameters ask for at that time (PeriodicGate::initializeGating and       *)
(* handleMessage).                                                           *)
FollowsParameters == changeTimer # 0 => isOpen = OpenAt(phase)

-----------------------------------------------------------------------------

LEMMA ParameterFacts ==
    ASSUME initialOffset \in Nat, IsDurationList(durations)
    PROVE  initialOffset \in Int /\ IsPositiveList(durations)
  BY DEF IsDurationList

-----------------------------------------------------------------------------

LEMMA GateInit == Init => GateInv
<1> SUFFICES ASSUME Init PROVE GateInv
  OBVIOUS
<1>1. /\ initiallyOpen \in BOOLEAN /\ phase = 0
      /\ initialOffset \in Nat /\ initialOffset \in Int /\ IsDurationList(durations)
  BY OffsetsAssumption, DurationListsAssumption DEF Init
<1>2. /\ isOpen = StartOf(initiallyOpen, initialOffset, durations).isOpen
      /\ index = StartOf(initiallyOpen, initialOffset, durations).index
      /\ changeTimer = StartOf(initiallyOpen, initialOffset, durations).timer
  BY DEF Init
<1> QED
  BY <1>1, <1>2, StartsInInterval DEF GateInv, Unscheduled, InInterval

LEMMA InitializeGatingStep ==
    ASSUME InitializeGating, initiallyOpen' \in BOOLEAN, initialOffset' \in Nat,
           IsDurationList(durations')
    PROVE  GateInv'
<1>1. initialOffset' \in Int
  OBVIOUS
<1>2. /\ isOpen' = StartOf(initiallyOpen', initialOffset', durations').isOpen
      /\ index' = StartOf(initiallyOpen', initialOffset', durations').index
      /\ changeTimer' = StartOf(initiallyOpen', initialOffset', durations').timer
      /\ phase' = 0
  BY DEF InitializeGating
<1> QED
  BY <1>1, <1>2, StartsInInterval DEF GateInv, Unscheduled, InInterval

LEMMA ChangeTimerStep == GateInv /\ ChangeTimer => GateInv'
<1> SUFFICES ASSUME GateInv, ChangeTimer PROVE GateInv'
  OBVIOUS
<1>1. /\ IsDurationList(durations) /\ IsPositiveList(durations)
      /\ initialOffset \in Int /\ phase \in Nat
  BY ParameterFacts DEF GateInv
<1>2. durations # <<>>
  BY DEF GateInv, ChangeTimer, Unscheduled, NotScheduled
<1>3. PICK k \in 0..Len(durations)-1 : InInterval(k)
  BY <1>2 DEF GateInv
<1> DEFINE T == TotalDuration(durations)
<1> PICK j : j = (k + 1) % Len(durations)
  OBVIOUS
<1>4. /\ j \in 0..Len(durations)-1
      /\ OpenIn(initiallyOpen, j) = ~OpenIn(initiallyOpen, k)
      /\ EndTimes(durations)[j] \in 0..T-1
      /\ EndTimes(durations)[k+1] % T = EndTimes(durations)[j]
      /\ EndTimes(durations)[j+1] - durations[j+1] = EndTimes(durations)[j]
  BY <1>1, <1>2, <1>3, NextInterval DEF GateInv
<1>5. /\ index = j /\ changeTimer = 0
      /\ index' = (j + 1) % Len(durations)
      /\ changeTimer' = durations[j+1]
      /\ isOpen' = ~isOpen
      /\ UNCHANGED <<params, phase>>
  BY <1>3 DEF ChangeTimer, InInterval, DurationAt, IndexAfter
<1>6. isOpen' = OpenIn(initiallyOpen, j)
  BY <1>3, <1>4, <1>5 DEF InInterval
<1>7. changeTimer' \in 0..durations[j+1]
  BY <1>1, <1>4, <1>5, EndTimesNext
<1>8. (initialOffset + phase) % T = (EndTimes(durations)[j+1] - changeTimer') % T
  <2>1. (initialOffset + phase) % T = (EndTimes(durations)[k+1] - 0) % T
    BY <1>3, <1>5 DEF InInterval
  <2>2. EndTimes(durations)[k+1] - 0 = EndTimes(durations)[k+1]
    BY <1>1, <1>3, EndTimesNext
  <2>3. EndTimes(durations)[j] % T = EndTimes(durations)[j]
    <3>1. T \in Nat \ {0}
      BY <1>1, <1>2, TotalDurationFacts
    <3> HIDE DEF T
    <3> QED
      BY <1>4, <3>1, ModSmall
  <2> HIDE DEF T
  <2> QED
    BY <1>4, <1>5, <2>1, <2>2, <2>3
<1>9. InInterval(j)'
  BY <1>5, <1>6, <1>7, <1>8 DEF InInterval, params
<1>10. durations' = durations /\ GateInv
  BY <1>5 DEF params
<1> QED
  BY <1>2, <1>4, <1>5, <1>9, <1>10 DEF GateInv, params

LEMMA TickStep == GateInv /\ Tick => GateInv'
<1> SUFFICES ASSUME GateInv, Tick PROVE GateInv'
  OBVIOUS
<1>1. /\ IsDurationList(durations) /\ IsPositiveList(durations)
      /\ initialOffset \in Int /\ phase \in Nat
  BY ParameterFacts DEF GateInv
<1>2. CASE durations = <<>>
  BY <1>2 DEF GateInv, Tick, Unscheduled, TimerAfterTick, params
<1>3. CASE durations # <<>>
  <2>1. PICK k \in 0..Len(durations)-1 : InInterval(k)
    BY <1>3 DEF GateInv
  <2> DEFINE T == TotalDuration(durations)
             e == EndTimes(durations)[k+1]
  <2>2. T \in Nat \ {0} /\ e \in Nat /\ durations[k+1] \in Nat
    BY <1>1, <1>3, TotalDurationFacts, EndTimesNext
  <2>3. /\ changeTimer \in 0..durations[k+1] /\ changeTimer # 0
        /\ changeTimer' = changeTimer - 1
        /\ phase' = (phase + 1) % T
        /\ UNCHANGED <<params, index, isOpen>>
    BY <1>3, <2>1, <2>2 DEF Tick, TimerAfterTick, InInterval, NotScheduled
  <2>4. (initialOffset + phase) % T = (e - changeTimer) % T
    BY <2>1 DEF InInterval
  <2> HIDE DEF T, e
  <2>5. phase' \in Nat
    BY <1>1, <2>2, <2>3
  <2>6. (initialOffset + phase') % T = (e - changeTimer') % T
    <3> DEFINE a == initialOffset + phase
               b == e - changeTimer
    <3>1. a \in Int /\ b \in Int /\ a % T = b % T
      BY <1>1, <2>2, <2>3, <2>4
    <3> HIDE DEF a, b
    <3>2. 1 \in Int
      OBVIOUS
    <3>3. (a + 1) % T = (b + 1) % T
      BY <2>2, <3>1, <3>2, PositionLater
    <3> DEFINE c == phase + 1
    <3>4. c \in Int
      BY <1>1
    <3> HIDE DEF c
    <3>5. ((c % T) + initialOffset) % T = (c + initialOffset) % T
      BY <1>1, <2>2, <3>4, ModPlus
    <3>6. a + 1 = c + initialOffset /\ b + 1 = e - changeTimer'
      BY <1>1, <2>2, <2>3 DEF a, b, c
    <3>7. initialOffset + phase' = (c % T) + initialOffset
      BY <1>1, <2>3, <2>5 DEF c
    <3> QED
      BY <3>3, <3>5, <3>6, <3>7
  <2>7. InInterval(k)'
    BY <2>1, <2>2, <2>3, <2>6 DEF InInterval, params, T, e
  <2> QED
    BY <1>3, <2>3, <2>5, <2>7 DEF GateInv, params
<1> QED
  BY <1>2, <1>3

LEMMA GateNext == GateInv /\ [Next]_vars => GateInv'
<1> SUFFICES ASSUME GateInv, [Next]_vars PROVE GateInv'
  OBVIOUS
<1>1. CASE ChangeTimer
  BY <1>1, ChangeTimerStep
<1>2. CASE Tick
  BY <1>2, TickStep
<1>3. CASE \E open \in BOOLEAN : SetInitiallyOpen(open)
  BY <1>3, InitializeGatingStep DEF GateInv, SetInitiallyOpen
<1>4. CASE \E offset \in Offsets : SetOffset(offset)
  BY <1>4, OffsetsAssumption, InitializeGatingStep DEF GateInv, SetOffset
<1>5. CASE \E list \in DurationLists : SetDurations(list)
  BY <1>5, DurationListsAssumption, InitializeGatingStep DEF GateInv, SetDurations
<1>6. CASE UNCHANGED vars
  BY <1>6 DEF GateInv, Unscheduled, InInterval, vars, params
<1> QED
  BY <1>1, <1>2, <1>3, <1>4, <1>5, <1>6 DEF Next

(* The gate is always in one interval of its list, with the change event at  *)
(* the end of it.                                                            *)
THEOREM GateInvariant == Spec => []GateInv
<1> QED
  BY GateInit, GateNext, PTL DEF Spec

-----------------------------------------------------------------------------
(* What the invariant says about the state of the gate.                      *)

LEMMA GateInvType == GateInv => TypeOK
<1> SUFFICES ASSUME GateInv PROVE TypeOK
  OBVIOUS
<1>1. IsDurationList(durations) /\ IsPositiveList(durations)
  BY ParameterFacts DEF GateInv
<1>2. CASE durations = <<>>
  BY <1>2 DEF GateInv, TypeOK, Unscheduled
<1>3. CASE durations # <<>>
  <2>1. PICK k \in 0..Len(durations)-1 : InInterval(k)
    BY <1>3 DEF GateInv
  <2>2. Len(durations) \in Nat \ {0} /\ durations[k+1] \in Nat
    BY <1>1, <1>3, <2>1, ListFacts, EndTimesNext
  <2> DEFINE n == Len(durations)
  <2> HIDE DEF n
  <2>3. (k + 1) % n \in 0..n-1
    BY <2>2 DEF n
  <2>4. index \in Nat /\ index < Len(durations)
    BY <2>1, <2>2, <2>3 DEF InInterval, n
  <2>5. isOpen \in BOOLEAN
    BY <2>1, Zenon DEF InInterval, OpenIn, GateInv
  <2>6. changeTimer \in Nat
    BY <2>1, <2>2 DEF InInterval
  <2> QED
    BY <2>4, <2>5, <2>6 DEF GateInv, TypeOK
<1> QED
  BY <1>2, <1>3

(* For every list of durations, the gate has its parameters, its index, its  *)
(* state and its timer in their ranges (PeriodicGate::initializeGating and   *)
(* scheduleChangeTimer).                                                     *)
THEOREM TypeCorrectness == Spec => []TypeOK
<1> QED
  BY GateInvType, GateInvariant, PTL

(* Up to t after the present, as long as that is before the end of interval  *)
(* k, the parameters ask for the state the gate has in interval k.           *)
LEMMA OpenWithinInterval ==
    ASSUME GateInv, durations # <<>>, NEW k \in 0..Len(durations)-1, InInterval(k),
           NEW t \in Nat, t < changeTimer
    PROVE  OpenAt(phase + t) = OpenIn(initiallyOpen, k)
<1> DEFINE T == TotalDuration(durations)
           b == EndTimes(durations)[k]
           e == EndTimes(durations)[k+1]
           n == durations[k+1]
<1>1. /\ IsDurationList(durations) /\ IsPositiveList(durations)
      /\ initialOffset \in Int /\ phase \in Nat
  BY ParameterFacts DEF GateInv
<1>2. /\ T \in Nat \ {0} /\ e <= T
      /\ b \in Nat /\ e \in Nat /\ n \in Nat /\ e = b + n
  BY <1>1, TotalDurationFacts, EndTimesNext
<1>3. changeTimer \in 0..n /\ (initialOffset + phase) % T = (e - changeTimer) % T
  BY DEF InInterval
<1> DEFINE p == e - changeTimer + t
<1> HIDE DEF T, b, e, n
<1>4. p \in 0..T-1 /\ b <= p /\ p < e
  BY <1>2, <1>3
<1>5. (initialOffset + (phase + t)) % T = p
  <2> DEFINE x == initialOffset + phase
             y == e - changeTimer
  <2>1. x \in Int /\ y \in Int /\ x % T = y % T
    BY <1>1, <1>2, <1>3
  <2>2. initialOffset + (phase + t) = x + t /\ p = y + t
    BY <1>1
  <2> HIDE DEF x, y, p
  <2>3. t \in Int
    OBVIOUS
  <2>4. (x + t) % T = (y + t) % T
    BY <1>2, <2>1, <2>3, PositionLater
  <2>5. p % T = p
    BY <1>2, <1>4, ModSmall
  <2> QED
    BY <2>2, <2>4, <2>5
<1> HIDE DEF p
<1>6. Within(durations, k, (initialOffset + (phase + t)) % TotalDuration(durations))
  BY <1>4, <1>5 DEF Within, T, b, e
<1> DEFINE s == phase + t
<1>7. s \in Int
  BY <1>1
<1> HIDE DEF s
<1>8. PrescribedOpen(initiallyOpen, initialOffset, durations, s) = OpenIn(initiallyOpen, k)
  BY <1>1, <1>6, <1>7, PrescribedIsOpenIn DEF s
<1> QED
  BY <1>8 DEF OpenAt, s

(* At the end of interval k the parameters ask for the other state.          *)
LEMMA OpenAfterInterval ==
    ASSUME GateInv, durations # <<>>, NEW k \in 0..Len(durations)-1, InInterval(k)
    PROVE  OpenAt(phase + changeTimer) = ~OpenIn(initiallyOpen, k)
<1> DEFINE T == TotalDuration(durations)
           e == EndTimes(durations)[k+1]
           n == durations[k+1]
<1>1. /\ IsDurationList(durations) /\ IsPositiveList(durations)
      /\ initialOffset \in Int /\ phase \in Nat
      /\ initiallyOpen \in BOOLEAN
  BY ParameterFacts DEF GateInv
<1>2. T \in Nat \ {0} /\ e \in Nat /\ n \in Nat
  BY <1>1, TotalDurationFacts, EndTimesNext
<1> PICK j : j = (k + 1) % Len(durations)
  OBVIOUS
<1>3. /\ j \in 0..Len(durations)-1
      /\ OpenIn(initiallyOpen, j) = ~OpenIn(initiallyOpen, k)
      /\ EndTimes(durations)[j] \in 0..T-1
      /\ e % T = EndTimes(durations)[j]
  BY <1>1, NextInterval
<1>4. changeTimer \in 0..n /\ (initialOffset + phase) % T = (e - changeTimer) % T
  BY DEF InInterval
<1>5. /\ EndTimes(durations)[j] \in Nat /\ durations[j+1] \in Nat \ {0}
      /\ EndTimes(durations)[j+1] = EndTimes(durations)[j] + durations[j+1]
  BY <1>1, <1>3, EndTimesNext
<1> HIDE DEF T, e, n
<1>6. (initialOffset + (phase + changeTimer)) % T = EndTimes(durations)[j]
  <2> DEFINE x == initialOffset + phase
             y == e - changeTimer
  <2>1. x \in Int /\ y \in Int /\ x % T = y % T /\ changeTimer \in Int
    BY <1>1, <1>2, <1>4
  <2>2. initialOffset + (phase + changeTimer) = x + changeTimer /\ y + changeTimer = e
    BY <1>1, <1>2, <2>1
  <2> HIDE DEF x, y
  <2>3. (x + changeTimer) % T = (y + changeTimer) % T
    BY <1>2, <2>1, PositionLater
  <2> QED
    BY <1>3, <2>2, <2>3
<1>7. Within(durations, j, (initialOffset + (phase + changeTimer)) % TotalDuration(durations))
  <2>1. /\ EndTimes(durations)[j] <= EndTimes(durations)[j]
        /\ EndTimes(durations)[j] < EndTimes(durations)[j+1]
    BY <1>5
  <2> QED
    BY <1>3, <1>6, <2>1 DEF Within, T
<1> DEFINE s == phase + changeTimer
<1>8. s \in Int
  BY <1>1, <1>2, <1>4
<1> HIDE DEF s
<1>9. PrescribedOpen(initiallyOpen, initialOffset, durations, s) = OpenIn(initiallyOpen, j)
  BY <1>1, <1>7, <1>8, PrescribedIsOpenIn DEF s
<1> QED
  BY <1>3, <1>9 DEF OpenAt, s

LEMMA UnscheduledIsOpen ==
    ASSUME GateInv, durations = <<>>
    PROVE  isOpen = OpenAt(phase) /\ changeTimer = NotScheduled
  BY DEF GateInv, Unscheduled, OpenAt, PrescribedOpen

LEMMA GateInvFollows == GateInv => FollowsParameters
<1> SUFFICES ASSUME GateInv, changeTimer # 0 PROVE isOpen = OpenAt(phase)
  BY DEF FollowsParameters
<1>1. CASE durations = <<>>
  BY <1>1, UnscheduledIsOpen
<1>2. CASE durations # <<>>
  <2>1. PICK k \in 0..Len(durations)-1 : InInterval(k)
    BY <1>2 DEF GateInv
  <2>2. IsDurationList(durations) /\ IsPositiveList(durations) /\ phase \in Nat
    BY ParameterFacts DEF GateInv
  <2>3. 0 < changeTimer
    BY <1>2, <2>1, <2>2, EndTimesNext DEF InInterval
  <2>4. 0 \in Nat
    OBVIOUS
  <2>5. OpenAt(phase + 0) = OpenIn(initiallyOpen, k)
    BY <1>2, <2>1, <2>3, <2>4, OpenWithinInterval
  <2>6. phase + 0 = phase
    BY <2>2
  <2> QED
    BY <2>1, <2>5, <2>6 DEF InInterval
<1> QED
  BY <1>1, <1>2

(* Whatever the parameters were set to, and whenever, the gate is in the     *)
(* state they ask for: skipping, toggling, wrapping and restarting lose      *)
(* nothing.                                                                  *)
THEOREM GateFollowsParameters == Spec => []FollowsParameters
<1> QED
  BY GateInvFollows, GateInvariant, PTL

LEMMA GateInvNextChange == GateInv => NextChangeIsNear
<1> SUFFICES ASSUME GateInv, changeTimer > 0
             PROVE  /\ \A t \in 0..changeTimer-1 : OpenAt(phase + t) = OpenAt(phase)
                    /\ OpenAt(phase + changeTimer) # OpenAt(phase)
  BY DEF NextChangeIsNear
<1>1. durations # <<>>
  BY UnscheduledIsOpen DEF NotScheduled
<1>2. PICK k \in 0..Len(durations)-1 : InInterval(k)
  BY <1>1 DEF GateInv
<1>3. /\ IsDurationList(durations) /\ IsPositiveList(durations)
      /\ initiallyOpen \in BOOLEAN /\ phase \in Nat
      /\ changeTimer \in Nat
  BY <1>1, <1>2, ParameterFacts, EndTimesNext DEF GateInv, InInterval
<1>4. \A t \in 0..changeTimer-1 : t \in Nat /\ t < changeTimer
  BY <1>3
<1>5. \A t \in 0..changeTimer-1 : OpenAt(phase + t) = OpenIn(initiallyOpen, k)
  BY <1>1, <1>2, <1>4, OpenWithinInterval
<1>6. 0 \in 0..changeTimer-1 /\ phase + 0 = phase
  BY <1>3
<1>7. OpenAt(phase) = OpenIn(initiallyOpen, k)
  BY <1>5, <1>6
<1>8. OpenAt(phase + changeTimer) = ~OpenIn(initiallyOpen, k)
  BY <1>1, <1>2, OpenAfterInterval
<1>9. OpenIn(initiallyOpen, k) \in BOOLEAN
  BY <1>3, Zenon DEF OpenIn
<1> QED
  BY <1>5, <1>7, <1>8, <1>9

(* The gate keeps the state it has up to its change event and not longer:    *)
(* what canPacketFlowThrough derives from the arrival time of that event is  *)
(* true of every schedule.                                                   *)
THEOREM NextChange == Spec => []NextChangeIsNear
<1> QED
  BY GateInvNextChange, GateInvariant, PTL

-----------------------------------------------------------------------------
(* Writers of the parameters.                                                *)

(* Which of the three parameters are those of the request being served.      *)
WrittenInv ==
    /\ request \in Requests
    /\ written \in 0..3
    /\ written >= 1 => initiallyOpen = Wanted.initiallyOpen
    /\ written >= 2 => initialOffset = Wanted.offset
    /\ written >= 3 => durations = Wanted.durations

ConfInv == GateInv /\ WrittenInv

LEMMA WantedType == ASSUME WrittenInv
    PROVE  /\ Wanted.initiallyOpen \in BOOLEAN
           /\ Wanted.offset \in Nat
           /\ IsDurationList(Wanted.durations)
  BY ParametersMeanRequest DEF WrittenInv, Wanted

LEMMA ConfInitImplies == ConfInit => ConfInv
<1> SUFFICES ASSUME ConfInit PROVE ConfInv
  OBVIOUS
<1>1. IsDurationList(<<>>)
  BY DEF IsDurationList, IsPositiveList
<1>2. GateInv
  BY <1>1 DEF ConfInit, GateInv, Unscheduled
<1> QED
  BY <1>2 DEF ConfInit, WrittenInv, ConfInv

LEMMA ConfStep == ConfInv /\ [ConfNext]_cvars => ConfInv'
<1> SUFFICES ASSUME ConfInv, [ConfNext]_cvars PROVE ConfInv'
  OBVIOUS
<1>1. /\ request \in Requests
      /\ Wanted.initiallyOpen \in BOOLEAN /\ Wanted.offset \in Nat
      /\ IsDurationList(Wanted.durations)
      /\ GateInv /\ WrittenInv
  BY WantedType DEF WrittenInv, ConfInv
<1>2. request' = request => Wanted' = Wanted
  BY DEF Wanted
<1>3. CASE WriteInitiallyOpen
  <2>1. /\ InitializeGating /\ UNCHANGED <<request, initialOffset, durations>>
        /\ initiallyOpen' = Wanted.initiallyOpen /\ written' = 1
    BY <1>3 DEF WriteInitiallyOpen, SetInitiallyOpen
  <2>2. GateInv'
    BY <1>1, <2>1, InitializeGatingStep DEF GateInv
  <2> QED
    BY <1>1, <1>2, <2>1, <2>2 DEF WrittenInv, ConfInv
<1>4. CASE WriteOffset
  <2>1. /\ InitializeGating /\ UNCHANGED <<request, initiallyOpen, durations>>
        /\ initialOffset' = Wanted.offset /\ written = 1 /\ written' = 2
    BY <1>4 DEF WriteOffset, SetOffset
  <2>2. GateInv'
    BY <1>1, <2>1, InitializeGatingStep DEF GateInv
  <2> QED
    BY <1>1, <1>2, <2>1, <2>2 DEF WrittenInv, ConfInv
<1>5. CASE WriteDurations
  <2>1. /\ InitializeGating /\ UNCHANGED <<request, initiallyOpen, initialOffset>>
        /\ durations' = Wanted.durations /\ written = 2 /\ written' = 3
    BY <1>5 DEF WriteDurations, SetDurations
  <2>2. GateInv'
    BY <1>1, <2>1, InitializeGatingStep DEF GateInv
  <2> QED
    BY <1>1, <1>2, <2>1, <2>2 DEF WrittenInv, ConfInv
<1>6. CASE Configure
  <2>1. UNCHANGED vars /\ request' \in Requests /\ written' = 0
    BY <1>6 DEF Configure
  <2>2. GateInv'
    BY <1>1, <2>1 DEF GateInv, Unscheduled, InInterval, vars, params
  <2> QED
    BY <2>1, <2>2 DEF WrittenInv, ConfInv
<1>7. CASE GateStep
  <2>1. ChangeTimer \/ Tick
    BY <1>7 DEF GateStep
  <2>2. UNCHANGED <<request, written, params>>
    BY <1>7, <2>1 DEF GateStep, ChangeTimer, Tick
  <2>3. GateInv'
    BY <1>1, <2>1, ChangeTimerStep, TickStep
  <2> QED
    BY <1>1, <1>2, <2>2, <2>3 DEF WrittenInv, ConfInv, params
<1>8. CASE UNCHANGED cvars
  <2>1. GateInv'
    BY <1>1, <1>8 DEF GateInv, Unscheduled, InInterval, cvars, vars, params
  <2> QED
    BY <1>1, <1>2, <1>8, <2>1 DEF cvars, vars, params, WrittenInv, ConfInv
<1> QED
  BY <1>3, <1>4, <1>5, <1>6, <1>7, <1>8 DEF ConfNext, Write

(* However the writers interrupt a gate that is running, and whatever they   *)
(* ask for, its state and its event stay those of one interval.              *)
THEOREM ConfigurationInvariant == ConfSpec => []ConfInv
<1> QED
  BY ConfInitImplies, ConfStep, PTL DEF ConfSpec

(* No gate control list and no computed schedule makes the gate leave its    *)
(* types: the lists that the writers derive have an even number of positive  *)
(* durations, which readDurationsPar insists on.                             *)
THEOREM ConfigurationTypeCorrectness == ConfSpec => []TypeOK
<1> QED
  BY ConfigurationInvariant, GateInvType, PTL DEF ConfInv

(* What canPacketFlowThrough derives from the arrival time of the change     *)
(* event is true also between the writes of a configuration.                 *)
THEOREM ConfigurationNextChange == ConfSpec => []NextChangeIsNear
<1> QED
  BY ConfigurationInvariant, GateInvNextChange, PTL DEF ConfInv

(* For every gate control list, every computed schedule and every directly   *)
(* given list, the gate is in the state that was asked for: parseGcl and     *)
(* configureGateScheduling lose nothing, and neither do the restarts with    *)
(* half of the parameters.                                                   *)
THEOREM RequestsFollowed == ConfSpec => []FollowsRequest
<1>1. ConfInv => FollowsRequest
  <2> SUFFICES ASSUME ConfInv, Running, changeTimer # 0
               PROVE  isOpen = RequestedOpenAt(phase)
    BY DEF FollowsRequest
  <2>1. /\ initiallyOpen = Wanted.initiallyOpen /\ initialOffset = Wanted.offset
        /\ durations = Wanted.durations /\ request \in Requests /\ phase \in Nat
    BY DEF ConfInv, WrittenInv, Running, GateInv
  <2>2. isOpen = PrescribedOpen(initiallyOpen, initialOffset, durations, phase)
    BY GateInvFollows DEF ConfInv, FollowsParameters, OpenAt
  <2>3. PrescribedOpen(Wanted.initiallyOpen, Wanted.offset, Wanted.durations, phase)
            = RequestedOpen(request, phase)
    BY <2>1, ParametersMeanRequest DEF Wanted
  <2> QED
    BY <2>1, <2>2, <2>3, Zenon DEF RequestedOpenAt
<1> QED
  BY <1>1, ConfigurationInvariant, PTL

(* A gate gets the cycle that was asked for, or no schedule at all when its  *)
(* state is never to change.                                                 *)
THEOREM CycleRequested == ConfSpec => []CycleIsRequested
<1>1. ConfInv => CycleIsRequested
  <2> SUFFICES ASSUME ConfInv, Running, request.kind # "direct"
               PROVE  IF \A t \in 1..CycleOf(request)-1 :
                            RequestedOpenAt(t) = RequestedOpenAt(0)
                      THEN durations = <<>>
                      ELSE TotalDuration(durations) = CycleOf(request)
    BY DEF CycleIsRequested
  <2>1. durations = ParametersOf(request).durations /\ request \in Requests
    BY DEF ConfInv, WrittenInv, Running, Wanted
  <2>2. IF \A t \in 1..CycleOf(request)-1 :
                RequestedOpen(request, t) = RequestedOpen(request, 0)
        THEN ParametersOf(request).durations = <<>>
        ELSE TotalDuration(ParametersOf(request).durations) = CycleOf(request)
    BY <2>1, ParametersHaveCycle
  <2> QED
    BY <2>1, <2>2, Zenon DEF RequestedOpenAt
<1> QED
  BY <1>1, ConfigurationInvariant, PTL

(* A gate that is configured by the three writes of a writer, at any time,   *)
(* is a gate whose parameters are set, one by one and at any time, to any of *)
(* the values that it accepts.                                               *)
THEOREM ConfigurationRefinesGate ==
    ASSUME Nat \subseteq Offsets, \A d : IsDurationList(d) => d \in DurationLists
    PROVE  ConfSpec => Spec
<1>1. ConfInit => Init
  <2> SUFFICES ASSUME ConfInit PROVE Init
    OBVIOUS
  <2> DEFINE s == StartOf(initiallyOpen, initialOffset, durations)
  <2>1. isOpen = s.isOpen /\ index = s.index /\ changeTimer = s.timer
    <3>1. s = [isOpen |-> initiallyOpen, index |-> 0, timer |-> NotScheduled]
      BY DEF StartOf, ConfInit
    <3>2. s.isOpen = initiallyOpen /\ s.index = 0 /\ s.timer = NotScheduled
      BY <3>1
    <3> HIDE DEF s
    <3> QED
      BY <3>2, Zenon DEF ConfInit
  <2>2. IsDurationList(<<>>) /\ 0 \in Nat
    BY DEF IsDurationList, IsPositiveList
  <2> HIDE DEF s
  <2>3. /\ initiallyOpen \in BOOLEAN /\ initialOffset \in Offsets
        /\ durations \in DurationLists /\ phase = 0
    BY <2>2 DEF ConfInit
  <2> QED
    BY <2>1, <2>3 DEF Init, s
<1>2. WrittenInv /\ [ConfNext]_cvars => [Next]_vars
  <2> SUFFICES ASSUME WrittenInv, [ConfNext]_cvars PROVE [Next]_vars
    OBVIOUS
  <2>1. /\ Wanted.initiallyOpen \in BOOLEAN /\ Wanted.offset \in Offsets
        /\ Wanted.durations \in DurationLists
    BY WantedType
  <2>2. WriteInitiallyOpen \/ WriteOffset \/ WriteDurations => Next
    BY <2>1 DEF WriteInitiallyOpen, WriteOffset, WriteDurations, Next
  <2>3. GateStep => Next
    BY DEF GateStep, Next
  <2>4. Configure \/ UNCHANGED cvars => UNCHANGED vars
    BY DEF Configure, cvars
  <2> QED
    BY <2>2, <2>3, <2>4 DEF ConfNext, Write
<1>3. ConfInit /\ [][ConfNext]_cvars => []WrittenInv
  BY ConfInitImplies, ConfStep, PTL DEF ConfInv
<1> QED
  BY <1>1, <1>2, <1>3, PTL DEF ConfSpec, Spec

-----------------------------------------------------------------------------
(* The steps of a loop. *)

(* The recursive function in Repeat exists, as the loop ends.                *)
LEMMA RepeatDef ==
    ASSUME NEW step \in [Nat -> Nat], \A t \in Nat : step[t] >= t,
           NEW B \in Nat, \A t \in Nat : t >= B => step[t] = t
    PROVE  /\ Repeat(step) = [t \in Nat |-> IF step[t] = t THEN t ELSE Repeat(step)[step[t]]]
<1> DEFINE Good(f, t) == f[t] = IF step[t] = t THEN t ELSE f[step[t]]
           S == {n \in Nat : \E f \in [Nat -> Nat] : \A t \in Nat : t + n >= B => Good(f, t)}
<1>1. 0 \in S
  <2> DEFINE f == [t \in Nat |-> t]
  <2>1. f \in [Nat -> Nat] /\ \A t \in Nat : t + 0 >= B => Good(f, t)
    OBVIOUS
  <2> QED
    BY <2>1
<1>2. ASSUME NEW n \in Nat, n \in S PROVE n + 1 \in S
  <2>1. PICK f \in [Nat -> Nat] : \A t \in Nat : t + n >= B => Good(f, t)
    BY <1>2
  <2>2. CASE n >= B
    <3>1. \A t \in Nat : t + (n + 1) >= B => Good(f, t)
      BY <2>1, <2>2
    <3> QED
      BY <3>1
  <2>3. CASE n < B
    <3> DEFINE x == B - (n + 1)
               v == IF step[x] = x THEN x ELSE f[step[x]]
               g == [f EXCEPT ![x] = v]
    <3>1. x \in Nat /\ v \in Nat
      BY <2>3
    <3>2. g \in [Nat -> Nat] /\ g[x] = v /\ \A t \in Nat : t # x => g[t] = f[t]
      BY <3>1
    <3>3. ASSUME NEW t \in Nat, t + (n + 1) >= B PROVE Good(g, t)
      <4>1. CASE t = x
        <5>1. step[x] \in Nat /\ step[x] >= x
          BY <3>1
        <5>2. step[x] # x => g[step[x]] = f[step[x]]
          BY <3>2, <5>1
        <5> QED
          BY <3>2, <4>1, <5>2
      <4>2. CASE t # x
        <5>1. t + n >= B /\ t > x
          BY <2>3, <3>3, <4>2
        <5>2. step[t] \in Nat /\ step[t] # x /\ step[t] >= t
          BY <3>1, <5>1
        <5> QED
          BY <2>1, <3>2, <4>2, <5>1, <5>2
      <4> QED
        BY <4>1, <4>2
    <3> HIDE DEF g
    <3> QED
      BY <3>2, <3>3
  <2> QED
    BY <2>2, <2>3
<1> HIDE DEF S
<1>3. B \in S
  BY <1>1, <1>2, NaturalInduction
<1>4. PICK f \in [Nat -> Nat] : \A t \in Nat : t + B >= B => Good(f, t)
  BY <1>3 DEF S
<1>5. \A t \in Nat : Good(f, t)
  BY <1>4
<1>6. \E h : h = [t \in Nat |-> IF step[t] = t THEN t ELSE h[step[t]]]
  <2>1. f = [t \in Nat |-> f[t]]
    OBVIOUS
  <2>2. f = [t \in Nat |-> IF step[t] = t THEN t ELSE f[step[t]]]
    BY <1>5, <2>1
  <2> QED
    BY <2>2
<1> QED
  BY <1>6 DEF Repeat

(* A step that never goes back, and changes nothing far enough, ends where   *)
(* it changes nothing.                                                       *)
LEMMA RepeatFacts ==
    ASSUME NEW step \in [Nat -> Nat], \A t \in Nat : step[t] >= t,
           NEW B \in Nat, \A t \in Nat : t >= B => step[t] = t
    PROVE  \A t \in Nat : /\ Repeat(step)[t] \in Nat
                          /\ Repeat(step)[t] >= step[t]
                          /\ step[Repeat(step)[t]] = Repeat(step)[t]
                          /\ step[t] = t => Repeat(step)[t] = t
<1> DEFINE R == Repeat(step)
           Good(t) == /\ R[t] \in Nat /\ R[t] >= step[t] /\ step[R[t]] = R[t]
                      /\ step[t] = t => R[t] = t
           S == {n \in Nat : \A t \in Nat : t + n >= B => Good(t)}
<1>1. R = [t \in Nat |-> IF step[t] = t THEN t ELSE R[step[t]]]
  BY RepeatDef
<1>2. \A t \in Nat : R[t] = IF step[t] = t THEN t ELSE R[step[t]]
  BY <1>1
<1> HIDE DEF R
<1>3. 0 \in S
  BY <1>2
<1>4. ASSUME NEW n \in Nat, n \in S PROVE n + 1 \in S
  <2> SUFFICES ASSUME NEW t \in Nat, t + (n + 1) >= B PROVE Good(t)
    OBVIOUS
  <2>1. CASE step[t] = t
    BY <1>2, <2>1
  <2>2. CASE step[t] # t
    <3>1. step[t] \in Nat /\ step[t] > t /\ step[t] + n >= B
      BY <2>2
    <3>2. Good(step[t]) /\ step[step[t]] >= step[t]
      BY <1>4, <3>1
    <3>3. R[t] = R[step[t]]
      BY <1>2, <2>2
    <3> QED
      BY <2>2, <3>1, <3>2, <3>3
  <2> QED
    BY <2>1, <2>2
<1> HIDE DEF S
<1>5. B \in S
  BY <1>3, <1>4, NaturalInduction
<1>6. \A t \in Nat : Good(t)
  BY <1>5 DEF S
<1> QED
  BY <1>6 DEF R

(* A set of positions that is not empty has a first one.                     *)
LEMMA MinFacts ==
    ASSUME NEW S \in SUBSET Nat, S # {}
    PROVE  Min(S) \in S /\ \A x \in S : Min(S) <= x
<1>1. IsWellFoundedOn({r \in Nat \X Nat : r[1] < r[2]}, Nat)
  BY NatLessThanWellFounded, Zenon DEF OpToRel
<1>2. PICK n \in S : \A m \in S : <<m, n>> \notin {r \in Nat \X Nat : r[1] < r[2]}
  BY <1>1, WFMin, Zenon
<1>3. \A m \in S : <<m, n>> \in Nat \X Nat
  OBVIOUS
<1>4. \A m \in S : ~(m < n)
  BY <1>2, <1>3
<1>5. \A m \in S : n <= m
  BY <1>4
<1> QED
  BY <1>5 DEF Min

-----------------------------------------------------------------------------
(* What a slot can be, and where a packet finds room between some. *)

SlotType == [gate : GatesOfPort, open : Nat, close : Nat]

(* The slots of an interface, and their positions.                           *)
LEMMA ReservedSlotFacts ==
    ASSUME NEW reserved \in Seq(SlotType)
    PROVE  /\ Len(reserved) \in Nat /\ DOMAIN reserved = 1..Len(reserved)
           /\ \A k \in 1..Len(reserved) :
                /\ reserved[k] \in SlotType
                /\ reserved[k].open \in Nat /\ reserved[k].close \in Nat
<1>1. \A k \in 1..Len(reserved) : reserved[k] \in SlotType
  OBVIOUS
<1>2. \A slot \in SlotType : slot.open \in Nat /\ slot.close \in Nat
  BY DEF SlotType
<1> QED
  BY <1>1, <1>2

(* After some time there are no more slots. *)
LEMMA SlotsEnd ==
    ASSUME NEW reserved \in Seq(SlotType)
    PROVE  \E B \in Nat : \A k \in 1..Len(reserved) : reserved[k].close + InterFrameGap <= B
<1> DEFINE S == {n \in Nat : n <= Len(reserved) =>
                    \E B \in Nat : \A k \in 1..n : reserved[k].close + InterFrameGap <= B}
<1>1. 0 \in S
  OBVIOUS
<1>2. ASSUME NEW n \in Nat, n \in S PROVE n + 1 \in S
  <2> SUFFICES ASSUME n + 1 <= Len(reserved)
               PROVE  \E B \in Nat : \A k \in 1..n+1 : reserved[k].close + InterFrameGap <= B
    OBVIOUS
  <2>1. PICK B \in Nat : \A k \in 1..n : reserved[k].close + InterFrameGap <= B
    BY <1>2, ReservedSlotFacts
  <2>2. reserved[n+1].close \in Nat
    BY ReservedSlotFacts
  <2> DEFINE c == reserved[n+1].close + InterFrameGap
  <2>3. c \in Nat
    BY <2>2, EagerAssumption
  <2>4. \A k \in 1..n+1 : reserved[k].close + InterFrameGap <= B + c
    <3> TAKE k \in 1..n+1
    <3>1. reserved[k].close + InterFrameGap \in Nat
      BY ReservedSlotFacts, EagerAssumption
    <3>2. CASE k = n + 1
      BY <2>3, <3>2
    <3>3. CASE k # n + 1
      <4>1. k \in 1..n
        BY <3>3
      <4> HIDE DEF c
      <4> QED
        BY <2>1, <2>3, <3>1, <4>1
    <3> QED
      BY <3>2, <3>3
  <2> DEFINE D == B + c
  <2>5. D \in Nat
    <3> HIDE DEF c
    <3> QED
      BY <2>3
  <2>6. \A k \in 1..n+1 : reserved[k].close + InterFrameGap <= D
    BY <2>4
  <2> HIDE DEF D
  <2> QED
    BY <2>5, <2>6
<1> HIDE DEF S
<1>3. Len(reserved) \in S /\ Len(reserved) <= Len(reserved)
  BY <1>1, <1>2, NaturalInduction, ReservedSlotFacts
<1> QED
  BY <1>3 DEF S

(* A packet stays where it is, or goes behind the first slot it conflicts with.*)
LEMMA ConflictFacts ==
    ASSUME NEW reserved \in Seq(SlotType), NEW first \in 1..2, NEW t \in Nat, NEW duration \in Nat
    PROVE  /\ \A k \in first..Len(reserved) :
                k \notin Conflicts(reserved, first, t, duration) <=> Apart(reserved[k], t, t + duration)
           /\ Conflicts(reserved, first, t, duration) = {} =>
                MovedBehind(reserved, first, t, duration) = t
           /\ Conflicts(reserved, first, t, duration) # {} =>
                \E i \in first..Len(reserved) :
                    /\ \A k \in Conflicts(reserved, first, t, duration) : i <= k
                    /\ ~Apart(reserved[i], t, t + duration)
                    /\ MovedBehind(reserved, first, t, duration) = reserved[i].close + InterFrameGap
                    /\ reserved[i].close + InterFrameGap > t
           /\ MovedBehind(reserved, first, t, duration) \in Nat
           /\ MovedBehind(reserved, first, t, duration) >= t
<1> DEFINE C == Conflicts(reserved, first, t, duration)
           moved == MovedBehind(reserved, first, t, duration)
<1>1. C \subseteq first..Len(reserved) /\ C \in SUBSET Nat
  BY ReservedSlotFacts DEF Conflicts
<1>2. \A k \in first..Len(reserved) : k \notin C <=> Apart(reserved[k], t, t + duration)
  BY DEF Conflicts
<1>3. moved = IF C = {} THEN t ELSE reserved[Min(C)].close + InterFrameGap
  BY DEF MovedBehind
<1>4. CASE C = {}
  BY <1>2, <1>3, <1>4
<1>5. CASE C # {}
  <2>1. Min(C) \in C /\ \A k \in C : Min(C) <= k
    BY <1>1, <1>5, MinFacts
  <2>2. Min(C) \in first..Len(reserved) /\ ~Apart(reserved[Min(C)], t, t + duration)
    BY <1>1, <1>2, <2>1
  <2> DEFINE i == Min(C)
  <2> HIDE DEF C, i, moved
  <2>3. i \in 1..Len(reserved) /\ reserved[i].close \in Nat
    BY <2>2, ReservedSlotFacts DEF i
  <2>4. reserved[i].close + InterFrameGap > t
    BY <2>2, <2>3, EagerAssumption DEF Apart, i
  <2>5. moved = reserved[i].close + InterFrameGap /\ moved \in Nat
    BY <1>3, <1>5, <2>3, EagerAssumption DEF i
  <2>6. moved >= t
    BY <2>3, <2>4, <2>5, EagerAssumption
  <2> QED
    BY <1>2, <1>5, <2>1, <2>2, <2>4, <2>5, <2>6 DEF C, i, moved
<1> QED
  BY <1>4, <1>5

(* A packet behind all slots is not moved.                                   *)
LEMMA NoConflictLater ==
    ASSUME NEW reserved \in Seq(SlotType), NEW B \in Nat,
           \A k \in 1..Len(reserved) : reserved[k].close + InterFrameGap <= B,
           NEW first \in 1..2, NEW t \in Nat, t >= B, NEW duration \in Nat
    PROVE  MovedBehind(reserved, first, t, duration) = t
<1>1. \A k \in first..Len(reserved) : Apart(reserved[k], t, t + duration)
  <2> TAKE k \in first..Len(reserved)
  <2>1. k \in 1..Len(reserved) /\ reserved[k].close \in Nat
    BY ReservedSlotFacts
  <2>2. reserved[k].close + InterFrameGap <= t
    BY <2>1, EagerAssumption
  <2> QED
    BY <2>2 DEF Apart
<1>2. Conflicts(reserved, first, t, duration) = {}
  BY <1>1 DEF Conflicts
<1> QED
  BY <1>2, ConflictFacts

(* The free time that is found is apart from all slots, but maybe for the    *)
(* first slot if another one is before it.                                   *)
LEMMA FreeTimeFacts ==
    ASSUME NEW reserved \in Seq(SlotType), NEW open \in Nat, NEW duration \in Nat
    PROVE  LET free == FreeTime(reserved, open, duration)
           IN  /\ free \in Nat /\ free >= open
               /\ \A k \in 1..Len(reserved) :
                    k > 1 \/ (\A l \in 1..Len(reserved) : reserved[1].open <= reserved[l].open)
                        => Apart(reserved[k], free, free + duration)
               /\ \A B \in Nat :
                    /\ \A k \in 1..Len(reserved) : reserved[k].close + InterFrameGap <= B
                    /\ open >= B
                    => free = open
<1> DEFINE step == [t \in Nat |-> MovedBehind(reserved, 2, t, duration)]
           moved == MovedBehind(reserved, 1, open, duration)
           free == FreeTime(reserved, open, duration)
<1> 1 \in 1..2 /\ 2 \in 1..2
  OBVIOUS
<1>1. /\ step \in [Nat -> Nat]
      /\ \A t \in Nat : step[t] = MovedBehind(reserved, 2, t, duration)
      /\ \A t \in Nat : step[t] >= t
  <2>1. \A t \in Nat : /\ MovedBehind(reserved, 2, t, duration) \in Nat
                       /\ MovedBehind(reserved, 2, t, duration) >= t
    BY ConflictFacts
  <2> QED
    BY <2>1
<1>2. PICK B \in Nat : \A k \in 1..Len(reserved) : reserved[k].close + InterFrameGap <= B
  BY SlotsEnd
<1>3. \A t \in Nat : t >= B => step[t] = t
  <2>1. \A t \in Nat : t >= B => MovedBehind(reserved, 2, t, duration) = t
    BY <1>2, NoConflictLater
  <2> QED
    BY <1>1, <2>1
<1>4. moved \in Nat /\ moved >= open
  BY ConflictFacts
<1>5. free = Repeat(step)[moved]
  BY DEF FreeTime
<1> HIDE DEF step
<1>6. /\ free \in Nat /\ free >= step[moved] /\ step[free] = free
      /\ step[moved] = moved => free = moved
  <2> HIDE DEF moved, free
  <2> QED
    BY <1>1, <1>3, <1>4, <1>5, RepeatFacts
<1> HIDE DEF free, moved
<1>7. free >= moved
  BY <1>1, <1>4, <1>6
<1>8. ASSUME NEW k \in 2..Len(reserved) PROVE Apart(reserved[k], free, free + duration)
  <2> SUFFICES ASSUME k \in Conflicts(reserved, 2, free, duration) PROVE FALSE
    BY <1>6, ConflictFacts
  <2>1. PICK i \in 2..Len(reserved) :
            /\ MovedBehind(reserved, 2, free, duration) = reserved[i].close + InterFrameGap
            /\ reserved[i].close + InterFrameGap > free
    BY <1>6, ConflictFacts
  <2>2. free > free
    BY <1>1, <1>6, <2>1
  <2> QED
    BY <1>6, <2>2
<1>9. ASSUME 1 <= Len(reserved), \A l \in 1..Len(reserved) : reserved[1].open <= reserved[l].open
      PROVE  Apart(reserved[1], free, free + duration)
  <2>1. CASE Conflicts(reserved, 1, open, duration) = {}
    <3>1. moved = open /\ \A k \in 1..Len(reserved) : Apart(reserved[k], open, open + duration)
      BY <2>1, ConflictFacts DEF moved
    <3>2. Conflicts(reserved, 2, open, duration) = {}
      BY <3>1 DEF Conflicts
    <3>3. step[open] = open
      BY <1>1, <3>2, ConflictFacts
    <3> QED
      BY <1>6, <1>9, <3>1, <3>3, ReservedSlotFacts
  <2>2. CASE Conflicts(reserved, 1, open, duration) # {}
    <3>1. PICK i \in 1..Len(reserved) :
            /\ ~Apart(reserved[i], open, open + duration)
            /\ moved = reserved[i].close + InterFrameGap
            /\ \A k \in Conflicts(reserved, 1, open, duration) : i <= k
      <4> DEFINE C == Conflicts(reserved, 1, open, duration)
      <4>1. \E i \in 1..Len(reserved) :
                    /\ \A k \in C : i <= k
                    /\ ~Apart(reserved[i], open, open + duration)
                    /\ moved = reserved[i].close + InterFrameGap
                    /\ reserved[i].close + InterFrameGap > open
        BY <2>2, ConflictFacts DEF moved
      <4> HIDE DEF C, moved
      <4>2. QED
        BY <4>1 DEF C
    <3>2. /\ reserved[1].open \in Nat /\ reserved[1].close \in Nat
          /\ reserved[i].open \in Nat /\ reserved[i].close \in Nat
          /\ reserved[1].open <= reserved[i].open
      BY <1>9, <3>1, ReservedSlotFacts
    <3>3. CASE i = 1
      BY <1>4, <1>6, <1>7, <3>1, <3>2, <3>3, EagerAssumption DEF Apart
    <3>4. CASE i # 1
      <4>1. 1 \in 1..Len(reserved) /\ 1 \notin Conflicts(reserved, 1, open, duration)
        BY <1>9, <3>1, <3>4, ReservedSlotFacts
      <4>2. Apart(reserved[1], open, open + duration)
        BY <4>1, ConflictFacts
      <4>3. reserved[1].close + InterFrameGap <= open
        BY <3>1, <3>2, <4>2, EagerAssumption DEF Apart
      <4> QED
        BY <1>4, <1>6, <1>7, <3>2, <4>3, EagerAssumption DEF Apart
    <3> QED
      BY <3>3, <3>4
  <2> QED
    BY <2>1, <2>2
<1>10. ASSUME NEW E \in Nat, open >= E,
              \A k \in 1..Len(reserved) : reserved[k].close + InterFrameGap <= E
       PROVE  free = open
  <2>1. moved = open
    BY <1>10, NoConflictLater DEF moved
  <2>2. MovedBehind(reserved, 2, open, duration) = open
    BY <1>10, NoConflictLater
  <2>3. step[open] = open
    BY <1>1, <2>2
  <2> QED
    BY <1>6, <2>1, <2>3
<1>11. free >= open
  BY <1>4, <1>6, <1>7
<1>12. ASSUME NEW k \in 1..Len(reserved),
              k > 1 \/ (\A l \in 1..Len(reserved) : reserved[1].open <= reserved[l].open)
       PROVE  Apart(reserved[k], free, free + duration)
  <2>1. CASE k = 1
    BY <1>9, <1>12, <2>1, ReservedSlotFacts
  <2>2. CASE k # 1
    BY <1>8, <2>2, ReservedSlotFacts
  <2> QED
    BY <2>1, <2>2
<1> QED
  BY <1>6, <1>10, <1>11, <1>12 DEF free

-----------------------------------------------------------------------------
(* The start of a flow. *)

SlotLists == [Interfaces -> Seq(SlotType)]

(* The parameters of a flow, and the positions on its path.                  *)
LEMMA FlowFacts ==
    ASSUME NEW flow \in FlowType
    PROVE  /\ flow.gate \in GatesOfPort /\ flow.duration \in Nat \ {0}
           /\ flow.interval \in Nat \ {0} /\ flow.maxLatency \in Int
           /\ flow.path \in Seq(Interfaces)
           /\ Len(flow.path) \in Nat /\ DOMAIN flow.path = 1..Len(flow.path)
           /\ \A hop \in 1..Len(flow.path) : flow.path[hop] \in Interfaces
<1>1. /\ flow.gate \in GatesOfPort /\ flow.duration \in Nat \ {0}
      /\ flow.interval \in Nat \ {0} /\ flow.maxLatency \in Int
      /\ flow.path \in Seq(Interfaces)
  BY DEF FlowType
<1> QED
  BY <1>1

(* A packet that never waits gets from hop to hop in order.                  *)
LEMMA ArrivalFacts ==
    ASSUME NEW flow \in FlowType, NEW start \in Nat
    PROVE  /\ ArrivalAt(flow, start, 1) = start
           /\ \A hop \in Nat \ {0} :
                /\ ArrivalAt(flow, start, hop) \in Nat /\ ArrivalAt(flow, start, hop) >= start
                /\ ArrivalAt(flow, start, hop + 1)
                    = ArrivalAt(flow, start, hop) + flow.duration + PropagationDelay
<1> DEFINE c == flow.duration + PropagationDelay
<1>1. c \in Nat /\ flow.duration \in Nat
  BY FlowFacts, EagerAssumption
<1>2. \A hop : ArrivalAt(flow, start, hop) = start + (hop - 1) * c
  BY DEF ArrivalAt
<1> HIDE DEF c
<1>3. ASSUME NEW hop \in Nat \ {0}
      PROVE  /\ (hop - 1) * c \in Nat /\ ((hop + 1) - 1) * c = (hop - 1) * c + c
  BY <1>1
<1>4. (1 - 1) * c = 0
  BY <1>1
<1>5. ASSUME NEW hop \in Nat \ {0}
      PROVE  /\ ArrivalAt(flow, start, hop) \in Nat /\ ArrivalAt(flow, start, hop) >= start
             /\ ArrivalAt(flow, start, hop + 1) = ArrivalAt(flow, start, hop) + c
  <2> DEFINE x == (hop - 1) * c
             y == ((hop + 1) - 1) * c
  <2>1. x \in Nat /\ y = x + c
    BY <1>3
  <2>2. ArrivalAt(flow, start, hop) = start + x /\ ArrivalAt(flow, start, hop + 1) = start + y
    BY <1>2
  <2> HIDE DEF x, y
  <2> QED
    BY <1>1, <2>1, <2>2
<1>6. ASSUME NEW hop \in Nat \ {0}
      PROVE  ArrivalAt(flow, start, hop + 1)
                = ArrivalAt(flow, start, hop) + flow.duration + PropagationDelay
  <2> DEFINE x == ArrivalAt(flow, start, hop)
             y == ArrivalAt(flow, start, hop + 1)
             d == flow.duration
  <2>1. x \in Nat /\ y = x + c /\ d \in Nat /\ PropagationDelay \in Nat
    BY <1>1, <1>5, EagerAssumption
  <2> HIDE DEF x, y, d
  <2>2. c = d + PropagationDelay
    BY DEF c, d
  <2>3. y = x + d + PropagationDelay
    BY <2>1, <2>2
  <2> QED
    BY <2>3 DEF x, y, d
<1> QED
  BY <1>2, <1>4, <1>5, <1>6

(* A start is never shifted back, and not at all only if there is no waiting.*)
LEMMA ShiftFacts ==
    ASSUME interfaceSchedules \in SlotLists, NEW flow \in FlowType, NEW start \in Nat
    PROVE  /\ \A hop \in 1..Len(flow.path) : Delay(flow, start, hop) \in Nat
           /\ StartOffsetShift(flow, start) \in Nat
           /\ StartOffsetShift(flow, start) = 0 <=>
                \A hop \in 1..Len(flow.path) : Delay(flow, start, hop) = 0
<1>1. ASSUME NEW hop \in 1..Len(flow.path) PROVE Delay(flow, start, hop) \in Nat
  <2> DEFINE time == ArrivalAt(flow, start, hop)
             free == FreeTime(interfaceSchedules[flow.path[hop]], time, flow.duration)
  <2>1. time \in Nat /\ flow.duration \in Nat /\ flow.path[hop] \in Interfaces
    <3>1. hop \in Nat \ {0}
      BY FlowFacts
    <3> QED
      BY <3>1, FlowFacts, ArrivalFacts
  <2>2. interfaceSchedules[flow.path[hop]] \in Seq(SlotType)
    BY <2>1 DEF SlotLists
  <2>3. free \in Nat /\ free >= time
    <3> HIDE DEF time
    <3> QED
      BY <2>1, <2>2, FreeTimeFacts
  <2>4. Delay(flow, start, hop) = free - time
    BY DEF Delay
  <2> HIDE DEF free, time
  <2> QED
    BY <2>1, <2>3, <2>4
<1> DEFINE waits == {hop \in 1..Len(flow.path) : Delay(flow, start, hop) # 0}
<1>2. waits \in SUBSET Nat /\ \A hop \in waits : hop \in 1..Len(flow.path)
  BY FlowFacts
<1>3. StartOffsetShift(flow, start) = IF waits = {} THEN 0 ELSE Delay(flow, start, Min(waits))
  BY DEF StartOffsetShift
<1>4. CASE waits = {}
  BY <1>1, <1>3, <1>4
<1>5. CASE waits # {}
  <2>1. Min(waits) \in waits
    BY <1>2, <1>5, MinFacts
  <2>2. Delay(flow, start, Min(waits)) # 0 /\ Delay(flow, start, Min(waits)) \in Nat
    BY <1>1, <2>1
  <2> QED
    BY <1>1, <1>2, <1>3, <1>5, <2>1, <2>2
<1> QED
  BY <1>4, <1>5

(* A packet that starts after all slots never waits. *)
LEMMA LateStart ==
    ASSUME interfaceSchedules \in SlotLists, NEW flow \in FlowType
    PROVE  \E B \in Nat : \A start \in Nat : start >= B => StartOffsetShift(flow, start) = 0
<1> DEFINE Ended(B, hop) == LET reserved == interfaceSchedules[flow.path[hop]]
                            IN  \A k \in 1..Len(reserved) : reserved[k].close + InterFrameGap <= B
           S == {n \in Nat : n <= Len(flow.path) => \E B \in Nat : \A hop \in 1..n : Ended(B, hop)}
<1>1. \A hop \in 1..Len(flow.path) : interfaceSchedules[flow.path[hop]] \in Seq(SlotType)
  BY FlowFacts DEF SlotLists
<1>2. 0 \in S
  OBVIOUS
<1>3. ASSUME NEW B \in Nat, NEW D \in Nat, B <= D, NEW hop \in 1..Len(flow.path), Ended(B, hop)
      PROVE  Ended(D, hop)
  <2> DEFINE reserved == interfaceSchedules[flow.path[hop]]
  <2>1. \A k \in 1..Len(reserved) : reserved[k].close \in Nat
    BY <1>1, ReservedSlotFacts
  <2> QED
    BY <1>3, <2>1, EagerAssumption
<1>4. ASSUME NEW hop \in 1..Len(flow.path)
      PROVE  \E B \in Nat : Ended(B, hop)
  BY <1>1, SlotsEnd
<1> HIDE DEF Ended
<1>5. ASSUME NEW n \in Nat, n \in S PROVE n + 1 \in S
  <2> SUFFICES ASSUME n + 1 <= Len(flow.path)
               PROVE  \E B \in Nat : \A hop \in 1..n+1 : Ended(B, hop)
    OBVIOUS
  <2>1. PICK B \in Nat : \A hop \in 1..n : Ended(B, hop)
    <3>1. n <= Len(flow.path)
      BY FlowFacts
    <3> QED
      BY <1>5, <3>1
  <2>2. n + 1 \in 1..Len(flow.path) /\ \A hop \in 1..n+1 : hop \in 1..Len(flow.path)
    BY FlowFacts
  <2>3. PICK C \in Nat : Ended(C, n + 1)
    BY <1>4, <2>2
  <2> DEFINE D == B + C
  <2>4. D \in Nat /\ B <= D /\ C <= D
    OBVIOUS
  <2> HIDE DEF D
  <2>5. \A hop \in 1..n+1 : Ended(D, hop)
    <3> TAKE hop \in 1..n+1
    <3>1. CASE hop = n + 1
      BY <1>3, <2>2, <2>3, <2>4, <3>1
    <3>2. CASE hop # n + 1
      <4>1. hop \in 1..n
        BY <3>2
      <4> QED
        BY <1>3, <2>1, <2>2, <2>4, <4>1
    <3> QED
      BY <3>1, <3>2
  <2> QED
    BY <2>4, <2>5
<1> HIDE DEF S
<1>6. Len(flow.path) \in S /\ Len(flow.path) <= Len(flow.path)
  BY <1>2, <1>5, NaturalInduction, FlowFacts
<1>7. PICK B \in Nat : \A hop \in 1..Len(flow.path) : Ended(B, hop)
  BY <1>6 DEF S
<1>8. ASSUME NEW start \in Nat, start >= B PROVE StartOffsetShift(flow, start) = 0
  <2> SUFFICES ASSUME NEW hop \in 1..Len(flow.path) PROVE Delay(flow, start, hop) = 0
    BY ShiftFacts
  <2> DEFINE time == ArrivalAt(flow, start, hop)
             reserved == interfaceSchedules[flow.path[hop]]
  <2>1. time \in Nat /\ time >= B /\ flow.duration \in Nat
    <3>1. hop \in Nat \ {0} /\ flow.duration \in Nat
      BY FlowFacts
    <3>2. time \in Nat /\ time >= start
      BY <3>1, ArrivalFacts
    <3> HIDE DEF time
    <3> QED
      BY <1>8, <3>1, <3>2
  <2>2. \A k \in 1..Len(reserved) : reserved[k].close + InterFrameGap <= B
    BY <1>7 DEF Ended
  <2>3. Delay(flow, start, hop) = FreeTime(reserved, time, flow.duration) - time
    BY DEF Delay
  <2>4. reserved \in Seq(SlotType)
    BY <1>1
  <2> HIDE DEF time, reserved
  <2>5. FreeTime(reserved, time, flow.duration) = time
    BY <2>1, <2>2, <2>4, FreeTimeFacts
  <2> QED
    BY <2>1, <2>3, <2>5
<1> QED
  BY <1>8

(* The start that is found lets the first packet through without waiting.    *)
LEMMA StartFacts ==
    ASSUME interfaceSchedules \in SlotLists, NEW flow \in FlowType
    PROVE  /\ StreamStartOffset(flow) \in Nat
           /\ \A hop \in 1..Len(flow.path) : Delay(flow, StreamStartOffset(flow), hop) = 0
<1> DEFINE step == [start \in Nat |-> start + StartOffsetShift(flow, start)]
           start0 == StreamStartOffset(flow)
<1>1. \A t \in Nat : StartOffsetShift(flow, t) \in Nat
  BY ShiftFacts
<1>2. /\ step \in [Nat -> Nat]
      /\ \A t \in Nat : step[t] = t + StartOffsetShift(flow, t)
      /\ \A t \in Nat : step[t] >= t
  BY <1>1
<1>3. PICK B \in Nat : \A t \in Nat : t >= B => StartOffsetShift(flow, t) = 0
  BY LateStart
<1>4. \A t \in Nat : t >= B => step[t] = t
  BY <1>2, <1>3
<1>5. start0 = Repeat(step)[0]
  BY DEF StreamStartOffset
<1> HIDE DEF step, start0
<1>6. start0 \in Nat /\ step[start0] = start0
  BY <1>2, <1>4, <1>5, RepeatFacts
<1>7. StartOffsetShift(flow, start0) = 0
  BY <1>1, <1>2, <1>6
<1> QED
  BY <1>6, <1>7, ShiftFacts DEF start0

-----------------------------------------------------------------------------
(* Reserving slots. *)

Reasons == {"no", "cycle", "latency"}

(* The slots of an interface are apart, as SlotsApart says of all of them.   *)
AreApart(reserved) ==
    \A j, k \in 1..Len(reserved) :
        j < k /\ (j > 1 \/ \A l \in 1..Len(reserved) : reserved[1].open <= reserved[l].open)
            => Apart(reserved[j], reserved[k].open, reserved[k].close)

AllApart(lists) == \A i \in Interfaces : AreApart(lists[i])

(* Slots are only added. *)
Keeps(old, new) ==
    \A i \in Interfaces : Range(old[i]) \subseteq Range(new[i])

(* A slot in the free time that was found may be added.                      *)
LEMMA AppendedSlot ==
    ASSUME NEW reserved \in Seq(SlotType), AreApart(reserved), NEW open \in Nat,
           NEW duration \in Nat, NEW slot \in SlotType,
           slot.open = FreeTime(reserved, open, duration), slot.close = slot.open + duration
    PROVE  /\ Append(reserved, slot) \in Seq(SlotType) /\ AreApart(Append(reserved, slot))
           /\ Range(Append(reserved, slot)) = Range(reserved) \cup {slot}
<1> DEFINE new == Append(reserved, slot)
           n == Len(reserved)
<1>1. /\ new \in Seq(SlotType) /\ Len(new) = n + 1 /\ n \in Nat /\ new[n+1] = slot
      /\ \A k \in 1..n : new[k] = reserved[k]
      /\ DOMAIN new = 1..n+1 /\ DOMAIN reserved = 1..n
  OBVIOUS
<1> HIDE DEF new, n
<1>2. Range(new) = Range(reserved) \cup {slot}
  <2>1. \A k \in 1..n+1 : k \in 1..n \/ k = n + 1
    BY <1>1
  <2>2. \A k \in 1..n : k \in 1..n+1
    BY <1>1
  <2>3. n + 1 \in 1..n+1
    BY <1>1
  <2> QED
    BY <1>1, <2>1, <2>2, <2>3 DEF Range
<1>3. ASSUME NEW j \in 1..n+1, NEW k \in 1..n+1, j < k,
             j > 1 \/ \A l \in 1..n+1 : new[1].open <= new[l].open
      PROVE  Apart(new[j], new[k].open, new[k].close)
  <2>1. j \in 1..n /\ 1 \in 1..n /\ new[j] = reserved[j] /\ new[1] = reserved[1]
    BY <1>1, <1>3
  <2>2. j > 1 \/ \A l \in 1..n : reserved[1].open <= reserved[l].open
    <3> SUFFICES ASSUME ~(j > 1), NEW l \in 1..n PROVE reserved[1].open <= reserved[l].open
      OBVIOUS
    <3>1. l \in 1..n+1 /\ new[l] = reserved[l]
      BY <1>1
    <3> QED
      BY <1>3, <2>1, <3>1
  <2>3. CASE k \in 1..n
    <3>1. new[k] = reserved[k]
      BY <1>1, <2>3
    <3>2. AreApart(reserved) /\ n = Len(reserved)
      BY DEF n
    <3> QED
      BY <1>3, <2>1, <2>2, <2>3, <3>1, <3>2 DEF AreApart
  <2>4. CASE k = n + 1
    <3>1. j \in 1..Len(reserved)
      BY <2>1 DEF n
    <3>2. j > 1 \/ \A l \in 1..Len(reserved) : reserved[1].open <= reserved[l].open
      BY <2>2 DEF n
    <3>3. Apart(reserved[j], slot.open, slot.open + duration)
      BY <3>1, <3>2, FreeTimeFacts
    <3> QED
      BY <1>1, <2>1, <2>4, <3>3
  <2> QED
    BY <1>1, <2>3, <2>4
<1>4. AreApart(new)
  BY <1>1, <1>3 DEF AreApart
<1> QED
  BY <1>1, <1>2, <1>4 DEF new

OnTheWay == [slots : SlotLists, time : Nat, failed : Reasons]

(* One hop: a slot is added, unless the exception is thrown.                 *)
LEMMA ReserveSlotFacts ==
    ASSUME NEW flow \in FlowType, NEW start \in Nat, NEW r \in OnTheWay, AllApart(r.slots),
           NEW interface \in Interfaces
    PROVE  LET next == ReserveSlot(flow, start, r, interface)
               open == FreeTime(r.slots[interface], r.time, flow.duration)
           IN  /\ next \in OnTheWay /\ AllApart(next.slots) /\ Keeps(r.slots, next.slots)
               /\ next.failed = "no" =>
                    /\ r.failed = "no"
                    /\ next.time = open + flow.duration + PropagationDelay
                    /\ [gate |-> flow.gate, open |-> open, close |-> open + flow.duration]
                            \in Range(next.slots[interface])
                    /\ \A i \in Interfaces \ {interface} : next.slots[i] = r.slots[i]
<1> DEFINE open  == FreeTime(r.slots[interface], r.time, flow.duration)
           close == open + flow.duration
           slot  == [gate |-> flow.gate, open |-> open, close |-> close]
           next  == ReserveSlot(flow, start, r, interface)
           added == [r.slots EXCEPT ![interface] = Append(@, slot)]
<1>1. /\ r.slots \in SlotLists /\ r.time \in Nat /\ r.failed \in Reasons
      /\ r.slots[interface] \in Seq(SlotType) /\ AreApart(r.slots[interface])
      /\ flow.duration \in Nat /\ flow.gate \in GatesOfPort
      /\ r = [slots |-> r.slots, time |-> r.time, failed |-> r.failed]
  BY FlowFacts DEF OnTheWay, SlotLists, AllApart
<1>2. open \in Nat /\ close \in Nat
  <2>1. open \in Nat
    BY <1>1, FreeTimeFacts
  <2> HIDE DEF open
  <2> QED
    BY <1>1, <2>1
<1>3. /\ next = IF r.failed # "no" THEN r
                ELSE IF close > start + Cycle THEN [r EXCEPT !.failed = "cycle"]
                ELSE [slots |-> added, time |-> close + PropagationDelay, failed |-> "no"]
      /\ slot.open = open /\ slot.close = close
  BY Zenon DEF ReserveSlot
<1>4. slot \in SlotType
  <2> HIDE DEF open, close
  <2> QED
    BY <1>1, <1>2 DEF SlotType
<1>5. open = FreeTime(r.slots[interface], r.time, flow.duration) /\ close = open + flow.duration
  OBVIOUS
<1> DEFINE Claim == /\ next \in OnTheWay /\ AllApart(next.slots) /\ Keeps(r.slots, next.slots)
                    /\ next.failed = "no" =>
                        /\ r.failed = "no"
                        /\ next.time = close + PropagationDelay
                        /\ slot \in Range(next.slots[interface])
                        /\ \A i \in Interfaces \ {interface} : next.slots[i] = r.slots[i]
<1> HIDE DEF next, open, close, slot
<1>6. Keeps(r.slots, r.slots)
  BY DEF Keeps
<1>7. ASSUME r.failed # "no" PROVE Claim
  BY <1>1, <1>3, <1>6, <1>7
<1>8. ASSUME r.failed = "no", close > start + Cycle PROVE Claim
  <2>1. next = [slots |-> r.slots, time |-> r.time, failed |-> "cycle"]
    BY <1>1, <1>3, <1>8
  <2>2. next \in OnTheWay /\ next.slots = r.slots /\ next.failed # "no"
    BY <1>1, <2>1 DEF OnTheWay, Reasons
  <2> QED
    BY <1>6, <2>2
<1>9. ASSUME r.failed = "no", ~(close > start + Cycle) PROVE Claim
  <2>1. next = [slots |-> added, time |-> close + PropagationDelay, failed |-> "no"]
    BY <1>3, <1>9
  <2> DEFINE new == Append(r.slots[interface], slot)
  <2>2. /\ new \in Seq(SlotType) /\ AreApart(new)
        /\ Range(new) = Range(r.slots[interface]) \cup {slot}
    BY <1>1, <1>3, <1>4, <1>5, AppendedSlot
  <2>3. added = [i \in Interfaces |-> IF i = interface THEN new ELSE r.slots[i]]
    BY <1>1 DEF SlotLists
  <2> HIDE DEF new
  <2>4. added \in SlotLists /\ AllApart(added)
    BY <1>1, <2>2, <2>3 DEF SlotLists, AllApart
  <2>5. Keeps(r.slots, added) /\ slot \in Range(added[interface])
    BY <2>2, <2>3 DEF Keeps
  <2>6. \A i \in Interfaces \ {interface} : added[i] = r.slots[i]
    BY <2>3
  <2>7. close + PropagationDelay \in Nat
    BY <1>2, EagerAssumption
  <2> HIDE DEF added
  <2>8. next \in OnTheWay /\ next.slots = added /\ next.time = close + PropagationDelay
    BY <2>1, <2>4, <2>7 DEF OnTheWay, Reasons
  <2> QED
    BY <1>9, <2>4, <2>5, <2>6, <2>8
<1>10. Claim
  BY <1>7, <1>8, <1>9
<1> QED
  BY <1>10 DEF next, open, close, slot

(* What is reserved after each hop follows from what was before.             *)
LEMMA ReserveHopsDef ==
    ASSUME NEW flow \in FlowType, NEW start, NEW s
    PROVE  ReserveHops(flow, start, s) =
            [hop \in 0..Len(flow.path) |->
                IF hop = 0 THEN [slots |-> s.slots, time |-> start, failed |-> s.failed]
                ELSE ReserveSlot(flow, start, ReserveHops(flow, start, s)[hop-1], flow.path[hop])]
<1> DEFINE first == [slots |-> s.slots, time |-> start, failed |-> s.failed]
           Step(r, hop) == ReserveSlot(flow, start, r, flow.path[hop])
           Solves(f, n) == f = [k \in 0..n |-> IF k = 0 THEN first ELSE Step(f[k-1], k)]
           S == {n \in Nat : \E f : Solves(f, n)}
<1> HIDE DEF first, Step
<1>1. 0 \in S
  <2>1. Solves([k \in 0..0 |-> first], 0)
    OBVIOUS
  <2> QED
    BY <2>1
<1>2. ASSUME NEW n \in Nat, n \in S PROVE n + 1 \in S
  <2>1. PICK f : Solves(f, n)
    BY <1>2
  <2> DEFINE g == [k \in 0..n+1 |-> IF k = n + 1 THEN Step(f[n], n + 1) ELSE f[k]]
  <2>2. Solves(g, n + 1)
    <3>1. \A k \in 0..n : f[k] = IF k = 0 THEN first ELSE Step(f[k-1], k)
      BY <2>1
    <3>2. \A k \in 0..n+1 : g[k] = IF k = 0 THEN first ELSE Step(g[k-1], k)
      BY <3>1
    <3> QED
      BY <3>2
  <2> HIDE DEF g, Solves
  <2>3. \E h : Solves(h, n + 1)
    BY <2>2
  <2> QED
    BY <2>3
<1> HIDE DEF S
<1>3. Len(flow.path) \in S
  BY <1>1, <1>2, NaturalInduction, FlowFacts
<1>4. \E f : Solves(f, Len(flow.path))
  BY <1>3 DEF S
<1> QED
  BY <1>4 DEF ReserveHops, Step, first

Reserved == [slots : SlotLists, failed : Reasons]

(* All hops of a packet.                                                     *)
LEMMA ReserveHopsFacts ==
    ASSUME NEW flow \in FlowType, NEW start \in Nat, NEW s \in Reserved, AllApart(s.slots)
    PROVE  LET after == ReserveHops(flow, start, s)
           IN  /\ after[0] = [slots |-> s.slots, time |-> start, failed |-> s.failed]
               /\ \A hop \in 1..Len(flow.path) :
                    after[hop] = ReserveSlot(flow, start, after[hop-1], flow.path[hop])
               /\ \A hop \in 0..Len(flow.path) :
                    /\ after[hop] \in OnTheWay /\ AllApart(after[hop].slots)
                    /\ Keeps(s.slots, after[hop].slots)
<1> DEFINE after == ReserveHops(flow, start, s)
           Good(r) == r \in OnTheWay /\ AllApart(r.slots) /\ Keeps(s.slots, r.slots)
           S == {n \in Nat : n <= Len(flow.path) => Good(after[n])}
<1>1. \A hop \in 0..Len(flow.path) :
        after[hop] = IF hop = 0 THEN [slots |-> s.slots, time |-> start, failed |-> s.failed]
                     ELSE ReserveSlot(flow, start, after[hop-1], flow.path[hop])
  <2>1. after = [hop \in 0..Len(flow.path) |->
                    IF hop = 0 THEN [slots |-> s.slots, time |-> start, failed |-> s.failed]
                    ELSE ReserveSlot(flow, start, after[hop-1], flow.path[hop])]
    BY ReserveHopsDef
  <2> HIDE DEF after
  <2> QED
    BY <2>1, Zenon
<1> HIDE DEF after
<1>2. /\ after[0] = [slots |-> s.slots, time |-> start, failed |-> s.failed]
      /\ \A hop \in 1..Len(flow.path) :
            after[hop] = ReserveSlot(flow, start, after[hop-1], flow.path[hop])
  <2>1. 0 \in 0..Len(flow.path) /\ \A hop \in 1..Len(flow.path) : hop \in 0..Len(flow.path) /\ hop # 0
    BY FlowFacts
  <2> QED
    BY <1>1, <2>1
<1>3. Good(after[0])
  <2>1. s.slots \in SlotLists /\ s.failed \in Reasons
    BY DEF Reserved
  <2> QED
    BY <1>2, <2>1 DEF OnTheWay, Keeps
<1>4. 0 \in S
  BY <1>3
<1>5. ASSUME NEW n \in Nat, n \in S PROVE n + 1 \in S
  <2> SUFFICES ASSUME n + 1 <= Len(flow.path) PROVE Good(after[n+1])
    OBVIOUS
  <2>1. n <= Len(flow.path) /\ n + 1 \in 1..Len(flow.path) /\ (n + 1) - 1 = n
        /\ flow.path[n+1] \in Interfaces
    BY FlowFacts
  <2>2. Good(after[n])
    BY <1>5, <2>1
  <2>3. after[n+1] = ReserveSlot(flow, start, after[n], flow.path[n+1])
    <3>1. after[n+1] = ReserveSlot(flow, start, after[(n+1)-1], flow.path[n+1])
      BY <1>2, <2>1
    <3> QED
      BY <2>1, <3>1
  <2>4. /\ after[n+1] \in OnTheWay /\ AllApart(after[n+1].slots)
        /\ Keeps(after[n].slots, after[n+1].slots)
    BY <2>1, <2>2, <2>3, ReserveSlotFacts
  <2>5. Keeps(s.slots, after[n+1].slots)
    BY <2>2, <2>4 DEF Keeps
  <2> QED
    BY <2>4, <2>5
<1> HIDE DEF S
<1>6. \A n \in Nat : n \in S
  BY <1>4, <1>5, NaturalInduction
<1>7. \A hop \in 0..Len(flow.path) : Good(after[hop])
  BY <1>6, FlowFacts DEF S
<1> QED
  BY <1>2, <1>7 DEF after

(* One packet.                                                               *)
LEMMA ReservePacketFacts ==
    ASSUME NEW flow \in FlowType, NEW start \in Nat, NEW s \in Reserved, AllApart(s.slots)
    PROVE  LET next == ReservePacket(flow, start, s)
               last == ReserveHops(flow, start, s)[Len(flow.path)]
           IN  /\ next \in Reserved /\ AllApart(next.slots) /\ Keeps(s.slots, next.slots)
               /\ next.slots = last.slots
               /\ next.failed = "no" => last.failed = "no"
<1> DEFINE last == ReserveHops(flow, start, s)[Len(flow.path)]
           next == ReservePacket(flow, start, s)
           why  == IF last.failed = "no" /\ last.time - start > flow.maxLatency
                   THEN "latency" ELSE last.failed
<1>1. Len(flow.path) \in 0..Len(flow.path)
  BY FlowFacts
<1>2. last \in OnTheWay /\ AllApart(last.slots) /\ Keeps(s.slots, last.slots)
  BY <1>1, ReserveHopsFacts
<1>3. next = [slots |-> last.slots, failed |-> why]
  BY DEF ReservePacket
<1> HIDE DEF last, next
<1>4. last.slots \in SlotLists /\ last.failed \in Reasons
  BY <1>2 DEF OnTheWay
<1>5. why \in Reasons /\ (why = "no" => last.failed = "no")
  BY <1>4 DEF Reasons
<1> HIDE DEF why
<1> QED
  BY <1>2, <1>3, <1>4, <1>5 DEF Reserved, last, next

(* The first packet of a flow has a slot wherever and when it comes by.      *)
SlotsInTime(flow, start, lists) ==
    \A hop \in 1..Len(flow.path) :
        LET open == ArrivalAt(flow, start, hop)
        IN  [gate |-> flow.gate, open |-> open, close |-> open + flow.duration]
                \in Range(lists[flow.path[hop]])

(* A packet that would wait nowhere gets its slots at its times.             *)
LEMMA FirstPacketFacts ==
    ASSUME interfaceSchedules \in SlotLists, AllApart(interfaceSchedules),
           NEW flow \in FlowType, IsInjective(flow.path), NEW start \in Nat,
           \A hop \in 1..Len(flow.path) : Delay(flow, start, hop) = 0,
           NEW s, s = [slots |-> interfaceSchedules, failed |-> "no"],
           ReservePacket(flow, start, s).failed = "no"
    PROVE  SlotsInTime(flow, start, ReservePacket(flow, start, s).slots)
<1> DEFINE after == ReserveHops(flow, start, s)
           Slot(hop) == LET open == ArrivalAt(flow, start, hop)
                        IN  [gate |-> flow.gate, open |-> open, close |-> open + flow.duration]
           Good(n) == after[n].failed = "no" =>
                        /\ after[n].time = ArrivalAt(flow, start, n + 1)
                        /\ \A h \in 1..n : Slot(h) \in Range(after[n].slots[flow.path[h]])
                        /\ \A h \in n+1..Len(flow.path) :
                                after[n].slots[flow.path[h]] = interfaceSchedules[flow.path[h]]
           S == {n \in Nat : n <= Len(flow.path) => Good(n)}
<1>1. s \in Reserved /\ AllApart(s.slots)
  BY DEF Reserved, Reasons
<1>2. /\ after[0] = [slots |-> interfaceSchedules, time |-> start, failed |-> "no"]
      /\ \A hop \in 1..Len(flow.path) :
            after[hop] = ReserveSlot(flow, start, after[hop-1], flow.path[hop])
      /\ \A hop \in 0..Len(flow.path) : after[hop] \in OnTheWay /\ AllApart(after[hop].slots)
  BY <1>1, ReserveHopsFacts
<1> HIDE DEF after
<1>3. 0 \in S
  <2>1. ArrivalAt(flow, start, 0 + 1) = start
    BY ArrivalFacts
  <2> QED
    BY <1>2, <2>1
<1>4. ASSUME NEW n \in Nat, n \in S PROVE n + 1 \in S
  <2> SUFFICES ASSUME n + 1 <= Len(flow.path), after[n+1].failed = "no"
               PROVE  /\ after[n+1].time = ArrivalAt(flow, start, (n + 1) + 1)
                      /\ \A h \in 1..n+1 : Slot(h) \in Range(after[n+1].slots[flow.path[h]])
                      /\ \A h \in (n+1)+1..Len(flow.path) :
                            after[n+1].slots[flow.path[h]] = interfaceSchedules[flow.path[h]]
    OBVIOUS
  <2> DEFINE hop  == n + 1
             time == ArrivalAt(flow, start, hop)
             here == flow.path[hop]
             open == FreeTime(after[n].slots[here], after[n].time, flow.duration)
  <2>1. /\ hop \in 1..Len(flow.path) /\ n \in 0..Len(flow.path) /\ hop - 1 = n
        /\ hop \in Nat \ {0} /\ here \in Interfaces /\ flow.duration \in Nat
        /\ \A h \in 1..Len(flow.path) : flow.path[h] \in Interfaces
        /\ \A h \in 1..Len(flow.path) : h # hop => flow.path[h] # here
    <3>1. \A h, k \in 1..Len(flow.path) : flow.path[h] = flow.path[k] => h = k
      BY FlowFacts DEF IsInjective
    <3>2. hop \in 1..Len(flow.path)
      BY FlowFacts
    <3> QED
      BY <3>1, <3>2, FlowFacts
  <2>2. after[hop] = ReserveSlot(flow, start, after[n], here)
        /\ after[n] \in OnTheWay /\ AllApart(after[n].slots)
    <3>1. after[hop] = ReserveSlot(flow, start, after[hop-1], here)
      BY <1>2, <2>1
    <3> QED
      BY <1>2, <2>1, <3>1
  <2>3. /\ Keeps(after[n].slots, after[hop].slots)
        /\ after[n].failed = "no"
        /\ after[hop].time = open + flow.duration + PropagationDelay
        /\ [gate |-> flow.gate, open |-> open, close |-> open + flow.duration]
                \in Range(after[hop].slots[here])
        /\ \A i \in Interfaces \ {here} : after[hop].slots[i] = after[n].slots[i]
    BY <2>1, <2>2, ReserveSlotFacts
  <2>4. Good(n)
    BY <1>4, <2>1
  <2>5. /\ after[n].time = time
        /\ \A h \in 1..n : Slot(h) \in Range(after[n].slots[flow.path[h]])
        /\ \A h \in n+1..Len(flow.path) :
                after[n].slots[flow.path[h]] = interfaceSchedules[flow.path[h]]
    BY <2>3, <2>4
  <2>6. hop \in n+1..Len(flow.path)
    BY <2>1
  <2>7. after[n].slots[here] = interfaceSchedules[here]
        /\ interfaceSchedules[here] \in Seq(SlotType)
    BY <2>1, <2>5, <2>6 DEF SlotLists
  <2>8. time \in Nat /\ ArrivalAt(flow, start, hop + 1) = time + flow.duration + PropagationDelay
    BY <2>1, ArrivalFacts
  <2>9. FreeTime(interfaceSchedules[here], time, flow.duration) - time = 0
    BY <2>1 DEF Delay
  <2>10. FreeTime(interfaceSchedules[here], time, flow.duration) \in Nat
    <3> HIDE DEF time
    <3> QED
      BY <2>1, <2>7, <2>8, FreeTimeFacts
  <2>11. open = time
    <3>1. open = FreeTime(interfaceSchedules[here], time, flow.duration)
      BY <2>5, <2>7
    <3> DEFINE free == FreeTime(interfaceSchedules[here], time, flow.duration)
    <3>2. free \in Nat /\ time \in Nat /\ free - time = 0
      BY <2>8, <2>9, <2>10
    <3> HIDE DEF free, time
    <3>3. free = time
      BY <3>2
    <3> QED
      BY <3>1, <3>3 DEF free
  <2>12. after[hop].time = ArrivalAt(flow, start, hop + 1)
    BY <2>3, <2>8, <2>11
  <2>13. Slot(hop) \in Range(after[hop].slots[here])
    BY <2>3, <2>11
  <2>14. ASSUME NEW h \in 1..n PROVE Slot(h) \in Range(after[hop].slots[flow.path[h]])
    <3>1. h \in 1..Len(flow.path)
      BY <2>1
    <3> HIDE DEF Slot
    <3> QED
      BY <2>1, <2>3, <2>5, <3>1 DEF Keeps
  <2>15. ASSUME NEW h \in hop+1..Len(flow.path)
         PROVE  after[hop].slots[flow.path[h]] = interfaceSchedules[flow.path[h]]
    <3>1. h \in 1..Len(flow.path) /\ h # hop /\ h \in n+1..Len(flow.path)
      BY <2>1
    <3> QED
      BY <2>1, <2>3, <2>5, <3>1
  <2>16. \A h \in 1..n+1 : h \in 1..n \/ h = hop
    OBVIOUS
  <2> HIDE DEF Slot
  <2> QED
    BY <2>12, <2>13, <2>14, <2>15, <2>16
<1> HIDE DEF S, Good, Slot
<1>5. \A n \in Nat : n \in S
  BY <1>3, <1>4, NaturalInduction
<1>6. Len(flow.path) \in Nat /\ Len(flow.path) <= Len(flow.path)
  BY FlowFacts
<1>7. Good(Len(flow.path))
  BY <1>5, <1>6 DEF S
<1>8. /\ after[Len(flow.path)].failed = "no"
      /\ ReservePacket(flow, start, s).slots = after[Len(flow.path)].slots
  BY <1>1, ReservePacketFacts DEF after
<1>9. \A h \in 1..Len(flow.path) : Slot(h) \in Range(after[Len(flow.path)].slots[flow.path[h]])
  BY <1>7, <1>8 DEF Good
<1> QED
  BY <1>8, <1>9 DEF SlotsInTime, Slot

(* What is reserved after each of the packets follows from what was before.  *)
OneByOne(flow, start, beginIndex, endIndex) ==
    LET after == ReservePackets(flow, start, beginIndex, endIndex)
    IN  /\ after[0] = [slots |-> interfaceSchedules, failed |-> failed]
        /\ \A n \in 1..endIndex - beginIndex :
            after[n] = ReservePacket(flow, SendTime(flow, start, beginIndex + n - 1), after[n-1])

LEMMA ReservePacketsDef ==
    ASSUME NEW flow, NEW start, NEW beginIndex \in Int, NEW endIndex \in Int,
           endIndex - beginIndex \in Nat
    PROVE  OneByOne(flow, start, beginIndex, endIndex)
<1> DEFINE first == [slots |-> interfaceSchedules, failed |-> failed]
           Step(s, k) == ReservePacket(flow, SendTime(flow, start, beginIndex + k - 1), s)
           Solves(f, n) == f = [k \in 0..n |-> IF k = 0 THEN first ELSE Step(f[k-1], k)]
           S == {n \in Nat : \E f : Solves(f, n)}
<1> HIDE DEF first, Step
<1>1. 0 \in S
  <2>1. Solves([k \in 0..0 |-> first], 0)
    OBVIOUS
  <2> QED
    BY <2>1
<1>2. ASSUME NEW n \in Nat, n \in S PROVE n + 1 \in S
  <2>1. PICK f : Solves(f, n)
    BY <1>2
  <2> DEFINE g == [k \in 0..n+1 |-> IF k = n + 1 THEN Step(f[n], n + 1) ELSE f[k]]
  <2>2. Solves(g, n + 1)
    <3>1. \A k \in 0..n : f[k] = IF k = 0 THEN first ELSE Step(f[k-1], k)
      BY <2>1
    <3>2. \A k \in 0..n+1 : g[k] = IF k = 0 THEN first ELSE Step(g[k-1], k)
      BY <3>1
    <3> QED
      BY <3>2
  <2> HIDE DEF g, Solves
  <2>3. \E h : Solves(h, n + 1)
    BY <2>2
  <2> QED
    BY <2>3
<1> HIDE DEF S
<1>3. endIndex - beginIndex \in S
  BY <1>1, <1>2, NaturalInduction
<1>4. \E f : Solves(f, endIndex - beginIndex)
  BY <1>3 DEF S
<1> DEFINE after == ReservePackets(flow, start, beginIndex, endIndex)
<1>5. after = [k \in 0..endIndex - beginIndex |-> IF k = 0 THEN first ELSE Step(after[k-1], k)]
  BY <1>4 DEF ReservePackets, Step, first
<1> HIDE DEF after
<1>6. after[0] = first
  BY <1>3, <1>5
<1>7. ASSUME NEW n \in 1..endIndex - beginIndex
      PROVE  after[n] = Step(after[n-1], n)
  <2>1. n \in 0..endIndex - beginIndex /\ n # 0
    OBVIOUS
  <2> QED
    BY <1>5, <2>1
<1> QED
  BY <1>6, <1>7 DEF OneByOne, after, first, Step

(* Several packets of a flow, one after the other.                           *)
LEMMA AddGateSchedulingFacts ==
    ASSUME interfaceSchedules \in SlotLists, failed \in Reasons, AllApart(interfaceSchedules),
           NEW flow \in FlowType, NEW start \in Nat, NEW beginIndex \in Nat, NEW endIndex \in Nat,
           beginIndex <= endIndex
    PROVE  LET added == AddGateScheduling(flow, start, beginIndex, endIndex)
           IN  /\ added \in Reserved /\ AllApart(added.slots)
               /\ Keeps(interfaceSchedules, added.slots)
<1> DEFINE after == ReservePackets(flow, start, beginIndex, endIndex)
           first == [slots |-> interfaceSchedules, failed |-> failed]
           Good(s) == s \in Reserved /\ AllApart(s.slots) /\ Keeps(interfaceSchedules, s.slots)
           S == {n \in Nat : n <= endIndex - beginIndex => Good(after[n])}
<1>1. endIndex - beginIndex \in Nat
  OBVIOUS
<1>2. /\ after[0] = first
      /\ \A n \in 1..endIndex - beginIndex :
            after[n] = ReservePacket(flow, SendTime(flow, start, beginIndex + n - 1), after[n-1])
  <2>1. OneByOne(flow, start, beginIndex, endIndex)
    BY <1>1, ReservePacketsDef
  <2> QED
    BY <2>1 DEF OneByOne
<1>3. AddGateScheduling(flow, start, beginIndex, endIndex) = after[endIndex - beginIndex]
  BY DEF AddGateScheduling
<1> HIDE DEF after
<1>4. Good(first)
  BY DEF Reserved, Keeps
<1>5. 0 \in S
  <2> HIDE DEF first
  <2> QED
    BY <1>2, <1>4
<1> HIDE DEF first
<1>6. ASSUME NEW n \in Nat, n \in S PROVE n + 1 \in S
  <2> SUFFICES ASSUME n + 1 <= endIndex - beginIndex PROVE Good(after[n+1])
    OBVIOUS
  <2>1. Good(after[n])
    BY <1>6
  <2> DEFINE time == SendTime(flow, start, beginIndex + (n + 1) - 1)
  <2>2. time \in Nat
    <3> DEFINE i == flow.interval
               m == beginIndex + (n + 1) - 1
    <3>1. i \in Nat /\ m \in Nat
      BY FlowFacts
    <3> HIDE DEF i, m
    <3>2. m * i \in Nat
      BY <3>1
    <3>3. start + m * i \in Nat
      BY <3>2
    <3> QED
      BY <3>3 DEF i, m, SendTime
  <2>3. after[n+1] = ReservePacket(flow, time, after[n])
    <3>1. n + 1 \in 1..endIndex - beginIndex /\ (n + 1) - 1 = n
      OBVIOUS
    <3>2. after[n+1] = ReservePacket(flow, time, after[(n+1)-1])
      BY <1>2, <3>1
    <3> QED
      BY <3>1, <3>2
  <2> HIDE DEF time
  <2>4. /\ after[n+1] \in Reserved /\ AllApart(after[n+1].slots)
        /\ Keeps(after[n].slots, after[n+1].slots)
    BY <2>1, <2>2, <2>3, ReservePacketFacts
  <2>5. Keeps(interfaceSchedules, after[n+1].slots)
    BY <2>1, <2>4 DEF Keeps
  <2> QED
    BY <2>4, <2>5
<1> HIDE DEF S
<1>7. \A n \in Nat : n \in S
  BY <1>5, <1>6, NaturalInduction
<1>8. Good(after[endIndex - beginIndex])
  <2> DEFINE n == endIndex - beginIndex
  <2>1. n \in Nat /\ n <= n
    OBVIOUS
  <2> HIDE DEF n
  <2>2. n \in S
    BY <1>7, <2>1
  <2> QED
    BY <2>1, <2>2 DEF S, n
<1> QED
  BY <1>3, <1>8

-----------------------------------------------------------------------------
(* The computation of the schedules. *)

EagerTypes ==
    /\ flows \in FlowLists
    /\ interfaceSchedules \in SlotLists
    /\ starts \in Seq(Nat) /\ Len(starts) <= Len(flows)
    /\ completed \in Nat
    /\ failed \in Reasons

EagerInv == EagerTypes /\ SlotsApart /\ FirstPacketNeverWaits

(* The two properties in the terms of the lemmas above.                      *)
LEMMA PropertyMeanings ==
    ASSUME EagerTypes
    PROVE  /\ SlotsApart <=> AllApart(interfaceSchedules)
           /\ FirstPacketNeverWaits <=>
                (failed = "no" => \A n \in 1..Len(starts) :
                                    SlotsInTime(flows[n], starts[n], interfaceSchedules))
<1>1. \A i \in Interfaces :
            DOMAIN interfaceSchedules[i] = 1..Len(interfaceSchedules[i])
  BY ReservedSlotFacts DEF EagerTypes, SlotLists
<1>2. DOMAIN starts = 1..Len(starts)
  BY DEF EagerTypes
<1>3. \A n \in 1..Len(starts) : DOMAIN flows[n].path = 1..Len(flows[n].path)
  <2> TAKE n \in 1..Len(starts)
  <2>1. flows[n] \in FlowType
    BY EagerAssumption DEF EagerTypes
  <2> QED
    BY <2>1, FlowFacts
<1>4. SlotsApart <=> AllApart(interfaceSchedules)
  BY <1>1 DEF SlotsApart, AllApart, AreApart
<1>5. FirstPacketNeverWaits <=>
        (failed = "no" => \A n \in 1..Len(starts) :
                            SlotsInTime(flows[n], starts[n], interfaceSchedules))
  BY <1>2, <1>3, Zenon DEF FirstPacketNeverWaits, SlotsInTime
<1> QED
  BY <1>4, <1>5

(* The flows of a configuration, and the number of their packets in a cycle. *)
LEMMA FlowsFacts ==
    ASSUME EagerTypes
    PROVE  /\ flows \in Seq(FlowType) /\ Len(flows) \in Nat /\ Len(starts) \in Nat
           /\ \A n \in 1..Len(flows) :
                /\ flows[n] \in FlowType /\ IsInjective(flows[n].path)
                /\ 1 <= Cycle \div flows[n].interval /\ Cycle \div flows[n].interval \in Nat
<1>1. flows \in Seq(FlowType) /\ DOMAIN flows = 1..Len(flows) /\ Len(flows) \in Nat
  BY EagerAssumption DEF EagerTypes
<1>2. ASSUME NEW n \in 1..Len(flows)
      PROVE  /\ flows[n] \in FlowType /\ IsInjective(flows[n].path)
             /\ 1 <= Cycle \div flows[n].interval /\ Cycle \div flows[n].interval \in Nat
  <2> DEFINE i == flows[n].interval
             q == Cycle \div i
  <2>1. flows[n] \in FlowType
    BY <1>1
  <2>2. i \in Nat \ {0} /\ IsInjective(flows[n].path) /\ Cycle % i = 0 /\ Cycle \in Nat \ {0}
    BY <1>1, <2>1, FlowFacts, EagerAssumption DEF EagerTypes
  <2> HIDE DEF i
  <2>3. q \in Int /\ Cycle = i * q + (Cycle % i)
    BY <2>2, DivMod
  <2> HIDE DEF q
  <2>4. Cycle = i * q
    BY <2>2, <2>3
  <2>5. q > 0
    BY <2>2, <2>3, <2>4
  <2> QED
    BY <2>1, <2>2, <2>3, <2>5 DEF q, i
<1> QED
  BY <1>1, <1>2 DEF EagerTypes

(* Slots that are there at the right time stay, since slots are only added.  *)
LEMMA KeptInTime ==
    ASSUME NEW flow \in FlowType, NEW start \in Nat, NEW old, NEW new, Keeps(old, new),
           SlotsInTime(flow, start, old)
    PROVE  SlotsInTime(flow, start, new)
<1>1. \A hop \in 1..Len(flow.path) : flow.path[hop] \in Interfaces
  BY FlowFacts
<1> QED
  BY <1>1, Zenon DEF SlotsInTime, Keeps

(* The first packet of a flow is reserved.                                   *)
LEMMA ReserveFirstInv ==
    ASSUME EagerInv, ReserveFirst
    PROVE  EagerInv'
<1> DEFINE m     == Len(starts) + 1
           flow  == flows[m]
           start == StreamStartOffset(flow)
           added == AddGateScheduling(flow, start, 0, 1)
<1>1. /\ failed = "no" /\ m \in 1..Len(flows) /\ m = Len(starts) + 1 /\ m \in Nat
      /\ starts' = Append(starts, start)
      /\ interfaceSchedules' = added.slots /\ failed' = added.failed
      /\ flows' = flows /\ completed' = completed
  BY FlowsFacts DEF ReserveFirst, EagerInv
<1>2. /\ EagerTypes /\ interfaceSchedules \in SlotLists /\ failed \in Reasons
      /\ AllApart(interfaceSchedules) /\ starts \in Seq(Nat)
      /\ \A n \in 1..Len(starts) : SlotsInTime(flows[n], starts[n], interfaceSchedules)
  BY <1>1, PropertyMeanings DEF EagerInv, EagerTypes
<1>3. flow \in FlowType /\ IsInjective(flow.path)
  BY <1>1, <1>2, FlowsFacts
<1> HIDE DEF m, flow
<1>4. start \in Nat /\ \A hop \in 1..Len(flow.path) : Delay(flow, start, hop) = 0
  BY <1>2, <1>3, StartFacts
<1> HIDE DEF start
<1>5. /\ added \in Reserved /\ AllApart(added.slots) /\ Keeps(interfaceSchedules, added.slots)
  <2>1. 0 \in Nat /\ 1 \in Nat /\ 0 <= 1
    OBVIOUS
  <2> QED
    BY <1>2, <1>3, <1>4, <2>1, AddGateSchedulingFacts
<1>6. ASSUME added.failed = "no"
      PROVE  SlotsInTime(flow, start, added.slots)
  <2> DEFINE s == [slots |-> interfaceSchedules, failed |-> "no"]
  <2>1. added = ReservePacket(flow, start, s)
    <3> DEFINE after == ReservePackets(flow, start, 0, 1)
    <3>1. /\ after[0] = [slots |-> interfaceSchedules, failed |-> failed]
          /\ \A n \in 1..1 - 0 :
                after[n] = ReservePacket(flow, SendTime(flow, start, 0 + n - 1), after[n-1])
      <4>1. OneByOne(flow, start, 0, 1)
        BY ReservePacketsDef
      <4> QED
        BY <4>1 DEF OneByOne
    <3>2. added = after[1 - 0]
      BY DEF AddGateScheduling
    <3> HIDE DEF after
    <3>3. /\ after[0] = [slots |-> interfaceSchedules, failed |-> failed]
          /\ after[1] = ReservePacket(flow, SendTime(flow, start, 0 + 1 - 1), after[1-1])
      <4>1. 1 \in 1..1 - 0
        OBVIOUS
      <4> QED
        BY <3>1, <4>1
    <3>4. SendTime(flow, start, 0 + 1 - 1) = start
      <4>1. SendTime(flow, start, 0) = start
        BY <1>3, <1>4, FlowFacts DEF SendTime
      <4> QED
        BY <4>1
    <3>5. after[0] = s /\ 1 - 1 = 0 /\ 1 - 0 = 1
      BY <1>1, <3>3
    <3> HIDE DEF s
    <3> QED
      BY <3>2, <3>3, <3>4, <3>5
  <2> HIDE DEF added
  <2> QED
    BY <1>2, <1>3, <1>4, <1>6, <2>1, FirstPacketFacts
<1> HIDE DEF added
<1>7. /\ Len(starts') = m /\ starts' \in Seq(Nat) /\ starts'[m] = start
      /\ \A n \in 1..Len(starts) : starts'[n] = starts[n]
  BY <1>1, <1>2, <1>4
<1>8. EagerTypes'
  BY <1>1, <1>2, <1>5, <1>7 DEF EagerTypes, Reserved
<1>9. AllApart(interfaceSchedules)'
  BY <1>1, <1>5 DEF AllApart
<1>10. ASSUME failed' = "no", NEW n \in 1..Len(starts')
       PROVE  SlotsInTime(flows[n], starts'[n], added.slots)
  <2>1. CASE n = m
    BY <1>1, <1>6, <1>7, <1>10, <2>1 DEF flow
  <2>2. CASE n # m
    <3>1. n \in 1..Len(starts) /\ n \in 1..Len(flows)
      BY <1>1, <1>2, <1>7, <2>2, FlowsFacts
    <3>2. starts'[n] = starts[n] /\ starts[n] \in Nat /\ flows[n] \in FlowType
      BY <1>2, <1>7, <3>1, FlowsFacts
    <3> QED
      BY <1>2, <1>5, <3>1, <3>2, KeptInTime
  <2> QED
    BY <2>1, <2>2
<1>11. (failed = "no" => \A n \in 1..Len(starts) :
                            SlotsInTime(flows[n], starts[n], interfaceSchedules))'
  BY <1>1, <1>10 DEF SlotsInTime
<1> QED
  BY <1>8, <1>9, <1>11, PropertyMeanings, PTL DEF EagerInv

(* The other packets of a flow are reserved.                                 *)
LEMMA ReserveOthersInv ==
    ASSUME EagerInv, ReserveOthers
    PROVE  EagerInv'
<1> DEFINE m     == completed + 1
           flow  == flows[m]
           start == starts[m]
           last  == Cycle \div flow.interval
           added == AddGateScheduling(flow, start, 1, last)
<1>1. /\ failed = "no" /\ m \in 1..Len(flows) /\ m \in 1..Len(starts)
      /\ interfaceSchedules' = added.slots /\ failed' = added.failed
      /\ flows' = flows /\ starts' = starts /\ completed' = completed + 1
  BY FlowsFacts DEF ReserveOthers, EagerInv, EagerTypes
<1>2. /\ EagerTypes /\ interfaceSchedules \in SlotLists /\ failed \in Reasons
      /\ AllApart(interfaceSchedules)
      /\ \A n \in 1..Len(starts) : SlotsInTime(flows[n], starts[n], interfaceSchedules)
  BY <1>1, PropertyMeanings DEF EagerInv, EagerTypes
<1>3. flow \in FlowType /\ 1 <= last /\ last \in Nat
  BY <1>1, <1>2, FlowsFacts
<1>4. start \in Nat
  BY <1>1, <1>2 DEF EagerTypes
<1> HIDE DEF m, flow, start, last
<1>5. /\ added \in Reserved /\ AllApart(added.slots) /\ Keeps(interfaceSchedules, added.slots)
  BY <1>2, <1>3, <1>4, AddGateSchedulingFacts
<1> HIDE DEF added
<1>6. EagerTypes'
  BY <1>1, <1>2, <1>5 DEF EagerTypes, Reserved
<1>7. AllApart(interfaceSchedules)'
  BY <1>1, <1>5 DEF AllApart
<1>8. \A n \in 1..Len(starts) : SlotsInTime(flows[n], starts[n], added.slots)
  <2> TAKE n \in 1..Len(starts)
  <2>1. n \in 1..Len(flows) /\ starts[n] \in Nat
    BY <1>2, FlowsFacts DEF EagerTypes
  <2>2. flows[n] \in FlowType
    BY <1>2, <2>1, FlowsFacts
  <2> QED
    BY <1>2, <1>5, <2>1, <2>2, KeptInTime
<1>9. (failed = "no" => \A n \in 1..Len(starts) :
                            SlotsInTime(flows[n], starts[n], interfaceSchedules))'
  BY <1>1, <1>8 DEF SlotsInTime
<1> QED
  BY <1>6, <1>7, <1>9, PropertyMeanings, PTL DEF EagerInv

(* At first nothing is reserved.                                             *)
LEMMA EagerInitInv ==
    ASSUME EagerInit
    PROVE  EagerInv
<1>1. EagerTypes
  BY EagerAssumption DEF EagerInit, EagerTypes, SlotLists, Reasons
<1>2. AllApart(interfaceSchedules)
  BY DEF EagerInit, AllApart, AreApart
<1>3. Len(starts) = 0
  BY DEF EagerInit
<1> QED
  BY <1>1, <1>2, <1>3, PropertyMeanings DEF EagerInv

LEMMA EagerStepInv ==
    ASSUME EagerInv, [EagerNext]_eagerVars
    PROVE  EagerInv'
<1>1. CASE ReserveFirst
  BY <1>1, ReserveFirstInv
<1>2. CASE ReserveOthers
  BY <1>2, ReserveOthersInv
<1>3. CASE UNCHANGED eagerVars
  BY <1>3 DEF eagerVars, EagerInv, EagerTypes, SlotsApart, FirstPacketNeverWaits
<1> QED
  BY <1>1, <1>2, <1>3 DEF EagerNext

LEMMA EagerInvariant == EagerSpec => []EagerInv
<1>1. EagerInit => EagerInv
  BY EagerInitInv
<1>2. EagerInv /\ [EagerNext]_eagerVars => EagerInv'
  BY EagerStepInv
<1> QED
  BY <1>1, <1>2, PTL DEF EagerSpec

(* The slots the configurator reserves on an interface never collide, not    *)
(* even across the flows and across the packets of one flow; only the first  *)
(* slot of an interface may, and only if a packet was put before it.         *)
THEOREM ReservationsApart == EagerSpec => []SlotsApart
BY EagerInvariant, PTL DEF EagerInv

(* The start offset computed for a flow lets its first packet through every  *)
(* interface of its path without waiting, and no later reservation takes one *)
(* of its slots away.                                                        *)
THEOREM FirstPacketsGoThrough == EagerSpec => []FirstPacketNeverWaits
BY EagerInvariant, PTL DEF EagerInv

=============================================================================
