--------------------------- MODULE DiscoveryProofs ---------------------------
(***************************************************************************)
(* Theorems about what a customer is shown before booking: about           *)
(* Availability over the tables that BookingService fills, for any         *)
(* services, days and bookings, and about Search, for any places,          *)
(* branches, listings and rankings and any number of searches at a time.   *)
(***************************************************************************)
EXTENDS BookingServiceProofs, Availability, Search, SequenceTheorems, WellFoundedInduction

-----------------------------------------------------------------------------
(* Lists.                                                                  *)

LEMMA LeastNumber ==
    ASSUME NEW S, S \subseteq Nat, S # {}
    PROVE  \E m \in S : \A n \in S : m <= n
<1>1. PICK m \in S : \A n \in S : ~ <<n, m>> \in OpToRel(<, Nat)
  BY NatLessThanWellFounded, WFMin, Zenon
<1>2. ASSUME NEW n \in S PROVE m <= n
  <2>1. m \in Nat /\ n \in Nat
    OBVIOUS
  <2>2. ~ n < m
    BY <1>1, <2>1, Zenon DEF OpToRel
  <2> QED
    BY <2>1, <2>2
<1> QED
  BY <1>2

LEMMA UpToGrows ==
    ASSUME NEW P, IsFiniteSet(P), P \subseteq Nat, NEW j \in Int, NEW k \in Int, j <= k
    PROVE  /\ UpTo(P, j) \in Nat /\ UpTo(P, k) \in Nat
           /\ UpTo(P, j) <= UpTo(P, k) /\ UpTo(P, k) <= Cardinality(P)
           /\ k \in P /\ j < k => UpTo(P, j) < UpTo(P, k)
<1> DEFINE Low == {i \in P : i <= j}
           High == {i \in P : i <= k}
<1>0. \A i \in P : i <= j => i <= k
  OBVIOUS
<1>1. Low \in SUBSET High /\ High \in SUBSET P
  BY <1>0
<1>2. IsFiniteSet(High) /\ Cardinality(High) <= Cardinality(P)
  BY <1>1, FS_Subset
<1>3. IsFiniteSet(Low) /\ Cardinality(Low) <= Cardinality(High)
      /\ (Cardinality(High) = Cardinality(Low) => High = Low)
  BY <1>1, <1>2, FS_Subset
<1>4. Cardinality(Low) \in Nat /\ Cardinality(High) \in Nat
  BY <1>2, <1>3, FS_CardinalityType
<1>5. k \in P /\ j < k => k \in High /\ k \notin Low
  OBVIOUS
<1>6. UpTo(P, j) = Cardinality(Low) /\ UpTo(P, k) = Cardinality(High)
  BY DEF UpTo
<1> HIDE DEF Low, High
<1> QED
  BY <1>2, <1>3, <1>4, <1>5, <1>6

\* Among the positions up to some number there is an n-th for every n up to
\* how many they are.
LEMMA NthExists ==
    ASSUME NEW N \in Nat, NEW P, P \subseteq 1..N, IsFiniteSet(P), NEW n \in 1..Cardinality(P)
    PROVE  \E k \in P : UpTo(P, k) = n
<1> DEFINE Enough == {m \in 0..N : UpTo(P, m) >= n}
<1>1. Cardinality(P) \in Nat /\ P \subseteq Nat
  BY FS_CardinalityType
<1>2. ASSUME NEW m \in 0..N
      PROVE  UpTo(P, m) \in Nat
  <2>1. m \in Int /\ m <= m
    OBVIOUS
  <2> QED
    BY <1>1, <2>1, UpToGrows
<1>3. {j \in P : j <= N} = P
  <2>1. \A j \in P : j <= N
    OBVIOUS
  <2> QED
    BY <2>1
<1>4. UpTo(P, N) = Cardinality(P)
  BY <1>3 DEF UpTo
<1>5. Enough # {} /\ Enough \subseteq Nat
  BY <1>1, <1>4
<1>6. PICK k \in Enough : \A m \in Enough : k <= m
  BY <1>5, LeastNumber
<1>7. {j \in P : j <= 0} = {}
  <2>1. \A j \in P : ~ j <= 0
    OBVIOUS
  <2> QED
    BY <2>1
<1>8. UpTo(P, 0) = 0
  BY <1>7, FS_EmptySet DEF UpTo
<1>9. k \in 0..N /\ UpTo(P, k) >= n /\ n \in Nat /\ n >= 1
  BY <1>1, <1>6
<1>10. k # 0
  BY <1>8, <1>9
<1>11. k \in 1..N /\ k - 1 \in 0..N /\ k - 1 < k
  BY <1>9, <1>10
<1>12. ~ k - 1 \in Enough
  BY <1>6, <1>11
<1>13. UpTo(P, k - 1) < n
  BY <1>2, <1>9, <1>11, <1>12
<1> DEFINE Low == {j \in P : j <= k - 1}
           High == {j \in P : j <= k}
<1>14. k \in P
  <2> SUFFICES ASSUME k \notin P PROVE FALSE
    OBVIOUS
  <2>1. \A j \in P : j <= k <=> j <= k - 1
    BY <1>11
  <2>2. Low = High
    BY <2>1
  <2> QED
    BY <1>9, <1>13, <1>2, <1>11, <2>2 DEF UpTo
<1>15a. \A j \in P : j <= k <=> j <= k - 1 \/ j = k
  BY <1>11
<1>15. High = Low \cup {k} /\ k \notin Low /\ Low \in SUBSET P
  <2>1. ~ k <= k - 1
    BY <1>11
  <2> QED
    BY <1>14, <1>15a, <2>1
<1>16. IsFiniteSet(Low)
  BY <1>15, FS_Subset
<1>17. Cardinality(High) = Cardinality(Low) + 1
  BY <1>15, <1>16, FS_AddElement
<1>18. UpTo(P, k) = UpTo(P, k - 1) + 1
  BY <1>17 DEF UpTo
<1> HIDE DEF Enough, Low, High
<1>19. UpTo(P, k) = n
  BY <1>2, <1>9, <1>11, <1>13, <1>18
<1> QED
  BY <1>14, <1>19

\* The n-th position, for n from one on, runs through all of them upwards.
LEMMA NthRuns ==
    ASSUME NEW N \in Nat, NEW P, P \subseteq 1..N
    PROVE  /\ Cardinality(P) \in Nat
           /\ \A n \in 1..Cardinality(P) : Nth(P, n) \in P
           /\ \A m, n \in 1..Cardinality(P) : m < n => Nth(P, m) < Nth(P, n)
           /\ \A k \in P : \E n \in 1..Cardinality(P) : Nth(P, n) = k
<1>1. IsFiniteSet(P) /\ P \subseteq Nat /\ \A k \in P : k \in Int
  <2>1. IsFiniteSet(1..N) /\ P \in SUBSET (1..N)
    BY FS_Interval
  <2>2. IsFiniteSet(P)
    BY <2>1, FS_Subset
  <2> QED
    BY <2>2
<1>2. Cardinality(P) \in Nat
  BY <1>1, FS_CardinalityType
<1>3. ASSUME NEW n \in 1..Cardinality(P)
      PROVE  Nth(P, n) \in P /\ UpTo(P, Nth(P, n)) = n
  BY <1>1, NthExists DEF Nth
<1>4. ASSUME NEW m \in 1..Cardinality(P), NEW n \in 1..Cardinality(P), m < n
      PROVE  Nth(P, m) < Nth(P, n)
  <2> DEFINE p == Nth(P, m)
             q == Nth(P, n)
  <2>1. p \in Int /\ q \in Int /\ UpTo(P, p) = m /\ UpTo(P, q) = n
    BY <1>1, <1>3
  <2> HIDE DEF p, q
  <2>2. CASE q <= p
    <3>1. UpTo(P, q) <= UpTo(P, p)
      BY <1>1, <2>1, <2>2, UpToGrows
    <3> QED
      BY <1>2, <1>4, <2>1, <3>1
  <2>3. CASE p < q
    BY <2>3 DEF p, q
  <2> QED
    BY <2>1, <2>2, <2>3
<1>5. ASSUME NEW k \in P
      PROVE  \E n \in 1..Cardinality(P) : Nth(P, n) = k
  <2> DEFINE n == UpTo(P, k)
             p == Nth(P, n)
  <2>1. k \in Int /\ k - 1 \in Int /\ k - 1 < k /\ k - 1 <= k
    BY <1>1
  <2>2. n \in Nat /\ UpTo(P, k - 1) \in Nat /\ UpTo(P, k - 1) < n /\ n <= Cardinality(P)
    BY <1>1, <2>1, UpToGrows
  <2>3. n \in 1..Cardinality(P)
    BY <1>2, <2>2
  <2>4. p \in P /\ UpTo(P, p) = n
    BY <1>3, <2>3
  <2>5. p \in Int
    BY <1>1, <2>4
  <2>10. p \in P
    BY <2>4
  <2> HIDE DEF p
  <2>6. ASSUME p < k PROVE FALSE
    <3>1. p <= k /\ p < k /\ k \in P
      BY <2>1, <2>5, <2>6
    <3>2. UpTo(P, p) < n
      BY <1>1, <2>1, <2>5, <3>1, UpToGrows
    <3> QED
      BY <2>2, <2>4, <3>2
  <2>7. ASSUME k < p PROVE FALSE
    <3>1. k <= p /\ k < p /\ p \in P
      BY <2>1, <2>4, <2>5, <2>7
    <3>2. n < UpTo(P, p)
      BY <1>1, <2>1, <2>5, <3>1, UpToGrows
    <3> QED
      BY <2>2, <2>4, <3>2
  <2>8. p = k
    BY <2>1, <2>5, <2>6, <2>7
  <2> QED
    BY <2>3, <2>8 DEF p
<1> QED
  BY <1>2, <1>3, <1>4, <1>5

-----------------------------------------------------------------------------
(* Steps of a grid.                                                        *)

LEMMA StepsGrow ==
    ASSUME NEW step \in Nat \ {0}, NEW j \in Nat, NEW k \in Nat
    PROVE  j * step \in Nat /\ k <= k * step /\ (j < k => j * step < k * step)
<1>1. j * step \in Nat /\ k * step \in Nat
  OBVIOUS
<1>2. k * step - k = k * (step - 1) /\ k * (step - 1) >= 0
  OBVIOUS
<1>3. ASSUME j < k PROVE j * step < k * step
  <2>1. k * step - j * step = (k - j) * step
    OBVIOUS
  <2>2. (k - j) * step > 0
    BY <1>3
  <2> QED
    BY <1>1, <2>1, <2>2
<1> QED
  BY <1>1, <1>2, <1>3

LEMMA StepsAreOnGrid ==
    ASSUME NEW step \in Nat \ {0}, NEW x \in Nat
    PROVE  x % step = 0 <=> \E k \in Nat : x = k * step
<1>1. ASSUME x % step = 0 PROVE \E k \in Nat : x = k * step
  <2>1. x \div step \in Nat /\ x = (x \div step) * step
    BY <1>1
  <2> QED
    BY <2>1
<1>2. ASSUME NEW k \in Nat, x = k * step PROVE x % step = 0
  <2> DEFINE q == x \div step
             r == x % step
  <2>1. q \in Nat /\ r \in 0..(step - 1) /\ x = q * step + r
    OBVIOUS
  <2> HIDE DEF q, r
  <2>2. CASE k = q
    <3>1. r = 0
      BY <1>2, <2>1, <2>2
    <3> QED
      BY <3>1 DEF r
  <2>3. CASE k < q
    <3>1. k + 1 <= q /\ q * step - (k + 1) * step = (q - (k + 1)) * step
      BY <2>1, <2>3
    <3>2. (q - (k + 1)) * step >= 0 /\ (k + 1) * step = k * step + step
      BY <2>1, <3>1
    <3> QED
      BY <1>2, <2>1, <3>1, <3>2
  <2>4. CASE q < k
    <3>1. q + 1 <= k /\ k * step - (q + 1) * step = (k - (q + 1)) * step
      BY <2>1, <2>4
    <3>2. (k - (q + 1)) * step >= 0 /\ (q + 1) * step = q * step + step
      BY <2>1, <3>1
    <3> QED
      BY <1>2, <2>1, <3>1, <3>2
  <2> QED
    BY <2>1, <2>2, <2>3, <2>4
<1> QED
  BY <1>1, <1>2

\* Numbers up to some bound, none left out below any of them, count upwards
\* from zero.
LEMMA CountedFromZero ==
    ASSUME NEW N \in Int, NEW R, R \subseteq 0..N,
           \A k \in R : \A j \in 0..k : j \in R
    PROVE  Cardinality(R) \in Nat /\ R = 0..(Cardinality(R) - 1)
<1> DEFINE Out == {k \in Nat : k \notin R}
<1>1. Out # {} /\ Out \subseteq Nat
  <2>1. CASE N < 0
    <3>1. 0 \in Out
      BY <2>1
    <3> QED
      BY <3>1
  <2>2. CASE N >= 0
    <3>1. N + 1 \in Out
      BY <2>2
    <3> QED
      BY <3>1
  <2> QED
    BY <2>1, <2>2
<1>2. PICK m \in Out : \A k \in Out : m <= k
  BY <1>1, LeastNumber
<1>3. m \in Nat /\ m \notin R
  BY <1>2
<1>4. \A k \in 0..(m - 1) : k \in R
  <2> SUFFICES ASSUME NEW k \in 0..(m - 1), k \notin R PROVE FALSE
    OBVIOUS
  <2>1. k \in Nat /\ k < m
    BY <1>3
  <2> QED
    BY <1>2, <1>3, <2>1
<1>5. \A k \in R : k \in 0..(m - 1)
  <2> SUFFICES ASSUME NEW k \in R, m <= k PROVE FALSE
    BY <1>3
  <2> QED
    BY <1>3
<1>6. R = 0..(m - 1)
  BY <1>4, <1>5
<1>7. Cardinality(0..(m - 1)) = m
  BY <1>3, FS_Interval
<1> QED
  BY <1>3, <1>6, <1>7

-----------------------------------------------------------------------------
(* The windows of a day.                                                   *)

\* The k-th window of a day, from zero on.
WindowOf(svc, h, k) ==
    [start |-> h.open + k * StepMinutes[svc],
     end   |-> h.open + k * StepMinutes[svc] + MinDuration[svc]]

Fits(svc, h, k) == h.open + k * StepMinutes[svc] + MinDuration[svc] <= h.close

LEMMA HoursAreInstants ==
    ASSUME NEW svc \in Service, NEW h \in Hours
    PROVE  /\ h.open \in Int /\ h.close \in Int /\ h.open \in Time /\ h.close \in Time
           /\ StepMinutes[svc] \in Nat \ {0} /\ MinDuration[svc] \in Nat \ {0}
BY TablesAssumption, AvailabilityAssumption DEF Hours

\* The loop generates the windows that end by closing time, and all of them.
LEMMA LoopGeneratesAll ==
    ASSUME NEW svc \in Service, NEW h \in Hours
    PROVE  \E m \in Nat :
               /\ generateSlots(h, StepMinutes[svc], MinDuration[svc])
                      = [k \in 1..m |-> WindowOf(svc, h, k - 1)]
               /\ \A k \in Nat : k < m <=> Fits(svc, h, k)
<1> DEFINE step == StepMinutes[svc]
           duration == MinDuration[svc]
           N == h.close - h.open
           reached == {k \in 0..N : \A j \in 0..k : h.open + j * step + duration <= h.close}
           m == Cardinality(reached)
<1>1. step \in Nat \ {0} /\ duration \in Nat \ {0} /\ h.open \in Int /\ h.close \in Int /\ N \in Int
  BY HoursAreInstants
<1>2. generateSlots(h, step, duration) = [k \in 1..m |-> WindowOf(svc, h, k - 1)]
  BY DEF generateSlots, WindowOf
<1> HIDE DEF step, duration
<1>3. ASSUME NEW k \in reached, NEW j \in 0..k PROVE j \in reached
  <2>1. k \in 0..N /\ j \in 0..N /\ 0..j \subseteq 0..k
    BY <1>1
  <2> QED
    BY <2>1
<1>4. reached \subseteq 0..N
  OBVIOUS
<1>5. ASSUME NEW k \in Nat
      PROVE  k \in reached <=> h.open + k * step + duration <= h.close
  <2>1. ASSUME k \in reached PROVE h.open + k * step + duration <= h.close
    BY <2>1
  <2>2. ASSUME h.open + k * step + duration <= h.close PROVE k \in reached
    <3>1. k * step \in Nat /\ k <= k * step
      BY <1>1, StepsGrow
    <3>2. k \in 0..N
      BY <1>1, <2>2, <3>1
    <3>3. ASSUME NEW j \in 0..k PROVE h.open + j * step + duration <= h.close
      <4>1. j \in Nat /\ (j = k \/ j < k)
        OBVIOUS
      <4>2. j * step \in Nat /\ j * step <= k * step
        BY <1>1, <3>1, <4>1, StepsGrow
      <4> QED
        BY <1>1, <2>2, <3>1, <4>2
    <3> QED
      BY <3>2, <3>3
  <2> QED
    BY <2>1, <2>2
<1> HIDE DEF reached, N
<1>6. m \in Nat /\ reached = 0..(m - 1)
  BY <1>1, <1>3, <1>4, CountedFromZero
<1> HIDE DEF m
<1>7. \A k \in Nat : k < m <=> Fits(svc, h, k)
  BY <1>5, <1>6 DEF Fits, step, duration
<1> QED
  BY <1>2, <1>6, <1>7 DEF step, duration

\* What internal/bookings counts against a slot.
Used(svc, slot) == Sum(bookings, ActiveOverlap(svc, slot)) + Sum(locks, LockOverlap(svc, slot))

Nobody(svc, slot) == ActiveOverlap(svc, slot) = {} /\ LockOverlap(svc, slot) = {}

LEMMA RowsAreFinite ==
    ASSUME NEW svc, NEW slot
    PROVE  IsFiniteSet(ActiveOverlap(svc, slot)) /\ IsFiniteSet(LockOverlap(svc, slot))
<1>1. ActiveOverlap(svc, slot) \in SUBSET BookingId /\ LockOverlap(svc, slot) \in SUBSET LockId
  BY DEF ActiveOverlap, InStatus, LockOverlap, LiveLocks
<1> QED
  BY <1>1, TablesAssumption, FS_Subset

\* Rows that are there take units.
LEMMA RowsTakeUnits ==
    ASSUME NEW table, NEW S, IsFiniteSet(S),
           \A x \in S : table[x].quantity \in Quantity
    PROVE  Sum(table, S) = 0 <=> S = {}
<1>1. IsFiniteSet(Units(table, S))
  BY UnitsFinite
<1>2. Sum(table, S) = 0 <=> Units(table, S) = {}
  BY <1>1, FS_EmptySet DEF Sum
<1>3. ASSUME NEW x \in S PROVE <<x, 1>> \in Units(table, S)
  <2>1. table[x].quantity \in Nat /\ 1 <= table[x].quantity /\ 1 \in Quantity
    BY TablesAssumption DEF Quantity
  <2> QED
    BY <2>1 DEF Units
<1>4. S = {} => Units(table, S) = {}
  BY DEF Units
<1> QED
  BY <1>2, <1>3, <1>4

LEMMA UsedType ==
    ASSUME TablesTypeOK, NEW svc, NEW slot
    PROVE  Used(svc, slot) \in Nat /\ (Used(svc, slot) = 0 <=> Nobody(svc, slot))
<1> DEFINE B == ActiveOverlap(svc, slot)
           L == LockOverlap(svc, slot)
<1>1. IsFiniteSet(B) /\ IsFiniteSet(L)
  BY RowsAreFinite
<1>2. Sum(bookings, B) \in Nat /\ Sum(locks, L) \in Nat
  BY <1>1, SumType
<1>3. \A b \in B : bookings[b].quantity \in Quantity
  BY DEF ActiveOverlap, InStatus, TablesTypeOK, Booking
<1>4. \A l \in L : locks[l].quantity \in Quantity
  BY DEF LockOverlap, LiveLocks, TablesTypeOK, Lock
<1> HIDE DEF B, L
<1>5. (Sum(bookings, B) = 0 <=> B = {}) /\ (Sum(locks, L) = 0 <=> L = {})
  BY <1>1, <1>3, <1>4, RowsTakeUnits
<1> QED
  BY <1>2, <1>5 DEF Used, Nobody, B, L

\* A slot within a longer range: asking for the range loses nothing of it.
LEMMA RangeCoversSlot ==
    ASSUME TablesTypeOK, NEW svc \in Service, NEW slot, NEW range,
           slot.start \in Int, slot.end \in Int, range.start \in Int, range.end \in Int,
           range.start <= slot.start, slot.end <= range.end
    PROVE  occupiedQuantity(slot, BookingsInRange(svc, range), LocksInRange(svc, range))
               = Used(svc, slot)
<1>1. \A b \in InStatus(ActiveStatus) :
          bookings[b].slot.start \in Int /\ bookings[b].slot.end \in Int
  BY TablesAssumption DEF InStatus, TablesTypeOK, Booking, Slot
<1>2. \A l \in LiveLocks : locks[l].slot.start \in Int /\ locks[l].slot.end \in Int
  BY TablesAssumption DEF LiveLocks, TablesTypeOK, Lock, Slot
<1>3. \A s : s.start \in Int /\ s.end \in Int /\ Overlaps(s, slot) => Overlaps(s, range)
  BY DEF Overlaps
<1>4. {b \in BookingsInRange(svc, range) : Overlaps(bookings[b].slot, slot)}
          = ActiveOverlap(svc, slot)
  BY <1>1, <1>3 DEF BookingsInRange, ActiveOverlap
<1>5. {l \in LocksInRange(svc, range) : Overlaps(locks[l].slot, slot)}
          = LockOverlap(svc, slot)
  BY <1>2, <1>3 DEF LocksInRange, LockOverlap
<1> QED
  BY <1>4, <1>5 DEF occupiedQuantity, Used

Left(svc, h, k) == Remaining(svc, Used(svc, WindowOf(svc, h, k)))

LEMMA WindowIsASlot ==
    ASSUME NEW svc \in Service, NEW h \in Hours, NEW k \in Nat
    PROVE  LET w == WindowOf(svc, h, k) IN
           /\ w.start \in Int /\ w.end \in Int /\ w.start < w.end
           /\ h.open <= w.start /\ (Fits(svc, h, k) <=> w.end <= h.close)
           /\ \A j \in Nat : j < k => WindowOf(svc, h, j).start < w.start
<1>1. /\ StepMinutes[svc] \in Nat \ {0} /\ MinDuration[svc] \in Nat \ {0}
      /\ h.open \in Int /\ h.close \in Int
  BY HoursAreInstants
<1> DEFINE step == StepMinutes[svc]
<1>2. k * step \in Nat /\ \A j \in Nat : j * step \in Nat /\ (j < k => j * step < k * step)
  BY <1>1, StepsGrow
<1> HIDE DEF step
<1>3. ASSUME NEW j \in Nat, j < k PROVE h.open + j * step < h.open + k * step
  BY <1>1, <1>2, <1>3
<1> QED
  BY <1>1, <1>2, <1>3 DEF WindowOf, Fits, step

\* An answer is the list of the windows that fit into the hours and have units
\* left, with what internal/bookings counts against each.
IsAnswer(svc, h, answer, m, kept) ==
    /\ \A k \in Nat : k < m <=> Fits(svc, h, k)
    /\ kept = {k \in 1..m : Left(svc, h, k - 1) > 0}
    /\ DOMAIN answer = 1..Cardinality(kept)
    /\ \A n \in DOMAIN answer :
           /\ answer[n].slot = WindowOf(svc, h, Nth(kept, n) - 1)
           /\ answer[n].remaining = Left(svc, h, Nth(kept, n) - 1)

LEMMA AnswerLists ==
    ASSUME TablesTypeOK, NEW svc \in Service, NEW h \in Hours
    PROVE  \E m \in Nat : \E kept \in SUBSET (1..m) :
               IsAnswer(svc, h, SlotsInHours(svc, h), m, kept)
<1> DEFINE raw == generateSlots(h, StepMinutes[svc], MinDuration[svc])
           range == [start |-> raw[1].start, end |-> raw[Len(raw)].end]
           offers == [k \in DOMAIN raw |-> Offer(svc, raw[k], range)]
           answer == SlotsInHours(svc, h)
<1>1. PICK m \in Nat : /\ raw = [k \in 1..m |-> WindowOf(svc, h, k - 1)]
                       /\ \A k \in Nat : k < m <=> Fits(svc, h, k)
  BY LoopGeneratesAll
<1> DEFINE kept == {k \in 1..m : Left(svc, h, k - 1) > 0}
<1>2. kept \in SUBSET (1..m)
  OBVIOUS
<1>3. Len(raw) = m /\ DOMAIN raw = 1..m
  BY <1>1
<1>4. answer = IF raw = <<>> THEN <<>>
               ELSE Selected(offers, {k \in DOMAIN raw : HasRoom(offers[k])})
  BY DEF SlotsInHours
<1> HIDE DEF raw
<1>5. CASE m = 0
  <2>1. raw = <<>>
    BY <1>1, <1>5
  <2>2. answer = <<>>
    BY <1>4, <2>1
  <2>3. kept = {} /\ Cardinality(kept) = 0
    <3>1. \A k : k \notin 1..m
      BY <1>5
    <3> QED
      BY <3>1, FS_EmptySet
  <2>4. DOMAIN answer = 1..0 /\ \A n : n \notin DOMAIN answer
    BY <2>2
  <2> HIDE DEF answer, kept
  <2>5. IsAnswer(svc, h, answer, m, kept)
    BY <1>1, <2>3, <2>4 DEF IsAnswer, kept
  <2> QED
    BY <1>2, <2>5 DEF answer, kept
<1>6. CASE m # 0
  <2>1. raw # <<>>
    BY <1>1, <1>3, <1>6
  <2>2. 1 \in 1..m /\ m \in 1..m
    BY <1>6
  <2>3. raw[1] = WindowOf(svc, h, 0) /\ raw[Len(raw)] = WindowOf(svc, h, m - 1)
    BY <1>1, <1>3, <2>2
  <2>4. range.start = WindowOf(svc, h, 0).start /\ range.end = WindowOf(svc, h, m - 1).end
    BY <2>3
  <2>5. ASSUME NEW k \in 1..m
        PROVE  offers[k] = [slot |-> WindowOf(svc, h, k - 1), remaining |-> Left(svc, h, k - 1)]
    <3> DEFINE w == WindowOf(svc, h, k - 1)
               first == WindowOf(svc, h, 0)
               last == WindowOf(svc, h, m - 1)
    <3>1. /\ k - 1 \in Nat /\ m - 1 \in Nat
          /\ k - 1 = 0 \/ 0 < k - 1
          /\ k - 1 = m - 1 \/ k - 1 < m - 1
      OBVIOUS
    <3>2. /\ w.start \in Int /\ w.end \in Int /\ last.start \in Int /\ last.end \in Int
          /\ first.start \in Int
      BY <3>1, WindowIsASlot
    <3>3. first.start <= w.start /\ w.start <= last.start
      BY <3>1, <3>2, WindowIsASlot
    <3>4. w.end = w.start + MinDuration[svc] /\ last.end = last.start + MinDuration[svc]
      BY HoursAreInstants DEF WindowOf
    <3>5. w.end <= last.end
      BY <3>2, <3>3, <3>4, HoursAreInstants
    <3>6. raw[k] = w /\ k \in DOMAIN raw
      BY <1>1, <1>3
    <3> HIDE DEF range, w, first, last
    <3>7. occupiedQuantity(w, BookingsInRange(svc, range), LocksInRange(svc, range)) = Used(svc, w)
      BY <2>4, <3>2, <3>3, <3>5, RangeCoversSlot DEF first, last
    <3> QED
      BY <3>6, <3>7 DEF Offer, Left, w
  <2> HIDE DEF range, offers
  <2>6. kept = {k \in DOMAIN raw : HasRoom(offers[k])}
    <3>1. ASSUME NEW k \in 1..m
          PROVE  HasRoom(offers[k]) <=> Left(svc, h, k - 1) > 0
      <4> DEFINE left == Left(svc, h, k - 1)
      <4>1. offers[k] = [slot |-> WindowOf(svc, h, k - 1), remaining |-> left]
        BY <2>5
      <4> HIDE DEF left
      <4>2. offers[k].remaining = left
        BY <4>1
      <4> QED
        BY <4>2 DEF HasRoom, left
    <3> QED
      BY <1>3, <3>1
  <2>7. answer = Selected(offers, kept)
    BY <1>4, <2>1, <2>6
  <2> HIDE DEF answer, kept
  <2>8. \A n \in 1..Cardinality(kept) : Nth(kept, n) \in 1..m
    BY <1>2, NthRuns
  <2>9. DOMAIN answer = 1..Cardinality(kept)
        /\ \A n \in 1..Cardinality(kept) : answer[n] = offers[Nth(kept, n)]
    BY <2>7 DEF Selected
  <2>10. \A n \in DOMAIN answer :
            /\ answer[n].slot = WindowOf(svc, h, Nth(kept, n) - 1)
            /\ answer[n].remaining = Left(svc, h, Nth(kept, n) - 1)
    <3> SUFFICES ASSUME NEW n \in 1..Cardinality(kept)
                 PROVE  /\ answer[n].slot = WindowOf(svc, h, Nth(kept, n) - 1)
                        /\ answer[n].remaining = Left(svc, h, Nth(kept, n) - 1)
      BY <2>9
    <3> DEFINE k == Nth(kept, n)
               slot == WindowOf(svc, h, k - 1)
               left == Left(svc, h, k - 1)
    <3>1. k \in 1..m /\ answer[n] = offers[k]
      BY <2>8, <2>9
    <3>2. answer[n] = [slot |-> slot, remaining |-> left]
      BY <2>5, <3>1
    <3> HIDE DEF slot, left
    <3>3. answer[n].slot = slot /\ answer[n].remaining = left
      BY <3>2
    <3> QED
      BY <3>3 DEF slot, left
  <2>11. IsAnswer(svc, h, answer, m, kept)
    BY <1>1, <2>9, <2>10 DEF IsAnswer, kept
  <2> QED
    BY <1>2, <2>11 DEF answer, kept
<1> QED
  BY <1>1, <1>5, <1>6

LEMMA HoursAreDeclared ==
    ASSUME HoursTypeOK, NEW h \in Hours
    PROVE  h \in OpenHours <=> Declares(h)
<1>1. CASE override = Null
  <2>1. ASSUME h \in OpenHours PROVE Declares(h)
    <3>1. PICK r \in rules : r.is_active /\ r.hours = h
      BY <1>1, <2>1 DEF OpenHours, ActiveRules
    <3>2. r = [hours |-> r.hours, is_active |-> r.is_active] /\ r.is_active \in BOOLEAN
      BY DEF HoursTypeOK, AvailabilityRule
    <3>3. r.is_active = TRUE
      BY <3>1, <3>2, Zenon
    <3>4. r = [hours |-> h, is_active |-> TRUE]
      BY <3>1, <3>2, <3>3
    <3> QED
      BY <1>1, <3>4 DEF Declares
  <2>2. ASSUME Declares(h) PROVE h \in OpenHours
    <3> DEFINE r == [hours |-> h, is_active |-> TRUE]
    <3>1. r \in rules /\ r.is_active /\ r.hours = h
      BY <1>1, <2>2 DEF Declares
    <3> QED
      BY <1>1, <3>1 DEF OpenHours, ActiveRules
  <2> QED
    BY <2>1, <2>2
<1>2. CASE override # Null
  <2>1. override \in DateOverride
    BY <1>2 DEF HoursTypeOK
  <2>2. /\ override = [is_closed |-> override.is_closed, open |-> override.open,
                       close |-> override.close]
        /\ override.is_closed \in BOOLEAN
    BY <2>1 DEF DateOverride
  <2>3. ASSUME h \in OpenHours PROVE Declares(h)
    <3>1. ~override.is_closed /\ override.open = h.open /\ override.close = h.close
      BY <1>2, <2>3 DEF OpenHours, OverrideHours
    <3>2. override.is_closed = FALSE
      BY <2>2, <3>1, Zenon
    <3> QED
      BY <1>2, <2>2, <3>1, <3>2 DEF Declares
  <2>4. ASSUME Declares(h) PROVE h \in OpenHours
    <3>1. override = [is_closed |-> FALSE, open |-> h.open, close |-> h.close]
      BY <1>2, <2>4 DEF Declares
    <3>2. ~override.is_closed /\ override.open = h.open /\ override.close = h.close
      BY <3>1
    <3> QED
      BY <1>2, <3>2 DEF OpenHours, OverrideHours
  <2> QED
    BY <2>3, <2>4
<1> QED
  BY <1>1, <1>2

LEMMA OpenHoursAreHours ==
    ASSUME HoursTypeOK
    PROVE  OpenHours \subseteq Hours
BY DEF OpenHours, OverrideHours, ActiveRules, HoursTypeOK, AvailabilityRule

LEMMA ConflictIsCounted ==
    ASSUME TablesTypeOK, NEW svc \in Service, NEW slot, NEW q \in Quantity,
           slot.start \in Int, slot.end \in Int
    PROVE  /\ SlotConflict(svc, slot, q, {}) <=> Used(svc, slot) + q > Capacity[svc]
           /\ CheckConflict(svc, slot, q) <=>
                  IF CapacityType[svc] = "single" THEN Used(svc, slot) > 0
                  ELSE Used(svc, slot) + q > Capacity[svc]
           /\ q \in Nat /\ q >= 1 /\ Capacity[svc] \in Nat
<1>1. q \in Nat /\ q >= 1 /\ Capacity[svc] \in Nat
  BY TablesAssumption DEF Quantity
<1>2. ActiveOverlap(svc, slot) \ {} = ActiveOverlap(svc, slot)
  OBVIOUS
<1>3. SlotConflict(svc, slot, q, {}) <=> Used(svc, slot) + q > Capacity[svc]
  BY <1>2 DEF SlotConflict, Used
<1>4. occupiedQuantity(slot, BookingsInRange(svc, slot), LocksInRange(svc, slot)) = Used(svc, slot)
  BY RangeCoversSlot
<1>5. CheckConflict(svc, slot, q) <=>
          IF CapacityType[svc] = "single" THEN Used(svc, slot) > 0
          ELSE Used(svc, slot) + q > Capacity[svc]
  BY <1>4 DEF CheckConflict
<1> QED
  BY <1>1, <1>3, <1>5

\* How much is left, by the type of the service.
LEMMA LeftIsCounted ==
    ASSUME TablesTypeOK, NEW svc \in Service, NEW slot
    PROVE  /\ CapacityType[svc] = "multi" =>
                  /\ Remaining(svc, Used(svc, slot)) = Capacity[svc] - Used(svc, slot)
                  /\ (Remaining(svc, Used(svc, slot)) > 0 <=> Used(svc, slot) + 1 <= Capacity[svc])
           /\ CapacityType[svc] # "multi" =>
                  /\ CapacityType[svc] = "single"
                  /\ Remaining(svc, Used(svc, slot)) > 0 <=> Used(svc, slot) = 0
                  /\ Remaining(svc, Used(svc, slot)) <= 1
<1> DEFINE used == Used(svc, slot)
<1>1. used \in Nat
  BY UsedType
<1>2. CapacityType[svc] \in {"single", "multi"} /\ Capacity[svc] \in Nat
  BY AvailabilityAssumption, TablesAssumption
<1> HIDE DEF used
<1>3. /\ CapacityType[svc] = "multi" =>
             /\ Remaining(svc, used) = Capacity[svc] - used
             /\ (Remaining(svc, used) > 0 <=> used + 1 <= Capacity[svc])
      /\ CapacityType[svc] # "multi" =>
             /\ CapacityType[svc] = "single"
             /\ Remaining(svc, used) > 0 <=> used = 0
             /\ Remaining(svc, used) <= 1
  BY <1>1, <1>2 DEF Remaining
<1> QED
  BY <1>3 DEF used

\* What an answer says of one of its slots.
SlotIsBookable(svc, offer) ==
    LET slot == offer.slot IN
    /\ slot.start < slot.end
    /\ \A q \in Quantity :
          LET refused == SlotConflict(svc, slot, q, {}) IN
          IF CapacityType[svc] = "multi"
          THEN /\ refused <=> q > offer.remaining
               /\ refused <=> CheckConflict(svc, slot, q)
          ELSE /\ q <= offer.remaining /\ Capacity[svc] >= 1 => ~refused
               /\ ~CheckConflict(svc, slot, q)
               /\ ActiveOverlap(svc, slot) = {} /\ LockOverlap(svc, slot) = {}

LEMMA OfferIsBookable ==
    ASSUME TablesTypeOK, NEW svc \in Service, NEW h \in Hours, NEW k \in Nat,
           NEW offer, offer.slot = WindowOf(svc, h, k), offer.remaining = Left(svc, h, k),
           Left(svc, h, k) > 0
    PROVE  SlotIsBookable(svc, offer)
<1> DEFINE slot == offer.slot
           used == Used(svc, slot)
           left == offer.remaining
<1>1. slot.start \in Int /\ slot.end \in Int /\ slot.start < slot.end
  BY WindowIsASlot
<1>2. used \in Nat /\ (used = 0 <=> Nobody(svc, slot))
  BY UsedType
<1>3. left = Remaining(svc, used) /\ left > 0
  BY DEF Left
<1>4. /\ CapacityType[svc] = "multi" => left = Capacity[svc] - used
      /\ CapacityType[svc] # "multi" => CapacityType[svc] = "single" /\ used = 0 /\ left <= 1
  BY <1>3, LeftIsCounted
<1>5. ASSUME NEW q \in Quantity
      PROVE  /\ SlotConflict(svc, slot, q, {}) <=> used + q > Capacity[svc]
             /\ CheckConflict(svc, slot, q) <=>
                    IF CapacityType[svc] = "single" THEN used > 0 ELSE used + q > Capacity[svc]
             /\ q \in Nat /\ q >= 1 /\ Capacity[svc] \in Nat
  BY <1>1, ConflictIsCounted
<1> HIDE DEF slot, used
<1>6. ASSUME NEW q \in Quantity, CapacityType[svc] = "multi"
      PROVE  /\ SlotConflict(svc, slot, q, {}) <=> q > left
             /\ SlotConflict(svc, slot, q, {}) <=> CheckConflict(svc, slot, q)
  <2>1. left = Capacity[svc] - used /\ Capacity[svc] \in Nat /\ q \in Nat
    BY <1>4, <1>5, <1>6
  <2> HIDE DEF left
  <2>2. used + q > Capacity[svc] <=> q > left
    BY <1>2, <2>1
  <2>3. CapacityType[svc] # "single"
    BY <1>6
  <2> QED
    BY <1>5, <2>2, <2>3
<1>7. ASSUME NEW q \in Quantity, CapacityType[svc] # "multi"
      PROVE  /\ q <= left /\ Capacity[svc] >= 1 => ~SlotConflict(svc, slot, q, {})
             /\ ~CheckConflict(svc, slot, q)
             /\ ActiveOverlap(svc, slot) = {} /\ LockOverlap(svc, slot) = {}
  <2>1. CapacityType[svc] = "single" /\ used = 0 /\ left <= 1 /\ q \in Nat /\ Capacity[svc] \in Nat
        /\ q >= 1
    BY <1>4, <1>5, <1>7
  <2>2. left \in Int
    BY <1>3, <2>1 DEF Remaining
  <2> HIDE DEF left
  <2>3. q <= left /\ Capacity[svc] >= 1 => ~ used + q > Capacity[svc]
    BY <2>1, <2>2
  <2> QED
    BY <1>2, <1>5, <2>1, <2>3 DEF Nobody
<1> QED
  BY <1>1, <1>6, <1>7 DEF SlotIsBookable, slot

LEMMA OffersBookableLemma ==
    ASSUME TablesTypeOK, HoursTypeOK
    PROVE  OffersAreBookable
<1> SUFFICES ASSUME NEW svc \in Service, NEW answer \in GetSlotsForDate(svc),
                    NEW i \in DOMAIN answer
             PROVE  SlotIsBookable(svc, answer[i])
  BY DEF OffersAreBookable, SlotIsBookable
<1>1. OpenHours # {}
  <2> SUFFICES ASSUME OpenHours = {} PROVE FALSE
    OBVIOUS
  <2>1. answer = <<>>
    BY DEF GetSlotsForDate
  <2> QED
    BY <2>1
<1>2. PICK h \in OpenHours : answer = SlotsInHours(svc, h)
  BY <1>1 DEF GetSlotsForDate
<1>3. h \in Hours
  BY OpenHoursAreHours
<1>4. PICK m \in Nat : \E kept \in SUBSET (1..m) : IsAnswer(svc, h, answer, m, kept)
  BY <1>2, <1>3, AnswerLists
<1>5. PICK kept \in SUBSET (1..m) : IsAnswer(svc, h, answer, m, kept)
  BY <1>4
<1> DEFINE k == Nth(kept, i)
<1>6. i \in 1..Cardinality(kept)
  BY <1>5 DEF IsAnswer
<1>7. k \in kept
  BY <1>6, NthRuns
<1>8. k - 1 \in Nat /\ Left(svc, h, k - 1) > 0
  BY <1>5, <1>7 DEF IsAnswer
<1>9. answer[i].slot = WindowOf(svc, h, k - 1) /\ answer[i].remaining = Left(svc, h, k - 1)
  BY <1>5 DEF IsAnswer
<1> HIDE DEF k
<1> QED
  BY <1>3, <1>8, <1>9, OfferIsBookable

\* The windows that are free are those that an answer lists.
LEMMA FreeIsLeft ==
    ASSUME TablesTypeOK, NEW svc \in Service, NEW h \in Hours, NEW k \in Nat
    PROVE  WindowOf(svc, h, k) \in FreeWindows(svc, h) <=> Fits(svc, h, k) /\ Left(svc, h, k) > 0
<1> DEFINE w == WindowOf(svc, h, k)
           used == Used(svc, w)
           step == StepMinutes[svc]
<1>1. /\ step \in Nat \ {0} /\ MinDuration[svc] \in Nat \ {0}
      /\ h.open \in Int /\ h.close \in Int /\ h.open \in Time /\ h.close \in Time
  BY HoursAreInstants
<1>2. /\ w.start \in Int /\ w.end \in Int /\ w.start < w.end
      /\ h.open <= w.start /\ (Fits(svc, h, k) <=> w.end <= h.close)
  BY WindowIsASlot
<1>3. k * step \in Nat /\ (k * step) % step = 0
  BY <1>1, StepsGrow, StepsAreOnGrid
<1>4. w = [start |-> w.start, end |-> w.end] /\ w.start = h.open + k * step
      /\ w.end = h.open + k * step + MinDuration[svc]
  BY DEF WindowOf
<1> DEFINE off == k * step
<1> HIDE DEF w, step, off
<1>5. (w.start - h.open) % step = 0 /\ w.end - w.start = MinDuration[svc]
  <2>1. w.start - h.open = off /\ w.end - w.start = MinDuration[svc]
    BY <1>1, <1>3, <1>4 DEF off
  <2> QED
    BY <1>3, <2>1 DEF off
<1>6. Fits(svc, h, k) => w \in Slot
  <2> SUFFICES ASSUME w.end <= h.close PROVE w \in Slot
    BY <1>2
  <2>1. w.start \in h.open..h.close /\ w.end \in h.open..h.close
    BY <1>1, <1>2
  <2>2. w.start \in Time /\ w.end \in Time
    BY <1>1, <2>1, AvailabilityAssumption
  <2> QED
    BY <1>2, <1>4, <2>2 DEF Slot
<1>7. used \in Nat /\ (used = 0 <=> Nobody(svc, w)) /\ Capacity[svc] \in Nat
  BY UsedType, TablesAssumption
<1>8. SlotConflict(svc, w, 1, {}) <=> used + 1 > Capacity[svc]
  <2>1. ActiveOverlap(svc, w) \ {} = ActiveOverlap(svc, w)
    OBVIOUS
  <2> QED
    BY <2>1 DEF SlotConflict, Used
<1>9. Left(svc, h, k) > 0 <=>
           IF CapacityType[svc] = "multi" THEN ~SlotConflict(svc, w, 1, {})
           ELSE ActiveOverlap(svc, w) \cup LockOverlap(svc, w) = {}
  <2>1. Left(svc, h, k) = Remaining(svc, used)
    BY DEF Left, w
  <2> HIDE DEF used
  <2>2. CASE CapacityType[svc] = "multi"
    <3>1. Remaining(svc, used) > 0 <=> used + 1 <= Capacity[svc]
      BY <2>2, LeftIsCounted DEF used
    <3> QED
      BY <1>7, <1>8, <2>1, <2>2, <3>1
  <2>3. CASE CapacityType[svc] # "multi"
    <3>1. Remaining(svc, used) > 0 <=> used = 0
      BY <2>3, LeftIsCounted DEF used
    <3>2. Nobody(svc, w) <=> ActiveOverlap(svc, w) \cup LockOverlap(svc, w) = {}
      BY DEF Nobody
    <3> QED
      BY <1>7, <2>1, <2>3, <3>1, <3>2
  <2> QED
    BY <2>2, <2>3
<1>10. w \in FreeWindows(svc, h) <=>
           /\ w \in Slot /\ w.end <= h.close
           /\ IF CapacityType[svc] = "multi" THEN ~SlotConflict(svc, w, 1, {})
              ELSE ActiveOverlap(svc, w) \cup LockOverlap(svc, w) = {}
  BY <1>2, <1>5 DEF FreeWindows, step
<1> QED
  BY <1>2, <1>6, <1>9, <1>10 DEF w

LEMMA FreeWindowsAreOnGrid ==
    ASSUME NEW svc \in Service, NEW h \in Hours, NEW w \in FreeWindows(svc, h)
    PROVE  \E k \in Nat : w = WindowOf(svc, h, k)
<1> DEFINE step == StepMinutes[svc]
           x == w.start - h.open
<1>1. step \in Nat \ {0} /\ MinDuration[svc] \in Nat \ {0} /\ h.open \in Int
  BY HoursAreInstants
<1>2. /\ w = [start |-> w.start, end |-> w.end] /\ w.start \in Int /\ w.end \in Int
      /\ h.open <= w.start /\ x % step = 0 /\ w.end - w.start = MinDuration[svc]
  BY TablesAssumption DEF FreeWindows, Slot
<1>3. x \in Nat
  BY <1>1, <1>2
<1>4. PICK k \in Nat : x = k * step
  BY <1>1, <1>2, <1>3, StepsAreOnGrid
<1>5. w.start = h.open + k * step /\ w.end = h.open + k * step + MinDuration[svc]
  BY <1>1, <1>2, <1>4
<1> QED
  BY <1>2, <1>5 DEF WindowOf

LEMMA AnswersFillLemma ==
    ASSUME TablesTypeOK, HoursTypeOK
    PROVE  AnswersFillTheDay
<1> DEFINE Offered(answer) == {answer[i].slot : i \in DOMAIN answer}
<1> SUFFICES ASSUME NEW svc \in Service, NEW answer \in GetSlotsForDate(svc)
             PROVE  /\ \A i, j \in DOMAIN answer :
                           i < j => answer[i].slot.start < answer[j].slot.start
                    /\ \/ \E h \in Hours : Declares(h) /\ Offered(answer) = FreeWindows(svc, h)
                       \/ Offered(answer) = {} /\ ~\E h \in Hours : Declares(h)
  BY DEF AnswersFillTheDay
<1>1. CASE OpenHours = {}
  <2>1. answer = <<>>
    BY <1>1 DEF GetSlotsForDate
  <2>2. Offered(answer) = {} /\ \A i : i \notin DOMAIN answer
    BY <2>1
  <2>3. ~\E h \in Hours : Declares(h)
    BY <1>1, HoursAreDeclared
  <2> QED
    BY <2>2, <2>3
<1>2. CASE OpenHours # {}
  <2>1. PICK h \in OpenHours : answer = SlotsInHours(svc, h)
    BY <1>2 DEF GetSlotsForDate
  <2>2. h \in Hours /\ Declares(h)
    BY OpenHoursAreHours, HoursAreDeclared
  <2>3. PICK m \in Nat : \E kept \in SUBSET (1..m) : IsAnswer(svc, h, answer, m, kept)
    BY <2>1, <2>2, AnswerLists
  <2>4. PICK kept \in SUBSET (1..m) : IsAnswer(svc, h, answer, m, kept)
    BY <2>3
  <2> DEFINE K == Cardinality(kept)
             nth(n) == Nth(kept, n)
  <2>5. /\ \A n \in 1..K : nth(n) \in kept
        /\ \A i, j \in 1..K : i < j => nth(i) < nth(j)
        /\ \A k \in kept : \E n \in 1..K : nth(n) = k
    BY NthRuns
  <2>6. DOMAIN answer = 1..K
        /\ \A n \in 1..K : answer[n].slot = WindowOf(svc, h, nth(n) - 1)
    BY <2>4 DEF IsAnswer
  <2>7. \A k \in 1..m : k - 1 \in Nat /\ Fits(svc, h, k - 1)
                        /\ (k \in kept <=> Left(svc, h, k - 1) > 0)
    <3>1. ASSUME NEW k \in 1..m PROVE k - 1 \in Nat /\ k - 1 < m
      OBVIOUS
    <3> QED
      BY <2>4, <3>1 DEF IsAnswer
  <2>8. \A k \in Nat : Fits(svc, h, k) => k + 1 \in 1..m
    <3>1. ASSUME NEW k \in Nat, k < m PROVE k + 1 \in 1..m
      BY <3>1
    <3> QED
      BY <2>4, <3>1 DEF IsAnswer
  <2> HIDE DEF K, nth
  <2>9. ASSUME NEW i \in DOMAIN answer, NEW j \in DOMAIN answer, i < j
        PROVE  answer[i].slot.start < answer[j].slot.start
    <3> DEFINE a == nth(i) - 1
               b == nth(j) - 1
    <3>1. nth(i) \in 1..m /\ nth(j) \in 1..m /\ nth(i) < nth(j)
      BY <2>5, <2>6, <2>9
    <3>2. a \in Nat /\ b \in Nat /\ a < b
      BY <3>1
    <3>3. answer[i].slot = WindowOf(svc, h, a) /\ answer[j].slot = WindowOf(svc, h, b)
      BY <2>6
    <3> HIDE DEF a, b
    <3> QED
      BY <2>2, <3>2, <3>3, WindowIsASlot
  <2>10. ASSUME NEW w \in Offered(answer) PROVE w \in FreeWindows(svc, h)
    <3>1. PICK i \in 1..K : w = answer[i].slot
      BY <2>6
    <3> DEFINE k == nth(i)
    <3>2. k \in 1..m /\ k \in kept
      BY <2>5
    <3> HIDE DEF k
    <3>3. k - 1 \in Nat /\ Fits(svc, h, k - 1) /\ Left(svc, h, k - 1) > 0
      BY <2>7, <3>2
    <3>4. WindowOf(svc, h, k - 1) \in FreeWindows(svc, h)
      BY <2>2, <3>3, FreeIsLeft
    <3>5. w = WindowOf(svc, h, k - 1)
      BY <2>6, <3>1 DEF k
    <3> QED
      BY <3>4, <3>5
  <2>11. ASSUME NEW w \in FreeWindows(svc, h) PROVE w \in Offered(answer)
    <3>1. PICK k \in Nat : w = WindowOf(svc, h, k)
      BY <2>2, FreeWindowsAreOnGrid
    <3>2. Fits(svc, h, k) /\ Left(svc, h, k) > 0
      BY <2>2, <3>1, FreeIsLeft
    <3>3. k + 1 \in 1..m /\ (k + 1) - 1 = k
      BY <2>8, <3>2
    <3>4. k + 1 \in kept
      BY <2>7, <3>2, <3>3
    <3>5. PICK n \in 1..K : nth(n) = k + 1
      BY <2>5, <3>4
    <3>6. answer[n].slot = w /\ n \in DOMAIN answer
      BY <2>6, <3>1, <3>3, <3>5
    <3> QED
      BY <3>6
  <2>12. Offered(answer) = FreeWindows(svc, h)
    BY <2>10, <2>11
  <2> QED
    BY <2>2, <2>9, <2>12
<1> QED
  BY <1>1, <1>2

\* Whatever was booked, locked, cancelled and moved, and however the hours of
\* the day are changed meanwhile, a slot is offered with as many units as
\* LockSlot would take: the day's one query and the loop over it count what
\* the check of internal/bookings counts slot by slot.
THEOREM OffersMatchBookings == Spec /\ []HoursTypeOK => []OffersAreBookable
<1>1. TablesTypeOK /\ HoursTypeOK => OffersAreBookable
  BY OffersBookableLemma
<1>2. TypeOK => TablesTypeOK
  BY DEF TypeOK
<1> QED
  BY <1>1, <1>2, TypeCorrect, PTL

\* An answer leaves nothing out and adds nothing: the loop of generateSlots
\* reaches every window on the grid that ends by closing time, and what is
\* kept of them is what one unit could still be locked of.
THEOREM AnswersAreComplete == Spec /\ []HoursTypeOK => []AnswersFillTheDay
<1>1. TablesTypeOK /\ HoursTypeOK => AnswersFillTheDay
  BY AnswersFillLemma
<1>2. TypeOK => TablesTypeOK
  BY DEF TypeOK
<1> QED
  BY <1>1, <1>2, TypeCorrect, PTL

-----------------------------------------------------------------------------
(* The nine cells around a branch.                                         *)

LEMMA CellsAreThirds ==
    ASSUME NEW x \in Int
    PROVE  /\ Cell(x) \in Int
           /\ Cell(x - 3) = Cell(x) - 1
           /\ Cell(x + 3) = Cell(x) + 1
BY DEF Cell

\* A coordinate and its neighbour's, moved over to it, are printed alike.
LEMMA PrintedAlike ==
    ASSUME NEW x \in Int, NEW y \in Int, Cell(x) = Cell(y), Cell(x) # 0
    PROVE  Printed(x) = Printed(y)
BY DEF Printed

LEMMA NearCoordinate ==
    ASSUME NEW x \in Int, NEW y \in Int, Apart(Cell(x), Cell(y)) <= 1, Cell(y) # 0
    PROVE  \E k \in 1..3 : Printed(x + Offsets[k]) = Printed(y)
<1>1. Offsets[1] = -3 /\ Offsets[2] = 0 /\ Offsets[3] = 3
  BY DEF Offsets
<1>2. /\ Cell(x) \in Int /\ Cell(y) \in Int
      /\ Cell(x - 3) = Cell(x) - 1 /\ Cell(x + 3) = Cell(x) + 1
  BY CellsAreThirds
<1>3. Cell(y) \in {Cell(x) - 1, Cell(x), Cell(x) + 1}
  BY <1>2 DEF Apart
<1>4. CASE Cell(y) = Cell(x) - 1
  <2>1. x + Offsets[1] = x - 3 /\ x - 3 \in Int
    BY <1>1
  <2>2. Printed(x - 3) = Printed(y)
    BY <1>2, <1>4, <2>1, PrintedAlike
  <2> QED
    BY <2>1, <2>2
<1>5. CASE Cell(y) = Cell(x)
  <2>1. x + Offsets[2] = x
    BY <1>1
  <2>2. Printed(x) = Printed(y)
    BY <1>5, PrintedAlike
  <2> QED
    BY <2>1, <2>2
<1>6. CASE Cell(y) = Cell(x) + 1
  <2>1. x + Offsets[3] = x + 3 /\ x + 3 \in Int
    BY <1>1
  <2>2. Printed(x + 3) = Printed(y)
    BY <1>2, <1>6, <2>1, PrintedAlike
  <2> QED
    BY <2>1, <2>2
<1> QED
  BY <1>3, <1>4, <1>5, <1>6

\* The two loops reach every pair of offsets.
LEMMA LoopsReachAll ==
    ASSUME NEW j \in 1..3, NEW k \in 1..3
    PROVE  \E i \in 1..9 : ((i - 1) \div 3) + 1 = j /\ ((i - 1) % 3) + 1 = k
<1> DEFINE i == 3 * (j - 1) + k
<1>1. i \in 1..9 /\ ((i - 1) \div 3) + 1 = j /\ ((i - 1) % 3) + 1 = k
  OBVIOUS
<1> QED
  BY <1>1

\* An invalidation comes past the feeds of every place near the branch, except
\* on the lines of zero.
LEMMA NeighboursAreReached ==
    ASSUME NEW branch \in Branch, NEW p \in Place, Neighbours(branch, p), ~AtZero(p)
    PROVE  \E i \in 1..9 : CellNear(branch, i) = feedCacheKey(p)
<1>1. branch \in Int \X Int /\ p \in Int \X Int
  BY SearchAssumption
<1>2. /\ branch[1] \in Int /\ branch[2] \in Int /\ p[1] \in Int /\ p[2] \in Int
  BY <1>1
<1>3. /\ Apart(Cell(branch[1]), Cell(p[1])) <= 1 /\ Cell(p[1]) # 0
      /\ Apart(Cell(branch[2]), Cell(p[2])) <= 1 /\ Cell(p[2]) # 0
  BY DEF Neighbours, AtZero
<1>4. PICK j \in 1..3 : Printed(branch[1] + Offsets[j]) = Printed(p[1])
  BY <1>2, <1>3, NearCoordinate
<1>5. PICK k \in 1..3 : Printed(branch[2] + Offsets[k]) = Printed(p[2])
  BY <1>2, <1>3, NearCoordinate
<1>6. PICK i \in 1..9 : ((i - 1) \div 3) + 1 = j /\ ((i - 1) % 3) + 1 = k
  BY LoopsReachAll
<1>7. CellNear(branch, i) = feedCacheKey(<<branch[1] + Offsets[j], branch[2] + Offsets[k]>>)
  BY <1>6 DEF CellNear
<1> QED
  BY <1>4, <1>5, <1>7 DEF feedCacheKey

-----------------------------------------------------------------------------
(* The invariant.                                                          *)

Fields == {"asked", "at", "results", "asOf", "behind"}

\* A feed, or a search about to store one, that need not be deleted again.
Fresh(r) == r.asOf = listing \/ r.behind

SearchesInv ==
    /\ feeds = [k \in Key |-> feeds[k]]
    /\ searches = [c \in Searcher |-> searches[c]]
    /\ \A c \in Searcher : searches[c] # Missing => DOMAIN searches[c] = Fields

\* No feed of this key is out of date without being excused, or will be.
KeyIsFresh(key) ==
    /\ key \in Key => feeds[key] = Missing \/ Fresh(feeds[key])
    /\ \A c \in Searcher :
           SearchAt(c, "set") /\ feedCacheKey(searches[c].asked.place) = key
               => Fresh(searches[c])

\* The same of the next state, for keys computed in this one.
KeyWillBeFresh(key) ==
    /\ key \in Key => feeds'[key] = Missing \/ (Fresh(feeds[key]))'
    /\ \A c \in Searcher :
           SearchAt(c, "set")' /\ feedCacheKey(searches'[c].asked.place) = key
               => Fresh(searches[c])'

\* The cells that an invalidation has deleted, and those of branches done.
InvalidationInv ==
    /\ invalidated \subseteq Branch
    /\ invalidation # Missing =>
           /\ DOMAIN invalidation = {"branch", "next", "late"}
           /\ invalidation.branch \in Branch /\ invalidation.next \in 1..9
           /\ ~invalidation.late =>
                  \A branch \in {invalidation.branch}, i \in 1..invalidation.next - 1 :
                      KeyIsFresh(CellNear(branch, i))
    /\ \A branch \in invalidated, i \in 1..9 : KeyIsFresh(CellNear(branch, i))

FeedInv == SearchesInv /\ InvalidationInv

-----------------------------------------------------------------------------
(* Steps.                                                                  *)

\* The fields of a search one of its statements has written.
LEMMA FieldsWritten ==
    ASSUME SearchesInv, NEW c \in Searcher, searches[c] # Missing,
           NEW results, NEW asOf
    PROVE  /\ LET s == [searches[c] EXCEPT !.at = "set", !.asOf = asOf, !.results = results]
              IN  /\ DOMAIN s = Fields /\ s.at = "set" /\ s.asOf = asOf
                  /\ s.asked = searches[c].asked /\ s.results = results
           /\ LET s == [searches[c] EXCEPT !.behind = TRUE]
              IN  /\ DOMAIN s = Fields /\ s.at = searches[c].at /\ s.behind
                  /\ s.asked = searches[c].asked /\ s.results = searches[c].results
                  /\ s.asOf = searches[c].asOf
BY DEF SearchesInv, Fields

LEMMA SearchesStep ==
    ASSUME SearchesInv, [SearchNext]_searchVars
    PROVE  SearchesInv'
<1>1. ASSUME NEW c \in Searcher, NEW asked \in Inquiry, GetFeed(c, asked)
      PROVE  SearchesInv'
  <2> DEFINE s == [asked |-> asked, at |-> "query", results |-> <<>>, asOf |-> {},
                   behind |-> FALSE]
  <2>1. DOMAIN s = Fields
    BY DEF Fields
  <2>2. searches' = [searches EXCEPT ![c] = s] /\ feeds' = feeds
    BY <1>1 DEF GetFeed
  <2> HIDE DEF s
  <2> QED
    BY <2>1, <2>2 DEF SearchesInv
<1>2. ASSUME NEW c \in Searcher, ReturnSearch(c), feeds' = feeds PROVE SearchesInv'
  BY <1>2 DEF ReturnSearch, SearchesInv
<1>3. ASSUME NEW c \in Searcher, QueryServices(c) PROVE SearchesInv'
  <2> DEFINE results == PageOf(searches[c].asked, listing)
             s == [searches[c] EXCEPT !.at = "set", !.asOf = listing, !.results = results]
  <2>1. /\ searches[c] # Missing /\ feeds' = feeds
        /\ \/ ReturnSearch(c)
           \/ searches' = [searches EXCEPT ![c].at = "set", ![c].asOf = listing,
                                           ![c].results = results]
    BY <1>3 DEF QueryServices, SearchAt
  <2> HIDE DEF results
  <2>2. DOMAIN s = Fields
    BY <2>1, FieldsWritten
  <2>3. CASE searches' = [searches EXCEPT ![c].at = "set", ![c].asOf = listing,
                                          ![c].results = results]
    <3>1. searches' = [searches EXCEPT ![c] = s]
      BY <2>3 DEF SearchesInv
    <3> HIDE DEF s
    <3> QED
      BY <2>1, <2>2, <3>1 DEF SearchesInv
  <2> QED
    BY <1>2, <2>1, <2>3
<1>4. ASSUME NEW c \in Searcher, SetFeed(c) PROVE SearchesInv'
  BY <1>4 DEF SetFeed, ReturnSearch, SearchesInv
<1>5. CASE DeleteScan
  <2> DEFINE key == CellNear(invalidation.branch, invalidation.next)
  <2>1. /\ feeds' = [k \in Key |-> IF k = key THEN Missing ELSE feeds[k]]
        /\ searches' = [c \in Searcher |->
               IF SearchAt(c, "set") /\ feedCacheKey(searches[c].asked.place) = key
               THEN [searches[c] EXCEPT !.behind = TRUE] ELSE searches[c]]
    BY <1>5 DEF DeleteScan
  <2> HIDE DEF key
  <2>2. feeds' = [k \in Key |-> feeds'[k]] /\ searches' = [c \in Searcher |-> searches'[c]]
    BY <2>1
  <2>3. ASSUME NEW c \in Searcher, searches'[c] # Missing PROVE DOMAIN searches'[c] = Fields
    <3>1. CASE SearchAt(c, "set") /\ feedCacheKey(searches[c].asked.place) = key
      BY <2>1, <3>1, FieldsWritten DEF SearchAt
    <3>2. CASE ~(SearchAt(c, "set") /\ feedCacheKey(searches[c].asked.place) = key)
      BY <2>1, <2>3, <3>2 DEF SearchesInv
    <3> QED
      BY <3>1, <3>2
  <2> QED
    BY <2>2, <2>3 DEF SearchesInv
<1>6. ASSUME NEW k \in Key, ExpireFeed(k) PROVE SearchesInv'
  BY <1>6 DEF ExpireFeed, SearchesInv
<1>7. ASSUME \/ \E listed \in Listings : ChangeListing(listed)
             \/ \E branch \in Branch : BeginInvalidation(branch)
             \/ StopInvalidation \/ UNCHANGED searchVars
      PROVE  SearchesInv'
  BY <1>7 DEF ChangeListing, BeginInvalidation, StopInvalidation, searchVars, SearchesInv
<1>8. ASSUME NEW c \in Searcher, StopSearch(c) PROVE SearchesInv'
  BY <1>2, <1>8 DEF StopSearch
<1> QED
  BY <1>1, <1>3, <1>4, <1>5, <1>6, <1>7, <1>8 DEF SearchNext

\* As long as the listing stays, so does what is fresh.
LEMMA KeysStayFresh ==
    ASSUME SearchesInv, [SearchNext]_searchVars, listing' = listing, NEW key, KeyIsFresh(key)
    PROVE  KeyWillBeFresh(key)
<1>1. ASSUME NEW c \in Searcher, ReturnSearch(c), feeds' = feeds PROVE KeyWillBeFresh(key)
  <2>1. \A d \in Searcher : SearchAt(d, "set")' => SearchAt(d, "set") /\ searches'[d] = searches[d]
    BY <1>1 DEF ReturnSearch, SearchAt, SearchesInv
  <2> QED
    BY <1>1, <2>1 DEF KeyWillBeFresh, KeyIsFresh, Fresh
<1>2. ASSUME NEW c \in Searcher, NEW asked \in Inquiry, GetFeed(c, asked)
      PROVE  KeyWillBeFresh(key)
  <2> DEFINE s == [asked |-> asked, at |-> "query", results |-> <<>>, asOf |-> {},
                   behind |-> FALSE]
  <2>1. s.at # "set"
    OBVIOUS
  <2>2. searches' = [searches EXCEPT ![c] = s] /\ feeds' = feeds
    BY <1>2 DEF GetFeed
  <2> HIDE DEF s
  <2>3. \A d \in Searcher : SearchAt(d, "set")' => SearchAt(d, "set") /\ searches'[d] = searches[d]
    BY <2>1, <2>2 DEF SearchAt, SearchesInv
  <2> QED
    BY <2>2, <2>3 DEF KeyWillBeFresh, KeyIsFresh, Fresh
<1>3. ASSUME NEW c \in Searcher, QueryServices(c) PROVE KeyWillBeFresh(key)
  <2> DEFINE results == PageOf(searches[c].asked, listing)
             s == [searches[c] EXCEPT !.at = "set", !.asOf = listing, !.results = results]
  <2>1. /\ searches[c] # Missing /\ feeds' = feeds
        /\ \/ ReturnSearch(c)
           \/ searches' = [searches EXCEPT ![c].at = "set", ![c].asOf = listing,
                                           ![c].results = results]
    BY <1>3 DEF QueryServices, SearchAt
  <2> HIDE DEF results
  <2>2. s.asOf = listing
    BY <2>1, FieldsWritten
  <2>3. CASE searches' = [searches EXCEPT ![c].at = "set", ![c].asOf = listing,
                                          ![c].results = results]
    <3>1. searches' = [searches EXCEPT ![c] = s]
      BY <2>3 DEF SearchesInv
    <3> HIDE DEF s
    <3>2. /\ searches'[c].asOf = listing
          /\ \A d \in Searcher : d # c => searches'[d] = searches[d]
      BY <2>2, <3>1 DEF SearchesInv
    <3> QED
      BY <2>1, <3>2 DEF KeyWillBeFresh, KeyIsFresh, Fresh, SearchAt
  <2> QED
    BY <1>1, <2>1, <2>3
<1>4. ASSUME NEW c \in Searcher, SetFeed(c) PROVE KeyWillBeFresh(key)
  <2> DEFINE k == feedCacheKey(searches[c].asked.place)
             f == [results |-> searches[c].results, asked |-> searches[c].asked,
                   asOf |-> searches[c].asOf, behind |-> searches[c].behind]
  <2>1. SearchAt(c, "set") /\ feeds' = [feeds EXCEPT ![k] = f] /\ ReturnSearch(c)
    BY <1>4 DEF SetFeed
  <2>2. f.asOf = searches[c].asOf /\ f.behind = searches[c].behind
    OBVIOUS
  <2> HIDE DEF f
  <2>3. k = key => Fresh(searches[c])
    BY <2>1 DEF KeyWillBeFresh, KeyIsFresh
  <2>4. k = key => Fresh(f)
    BY <2>2, <2>3 DEF Fresh
  <2> HIDE DEF k
  <2>5. key \in Key => feeds'[key] = IF k = key THEN f ELSE feeds[key]
    BY <2>1 DEF SearchesInv
  <2>6. \A d \in Searcher : SearchAt(d, "set")' => SearchAt(d, "set") /\ searches'[d] = searches[d]
    BY <2>1 DEF ReturnSearch, SearchAt, SearchesInv
  <2> QED
    BY <2>4, <2>5, <2>6 DEF KeyWillBeFresh, KeyIsFresh, Fresh
<1>5. CASE DeleteScan
  <2> DEFINE gone == CellNear(invalidation.branch, invalidation.next)
  <2>1. /\ feeds' = [k \in Key |-> IF k = gone THEN Missing ELSE feeds[k]]
        /\ searches' = [c \in Searcher |->
               IF SearchAt(c, "set") /\ feedCacheKey(searches[c].asked.place) = gone
               THEN [searches[c] EXCEPT !.behind = TRUE] ELSE searches[c]]
    BY <1>5 DEF DeleteScan
  <2> HIDE DEF gone
  <2>2. ASSUME NEW d \in Searcher, SearchAt(d, "set")',
               feedCacheKey(searches'[d].asked.place) = key
        PROVE  Fresh(searches[d])'
    <3>1. CASE SearchAt(d, "set") /\ feedCacheKey(searches[d].asked.place) = gone
      <4>1. searches'[d] = [searches[d] EXCEPT !.behind = TRUE] /\ searches[d] # Missing
        BY <2>1, <3>1 DEF SearchAt
      <4>2. searches'[d].behind
        BY <4>1, FieldsWritten
      <4> QED
        BY <4>2 DEF Fresh
    <3>2. CASE ~(SearchAt(d, "set") /\ feedCacheKey(searches[d].asked.place) = gone)
      <4>1. searches'[d] = searches[d]
        BY <2>1, <3>2
      <4> QED
        BY <2>2, <4>1 DEF SearchAt, KeyIsFresh, Fresh
    <3> QED
      BY <3>1, <3>2
  <2>3. key \in Key => feeds'[key] = Missing \/ feeds'[key] = feeds[key]
    BY <2>1
  <2> QED
    BY <2>2, <2>3 DEF KeyWillBeFresh, KeyIsFresh, Fresh
<1>6. ASSUME NEW k \in Key, ExpireFeed(k) PROVE KeyWillBeFresh(key)
  <2>1. searches' = searches /\ (key \in Key => feeds'[key] = Missing \/ feeds'[key] = feeds[key])
    BY <1>6 DEF ExpireFeed, SearchesInv
  <2> QED
    BY <2>1 DEF KeyWillBeFresh, KeyIsFresh, Fresh, SearchAt
<1>7. ASSUME \/ \E branch \in Branch : BeginInvalidation(branch)
             \/ StopInvalidation \/ UNCHANGED searchVars
      PROVE  KeyWillBeFresh(key)
  BY <1>7 DEF BeginInvalidation, StopInvalidation, searchVars, KeyWillBeFresh, KeyIsFresh,
              Fresh, SearchAt
<1>8. ASSUME NEW listed \in Listings, ChangeListing(listed) PROVE FALSE
  BY <1>8 DEF ChangeListing
<1>9. ASSUME NEW c \in Searcher, StopSearch(c) PROVE KeyWillBeFresh(key)
  BY <1>1, <1>9 DEF StopSearch
<1> QED
  BY <1>2, <1>3, <1>4, <1>5, <1>6, <1>7, <1>8, <1>9 DEF SearchNext

\* deleteScan leaves no feed of its cell, and excuses those on their way.
LEMMA DeletedIsFresh ==
    ASSUME SearchesInv, DeleteScan
    PROVE  KeyWillBeFresh(CellNear(invalidation.branch, invalidation.next))
<1> DEFINE gone == CellNear(invalidation.branch, invalidation.next)
<1>1. /\ feeds' = [k \in Key |-> IF k = gone THEN Missing ELSE feeds[k]]
      /\ searches' = [c \in Searcher |->
             IF SearchAt(c, "set") /\ feedCacheKey(searches[c].asked.place) = gone
             THEN [searches[c] EXCEPT !.behind = TRUE] ELSE searches[c]]
  BY DEF DeleteScan
<1>2. ASSUME NEW d \in Searcher, SearchAt(d, "set")',
             feedCacheKey(searches'[d].asked.place) = gone
      PROVE  Fresh(searches[d])'
  <2> HIDE DEF gone
  <2>1. CASE SearchAt(d, "set") /\ feedCacheKey(searches[d].asked.place) = gone
    <3>1. searches'[d] = [searches[d] EXCEPT !.behind = TRUE] /\ searches[d] # Missing
      BY <1>1, <2>1 DEF SearchAt
    <3>2. searches'[d].behind
      BY <3>1, FieldsWritten
    <3> QED
      BY <3>2 DEF Fresh
  <2>2. CASE ~(SearchAt(d, "set") /\ feedCacheKey(searches[d].asked.place) = gone)
    <3>1. searches'[d] = searches[d]
      BY <1>1, <2>2
    <3> QED
      BY <1>2, <2>2, <3>1 DEF SearchAt
  <2> QED
    BY <2>1, <2>2
<1>3. gone \in Key => feeds'[gone] = Missing
  <2> HIDE DEF gone
  <2> QED
    BY <1>1
<1>4. KeyWillBeFresh(gone)
  <2> HIDE DEF gone
  <2> QED
    BY <1>2, <1>3 DEF KeyWillBeFresh
<1> QED
  BY <1>4

LEMMA InvalidationStep ==
    ASSUME FeedInv, [SearchNext]_searchVars
    PROVE  InvalidationInv'
<1> USE DEF FeedInv
<1>1. ASSUME NEW listed \in Listings, ChangeListing(listed) PROVE InvalidationInv'
  <2>1. CASE invalidation = Missing
    BY <1>1, <2>1 DEF ChangeListing, InvalidationInv
  <2>2. CASE invalidation # Missing
    <3>1. /\ DOMAIN invalidation = {"branch", "next", "late"}
          /\ invalidation.branch \in Branch /\ invalidation.next \in 1..9
          /\ invalidation' = [invalidation EXCEPT !.late = TRUE] /\ invalidated' = {}
      BY <1>1, <2>2 DEF ChangeListing, InvalidationInv
    <3>2. /\ DOMAIN invalidation' = {"branch", "next", "late"}
          /\ invalidation'.branch \in Branch /\ invalidation'.next \in 1..9
          /\ invalidation'.late
      BY <3>1
    <3> QED
      BY <3>1, <3>2 DEF InvalidationInv
  <2> QED
    BY <2>1, <2>2
<1>2. ASSUME UNCHANGED <<listing, invalidated>>,
             invalidation' = Missing \/ invalidation' = invalidation
      PROVE  InvalidationInv'
  <2>1. \A key : KeyIsFresh(key) => KeyWillBeFresh(key)
    BY <1>2, KeysStayFresh
  <2>2. invalidation' # Missing => invalidation' = invalidation
    BY <1>2
  <2>3. \A branch \in invalidated, i \in 1..9 : KeyWillBeFresh(CellNear(branch, i))
    BY <2>1 DEF InvalidationInv
  <2>4. invalidation # Missing /\ ~invalidation.late =>
            \A i \in 1..invalidation.next - 1 : KeyWillBeFresh(CellNear(invalidation.branch, i))
    BY <2>1 DEF InvalidationInv
  <2> QED
    BY <1>2, <2>2, <2>3, <2>4 DEF InvalidationInv, KeyWillBeFresh, KeyIsFresh
<1>3. ASSUME NEW branch \in Branch, BeginInvalidation(branch) PROVE InvalidationInv'
  <2>1. /\ invalidation' = [branch |-> branch, next |-> 1, late |-> FALSE]
        /\ UNCHANGED <<listing, invalidated>>
    BY <1>3 DEF BeginInvalidation
  <2>2. \A b \in invalidated, i \in 1..9 : KeyWillBeFresh(CellNear(b, i))
    BY <2>1, KeysStayFresh DEF InvalidationInv
  <2>3. /\ DOMAIN invalidation' = {"branch", "next", "late"}
        /\ invalidation'.branch \in Branch /\ invalidation'.next = 1
    BY <2>1
  <2>4. 1..1 - 1 = {} /\ 1 \in 1..9
    OBVIOUS
  <2> QED
    BY <2>1, <2>2, <2>3, <2>4 DEF InvalidationInv, KeyWillBeFresh, KeyIsFresh
<1>4. CASE DeleteScan
  <2> DEFINE here == invalidation.branch
             n == invalidation.next
  <2>1. /\ invalidation # Missing /\ DOMAIN invalidation = {"branch", "next", "late"}
        /\ here \in Branch /\ n \in 1..9 /\ listing' = listing
        /\ invalidation' = IF n = 9 THEN Missing ELSE [invalidation EXCEPT !.next = @ + 1]
        /\ invalidated' = IF n = 9 /\ ~invalidation.late
                          THEN invalidated \cup {here} ELSE invalidated
    BY <1>4 DEF DeleteScan, InvalidationInv
  <2>2. KeyWillBeFresh(CellNear(here, n))
    BY <1>4, DeletedIsFresh
  <2>3. \A key : KeyIsFresh(key) => KeyWillBeFresh(key)
    BY <2>1, KeysStayFresh
  <2>4. ~invalidation.late => \A i \in 1..n : KeyWillBeFresh(CellNear(here, i))
    <3>1. \A i \in 1..n : i = n \/ i \in 1..n - 1
      BY <2>1
    <3> QED
      BY <2>1, <2>2, <2>3, <3>1 DEF InvalidationInv
  <2>5. \A branch \in invalidated', i \in 1..9 : KeyWillBeFresh(CellNear(branch, i))
    BY <2>1, <2>3, <2>4 DEF InvalidationInv
  <2>6. invalidation' # Missing =>
            /\ DOMAIN invalidation' = {"branch", "next", "late"}
            /\ invalidation'.branch = here /\ invalidation'.next = n + 1
            /\ n + 1 \in 1..9 /\ invalidation'.late = invalidation.late
            /\ (n + 1) - 1 = n
    BY <2>1
  <2>7. invalidated' \subseteq Branch
    BY <2>1 DEF InvalidationInv
  <2>8. invalidation' # Missing =>
            /\ DOMAIN invalidation' = {"branch", "next", "late"}
            /\ invalidation'.branch \in Branch /\ invalidation'.next \in 1..9
            /\ ~invalidation'.late =>
                   \A branch \in {invalidation'.branch}, i \in 1..invalidation'.next - 1 :
                       KeyWillBeFresh(CellNear(branch, i))
    BY <2>1, <2>4, <2>6
  <2>9. \A branch \in invalidated', i \in 1..9 : KeyIsFresh(CellNear(branch, i))'
    BY <2>5 DEF KeyWillBeFresh, KeyIsFresh
  <2>10. ASSUME invalidation' # Missing, ~invalidation'.late
         PROVE  \A branch \in {invalidation'.branch}, i \in 1..invalidation'.next - 1 :
                    KeyIsFresh(CellNear(branch, i))'
    <3>1. \A branch \in {invalidation'.branch}, i \in 1..invalidation'.next - 1 :
              KeyWillBeFresh(CellNear(branch, i))
      BY <2>8, <2>10
    <3> QED
      BY <3>1 DEF KeyWillBeFresh, KeyIsFresh
  <2> QED
    BY <2>7, <2>8, <2>9, <2>10 DEF InvalidationInv
<1>5. ASSUME NEW c \in Searcher,
             \/ \E asked \in Inquiry : GetFeed(c, asked)
             \/ QueryServices(c) \/ SetFeed(c) \/ StopSearch(c)
      PROVE  UNCHANGED <<listing, invalidated, invalidation>>
  BY <1>5 DEF GetFeed, QueryServices, SetFeed, StopSearch
<1>6. ASSUME (\E k \in Key : ExpireFeed(k)) \/ StopInvalidation \/ UNCHANGED searchVars
      PROVE  /\ UNCHANGED <<listing, invalidated>>
             /\ invalidation' = Missing \/ invalidation' = invalidation
  BY <1>6 DEF ExpireFeed, StopInvalidation, searchVars
<1> QED
  BY <1>1, <1>2, <1>3, <1>4, <1>5, <1>6 DEF SearchNext

\* After an invalidation no feed near the branch is older than the listing,
\* but for those a search was about to store and those on the lines of zero:
\* the loops come past every cell, and what they have passed stays fresh.
THEOREM InvalidationLeavesFresh == SearchSpec => []InvalidatedIsFresh
<1>1. SearchInit => FeedInv
  BY DEF SearchInit, FeedInv, SearchesInv, InvalidationInv
<1>2. FeedInv /\ [SearchNext]_searchVars => FeedInv'
  BY SearchesStep, InvalidationStep DEF FeedInv
<1>3. FeedInv => InvalidatedIsFresh
  <2> SUFFICES ASSUME FeedInv, NEW branch \in invalidated, NEW p \in Place,
                      Neighbours(branch, p), ~AtZero(p), feeds[feedCacheKey(p)] # Missing
               PROVE  Fresh(feeds[feedCacheKey(p)])
    BY DEF InvalidatedIsFresh, Fresh
  <2>1. branch \in Branch /\ feedCacheKey(p) \in Key
    BY DEF FeedInv, InvalidationInv, Key
  <2>2. PICK i \in 1..9 : CellNear(branch, i) = feedCacheKey(p)
    BY <2>1, NeighboursAreReached
  <2>3. KeyIsFresh(feedCacheKey(p))
    BY <2>2 DEF FeedInv, InvalidationInv
  <2> QED
    BY <2>1, <2>3 DEF KeyIsFresh
<1> QED
  BY <1>1, <1>2, <1>3, PTL DEF SearchSpec

-----------------------------------------------------------------------------
(* Pages.                                                                  *)

LEMMA LeastIsLess ==
    ASSUME NEW x \in Int, NEW y \in Int
    PROVE  /\ Least(x, y) \in Int /\ Least(x, y) <= x /\ Least(x, y) <= y
           /\ x <= y => Least(x, y) = x
           /\ y <= x => Least(x, y) = y
BY DEF Least

LEMMA LimitType ==
    ASSUME NEW asked \in Inquiry
    PROVE  /\ asked.offset \in Nat /\ Limit(asked) \in Nat
           /\ asked.place \in Place /\ Reach[asked.radius] \in Nat
<1>1. /\ asked.offset \in Nat /\ asked.limit \in Nat /\ asked.place \in Place
      /\ asked.radius \in DOMAIN Reach
      /\ defaultLimit \in Nat /\ maxLimit \in Nat
  BY SearchAssumption
<1> QED
  BY <1>1, SearchAssumption DEF Limit, Least

\* What is ranked around a place is a list of offerings.
LEMMA RankedIsList ==
    ASSUME NEW asked \in Inquiry, NEW listed
    PROVE  Ranked(asked, listed) \in Seq(Offering)
<1> DEFINE all == Ranking[asked.place]
           n == Least(Reach[asked.radius], Len(all))
           around == Piece(all, 1, Reach[asked.radius])
           kept == {i \in DOMAIN around : around[i] \in listed}
<1>1. all \in Seq(Offering)
  BY LimitType, SearchAssumption
<1> HIDE DEF all
<1>2. Len(all) \in Nat /\ \A i \in 1..Len(all) : all[i] \in Offering
  BY <1>1
<1>3. n \in Int /\ n <= Len(all)
  <2>1. Reach[asked.radius] \in Int /\ Len(all) \in Int
    BY <1>2, LimitType
  <2> QED
    BY <2>1, LeastIsLess
<1>4. around = SubSeq(all, 1, n)
  BY DEF Piece
<1> HIDE DEF n
<1>5. \A i \in 1..n : all[i] \in Offering
  BY <1>2, <1>3
<1> HIDE DEF around
<1>6. around \in Seq(Offering)
  BY <1>3, <1>4, <1>5, SubSeqProperties
<1>7. Len(around) \in Nat /\ DOMAIN around = 1..Len(around)
      /\ \A i \in 1..Len(around) : around[i] \in Offering
  BY <1>6
<1>8. kept \subseteq 1..Len(around)
  BY <1>7
<1>9. Ranked(asked, listed) = Selected(around, kept)
  BY DEF Ranked, around, all
<1> HIDE DEF kept
<1>10. Cardinality(kept) \in Nat /\ \A k \in 1..Cardinality(kept) : Nth(kept, k) \in kept
  BY <1>7, <1>8, NthRuns
<1> DEFINE m == Cardinality(kept)
<1>11. Ranked(asked, listed) = [k \in 1..m |-> around[Nth(kept, k)]]
  BY <1>9 DEF Selected
<1>12. \A k \in 1..m : around[Nth(kept, k)] \in Offering
  BY <1>7, <1>8, <1>10
<1> HIDE DEF m
<1>13. m \in Nat
  BY <1>10 DEF m
<1> QED
  BY <1>11, <1>12, <1>13

\* A piece of what starts at the top of a list is a piece of the list.
LEMMA PieceOfTop ==
    ASSUME NEW S, NEW list \in Seq(S),
           NEW a \in Nat, NEW offset \in Nat, NEW limit \in Nat,
           NEW top, top = Piece(list, 1, a),
           NEW start, start = Least(offset, Len(top))
    PROVE  /\ Len(top) = Least(a, Len(list))
           /\ Piece(top, start + 1, start + limit)
                  = Piece(list, offset + 1, Least(offset + limit, a))
<1> DEFINE n == Least(a, Len(list))
           end == Least(Least(offset + limit, a), Len(list))
           left == Piece(top, start + 1, start + limit)
           right == Piece(list, offset + 1, Least(offset + limit, a))
<1> SUFFICES Len(top) = n /\ left = right
  OBVIOUS
<1>1. n \in Nat /\ n <= Len(list) /\ n <= a
  <2>1. Len(list) \in Nat
    OBVIOUS
  <2> QED
    BY <2>1 DEF Least
<1>2. top = SubSeq(list, 1, n)
  BY DEF Piece
<1>3. \A i \in 1..n : list[i] \in S
  BY <1>1
<1>4. end = Least(offset + limit, n)
  BY DEF Least
<1>5. right = SubSeq(list, offset + 1, end)
  BY DEF Piece
<1> HIDE DEF n, end, right
<1>6. top \in Seq(S) /\ Len(top) = n /\ \A i \in 1..n : top[i] = list[i]
  <2>1. /\ top \in Seq(S)
        /\ Len(top) = IF 1 <= n THEN n - 1 + 1 ELSE 0
        /\ \A i \in 1..(n - 1 + 1) : top[i] = list[1 + i - 1]
    BY <1>1, <1>2, <1>3, SubSeqProperties
  <2>2. n - 1 + 1 = n /\ (~ 1 <= n => n = 0)
    BY <1>1
  <2>3. \A i \in 1..n : top[i] = list[i]
    BY <2>1, <2>2
  <2> QED
    BY <2>1, <2>2, <2>3
<1>7. left = SubSeq(top, start + 1, Least(start + limit, n))
  BY <1>6 DEF Piece
<1>8. CASE offset <= n
  <2>1. start = offset
    BY <1>1, <1>6, <1>8 DEF Least
  <2>2. left = SubSeq(top, offset + 1, end)
    BY <1>4, <1>7, <2>1
  <2>3. end \in Int /\ end <= n
    BY <1>1, <1>4 DEF Least
  <2>4. \A i \in (offset + 1)..end : top[i] = list[i] /\ list[i] \in S
    <3>1. \A i \in (offset + 1)..end : i \in 1..n
      BY <1>1, <2>3
    <3> QED
      BY <1>3, <1>6, <3>1
  <2> DEFINE l == end - (offset + 1) + 1
  <2>5. /\ left \in Seq(S) /\ right \in Seq(S)
        /\ Len(left) = Len(right)
        /\ \A i \in 1..l : left[i] = top[offset + 1 + i - 1] /\ right[i] = list[offset + 1 + i - 1]
        /\ Len(left) = IF offset + 1 <= end THEN l ELSE 0
    <3>1. offset + 1 \in Int /\ \A i \in (offset + 1)..end : top[i] \in S
      BY <2>4
    <3> HIDE DEF left
    <3>2. /\ left \in Seq(S)
          /\ Len(left) = IF offset + 1 <= end THEN l ELSE 0
          /\ \A i \in 1..l : left[i] = top[offset + 1 + i - 1]
      BY <2>2, <2>3, <3>1, SubSeqProperties
    <3>3. /\ right \in Seq(S)
          /\ Len(right) = IF offset + 1 <= end THEN l ELSE 0
          /\ \A i \in 1..l : right[i] = list[offset + 1 + i - 1]
      BY <1>5, <2>3, <2>4, <3>1, SubSeqProperties
    <3> QED
      BY <3>2, <3>3
  <2> HIDE DEF left
  <2>6. \A i \in 1..Len(left) : left[i] = right[i]
    <3> SUFFICES ASSUME NEW i \in 1..Len(left) PROVE left[i] = right[i]
      OBVIOUS
    <3>1. i \in 1..l
      BY <2>3, <2>5
    <3>2. offset + 1 + i - 1 \in (offset + 1)..end
      BY <2>3, <3>1
    <3> HIDE DEF l
    <3> QED
      BY <2>4, <2>5, <3>1, <3>2
  <2> QED
    BY <1>6, <2>5, <2>6, SeqEqual DEF left
<1>9. CASE n < offset
  <2>1. start = n /\ Least(start + limit, n) = n
    BY <1>1, <1>6, <1>9 DEF Least
  <2>2. left = <<>>
    BY <1>1, <1>7, <2>1, SubSeqEmpty
  <2>3. end \in Int /\ end < offset + 1
    BY <1>1, <1>4, <1>9 DEF Least
  <2>4. right = <<>>
    BY <1>5, <2>3, SubSeqEmpty
  <2> QED
    BY <1>6, <2>2, <2>4
<1> QED
  BY <1>1, <1>6, <1>8, <1>9

\* A feed, or a search about to store one: the page that was asked for.
IsPage(r) == r.asked \in Inquiry /\ IsCached(r.asked) /\ r.results = PageOf(r.asked, r.asOf)

PagesInv ==
    /\ \A k \in Key : feeds[k] # Missing => IsPage(feeds[k])
    /\ \A c \in Searcher : searches[c] # Missing =>
           searches[c].asked \in Inquiry /\ (searches[c].at = "set" => IsPage(searches[c]))

LEMMA PagesStep ==
    ASSUME SearchesInv, PagesInv, [SearchNext]_searchVars
    PROVE  PagesInv'
<1>1. ASSUME NEW c \in Searcher, ReturnSearch(c), feeds' = feeds PROVE PagesInv'
  <2>1. \A d \in Searcher : searches'[d] # Missing => searches'[d] = searches[d]
    BY <1>1 DEF ReturnSearch, SearchesInv
  <2> QED
    BY <1>1, <2>1 DEF PagesInv, IsPage
<1>2. ASSUME NEW c \in Searcher, NEW asked \in Inquiry, GetFeed(c, asked) PROVE PagesInv'
  <2> DEFINE s == [asked |-> asked, at |-> "query", results |-> <<>>, asOf |-> {},
                   behind |-> FALSE]
  <2>1. s.at # "set" /\ s.asked = asked
    OBVIOUS
  <2>2. searches' = [searches EXCEPT ![c] = s] /\ feeds' = feeds
    BY <1>2 DEF GetFeed
  <2> HIDE DEF s
  <2>3. \A d \in Searcher : searches'[d] = IF d = c THEN s ELSE searches[d]
    BY <2>2 DEF SearchesInv
  <2> QED
    BY <2>1, <2>2, <2>3 DEF PagesInv, IsPage
<1>3. ASSUME NEW c \in Searcher, QueryServices(c) PROVE PagesInv'
  <2> DEFINE results == PageOf(searches[c].asked, listing)
             s == [searches[c] EXCEPT !.at = "set", !.asOf = listing, !.results = results]
  <2>1. /\ searches[c] # Missing /\ feeds' = feeds
        /\ \/ ReturnSearch(c)
           \/ /\ IsCached(searches[c].asked)
              /\ searches' = [searches EXCEPT ![c].at = "set", ![c].asOf = listing,
                                              ![c].results = results]
    BY <1>3 DEF QueryServices, SearchAt
  <2>2. s.asked = searches[c].asked /\ s.asOf = listing
        /\ s.results = PageOf(searches[c].asked, listing)
    <3> HIDE DEF results
    <3>1. s.asked = searches[c].asked /\ s.asOf = listing /\ s.results = results
      BY <2>1, FieldsWritten
    <3> QED
      BY <3>1 DEF results
  <2> HIDE DEF results
  <2>3. CASE /\ IsCached(searches[c].asked)
             /\ searches' = [searches EXCEPT ![c].at = "set", ![c].asOf = listing,
                                             ![c].results = results]
    <3>1. searches' = [searches EXCEPT ![c] = s]
      BY <2>3 DEF SearchesInv
    <3>2. IsPage(s) /\ s.asked \in Inquiry
      BY <2>1, <2>2, <2>3 DEF IsPage, PagesInv
    <3> HIDE DEF s
    <3>3. \A d \in Searcher : searches'[d] = IF d = c THEN s ELSE searches[d]
      BY <3>1 DEF SearchesInv
    <3> QED
      BY <2>1, <3>2, <3>3 DEF PagesInv, IsPage
  <2> QED
    BY <1>1, <2>1, <2>3
<1>4. ASSUME NEW c \in Searcher, SetFeed(c) PROVE PagesInv'
  <2> DEFINE key == feedCacheKey(searches[c].asked.place)
             f == [results |-> searches[c].results, asked |-> searches[c].asked,
                   asOf |-> searches[c].asOf, behind |-> searches[c].behind]
  <2>1. SearchAt(c, "set") /\ feeds' = [feeds EXCEPT ![key] = f] /\ ReturnSearch(c)
    BY <1>4 DEF SetFeed
  <2>2. IsPage(f)
    <3>1. IsPage(searches[c])
      BY <2>1 DEF SearchAt, PagesInv
    <3>2. /\ f.results = searches[c].results /\ f.asked = searches[c].asked
          /\ f.asOf = searches[c].asOf
      OBVIOUS
    <3> HIDE DEF f
    <3> QED
      BY <3>1, <3>2 DEF IsPage
  <2> HIDE DEF key, f
  <2>3. \A k \in Key : feeds'[k] = IF k = key THEN f ELSE feeds[k]
    BY <2>1 DEF SearchesInv
  <2>4. \A d \in Searcher : searches'[d] # Missing => searches'[d] = searches[d]
    BY <2>1 DEF ReturnSearch, SearchesInv
  <2> QED
    BY <2>2, <2>3, <2>4 DEF PagesInv, IsPage
<1>5. CASE DeleteScan
  <2> DEFINE key == CellNear(invalidation.branch, invalidation.next)
  <2>1. /\ feeds' = [k \in Key |-> IF k = key THEN Missing ELSE feeds[k]]
        /\ searches' = [c \in Searcher |->
               IF SearchAt(c, "set") /\ feedCacheKey(searches[c].asked.place) = key
               THEN [searches[c] EXCEPT !.behind = TRUE] ELSE searches[c]]
    BY <1>5 DEF DeleteScan
  <2> HIDE DEF key
  <2>2. ASSUME NEW c \in Searcher, searches'[c] # Missing
        PROVE  /\ searches'[c].asked \in Inquiry
               /\ searches'[c].at = "set" => IsPage(searches'[c])
    <3>1. CASE SearchAt(c, "set") /\ feedCacheKey(searches[c].asked.place) = key
      <4> DEFINE s == [searches[c] EXCEPT !.behind = TRUE]
      <4>1. searches[c] # Missing /\ searches'[c] = s
        BY <2>1, <3>1 DEF SearchAt
      <4>2. s.asked = searches[c].asked /\ s.results = searches[c].results
            /\ s.asOf = searches[c].asOf
        BY <4>1, FieldsWritten
      <4>3. searches[c].asked \in Inquiry /\ IsPage(searches[c])
        BY <3>1, <4>1 DEF PagesInv, SearchAt
      <4> HIDE DEF s
      <4> QED
        BY <4>1, <4>2, <4>3 DEF IsPage
    <3>2. CASE ~(SearchAt(c, "set") /\ feedCacheKey(searches[c].asked.place) = key)
      BY <2>1, <2>2, <3>2 DEF PagesInv
    <3> QED
      BY <3>1, <3>2
  <2>3. \A k \in Key : feeds'[k] # Missing => feeds'[k] = feeds[k]
    BY <2>1
  <2> QED
    BY <2>2, <2>3 DEF PagesInv, IsPage
<1>6. ASSUME NEW k \in Key, ExpireFeed(k) PROVE PagesInv'
  <2>1. searches' = searches /\ \A j \in Key : feeds'[j] # Missing => feeds'[j] = feeds[j]
    BY <1>6 DEF ExpireFeed, SearchesInv
  <2> QED
    BY <2>1 DEF PagesInv, IsPage
<1>7. ASSUME \/ \E listed \in Listings : ChangeListing(listed)
             \/ \E branch \in Branch : BeginInvalidation(branch)
             \/ StopInvalidation \/ UNCHANGED searchVars
      PROVE  PagesInv'
  BY <1>7 DEF ChangeListing, BeginInvalidation, StopInvalidation, searchVars, PagesInv, IsPage
<1>8. ASSUME NEW c \in Searcher, StopSearch(c) PROVE PagesInv'
  BY <1>1, <1>8 DEF StopSearch
<1> QED
  BY <1>2, <1>3, <1>4, <1>5, <1>6, <1>7, <1>8 DEF SearchNext

\* A hit shows what the query would have shown when the feed was read, at the
\* place and for the radius of the customer whose search stored it, wherever the
\* page ends within that customer's, or the list within the feed.
THEOREM HitsArePagesOfTheQuery == SearchSpec => []HitsArePages
<1>1. SearchInit => SearchesInv /\ PagesInv
  BY DEF SearchInit, SearchesInv, PagesInv
<1>2. SearchesInv /\ PagesInv /\ [SearchNext]_searchVars => (SearchesInv /\ PagesInv)'
  BY SearchesStep, PagesStep
<1>3. SearchesInv /\ PagesInv => HitsArePages
  <2> SUFFICES ASSUME PagesInv, NEW k \in Key, feeds[k] # Missing, NEW asked \in Inquiry,
                      \/ asked.offset + Limit(asked) <= Limit(feeds[k].asked)
                      \/ Len(feeds[k].results) < Limit(feeds[k].asked)
               PROVE  CachedPage(feeds[k].results, asked) =
                          PageOf([feeds[k].asked EXCEPT !.limit = asked.limit,
                                                        !.offset = asked.offset],
                                 feeds[k].asOf)
    BY DEF HitsArePages
  <2> DEFINE f == feeds[k]
             same == [f.asked EXCEPT !.limit = asked.limit, !.offset = asked.offset]
             list == Ranked(f.asked, f.asOf)
             a == Limit(f.asked)
             offset == asked.offset
             limit == Limit(asked)
             top == Piece(list, 1, a)
             start == Least(offset, Len(top))
  <2>1. f.asked \in Inquiry /\ f.asked.offset = 0 /\ f.results = PageOf(f.asked, f.asOf)
    BY DEF PagesInv, IsPage, IsCached
  <2>2. a \in Nat /\ offset \in Nat /\ limit \in Nat
    BY <2>1, LimitType
  <2>3. list \in Seq(Offering)
    BY <2>1, RankedIsList
  <2>4. f.results = top
    <3>1. f.asked.offset + 1 = 1 /\ f.asked.offset + Limit(f.asked) = a
      BY <2>1, <2>2
    <3> QED
      BY <2>1, <3>1 DEF PageOf
  <2>5. PageOf(same, f.asOf) = Piece(list, offset + 1, offset + limit)
    <3>1. /\ same.place = f.asked.place /\ same.radius = f.asked.radius
          /\ same.limit = asked.limit /\ same.offset = asked.offset
      BY <2>1, SearchAssumption
    <3> HIDE DEF same
    <3>2. Limit(same) = Limit(asked) /\ Ranked(same, f.asOf) = Ranked(f.asked, f.asOf)
      BY <3>1 DEF Limit, Ranked
    <3> QED
      BY <3>1, <3>2 DEF PageOf
  <2>6. CachedPage(f.results, asked) = Piece(top, start + 1, start + limit)
    BY <2>4 DEF CachedPage
  <2>7. offset + limit <= a \/ Len(top) < a
    BY <2>4
  <2>8. top = Piece(list, 1, a) /\ start = Least(offset, Len(top))
    OBVIOUS
  <2> HIDE DEF same, list, a, offset, limit, top, start
  <2>9. /\ Len(top) = Least(a, Len(list))
        /\ Piece(top, start + 1, start + limit)
               = Piece(list, offset + 1, Least(offset + limit, a))
    BY <2>2, <2>3, <2>8, PieceOfTop
  <2>10. Piece(list, offset + 1, Least(offset + limit, a))
             = Piece(list, offset + 1, offset + limit)
    <3>1. Len(list) \in Nat
      BY <2>3
    <3>2. Least(Least(offset + limit, a), Len(list)) = Least(offset + limit, Len(list))
      BY <2>2, <2>7, <2>9, <3>1 DEF Least
    <3> QED
      BY <3>2 DEF Piece
  <2> QED
    BY <2>5, <2>6, <2>9, <2>10 DEF same, list, a, offset, limit, top, start
<1> QED
  BY <1>1, <1>2, <1>3, PTL DEF SearchSpec
=============================================================================
