------------------------ MODULE BookingServiceProofs ------------------------
(***************************************************************************)
(* Theorems about BookingService, for any finite set of rows, any services *)
(* and capacities, any instants and quantities.                            *)
(***************************************************************************)
EXTENDS BookingService, FiniteSetTheorems, TLAPS

-----------------------------------------------------------------------------
(* Sums of quantities.                                                     *)

\* The units of finitely many rows are finitely many.
LEMMA UnitsFinite ==
    ASSUME NEW table, NEW S, IsFiniteSet(S)
    PROVE  IsFiniteSet(Units(table, S))
<1>1. IsFiniteSet(Quantity)
  BY TablesAssumption, FS_Interval DEF Quantity
<1>2. IsFiniteSet(S \X Quantity)
  BY <1>1, FS_Product
<1>3. Units(table, S) \subseteq S \X Quantity
  BY DEF Units
<1> QED
  BY <1>2, <1>3, FS_Subset

\* A sum over finitely many rows is a natural number.
LEMMA SumType ==
    ASSUME NEW table, NEW S, IsFiniteSet(S)
    PROVE  Sum(table, S) \in Nat
BY UnitsFinite, FS_CardinalityType DEF Sum

\* Counting fewer rows gives no more.
LEMMA SumMonotone ==
    ASSUME NEW table, NEW T, IsFiniteSet(T), NEW S \in SUBSET T
    PROVE  Sum(table, S) <= Sum(table, T)
<1>1. Units(table, S) \subseteq Units(table, T)
  BY DEF Units
<1> QED
  BY <1>1, UnitsFinite, FS_Subset DEF Sum

\* Only the quantities of the rows counted matter.
LEMMA SumSameQuantities ==
    ASSUME NEW table, NEW other, NEW S,
           \A x \in S : table[x].quantity = other[x].quantity
    PROVE  Sum(table, S) = Sum(other, S)
<1>1. Units(table, S) = Units(other, S)
  BY DEF Units
<1> QED
  BY <1>1 DEF Sum

\* One row adds its quantity.
LEMMA SumSingleton ==
    ASSUME NEW table, NEW x, table[x].quantity \in Quantity
    PROVE  Sum(table, {x}) = table[x].quantity
<1> DEFINE q == table[x].quantity
<1>1. q \in Nat /\ 1 <= q /\ q <= MaxQuantity
  BY TablesAssumption DEF Quantity
<1>2. Units(table, {x}) = {x} \X (1..q)
  BY <1>1, TablesAssumption DEF Units, Quantity
<1>3. IsFiniteSet(1..q) /\ Cardinality(1..q) = q
  <2> HIDE DEF q
  <2>1. /\ IsFiniteSet(1..q)
        /\ Cardinality(1..q) = IF 1 > q THEN 0 ELSE q - 1 + 1
    BY <1>1, FS_Interval
  <2> QED
    BY <1>1, <2>1
<1>4. IsFiniteSet({x}) /\ Cardinality({x}) = 1
  BY FS_Singleton
<1>5. Cardinality({x} \X (1..q)) = 1 * q
  BY <1>3, <1>4, FS_Product
<1>6. 1 * q = q
  BY <1>1
<1> QED
  BY <1>2, <1>5, <1>6, Zenon DEF Sum

\* Adding a row adds at most its quantity.
LEMMA SumAddRow ==
    ASSUME NEW table, NEW S, IsFiniteSet(S), NEW x, table[x].quantity \in Quantity
    PROVE  Sum(table, S \cup {x}) <= Sum(table, S) + table[x].quantity
<1>1. IsFiniteSet({x})
  BY FS_Singleton
<1>2. /\ IsFiniteSet(Units(table, S)) /\ IsFiniteSet(Units(table, {x}))
      /\ IsFiniteSet(Units(table, S) \cap Units(table, {x}))
  BY <1>1, UnitsFinite, FS_Intersection
<1>3. Units(table, S \cup {x}) = Units(table, S) \cup Units(table, {x})
  BY DEF Units
<1>4. Cardinality(Units(table, S \cup {x}))
        = Cardinality(Units(table, S)) + Cardinality(Units(table, {x}))
            - Cardinality(Units(table, S) \cap Units(table, {x}))
  BY <1>2, <1>3, FS_Union
<1>5. /\ Cardinality(Units(table, S)) \in Nat
      /\ Cardinality(Units(table, {x})) \in Nat
      /\ Cardinality(Units(table, S) \cap Units(table, {x})) \in Nat
  BY <1>2, FS_CardinalityType
<1>6. Cardinality(Units(table, {x})) = table[x].quantity
  BY SumSingleton DEF Sum
<1> QED
  BY <1>4, <1>5, <1>6 DEF Sum

-----------------------------------------------------------------------------
(* Type correctness.                                                       *)

LEMMA NullIsNoRow ==
    /\ Null \notin Booking /\ Null \notin Lock /\ Null \notin Request
    /\ Null \notin BookingId
    /\ Spent \notin Lock /\ Spent # Null
BY TablesAssumption

\* What a row of bookings is, field by field.
LEMMA BookingFields ==
    ASSUME TypeOK, NEW b \in BookingId, bookings[b] # Null
    PROVE  /\ bookings[b] \in Booking
           /\ bookings[b].status \in BookingStatus
           /\ bookings[b].service \in Service
           /\ bookings[b].slot \in Slot
           /\ bookings[b].quantity \in Quantity
           /\ bookings[b].attempts \in 0..maxRescheduleAttempts
           /\ bookings[b].from \in BookingId \cup {Null}
BY DEF TypeOK, TablesTypeOK, Booking

LEMMA RequestFields ==
    ASSUME TypeOK, NEW r \in RequestId, requests[r] # Null
    PROVE  /\ requests[r] \in Request
           /\ requests[r].booking \in BookingId
           /\ requests[r].slot \in Slot
BY DEF TypeOK, TablesTypeOK, Request

LEMMA LockFields ==
    ASSUME TypeOK, NEW l \in LiveLocks
    PROVE  /\ l \in LockId
           /\ locks[l] \in Lock
           /\ locks[l].service \in Service
           /\ locks[l].slot \in Slot
           /\ locks[l].quantity \in Quantity
BY DEF TypeOK, TablesTypeOK, LiveLocks, Lock

\* A change of status keeps a row a row.
LEMMA UpdateStatusType ==
    ASSUME TypeOK, NEW b \in BookingId, bookings[b] # Null,
           NEW status \in BookingStatus, UpdateStatus(b, status)
    PROVE  bookings' \in [BookingId -> Booking \cup {Null}]
<1>1. [bookings[b] EXCEPT !.status = status] \in Booking
  BY BookingFields DEF Booking
<1> QED
  BY <1>1 DEF TypeOK, TablesTypeOK, UpdateStatus

\* A new row is a row.
LEMMA NewBookingType ==
    ASSUME NEW status \in BookingStatus, NEW svc \in Service,
           NEW slot \in Slot, NEW quantity \in Quantity,
           NEW from \in BookingId \cup {Null}
    PROVE  NewBooking(status, svc, slot, quantity, from) \in Booking
BY DEF NewBooking, Booking, maxRescheduleAttempts

USE DEF BookingStatus, ActiveStatus

LEMMA TypeStep ==
    ASSUME TypeOK, RequestsNameRows, [Next]_tables
    PROVE  TypeOK'
<1>1. CASE UNCHANGED tables
  BY <1>1 DEF TypeOK, TablesTypeOK, tables
<1>2. ASSUME NEW l \in LockId, NEW svc \in Service, NEW slot \in Slot,
             NEW q \in Quantity, LockSlot(l, svc, slot, q)
      PROVE  TypeOK'
  <2>1. [service |-> svc, slot |-> slot, quantity |-> q] \in Lock
    BY DEF Lock
  <2> QED
    BY <1>2, <2>1 DEF LockSlot, TypeOK, TablesTypeOK
<1>3. ASSUME NEW l \in LockId, ExpireLock(l)
      PROVE  TypeOK'
  BY <1>3 DEF ExpireLock, TypeOK, TablesTypeOK
<1>4. ASSUME NEW b \in BookingId, NEW l \in LockId, NEW slot \in Slot,
             NEW q \in Quantity, CreateBooking(b, l, slot, q)
      PROVE  TypeOK'
  <2>1. l \in LiveLocks
    BY <1>4 DEF CreateBooking
  <2>2. NewBooking("pending", locks[l].service, slot, q, Null) \in Booking
    BY <2>1, LockFields, NewBookingType
  <2> QED
    BY <1>4, <2>2 DEF CreateBooking, TypeOK, TablesTypeOK
<1>5. ASSUME NEW b \in BookingId,
             ConfirmPayment(b) \/ Approve(b) \/ Reject(b) \/ Cancel(b)
      PROVE  TypeOK'
  <2>1. bookings[b] # Null /\ UNCHANGED <<locks, requests>>
    BY <1>5 DEF ConfirmPayment, Approve, Reject, Cancel, StatusIs
  <2>2. \E status \in BookingStatus : UpdateStatus(b, status)
    BY <1>5 DEF ConfirmPayment, Approve, Reject, Cancel
  <2>3. bookings' \in [BookingId -> Booking \cup {Null}]
    BY <2>1, <2>2, UpdateStatusType
  <2> QED
    BY <2>1, <2>3 DEF TypeOK, TablesTypeOK
<1>6. ASSUME NEW b \in BookingId, NEW r \in RequestId, NEW slot \in Slot,
             RequestReschedule(b, r, slot)
      PROVE  TypeOK'
  <2>1. bookings[b] # Null /\ bookings[b].attempts < maxRescheduleAttempts
    BY <1>6 DEF RequestReschedule, StatusIs, AttemptsAllowed
  <2>2. bookings[b].attempts + 1 \in 0..maxRescheduleAttempts
    BY <2>1, BookingFields DEF maxRescheduleAttempts
  <2>3. [bookings[b] EXCEPT !.attempts = bookings[b].attempts + 1] \in Booking
    BY <2>1, <2>2, BookingFields DEF Booking
  <2>4. [booking |-> b, slot |-> slot, status |-> "pending"] \in Request
    BY DEF Request
  <2> QED
    BY <1>6, <2>3, <2>4
    DEF RequestReschedule, AttemptsAfterRequest, TypeOK, TablesTypeOK
<1>7. ASSUME NEW r \in RequestId, NEW new \in BookingId, ApproveReschedule(r, new)
      PROVE  TypeOK'
  <2> DEFINE orig == requests[r].booking
  <2>1. requests[r] # Null /\ bookings[new] = Null
    BY <1>7 DEF ApproveReschedule, IsPending, RequestExists
  <2>2. orig \in BookingId /\ bookings[orig] # Null /\ requests[r].slot \in Slot
    BY <2>1, RequestFields DEF RequestsNameRows
  <2>3. [requests[r] EXCEPT !.status = "approved"] \in Request
    BY <2>1, RequestFields DEF Request
  <2>4. [bookings[orig] EXCEPT !.status = "rescheduled"] \in Booking
    BY <2>2, BookingFields DEF Booking
  <2>5. NewBooking("confirmed", bookings[orig].service, requests[r].slot,
                   bookings[orig].quantity, orig) \in Booking
    BY <2>2, BookingFields, NewBookingType
  <2> QED
    BY <1>7, <2>2, <2>3, <2>4, <2>5
    DEF ApproveReschedule, TypeOK, TablesTypeOK
<1>8. ASSUME NEW r \in RequestId, RejectReschedule(r)
      PROVE  TypeOK'
  <2>1. requests[r] # Null
    BY <1>8 DEF RejectReschedule, IsPending, RequestExists
  <2>2. [requests[r] EXCEPT !.status = "rejected"] \in Request
    BY <2>1, RequestFields DEF Request
  <2> QED
    BY <1>8, <2>2 DEF RejectReschedule, TypeOK, TablesTypeOK
<1> QED
  BY <1>1, <1>2, <1>3, <1>4, <1>5, <1>6, <1>7, <1>8 DEF Next

-----------------------------------------------------------------------------
(* Rows stay, and what they claim stays.                                   *)

SameClaim(b) ==
    /\ bookings'[b] # Null
    /\ bookings'[b].service = bookings[b].service
    /\ bookings'[b].slot = bookings[b].slot
    /\ bookings'[b].quantity = bookings[b].quantity
    /\ bookings'[b].from = bookings[b].from

LEMMA UpdateStatusSameClaim ==
    ASSUME TypeOK, NEW c \in BookingId, bookings[c] # Null,
           NEW status \in BookingStatus, UpdateStatus(c, status),
           NEW b \in BookingId, bookings[b] # Null
    PROVE  SameClaim(b)
<1>1. [bookings[c] EXCEPT !.status = status] \in Booking
  BY BookingFields DEF Booking
<1> QED
  BY <1>1, BookingFields, NullIsNoRow
  DEF UpdateStatus, SameClaim, TypeOK, TablesTypeOK, Booking

\* No call deletes a booking or changes what it is a booking of.
LEMMA RowsKeepTheirClaim ==
    ASSUME TypeOK, RequestsNameRows, [Next]_tables,
           NEW b \in BookingId, bookings[b] # Null
    PROVE  SameClaim(b)
<1>1. CASE bookings' = bookings
  BY <1>1 DEF SameClaim
<1>2. ASSUME NEW c \in BookingId, NEW l \in LockId, NEW slot \in Slot,
             NEW q \in Quantity, CreateBooking(c, l, slot, q)
      PROVE  SameClaim(b)
  BY <1>2 DEF CreateBooking, SameClaim, TypeOK, TablesTypeOK
<1>3. ASSUME NEW c \in BookingId,
             ConfirmPayment(c) \/ Approve(c) \/ Reject(c) \/ Cancel(c)
      PROVE  SameClaim(b)
  <2>1. bookings[c] # Null
    BY <1>3 DEF ConfirmPayment, Approve, Reject, Cancel, StatusIs
  <2>2. \E status \in BookingStatus : UpdateStatus(c, status)
    BY <1>3 DEF ConfirmPayment, Approve, Reject, Cancel
  <2> QED
    BY <2>1, <2>2, UpdateStatusSameClaim
<1>4. ASSUME NEW c \in BookingId, NEW r \in RequestId, NEW slot \in Slot,
             RequestReschedule(c, r, slot)
      PROVE  SameClaim(b)
  <2>1. bookings[c] # Null /\ bookings[c].attempts < maxRescheduleAttempts
    BY <1>4 DEF RequestReschedule, StatusIs, AttemptsAllowed
  <2>2. bookings[c].attempts + 1 \in 0..maxRescheduleAttempts
    BY <2>1, BookingFields DEF maxRescheduleAttempts
  <2>3. [bookings[c] EXCEPT !.attempts = bookings[c].attempts + 1] \in Booking
    BY <2>1, <2>2, BookingFields DEF Booking
  <2> QED
    BY <1>4, <2>3, BookingFields, NullIsNoRow
    DEF RequestReschedule, AttemptsAfterRequest, SameClaim, TypeOK, TablesTypeOK,
        Booking
<1>5. ASSUME NEW r \in RequestId, NEW new \in BookingId, ApproveReschedule(r, new)
      PROVE  SameClaim(b)
  <2> DEFINE orig == requests[r].booking
  <2>1. requests[r] # Null /\ bookings[new] = Null
    BY <1>5 DEF ApproveReschedule, IsPending, RequestExists
  <2>2. orig \in BookingId /\ bookings[orig] # Null
    BY <2>1, RequestFields DEF RequestsNameRows
  <2>3. [bookings[orig] EXCEPT !.status = "rescheduled"] \in Booking
    BY <2>2, BookingFields DEF Booking
  <2> QED
    BY <1>5, <2>1, <2>2, <2>3, BookingFields, NullIsNoRow
    DEF ApproveReschedule, SameClaim, TypeOK, TablesTypeOK, Booking
<1>6. ASSUME [Next]_tables, bookings' # bookings
      PROVE  \/ \E c \in BookingId, l \in LockId, slot \in Slot, q \in Quantity :
                    CreateBooking(c, l, slot, q)
             \/ \E c \in BookingId :
                    ConfirmPayment(c) \/ Approve(c) \/ Reject(c) \/ Cancel(c)
             \/ \E c \in BookingId, r \in RequestId, slot \in Slot :
                    RequestReschedule(c, r, slot)
             \/ \E r \in RequestId, new \in BookingId : ApproveReschedule(r, new)
  BY <1>6 DEF Next, tables, LockSlot, ExpireLock, RejectReschedule
<1> QED
  BY <1>1, <1>2, <1>3, <1>4, <1>5, <1>6

\* A request is about the booking it was made for, for good.
LEMMA RequestsKeepTheirBooking ==
    ASSUME TypeOK, [Next]_tables, NEW r \in RequestId, requests[r] # Null
    PROVE  requests'[r].booking = requests[r].booking
<1>1. CASE requests' = requests
  BY <1>1
<1>2. ASSUME NEW c \in BookingId, NEW s \in RequestId, NEW slot \in Slot,
             RequestReschedule(c, s, slot)
      PROVE  requests'[r].booking = requests[r].booking
  BY <1>2 DEF RequestReschedule, TypeOK, TablesTypeOK
<1>3. ASSUME NEW s \in RequestId,
             RejectReschedule(s) \/ \E new \in BookingId : ApproveReschedule(s, new)
      PROVE  requests'[r].booking = requests[r].booking
  BY <1>3, RequestFields
  DEF RejectReschedule, ApproveReschedule, TypeOK, TablesTypeOK, Request
<1>4. ASSUME requests' # requests
      PROVE  \/ \E c \in BookingId, s \in RequestId, slot \in Slot :
                    RequestReschedule(c, s, slot)
             \/ \E s \in RequestId :
                    RejectReschedule(s)
                    \/ \E new \in BookingId : ApproveReschedule(s, new)
  BY <1>4 DEF Next, tables, LockSlot, ExpireLock, CreateBooking, ConfirmPayment,
              Approve, Reject, Cancel
<1> QED
  BY <1>1, <1>2, <1>3, <1>4

LEMMA RequestsNameRowsStep ==
    ASSUME TypeOK, RequestsNameRows, [Next]_tables
    PROVE  RequestsNameRows'
<1> SUFFICES ASSUME NEW r \in RequestId, requests'[r] # Null
             PROVE  bookings'[requests'[r].booking] # Null
  BY DEF RequestsNameRows
<1>1. CASE requests[r] # Null
  <2>1. requests[r].booking \in BookingId /\ bookings[requests[r].booking] # Null
    BY <1>1, RequestFields DEF RequestsNameRows
  <2> QED
    BY <1>1, <2>1, RowsKeepTheirClaim, RequestsKeepTheirBooking DEF SameClaim
<1>2. CASE requests[r] = Null
  <2>1. PICK c \in BookingId, slot \in Slot : RequestReschedule(c, r, slot)
    BY <1>2
    DEF Next, tables, LockSlot, ExpireLock, CreateBooking, ConfirmPayment,
        Approve, Reject, Cancel, RequestReschedule, ApproveReschedule,
        RejectReschedule, IsPending, RequestExists, TypeOK, TablesTypeOK
  <2>2. requests'[r].booking = c /\ bookings[c] # Null
    BY <2>1 DEF RequestReschedule, StatusIs, TypeOK, TablesTypeOK
  <2> QED
    BY <2>2, RowsKeepTheirClaim DEF SameClaim
<1> QED
  BY <1>1, <1>2

-----------------------------------------------------------------------------
(* Capacity.                                                               *)

ConfirmedAt(svc, t) == BookedAt({"confirmed"}, svc, t)

LEMMA QueriesFinite ==
    ASSUME NEW svc, NEW slot, NEW t, NEW excluded
    PROVE  /\ IsFiniteSet(ConfirmedAt(svc, t))
           /\ IsFiniteSet(ConfirmedAt(svc, t)')
           /\ IsFiniteSet(ActiveOverlap(svc, slot) \ excluded)
           /\ IsFiniteSet(LockOverlap(svc, slot))
<1>1. /\ ConfirmedAt(svc, t) \subseteq BookingId
      /\ ConfirmedAt(svc, t)' \subseteq BookingId
      /\ ActiveOverlap(svc, slot) \ excluded \subseteq BookingId
      /\ LockOverlap(svc, slot) \subseteq LockId
  BY DEF ConfirmedAt, BookedAt, InStatus, ActiveOverlap, LockOverlap, LiveLocks
<1> QED
  BY <1>1, TablesAssumption, FS_Subset

\* Whoever shares an instant with a slot overlaps it.
LEMMA CoversOverlaps ==
    ASSUME NEW s \in Slot, NEW u \in Slot, NEW t \in Time, Covers(s, t), Covers(u, t)
    PROVE  Overlaps(s, u)
<1>1. \A x \in Slot : x.start \in Time /\ x.end \in Time
  BY DEF Slot
<1>2. /\ s.start \in Int /\ s.end \in Int
      /\ u.start \in Int /\ u.end \in Int /\ t \in Int
  BY <1>1, TablesAssumption
<1> QED
  BY <1>2 DEF Covers, Overlaps

LEMMA SlotCheckBounds ==
    ASSUME NEW svc \in Service, NEW slot \in Slot, NEW quantity \in Quantity,
           NEW excluded, ~SlotConflict(svc, slot, quantity, excluded)
    PROVE  Sum(bookings, ActiveOverlap(svc, slot) \ excluded) + quantity
             <= Capacity[svc]
<1>1. /\ Sum(bookings, ActiveOverlap(svc, slot) \ excluded) \in Nat
      /\ Sum(locks, LockOverlap(svc, slot)) \in Nat
  BY QueriesFinite, SumType
<1>2. quantity \in Nat /\ Capacity[svc] \in Nat
  BY TablesAssumption DEF Quantity
<1> QED
  BY <1>1, <1>2 DEF SlotConflict

\* A step that confirms nothing new leaves every instant at most as loaded.
LEMMA NothingNewConfirmed ==
    ASSUME TypeOK, RequestsNameRows, ConfirmedWithinCapacity, [Next]_tables,
           NEW svc \in Service, NEW t \in Time,
           ConfirmedAt(svc, t)' \subseteq ConfirmedAt(svc, t)
    PROVE  Sum(bookings', ConfirmedAt(svc, t)') <= Capacity[svc]
<1> DEFINE C == ConfirmedAt(svc, t)
<1>1. IsFiniteSet(C) /\ IsFiniteSet(C')
  BY QueriesFinite
<1>2. \A b \in C' : bookings'[b].quantity = bookings[b].quantity
  BY RowsKeepTheirClaim DEF ConfirmedAt, BookedAt, InStatus, SameClaim
<1>3. Sum(bookings', C') = Sum(bookings, C')
  BY <1>2, SumSameQuantities
<1>4. Sum(bookings, C') <= Sum(bookings, C)
  BY <1>1, SumMonotone
<1>5. Sum(bookings, C) <= Capacity[svc]
  BY DEF ConfirmedWithinCapacity, ConfirmedAt
<1>6. /\ Sum(bookings, C) \in Nat /\ Sum(bookings, C') \in Nat
      /\ Capacity[svc] \in Nat
  BY <1>1, SumType, TablesAssumption
<1> HIDE DEF C
<1>7. Sum(bookings', C') <= Capacity[svc]
  BY <1>3, <1>4, <1>5, <1>6
<1> QED
  BY <1>7 DEF C

\* Approve counted every booking that was confirmed, and this one, before.
LEMMA ApproveKeepsCapacity ==
    ASSUME TypeOK, RequestsNameRows, ConfirmedWithinCapacity, [Next]_tables,
           NEW b \in BookingId, Approve(b), NEW svc \in Service, NEW t \in Time
    PROVE  Sum(bookings', ConfirmedAt(svc, t)') <= Capacity[svc]
<1> DEFINE row == bookings[b]
           A == ActiveOverlap(row.service, row.slot) \ {}
           C == ConfirmedAt(svc, t)
<1>1. row # Null /\ row.status = "awaiting_approval"
  BY DEF Approve, StatusIs
<1>2. /\ row.service \in Service /\ row.slot \in Slot
      /\ row.quantity \in Quantity
  BY <1>1, BookingFields
<1>3. bookings' = [bookings EXCEPT ![b].status = "confirmed"]
  BY DEF Approve, UpdateStatus
<1>4. CASE svc = row.service /\ Covers(row.slot, t)
  <2>1. Sum(bookings, A) + row.quantity <= Capacity[svc]
    BY <1>2, <1>4, SlotCheckBounds DEF Approve, ApproveConflict
  <2>2. \A c \in BookingId : bookings'[c] # Null => bookings[c] # Null
    BY <1>1, <1>3 DEF TypeOK, TablesTypeOK
  <2>3. \A c \in C' : /\ c \in BookingId /\ bookings[c] # Null
                       /\ bookings[c].service = svc
                       /\ Covers(bookings[c].slot, t)
                       /\ bookings[c].status \in ActiveStatus
    <3> SUFFICES ASSUME NEW c \in C'
                 PROVE  /\ c \in BookingId /\ bookings[c] # Null
                        /\ bookings[c].service = svc
                        /\ Covers(bookings[c].slot, t)
                        /\ bookings[c].status \in ActiveStatus
      OBVIOUS
    <3>1. /\ c \in BookingId /\ bookings[c] # Null
          /\ bookings'[c].service = svc /\ Covers(bookings'[c].slot, t)
          /\ bookings'[c].status = "confirmed"
      BY <2>2 DEF ConfirmedAt, BookedAt, InStatus, Covers
    <3>2. SameClaim(c)
      BY <3>1, RowsKeepTheirClaim
    <3>3. bookings[c].status \in ActiveStatus
      BY <1>1, <1>3, <3>1 DEF TypeOK, TablesTypeOK
    <3> QED
      BY <3>1, <3>2, <3>3 DEF SameClaim
  <2>4. C' \subseteq A
    <3> SUFFICES ASSUME NEW c \in C' PROVE c \in A
      OBVIOUS
    <3>1. Overlaps(bookings[c].slot, row.slot)
      BY <1>2, <1>4, <2>3, CoversOverlaps, BookingFields
    <3> QED
      BY <1>4, <2>3, <3>1 DEF ActiveOverlap, InStatus
  <2>5. \A c \in C' : bookings'[c].quantity = bookings[c].quantity
    BY <2>3, RowsKeepTheirClaim DEF SameClaim
  <2>6. Sum(bookings', C') = Sum(bookings, C')
    BY <2>5, SumSameQuantities
  <2>7. IsFiniteSet(A) /\ IsFiniteSet(C')
    BY QueriesFinite
  <2>8. Sum(bookings, C') <= Sum(bookings, A)
    BY <2>4, <2>7, SumMonotone
  <2>9. /\ Sum(bookings, A) \in Nat /\ Sum(bookings, C') \in Nat
        /\ Capacity[svc] \in Nat /\ row.quantity \in Nat
    BY <1>2, <2>7, SumType, TablesAssumption DEF Quantity
  <2> HIDE DEF A, C, row
  <2>10. Sum(bookings', C') <= Capacity[svc]
    BY <2>1, <2>6, <2>8, <2>9
  <2> QED
    BY <2>10 DEF C
<1>5. CASE ~(svc = row.service /\ Covers(row.slot, t))
  <2>1. C' \subseteq C
    BY <1>1, <1>3, <1>5
    DEF ConfirmedAt, BookedAt, InStatus, Covers, TypeOK, TablesTypeOK, Booking
  <2> QED
    BY <2>1, NothingNewConfirmed
<1> QED
  BY <1>4, <1>5

\* ApproveReschedule counted every booking that was confirmed but the one it
\* replaces, which stops being confirmed, and added the new one's quantity.
LEMMA ApproveRescheduleKeepsCapacity ==
    ASSUME TypeOK, RequestsNameRows, ConfirmedWithinCapacity, [Next]_tables,
           NEW r \in RequestId, NEW new \in BookingId, ApproveReschedule(r, new),
           NEW svc \in Service, NEW t \in Time
    PROVE  Sum(bookings', ConfirmedAt(svc, t)') <= Capacity[svc]
<1> DEFINE orig == requests[r].booking
           slot == requests[r].slot
           row  == bookings[orig]
           A == ActiveOverlap(row.service, slot) \ {orig}
           C == ConfirmedAt(svc, t)
<1>1. requests[r] # Null /\ bookings[new] = Null
  BY DEF ApproveReschedule, IsPending, RequestExists
<1>2. /\ orig \in BookingId /\ row # Null /\ slot \in Slot
      /\ row.service \in Service /\ row.quantity \in Quantity
  BY <1>1, RequestFields, BookingFields DEF RequestsNameRows
<1>3. /\ bookings' = [bookings EXCEPT
            ![orig].status = "rescheduled",
            ![new] = NewBooking("confirmed", row.service, slot, row.quantity, orig)]
      /\ orig # new
  BY <1>1, <1>2 DEF ApproveReschedule
<1>4. /\ bookings'[new].status = "confirmed" /\ bookings'[new].service = row.service
      /\ bookings'[new].slot = slot /\ bookings'[new].quantity = row.quantity
  BY <1>3 DEF NewBooking, TypeOK, TablesTypeOK
<1>5. \A c \in C' \ {new} : /\ c \in C /\ c # orig /\ SameClaim(c)
  <2> SUFFICES ASSUME NEW c \in C' \ {new}
               PROVE  c \in C /\ c # orig /\ SameClaim(c)
    OBVIOUS
  <2>1. /\ c \in BookingId /\ c # new /\ bookings'[c] # Null
        /\ bookings'[c].status = "confirmed"
        /\ bookings'[c].service = svc /\ Covers(bookings'[c].slot, t)
    BY DEF ConfirmedAt, BookedAt, InStatus, Covers
  <2>2. c # orig
    BY <1>2, <1>3, <2>1, BookingFields DEF TypeOK, TablesTypeOK, Booking
  <2>3. bookings'[c] = bookings[c]
    BY <1>3, <2>1, <2>2 DEF TypeOK, TablesTypeOK
  <2> QED
    BY <2>1, <2>2, <2>3 DEF ConfirmedAt, BookedAt, InStatus, SameClaim
<1>6. CASE svc = row.service /\ Covers(slot, t)
  <2>1. Sum(bookings, A) + row.quantity <= Capacity[svc]
    BY <1>2, <1>6, SlotCheckBounds DEF ApproveReschedule, RescheduleConflict
  <2>2. C' \ {new} \subseteq A
    <3> SUFFICES ASSUME NEW c \in C' \ {new} PROVE c \in A
      OBVIOUS
    <3>1. /\ c \in BookingId /\ bookings[c] # Null /\ c # orig
          /\ bookings[c].status = "confirmed"
          /\ bookings[c].service = svc /\ Covers(bookings[c].slot, t)
      BY <1>5 DEF ConfirmedAt, BookedAt, InStatus
    <3>2. Overlaps(bookings[c].slot, slot)
      BY <1>2, <1>6, <3>1, CoversOverlaps, BookingFields
    <3> QED
      BY <1>6, <3>1, <3>2 DEF ActiveOverlap, InStatus
  <2>3. \A c \in C' \ {new} : bookings'[c].quantity = bookings[c].quantity
    BY <1>5 DEF SameClaim
  <2>4. Sum(bookings', C' \ {new}) = Sum(bookings, C' \ {new})
    BY <2>3, SumSameQuantities
  <2>5. IsFiniteSet(A) /\ IsFiniteSet(C') /\ IsFiniteSet(C' \ {new})
    BY QueriesFinite, FS_Subset
  <2>6. Sum(bookings, C' \ {new}) <= Sum(bookings, A)
    BY <2>2, <2>5, SumMonotone
  <2>7. Sum(bookings', (C' \ {new}) \cup {new})
          <= Sum(bookings', C' \ {new}) + row.quantity
    BY <1>2, <1>4, <2>5, SumAddRow
  <2>8. /\ C' \subseteq (C' \ {new}) \cup {new}
        /\ IsFiniteSet((C' \ {new}) \cup {new})
    BY <2>5, FS_AddElement
  <2>9. Sum(bookings', C') <= Sum(bookings', (C' \ {new}) \cup {new})
    BY <2>8, SumMonotone
  <2>10. /\ Sum(bookings, A) \in Nat /\ Sum(bookings', C') \in Nat
         /\ Sum(bookings, C' \ {new}) \in Nat
         /\ Sum(bookings', (C' \ {new}) \cup {new}) \in Nat
         /\ Capacity[svc] \in Nat /\ row.quantity \in Nat
    BY <1>2, <2>5, <2>8, SumType, TablesAssumption DEF Quantity
  <2> HIDE DEF A, C, row
  <2>11. Sum(bookings', C') <= Capacity[svc]
    BY <2>1, <2>4, <2>6, <2>7, <2>9, <2>10
  <2> QED
    BY <2>11 DEF C
<1>7. CASE ~(svc = row.service /\ Covers(slot, t))
  <2>1. new \notin C'
    BY <1>4, <1>7 DEF ConfirmedAt, BookedAt, InStatus, Covers
  <2>2. C' \subseteq C
    BY <1>5, <2>1
  <2> QED
    BY <2>2, NothingNewConfirmed
<1> QED
  BY <1>6, <1>7

\* Only Approve and ApproveReschedule confirm a booking.
LEMMA OnlyApprovalsConfirm ==
    ASSUME TypeOK, RequestsNameRows, [Next]_tables,
           \A b \in BookingId : ~Approve(b),
           \A r \in RequestId, new \in BookingId : ~ApproveReschedule(r, new),
           NEW b \in BookingId, StatusIs(b, "confirmed")'
    PROVE  StatusIs(b, "confirmed")
<1>1. CASE bookings' = bookings
  BY <1>1 DEF StatusIs
<1>2. ASSUME NEW c \in BookingId, NEW l \in LockId, NEW slot \in Slot,
             NEW q \in Quantity, CreateBooking(c, l, slot, q)
      PROVE  StatusIs(b, "confirmed")
  BY <1>2 DEF CreateBooking, NewBooking, StatusIs, TypeOK, TablesTypeOK
<1>3. ASSUME NEW c \in BookingId, ConfirmPayment(c) \/ Reject(c) \/ Cancel(c)
      PROVE  StatusIs(b, "confirmed")
  <2>1. bookings[c] # Null
    BY <1>3 DEF ConfirmPayment, Reject, Cancel, StatusIs
  <2>2. PICK status \in BookingStatus \ {"confirmed"} : UpdateStatus(c, status)
    BY <1>3 DEF ConfirmPayment, Reject, Cancel
  <2>3. CASE b = c
    BY <2>1, <2>2, <2>3, BookingFields
    DEF UpdateStatus, StatusIs, TypeOK, TablesTypeOK, Booking
  <2>4. CASE b # c
    BY <2>2, <2>4 DEF UpdateStatus, StatusIs, TypeOK, TablesTypeOK
  <2> QED
    BY <2>3, <2>4
<1>4. ASSUME NEW c \in BookingId, NEW r \in RequestId, NEW slot \in Slot,
             RequestReschedule(c, r, slot)
      PROVE  StatusIs(b, "confirmed")
  BY <1>4, BookingFields DEF RequestReschedule, StatusIs, TypeOK, TablesTypeOK, Booking
<1>5. ASSUME bookings' # bookings
      PROVE  \/ \E c \in BookingId, l \in LockId, slot \in Slot, q \in Quantity :
                    CreateBooking(c, l, slot, q)
             \/ \E c \in BookingId : ConfirmPayment(c) \/ Reject(c) \/ Cancel(c)
             \/ \E c \in BookingId, r \in RequestId, slot \in Slot :
                    RequestReschedule(c, r, slot)
  BY <1>5 DEF Next, tables, LockSlot, ExpireLock, RejectReschedule
<1> QED
  BY <1>1, <1>2, <1>3, <1>4, <1>5

LEMMA OthersKeepCapacity ==
    ASSUME TypeOK, RequestsNameRows, ConfirmedWithinCapacity, [Next]_tables,
           \A b \in BookingId : ~Approve(b),
           \A r \in RequestId, new \in BookingId : ~ApproveReschedule(r, new),
           NEW svc \in Service, NEW t \in Time
    PROVE  Sum(bookings', ConfirmedAt(svc, t)') <= Capacity[svc]
<1> SUFFICES ASSUME NEW b \in ConfirmedAt(svc, t)'
             PROVE  b \in ConfirmedAt(svc, t)
  BY NothingNewConfirmed
<1>1. /\ b \in BookingId /\ StatusIs(b, "confirmed")'
      /\ bookings'[b].service = svc /\ Covers(bookings'[b].slot, t)
  BY DEF ConfirmedAt, BookedAt, InStatus, StatusIs, Covers
<1>2. StatusIs(b, "confirmed")
  BY <1>1, OnlyApprovalsConfirm
<1>3. SameClaim(b)
  BY <1>1, <1>2, RowsKeepTheirClaim DEF StatusIs
<1> QED
  BY <1>1, <1>2, <1>3 DEF ConfirmedAt, BookedAt, InStatus, StatusIs, SameClaim

LEMMA CapacityStep ==
    ASSUME CapacityInv, [Next]_tables
    PROVE  ConfirmedWithinCapacity'
<1> SUFFICES ASSUME NEW svc \in Service, NEW t \in Time
             PROVE  Sum(bookings', ConfirmedAt(svc, t)') <= Capacity[svc]
  BY DEF ConfirmedWithinCapacity, ConfirmedAt
<1> USE DEF CapacityInv
<1>1. CASE \E b \in BookingId : Approve(b)
  BY <1>1, ApproveKeepsCapacity
<1>2. CASE \E r \in RequestId, new \in BookingId : ApproveReschedule(r, new)
  BY <1>2, ApproveRescheduleKeepsCapacity
<1> QED
  BY <1>1, <1>2, OthersKeepCapacity

LEMMA CapacityInit == Init => CapacityInv
<1> SUFFICES ASSUME Init PROVE CapacityInv
  OBVIOUS
<1>1. TypeOK /\ RequestsNameRows
  BY DEF Init, TablesInit, TypeOK, TablesTypeOK, RequestsNameRows
<1>2. ASSUME NEW svc \in Service, NEW t \in Time
      PROVE  Sum(bookings, ConfirmedAt(svc, t)) <= Capacity[svc]
  <2>1. ConfirmedAt(svc, t) = {}
    BY DEF Init, TablesInit, ConfirmedAt, BookedAt, InStatus
  <2>2. Units(bookings, {}) = {}
    BY DEF Units
  <2>3. Sum(bookings, {}) = 0
    BY <2>2, FS_EmptySet DEF Sum
  <2> QED
    BY <2>1, <2>3, TablesAssumption
<1> QED
  BY <1>1, <1>2 DEF CapacityInv, ConfirmedWithinCapacity, ConfirmedAt

LEMMA CapacityInvariant == Spec => []CapacityInv
<1>1. CapacityInv /\ [Next]_tables => CapacityInv'
  BY TypeStep, RequestsNameRowsStep, CapacityStep DEF CapacityInv
<1> QED
  BY CapacityInit, <1>1, PTL DEF Spec

\* Type correctness: every row is a row of its table in every state.
THEOREM TypeCorrect == Spec => []TypeOK
BY CapacityInvariant, PTL DEF CapacityInv

\* Whatever the calls and their order, at no instant do the confirmed bookings
\* of a service take more units than it has, as long as the calls run one at a
\* time: the re-checks of Approve and ApproveReschedule are enough.
THEOREM ConfirmedNeverOverbook == Spec => []ConfirmedWithinCapacity
BY CapacityInvariant, PTL DEF CapacityInv

\* A booking that takes more than half of its service's units for some time.
TakesMoreThanHalf(b) ==
    /\ bookings[b].slot.start < bookings[b].slot.end
    /\ bookings[b].quantity + bookings[b].quantity > Capacity[bookings[b].service]

\* The re-check of Approve finds the booking it is about among the active ones
\* and adds its quantity to itself.
LEMMA RecheckCountsItself ==
    ASSUME TypeOK, NEW b \in BookingId, StatusIs(b, "awaiting_approval"),
           TakesMoreThanHalf(b)
    PROVE  ~Approve(b)
<1> DEFINE row == bookings[b]
           A == ActiveOverlap(row.service, row.slot) \ {}
<1>1. /\ row.service \in Service /\ row.slot \in Slot /\ row.quantity \in Quantity
  BY BookingFields DEF StatusIs
<1>2. {b} \subseteq A
  <2>1. b \in InStatus(ActiveStatus)
    BY DEF InStatus, ActiveStatus, StatusIs
  <2>2. Overlaps(row.slot, row.slot)
    BY DEF TakesMoreThanHalf, Overlaps
  <2> QED
    BY <2>1, <2>2 DEF ActiveOverlap
<1>3. IsFiniteSet(A)
  BY QueriesFinite
<1>4. Sum(bookings, {b}) = row.quantity
  BY <1>1, SumSingleton
<1>5. row.quantity <= Sum(bookings, A)
  BY <1>2, <1>3, <1>4, SumMonotone
<1>6. Sum(bookings, A) \in Nat /\ row.quantity \in Nat /\ Capacity[row.service] \in Nat
  BY <1>1, <1>3, SumType, TablesAssumption DEF Quantity
<1>7. ASSUME Approve(b) PROVE FALSE
  <2>1. ~SlotConflict(row.service, row.slot, row.quantity, {})
    BY <1>7 DEF Approve, ApproveConflict
  <2>2. Sum(bookings, A) + row.quantity <= Capacity[row.service]
    BY <1>1, <2>1, SlotCheckBounds
  <2>3. row.quantity + row.quantity > Capacity[row.service]
    BY DEF TakesMoreThanHalf
  <2> HIDE DEF A, row
  <2> QED
    BY <1>5, <1>6, <2>2, <2>3
<1> QED
  BY <1>7

\* A booking that takes more than half of its service's units is never
\* approved, however empty the calendar: the only booking of a tennis court
\* with one unit waits for ever.  The comment at service.go:132 means the
\* re-check for another booking that landed meanwhile.
THEOREM LargeBookingsNeverApproved ==
    Spec => [][\A b \in BookingId :
                 StatusIs(b, "awaiting_approval") /\ TakesMoreThanHalf(b)
                     => ~StatusIs(b, "confirmed")']_tables
<1>1. ASSUME CapacityInv, [Next]_tables
      PROVE  \A b \in BookingId :
                 StatusIs(b, "awaiting_approval") /\ TakesMoreThanHalf(b)
                     => ~StatusIs(b, "confirmed")'
  <2> SUFFICES ASSUME NEW b \in BookingId, StatusIs(b, "awaiting_approval"),
                      TakesMoreThanHalf(b), StatusIs(b, "confirmed")'
               PROVE  FALSE
    OBVIOUS
  <2> USE <1>1 DEF CapacityInv
  <2>1. ~Approve(b)
    BY RecheckCountsItself
  <2>2. bookings[b] # Null /\ bookings[b].status = "awaiting_approval"
    BY DEF StatusIs
  <2>3. ASSUME NEW c \in BookingId, Approve(c) PROVE FALSE
    <3>1. c # b
      BY <2>1, <2>3
    <3>2. bookings'[b] = bookings[b]
      BY <2>3, <3>1 DEF Approve, UpdateStatus, TypeOK, TablesTypeOK
    <3> QED
      BY <2>2, <3>2 DEF StatusIs
  <2>4. ASSUME NEW r \in RequestId, NEW new \in BookingId, ApproveReschedule(r, new)
        PROVE  FALSE
    <3> DEFINE orig == requests[r].booking
    <3>1. orig \in BookingId /\ new # b /\ bookings[orig] # Null
      BY <2>2, <2>4, RequestFields
      DEF ApproveReschedule, IsPending, RequestExists, RequestsNameRows
    <3>2. [bookings[orig] EXCEPT !.status = "rescheduled"].status = "rescheduled"
      BY <3>1, BookingFields DEF Booking
    <3>3. \/ bookings'[b] = bookings[b]
          \/ bookings'[b] = [bookings[orig] EXCEPT !.status = "rescheduled"]
      BY <2>4, <3>1 DEF ApproveReschedule, TypeOK, TablesTypeOK
    <3> QED
      BY <2>2, <3>2, <3>3 DEF StatusIs
  <2>5. StatusIs(b, "confirmed")
    BY <2>3, <2>4, OnlyApprovalsConfirm
  <2> QED
    BY <2>2, <2>5 DEF StatusIs
<1>2. (\A b \in BookingId :
            StatusIs(b, "awaiting_approval") /\ TakesMoreThanHalf(b)
                => ~StatusIs(b, "confirmed")')
      => [\A b \in BookingId :
            StatusIs(b, "awaiting_approval") /\ TakesMoreThanHalf(b)
                => ~StatusIs(b, "confirmed")']_tables
  OBVIOUS
<1> QED
  BY <1>1, <1>2, CapacityInvariant, PTL DEF Spec

-----------------------------------------------------------------------------
(* The ledger.                                                             *)

ClaimOf(b) == [service  |-> bookings[b].service,
               slot     |-> bookings[b].slot,
               quantity |-> bookings[b].quantity]

LEMMA ClaimType ==
    ASSUME TypeOK, NEW b \in BookingId, bookings[b] # Null
    PROVE  ClaimOf(b) \in Ledger!Claim /\ ClaimOf(b) # Null
<1>1. /\ bookings[b].service \in Service /\ bookings[b].slot \in Slot
      /\ bookings[b].quantity \in Quantity
  BY BookingFields
<1>2. ClaimOf(b) \in Lock
  BY <1>1 DEF ClaimOf, Lock
<1>3. Ledger!Claim = Lock
  BY DEF Ledger!Claim, Ledger!Slot, Lock, Slot, Quantity
<1> QED
  BY <1>2, <1>3, NullIsNoRow

LEMMA HeldOf ==
    ASSUME NEW b \in BookingId
    PROVE  HeldClaims[b] = IF StatusIs(b, "confirmed") THEN ClaimOf(b) ELSE Null
BY DEF HeldClaims, ClaimOf

LEMMA HeldIsFunction ==
    /\ HeldClaims = [b \in BookingId |-> HeldClaims[b]]
    /\ HeldClaims' = [b \in BookingId |-> HeldClaims'[b]]
BY DEF HeldClaims

\* The instance has a Cardinality of its own, defined by the same words.
LEMMA LedgerCardinality == \A S : Ledger!Cardinality(S) = Cardinality(S)
BY DEF Ledger!Cardinality, Cardinality

\* The ledger counts what ConfirmedWithinCapacity counts.
LEMMA LedgerWithinCapacity ==
    ASSUME TypeOK, ConfirmedWithinCapacity
    PROVE  Ledger!WithinCapacity(HeldClaims)
<1> SUFFICES ASSUME NEW svc \in Service, NEW t \in Time
             PROVE  Cardinality(Ledger!UnitsHeld(HeldClaims,
                        Ledger!HoldersAt(HeldClaims, svc, t))) <= Capacity[svc]
  BY LedgerCardinality DEF Ledger!WithinCapacity
<1> DEFINE C == ConfirmedAt(svc, t)
           H == Ledger!HoldersAt(HeldClaims, svc, t)
<1>1. \A b \in BookingId : b \in H <=> b \in C
  <2> SUFFICES ASSUME NEW b \in BookingId PROVE b \in H <=> b \in C
    OBVIOUS
  <2>1. b \in H <=> /\ HeldClaims[b] # Null /\ HeldClaims[b].service = svc
                    /\ Covers(HeldClaims[b].slot, t)
    BY DEF Ledger!HoldersAt, Ledger!Covers, Covers
  <2>2. b \in C <=> /\ StatusIs(b, "confirmed") /\ bookings[b].service = svc
                    /\ Covers(bookings[b].slot, t)
    BY DEF ConfirmedAt, BookedAt, InStatus, StatusIs
  <2>3. CASE StatusIs(b, "confirmed")
    <3>1. HeldClaims[b] = ClaimOf(b)
      BY <2>3, HeldOf
    <3>2. ClaimOf(b) # Null
      BY <2>3, ClaimType DEF StatusIs
    <3> HIDE DEF C, H
    <3> QED
      BY <2>1, <2>2, <2>3, <3>1, <3>2 DEF ClaimOf
  <2>4. CASE ~StatusIs(b, "confirmed")
    BY <2>1, <2>2, <2>4, HeldOf
  <2> QED
    BY <2>3, <2>4
<1>2. H = C /\ C \subseteq BookingId
  BY <1>1 DEF Ledger!HoldersAt, ConfirmedAt, BookedAt, InStatus
<1>3. \A b \in C : HeldClaims[b].quantity = bookings[b].quantity
  <2> SUFFICES ASSUME NEW b \in C
               PROVE  HeldClaims[b].quantity = bookings[b].quantity
    OBVIOUS
  <2>1. b \in BookingId /\ StatusIs(b, "confirmed")
    BY DEF ConfirmedAt, BookedAt, InStatus, StatusIs
  <2>2. HeldClaims[b] = ClaimOf(b)
    BY <2>1, HeldOf
  <2> QED
    BY <2>2 DEF ClaimOf
<1>4. Ledger!UnitsHeld(HeldClaims, H) = Units(bookings, C)
  BY <1>2, <1>3 DEF Ledger!UnitsHeld, Units, Quantity
<1> QED
  BY <1>4 DEF ConfirmedWithinCapacity, Sum, ConfirmedAt

\* A booking whose row keeps its claim and its being confirmed holds the same.
LEMMA HeldUnchanged ==
    ASSUME TypeOK, RequestsNameRows, [Next]_tables, NEW b \in BookingId,
           StatusIs(b, "confirmed")' <=> StatusIs(b, "confirmed")
    PROVE  HeldClaims'[b] = HeldClaims[b]
<1>1. CASE StatusIs(b, "confirmed")
  <2>1. SameClaim(b)
    BY <1>1, RowsKeepTheirClaim DEF StatusIs
  <2>2. ClaimOf(b)' = ClaimOf(b)
    BY <2>1 DEF ClaimOf, SameClaim
  <2> QED
    BY <1>1, <2>2 DEF HeldClaims, ClaimOf
<1>2. CASE ~StatusIs(b, "confirmed")
  BY <1>2 DEF HeldClaims
<1> QED
  BY <1>1, <1>2

\* Only Cancel and ApproveReschedule end a confirmed booking.
LEMMA OnlyTheseRelease ==
    ASSUME TypeOK, RequestsNameRows, [Next]_tables,
           \A b \in BookingId : ~Cancel(b),
           \A r \in RequestId, new \in BookingId : ~ApproveReschedule(r, new),
           NEW b \in BookingId, StatusIs(b, "confirmed")
    PROVE  StatusIs(b, "confirmed")'
<1>1. SameClaim(b)
  BY RowsKeepTheirClaim DEF StatusIs
<1>2. bookings'[b].status = bookings[b].status
  <2>1. CASE bookings' = bookings
    BY <2>1
  <2>2. ASSUME NEW c \in BookingId, NEW l \in LockId, NEW slot \in Slot,
               NEW q \in Quantity, CreateBooking(c, l, slot, q)
        PROVE  bookings'[b].status = bookings[b].status
    BY <2>2 DEF CreateBooking, StatusIs, TypeOK, TablesTypeOK
  <2>3. ASSUME NEW c \in BookingId, ConfirmPayment(c) \/ Approve(c) \/ Reject(c)
        PROVE  bookings'[b].status = bookings[b].status
    <3>1. ~StatusIs(c, "confirmed")
      BY <2>3 DEF ConfirmPayment, Approve, Reject, StatusIs
    <3> QED
      BY <2>3, <3>1
      DEF ConfirmPayment, Approve, Reject, UpdateStatus, TypeOK, TablesTypeOK
  <2>4. ASSUME NEW c \in BookingId, NEW r \in RequestId, NEW slot \in Slot,
               RequestReschedule(c, r, slot)
        PROVE  bookings'[b].status = bookings[b].status
    BY <2>4, BookingFields DEF RequestReschedule, StatusIs, TypeOK, TablesTypeOK, Booking
  <2>5. ASSUME bookings' # bookings
        PROVE  \/ \E c \in BookingId, l \in LockId, slot \in Slot, q \in Quantity :
                      CreateBooking(c, l, slot, q)
               \/ \E c \in BookingId : ConfirmPayment(c) \/ Approve(c) \/ Reject(c)
               \/ \E c \in BookingId, r \in RequestId, slot \in Slot :
                      RequestReschedule(c, r, slot)
    BY <2>5 DEF Next, tables, LockSlot, ExpireLock, RejectReschedule
  <2> QED
    BY <2>1, <2>2, <2>3, <2>4, <2>5
<1> QED
  BY <1>1, <1>2 DEF StatusIs, SameClaim

\* Every state of the ledger honours the capacities.
HeldWithinCapacity == Ledger!WithinCapacity(HeldClaims)

LEMMA LedgerApprove ==
    ASSUME CapacityInv, HeldWithinCapacity', [Next]_tables,
           NEW b \in BookingId, Approve(b)
    PROVE  Ledger!Take(b, ClaimOf(b)) /\ ClaimOf(b) \in Ledger!Claim
<1>1. /\ bookings[b] # Null /\ ~StatusIs(b, "confirmed") /\ TypeOK
      /\ bookings' = [bookings EXCEPT ![b].status = "confirmed"]
  BY DEF Approve, StatusIs, UpdateStatus, CapacityInv
<1>2. HeldClaims[b] = Null
  BY <1>1 DEF HeldClaims
<1>3. \A c \in BookingId \ {b} : HeldClaims'[c] = HeldClaims[c]
  BY <1>1 DEF HeldClaims, StatusIs, TypeOK, TablesTypeOK
<1>4. HeldClaims'[b] = ClaimOf(b)
  <2>1. SameClaim(b)
    BY <1>1, RowsKeepTheirClaim DEF CapacityInv
  <2>2. bookings'[b].status = "confirmed"
    BY <1>1, BookingFields DEF TypeOK, TablesTypeOK, Booking
  <2> QED
    BY <2>1, <2>2 DEF HeldClaims, StatusIs, SameClaim, ClaimOf
<1>5. HeldClaims' = [HeldClaims EXCEPT ![b] = ClaimOf(b)]
  BY <1>3, <1>4 DEF HeldClaims
<1> QED
  BY <1>1, <1>2, <1>5, ClaimType DEF Ledger!Take, HeldWithinCapacity

LEMMA LedgerCancel ==
    ASSUME CapacityInv, [Next]_tables, NEW b \in BookingId, Cancel(b)
    PROVE  Ledger!Release(b)
<1>1. /\ bookings[b] # Null /\ TypeOK
      /\ bookings' = [bookings EXCEPT ![b].status = "cancelled"]
  BY DEF Cancel, StatusIs, UpdateStatus, CapacityInv
<1>2. \A c \in BookingId \ {b} : HeldClaims'[c] = HeldClaims[c]
  BY <1>1 DEF HeldClaims, StatusIs, TypeOK, TablesTypeOK
<1>3. HeldClaims'[b] = Null
  <2>1. bookings'[b].status = "cancelled"
    BY <1>1, BookingFields DEF TypeOK, TablesTypeOK, Booking
  <2> QED
    BY <2>1 DEF HeldClaims, StatusIs
<1>4. HeldClaims' = [HeldClaims EXCEPT ![b] = Null]
  BY <1>2, <1>3 DEF HeldClaims
<1> QED
  BY <1>4 DEF Ledger!Release

\* A confirmed original hands its claim over.  An original that was cancelled
\* holds nothing, and its replacement takes a claim nobody gave up.
LEMMA LedgerApproveReschedule ==
    ASSUME CapacityInv, HeldWithinCapacity', [Next]_tables,
           NEW r \in RequestId, NEW new \in BookingId, ApproveReschedule(r, new)
    PROVE  Ledger!Next
<1> DEFINE orig == requests[r].booking
           c == [service  |-> bookings[orig].service, slot |-> requests[r].slot,
                 quantity |-> bookings[orig].quantity]
<1>1. requests[r] # Null /\ bookings[new] = Null /\ TypeOK
  BY DEF ApproveReschedule, IsPending, RequestExists, CapacityInv
<1>2. orig \in BookingId /\ bookings[orig] # Null /\ orig # new
  BY <1>1, RequestFields DEF CapacityInv, RequestsNameRows
<1>3. bookings' = [bookings EXCEPT
          ![orig].status = "rescheduled",
          ![new] = NewBooking("confirmed", bookings[orig].service, requests[r].slot,
                              bookings[orig].quantity, orig)]
  BY DEF ApproveReschedule
<1>4. c \in Ledger!Claim
  BY <1>1, <1>2, RequestFields, BookingFields
  DEF Ledger!Claim, Ledger!Slot, Slot, Quantity
<1>5. HeldClaims[new] = Null
  BY <1>1 DEF HeldClaims, StatusIs
<1>6. \A x \in BookingId \ {orig, new} : HeldClaims'[x] = HeldClaims[x]
  <2>1. \A x \in BookingId \ {orig, new} : bookings'[x] = bookings[x]
    BY <1>1, <1>3 DEF TypeOK, TablesTypeOK
  <2> QED
    BY <2>1 DEF HeldClaims, StatusIs
<1>7. HeldClaims'[orig] = Null
  <2>1. bookings'[orig].status = "rescheduled"
    BY <1>1, <1>2, <1>3, BookingFields DEF TypeOK, TablesTypeOK, Booking
  <2> QED
    BY <1>2, <2>1 DEF HeldClaims, StatusIs
<1>8. HeldClaims'[new] = c
  <2>1. /\ bookings'[new].status = "confirmed"
        /\ bookings'[new].service = bookings[orig].service
        /\ bookings'[new].slot = requests[r].slot
        /\ bookings'[new].quantity = bookings[orig].quantity
    BY <1>1, <1>2, <1>3 DEF NewBooking, TypeOK, TablesTypeOK
  <2>2. bookings'[new] # Null
    BY <1>1, <1>2, <1>3, BookingFields, RequestFields, NewBookingType, NullIsNoRow
    DEF TypeOK, TablesTypeOK
  <2> QED
    BY <2>1, <2>2 DEF HeldClaims, StatusIs
<1> HIDE DEF c
<1>9. CASE StatusIs(orig, "confirmed")
  <2>1. HeldClaims[orig] # Null
    BY <1>1, <1>2, <1>9, HeldOf, ClaimType
  <2>2. HeldClaims' = [HeldClaims EXCEPT ![orig] = Null, ![new] = c]
    BY <1>2, <1>6, <1>7, <1>8, HeldIsFunction
  <2>3. Ledger!HandOver(orig, new, c)
    BY <1>5, <2>1, <2>2 DEF Ledger!HandOver, HeldWithinCapacity
  <2> QED
    BY <1>2, <1>4, <2>3 DEF Ledger!Next
<1>10. CASE ~StatusIs(orig, "confirmed")
  <2>1. HeldClaims[orig] = Null
    BY <1>2, <1>10, HeldOf
  <2>2. HeldClaims' = [HeldClaims EXCEPT ![new] = c]
    BY <1>2, <1>6, <1>7, <1>8, <2>1, HeldIsFunction
  <2>3. Ledger!Take(new, c)
    BY <1>5, <2>2 DEF Ledger!Take, HeldWithinCapacity
  <2> QED
    BY <1>4, <2>3 DEF Ledger!Next
<1> QED
  BY <1>9, <1>10

LEMMA LedgerStep ==
    ASSUME CapacityInv, HeldWithinCapacity', [Next]_tables
    PROVE  [Ledger!Next]_HeldClaims
<1>1. CASE \E b \in BookingId : Approve(b)
  BY <1>1, LedgerApprove DEF Ledger!Next
<1>2. CASE \E b \in BookingId : Cancel(b)
  BY <1>2, LedgerCancel DEF Ledger!Next
<1>3. CASE \E r \in RequestId, new \in BookingId : ApproveReschedule(r, new)
  BY <1>3, LedgerApproveReschedule
<1>4. CASE /\ \A b \in BookingId : ~Approve(b) /\ ~Cancel(b)
           /\ \A r \in RequestId, new \in BookingId : ~ApproveReschedule(r, new)
  <2>1. \A b \in BookingId : StatusIs(b, "confirmed")' <=> StatusIs(b, "confirmed")
    BY <1>4, OnlyApprovalsConfirm, OnlyTheseRelease DEF CapacityInv
  <2>2. \A b \in BookingId : HeldClaims'[b] = HeldClaims[b]
    BY <2>1, HeldUnchanged DEF CapacityInv
  <2>3. HeldClaims' = HeldClaims
    BY <2>2 DEF HeldClaims
  <2> QED
    BY <2>3
<1> QED
  BY <1>1, <1>2, <1>3, <1>4

LEMMA LedgerInit == Init => Ledger!Init
BY DEF Init, TablesInit, Ledger!Init, HeldClaims, StatusIs

\* The confirmed bookings of the service are claims on a ledger that honours
\* the capacities: each step of the service takes, releases or hands over one
\* claim, or leaves the ledger alone.
THEOREM ServiceImplementsLedger == Spec => ImplementsLedger
<1>1. CapacityInv => HeldWithinCapacity
  BY LedgerWithinCapacity DEF CapacityInv, HeldWithinCapacity
<1>2. CapacityInv /\ HeldWithinCapacity' /\ [Next]_tables => [Ledger!Next]_HeldClaims
  BY LedgerStep
<1> QED
  BY CapacityInvariant, LedgerInit, <1>1, <1>2, PTL
  DEF Spec, ImplementsLedger, Ledger!Spec

-----------------------------------------------------------------------------
(* Lineage.                                                                *)

\* What one booking's history says, the part of ReplacedOnce about it.
Lineage(b) ==
    IF bookings[b].status = "rescheduled"
    THEN \E r \in RequestId, n \in BookingId :
            /\ ApprovedRequests(b) = {r}
            /\ Replacements(b) = {n}
            /\ bookings[n].slot = requests[r].slot
            /\ bookings[n].service = bookings[b].service
            /\ bookings[n].quantity = bookings[b].quantity
    ELSE ApprovedRequests(b) = {} /\ Replacements(b) = {}

PendingOk(r) ==
    /\ bookings[requests[r].booking] # Null
    /\ bookings[requests[r].booking].status \in {"confirmed", "cancelled"}
    /\ PendingRequests(requests[r].booking) = {r}

FromOk(n) == bookings[n].from # Null => bookings[bookings[n].from] # Null

LEMMA LineageParts ==
    LineageInv <=> /\ TypeOK /\ RequestsNameRows
                   /\ \A b \in BookingId : bookings[b] # Null => Lineage(b) /\ FromOk(b)
                   /\ \A r \in RequestId : IsPending(r) => PendingOk(r)
BY DEF LineageInv, ReplacedOnce, Lineage, FromOk, PendingOnLiveBooking, PendingOk

\* A row that stays 'rescheduled', or stays something else, keeps its history
\* if no request for it is approved and no booking made from it.
LEMMA LineageKept ==
    ASSUME LineageInv, [Next]_tables, NEW b \in BookingId, bookings[b] # Null,
           bookings'[b].status = "rescheduled" <=> bookings[b].status = "rescheduled",
           ApprovedRequests(b)' = ApprovedRequests(b),
           Replacements(b)' = Replacements(b),
           \A r \in ApprovedRequests(b) : requests'[r].slot = requests[r].slot
    PROVE  Lineage(b)'
<1>1. TypeOK /\ RequestsNameRows /\ Lineage(b)
  BY LineageParts
<1>2. SameClaim(b)
  BY <1>1, RowsKeepTheirClaim
<1>3. CASE bookings[b].status # "rescheduled"
  BY <1>1, <1>3 DEF Lineage
<1>4. CASE bookings[b].status = "rescheduled"
  <2>1. PICK r \in RequestId, n \in BookingId :
            /\ ApprovedRequests(b) = {r}
            /\ Replacements(b) = {n}
            /\ bookings[n].slot = requests[r].slot
            /\ bookings[n].service = bookings[b].service
            /\ bookings[n].quantity = bookings[b].quantity
    BY <1>1, <1>4 DEF Lineage
  <2>2. bookings[n] # Null
    BY <2>1 DEF Replacements
  <2>3. SameClaim(n)
    BY <1>1, <2>2, RowsKeepTheirClaim
  <2>4. /\ ApprovedRequests(b)' = {r} /\ Replacements(b)' = {n}
        /\ bookings'[n].slot = requests'[r].slot
        /\ bookings'[n].service = bookings'[b].service
        /\ bookings'[n].quantity = bookings'[b].quantity
    BY <1>2, <2>1, <2>3 DEF SameClaim
  <2> QED
    BY <1>4, <2>4 DEF Lineage
<1> QED
  BY <1>3, <1>4

\* Calls that answer no request and make no booking.
LEMMA LineageQuiet ==
    ASSUME LineageInv, [Next]_tables, TypeOK', RequestsNameRows',
           UNCHANGED requests,
           \A b \in BookingId : bookings[b] = Null <=> bookings'[b] = Null,
           \A b \in BookingId : bookings[b] # Null =>
               /\ bookings'[b].status = "rescheduled" <=> bookings[b].status = "rescheduled"
               /\ bookings[b].status \in {"confirmed", "cancelled"}
                    => bookings'[b].status \in {"confirmed", "cancelled"}
    PROVE  LineageInv'
<1>1. TypeOK /\ RequestsNameRows
  BY LineageParts
<1>2. \A b \in BookingId : bookings[b] # Null => SameClaim(b)
  BY <1>1, RowsKeepTheirClaim
<1>3. \A b \in BookingId : /\ ApprovedRequests(b)' = ApprovedRequests(b)
                            /\ PendingRequests(b)' = PendingRequests(b)
                            /\ Replacements(b)' = Replacements(b)
  BY <1>2 DEF ApprovedRequests, PendingRequests, Replacements, SameClaim
<1>4. ASSUME NEW b \in BookingId, bookings'[b] # Null
      PROVE  Lineage(b)' /\ FromOk(b)'
  <2>1. bookings[b] # Null /\ FromOk(b)
    BY <1>4, LineageParts
  <2>2. Lineage(b)'
    BY <1>3, <2>1, LineageKept
  <2>3. bookings[b].from \in BookingId \cup {Null}
    BY <1>1, <2>1, BookingFields
  <2> QED
    BY <1>2, <2>1, <2>2, <2>3 DEF FromOk, SameClaim
<1>5. ASSUME NEW r \in RequestId, IsPending(r)'
      PROVE  PendingOk(r)'
  <2>1. IsPending(r) /\ PendingOk(r)
    BY <1>5, LineageParts DEF IsPending, RequestExists
  <2>2. requests[r].booking \in BookingId
    BY <1>1, <2>1, RequestFields DEF IsPending, RequestExists
  <2> QED
    BY <1>3, <2>1, <2>2 DEF PendingOk
<1>6. (TypeOK /\ RequestsNameRows)'
  OBVIOUS
<1> QED
  BY <1>4, <1>5, <1>6
  DEF LineageInv, ReplacedOnce, Lineage, FromOk, PendingOnLiveBooking, PendingOk

LEMMA LineageCreate ==
    ASSUME LineageInv, [Next]_tables, TypeOK', RequestsNameRows',
           NEW c \in BookingId, NEW l \in LockId, NEW slot \in Slot,
           NEW q \in Quantity, CreateBooking(c, l, slot, q)
    PROVE  LineageInv'
<1>1. TypeOK /\ RequestsNameRows
  BY LineageParts
<1>2. /\ bookings[c] = Null /\ UNCHANGED requests
      /\ bookings' = [bookings EXCEPT
             ![c] = NewBooking("pending", locks[l].service, slot, q, Null)]
  BY DEF CreateBooking
<1>3. /\ bookings'[c].status = "pending" /\ bookings'[c].from = Null
      /\ \A b \in BookingId \ {c} : bookings'[b] = bookings[b]
  BY <1>1, <1>2 DEF NewBooking, TypeOK, TablesTypeOK
<1>4. \A b \in BookingId : /\ ApprovedRequests(b)' = ApprovedRequests(b)
                            /\ PendingRequests(b)' = PendingRequests(b)
  BY <1>2 DEF ApprovedRequests, PendingRequests
<1>5. \A b \in BookingId : Replacements(b)' = Replacements(b)
  BY <1>2, <1>3, NullIsNoRow DEF Replacements
<1>6. ASSUME NEW b \in BookingId, bookings'[b] # Null
      PROVE  Lineage(b)' /\ FromOk(b)'
  <2>1. CASE b = c
    <3>1. Replacements(c) = {}
      BY <1>2, LineageParts, NullIsNoRow DEF Replacements, FromOk
    <3>2. ApprovedRequests(c) = {}
      BY <1>1, <1>2 DEF ApprovedRequests, RequestsNameRows
    <3> QED
      BY <1>3, <1>4, <1>5, <2>1, <3>1, <3>2 DEF Lineage, FromOk
  <2>2. CASE b # c
    <3>1. bookings[b] # Null /\ FromOk(b) /\ bookings'[b] = bookings[b]
      BY <1>3, <1>6, <2>2, LineageParts
    <3>2. Lineage(b)'
      BY <1>2, <1>4, <1>5, <3>1, LineageKept
    <3>3. bookings[b].from \in BookingId \cup {Null}
      BY <1>1, <3>1, BookingFields
    <3>4. \A x \in BookingId : bookings[x] # Null => bookings'[x] # Null
      BY <1>2, <1>3
    <3> QED
      BY <3>1, <3>2, <3>3, <3>4 DEF FromOk
  <2> QED
    BY <2>1, <2>2
<1>7. ASSUME NEW r \in RequestId, IsPending(r)'
      PROVE  PendingOk(r)'
  <2>1. IsPending(r) /\ PendingOk(r)
    BY <1>2, <1>7, LineageParts DEF IsPending, RequestExists
  <2>2. requests[r].booking \in BookingId \ {c}
    BY <1>1, <1>2, <2>1, RequestFields DEF IsPending, RequestExists, PendingOk
  <2> QED
    BY <1>2, <1>3, <1>4, <2>1, <2>2 DEF PendingOk
<1> QED
  BY <1>6, <1>7
  DEF LineageInv, ReplacedOnce, Lineage, FromOk, PendingOnLiveBooking, PendingOk

LEMMA LineageRequest ==
    ASSUME LineageInv, [Next]_tables, TypeOK', RequestsNameRows',
           NEW c \in BookingId, NEW s \in RequestId, NEW slot \in Slot,
           RequestReschedule(c, s, slot)
    PROVE  LineageInv'
<1>1. TypeOK /\ RequestsNameRows
  BY LineageParts
<1>2. /\ bookings[c] # Null /\ bookings[c].status = "confirmed"
      /\ PendingRequests(c) = {} /\ requests[s] = Null
      /\ requests' = [requests EXCEPT
             ![s] = [booking |-> c, slot |-> slot, status |-> "pending"]]
      /\ \E k : bookings' = [bookings EXCEPT ![c].attempts = k]
  BY DEF RequestReschedule, StatusIs, HasPendingRequest
<1>3. \A b \in BookingId : bookings[b] # Null =>
         SameClaim(b) /\ bookings'[b].status = bookings[b].status
  BY <1>1, <1>2, RowsKeepTheirClaim, BookingFields DEF TypeOK, TablesTypeOK, Booking
<1>4. \A b \in BookingId : bookings[b] = Null => bookings'[b] = Null
  BY <1>1, <1>2 DEF TypeOK, TablesTypeOK
<1>5. /\ requests'[s].booking = c /\ requests'[s].status = "pending"
      /\ requests'[s] # Null
      /\ \A r \in RequestId \ {s} : requests'[r] = requests[r]
  <2>1. [booking |-> c, slot |-> slot, status |-> "pending"] \in Request
    BY DEF Request
  <2> QED
    BY <1>1, <1>2, <2>1, NullIsNoRow DEF TypeOK, TablesTypeOK
<1>6. \A b \in BookingId : /\ ApprovedRequests(b)' = ApprovedRequests(b)
                            /\ Replacements(b)' = Replacements(b)
  <2>1. \A b \in BookingId : ApprovedRequests(b)' = ApprovedRequests(b)
    BY <1>2, <1>5 DEF ApprovedRequests
  <2>2. \A b \in BookingId : Replacements(b)' = Replacements(b)
    BY <1>3, <1>4 DEF Replacements, SameClaim
  <2> QED
    BY <2>1, <2>2
<1>7. /\ PendingRequests(c)' = {s}
      /\ \A b \in BookingId \ {c} : PendingRequests(b)' = PendingRequests(b)
  BY <1>2, <1>5 DEF PendingRequests
<1>8. ASSUME NEW b \in BookingId, bookings'[b] # Null
      PROVE  Lineage(b)' /\ FromOk(b)'
  <2>1. bookings[b] # Null /\ FromOk(b)
    BY <1>4, <1>8, LineageParts
  <2>2. \A r \in ApprovedRequests(b) : requests'[r].slot = requests[r].slot
    BY <1>2, <1>5 DEF ApprovedRequests
  <2>3. Lineage(b)'
    BY <1>3, <1>6, <2>1, <2>2, LineageKept
  <2>4. bookings[b].from \in BookingId \cup {Null}
    BY <1>1, <2>1, BookingFields
  <2> QED
    BY <1>3, <2>1, <2>3, <2>4 DEF FromOk, SameClaim
<1>9. ASSUME NEW r \in RequestId, IsPending(r)'
      PROVE  PendingOk(r)'
  <2>1. CASE r = s
    BY <1>2, <1>3, <1>5, <1>7, <2>1 DEF PendingOk, SameClaim
  <2>2. CASE r # s
    <3>1. requests'[r] = requests[r] /\ IsPending(r) /\ PendingOk(r)
      BY <1>5, <1>9, <2>2, LineageParts DEF IsPending, RequestExists
    <3>2. requests[r].booking \in BookingId \ {c}
      BY <1>1, <1>2, <3>1, RequestFields
      DEF IsPending, RequestExists, PendingOk
    <3> QED
      BY <1>3, <1>7, <3>1, <3>2 DEF PendingOk, SameClaim
  <2> QED
    BY <2>1, <2>2
<1> QED
  BY <1>8, <1>9
  DEF LineageInv, ReplacedOnce, Lineage, FromOk, PendingOnLiveBooking, PendingOk

\* The transaction answers the only pending request of the booking it
\* replaces, which no earlier request has replaced.
LEMMA LineageApproveReschedule ==
    ASSUME LineageInv, [Next]_tables, TypeOK', RequestsNameRows',
           NEW s \in RequestId, NEW c \in BookingId, ApproveReschedule(s, c)
    PROVE  LineageInv'
<1>1. TypeOK /\ RequestsNameRows
  BY LineageParts
<1>0. PICK o \in BookingId : o = requests[s].booking
  BY <1>1, RequestFields DEF ApproveReschedule, IsPending, RequestExists
<1>2. /\ IsPending(s) /\ requests[s] # Null /\ bookings[c] = Null
      /\ requests' = [requests EXCEPT ![s].status = "approved"]
      /\ bookings' = [bookings EXCEPT
             ![o].status = "rescheduled",
             ![c] = NewBooking("confirmed", bookings[o].service,
                               requests[s].slot, bookings[o].quantity, o)]
  BY <1>0 DEF ApproveReschedule, IsPending, RequestExists
<1>3. /\ o \in BookingId /\ bookings[o] # Null /\ o # c
      /\ bookings[o].status \in {"confirmed", "cancelled"}
      /\ PendingRequests(o) = {s}
      /\ ApprovedRequests(o) = {} /\ Replacements(o) = {} /\ FromOk(o)
  <2>1. o \in BookingId /\ PendingOk(s)
    BY <1>0, <1>2, LineageParts
  <2>2. Lineage(o) /\ FromOk(o)
    BY <1>0, <2>1, LineageParts DEF PendingOk
  <2> QED
    BY <1>0, <1>2, <2>1, <2>2 DEF PendingOk, Lineage
<1>4. /\ bookings'[c] # Null /\ bookings'[c].status = "confirmed"
      /\ bookings'[c].from = o /\ bookings'[c].slot = requests[s].slot
      /\ bookings'[c].service = bookings[o].service
      /\ bookings'[c].quantity = bookings[o].quantity
      /\ bookings'[o].status = "rescheduled"
      /\ \A b \in BookingId \ {o, c} : bookings'[b] = bookings[b]
  <2>1. NewBooking("confirmed", bookings[o].service, requests[s].slot,
                   bookings[o].quantity, o) \in Booking
    BY <1>1, <1>2, <1>3, BookingFields, RequestFields, NewBookingType
  <2>2. bookings[o] \in Booking
    BY <1>1, <1>3, BookingFields
  <2>3. bookings'[c] = NewBooking("confirmed", bookings[o].service,
                                  requests[s].slot, bookings[o].quantity, o)
    BY <1>1, <1>2, <1>3 DEF TypeOK, TablesTypeOK
  <2>4. bookings'[o] = [bookings[o] EXCEPT !.status = "rescheduled"]
    BY <1>1, <1>2, <1>3 DEF TypeOK, TablesTypeOK
  <2>5. \A b \in BookingId \ {o, c} : bookings'[b] = bookings[b]
    BY <1>1, <1>2 DEF TypeOK, TablesTypeOK
  <2> QED
    BY <2>1, <2>2, <2>3, <2>4, <2>5, NullIsNoRow DEF NewBooking, Booking
<1>5. /\ requests'[s] # Null /\ requests'[s].status = "approved"
      /\ requests'[s].booking = o /\ requests'[s].slot = requests[s].slot
      /\ \A r \in RequestId \ {s} : requests'[r] = requests[r]
  <2>1. requests[s] \in Request
    BY <1>1, <1>2, RequestFields
  <2>2. requests'[s] = [requests[s] EXCEPT !.status = "approved"]
    BY <1>1, <1>2 DEF TypeOK, TablesTypeOK
  <2>3. \A r \in RequestId \ {s} : requests'[r] = requests[r]
    BY <1>1, <1>2 DEF TypeOK, TablesTypeOK
  <2>4. requests'[s] \in Request
    BY <2>1, <2>2 DEF Request
  <2> QED
    BY <1>0, <2>1, <2>2, <2>3, <2>4, NullIsNoRow DEF Request
<1>6. /\ ApprovedRequests(o)' = {s}
      /\ \A b \in BookingId \ {o} : ApprovedRequests(b)' = ApprovedRequests(b)
  <2>1. requests[s].status = "pending"
    BY <1>2 DEF IsPending
  <2> QED
    BY <1>0, <1>3, <1>5, <2>1 DEF ApprovedRequests
<1>7. \A b \in BookingId \ {o} : PendingRequests(b)' = PendingRequests(b)
  BY <1>0, <1>5 DEF PendingRequests
<1>8. \A b \in BookingId : bookings[b] # Null => SameClaim(b)
  BY <1>1, RowsKeepTheirClaim
<1>9. \A b \in BookingId \ {c} : bookings[b] = Null <=> bookings'[b] = Null
  BY <1>3, <1>4, <1>8 DEF SameClaim
<1>10. /\ Replacements(o)' = {c}
       /\ \A b \in BookingId \ {o} : Replacements(b)' = Replacements(b)
  <2>1. \A n \in BookingId \ {c} : bookings[n] # Null
             => bookings'[n] # Null /\ bookings'[n].from = bookings[n].from
    BY <1>8 DEF SameClaim
  <2>2. Replacements(o)' = {c}
    <3>1. \A n \in BookingId \ {c} :
              ~(bookings'[n] # Null /\ bookings'[n].from = o)
      <4>1. \A n \in BookingId : ~(bookings[n] # Null /\ bookings[n].from = o)
        BY <1>3 DEF Replacements
      <4> QED
        BY <1>9, <2>1, <4>1
    <3> QED
      BY <1>4, <3>1 DEF Replacements
  <2>3. \A b \in BookingId \ {o} : Replacements(b)' = Replacements(b)
    BY <1>2, <1>4, <1>9, <2>1 DEF Replacements
  <2> QED
    BY <2>2, <2>3
<1>11. ASSUME NEW b \in BookingId, bookings'[b] # Null
       PROVE  Lineage(b)' /\ FromOk(b)'
  <2>1. CASE b = o
    <3>1. SameClaim(o) /\ bookings[o].from \in BookingId \cup {Null}
      BY <1>1, <1>3, <1>8, BookingFields
    <3>2. Lineage(o)'
      BY <1>3, <1>4, <1>5, <1>6, <1>10, <3>1 DEF Lineage, SameClaim
    <3>3. FromOk(o)'
      BY <1>3, <1>4, <1>9, <3>1 DEF FromOk, SameClaim
    <3> QED
      BY <2>1, <3>2, <3>3
  <2>2. CASE b = c
    <3>1. Replacements(c) = {}
      BY <1>2, LineageParts, NullIsNoRow DEF Replacements, FromOk
    <3>2. ApprovedRequests(c) = {}
      BY <1>1, <1>2 DEF ApprovedRequests, RequestsNameRows
    <3>3. ApprovedRequests(c)' = {} /\ Replacements(c)' = {}
      BY <1>3, <1>6, <1>10, <3>1, <3>2
    <3>4. bookings'[o] # Null
      BY <1>3, <1>9
    <3> QED
      BY <1>4, <2>2, <3>3, <3>4 DEF Lineage, FromOk
  <2>3. CASE b \notin {o, c}
    <3>1. bookings[b] # Null /\ FromOk(b) /\ bookings'[b] = bookings[b]
      BY <1>4, <1>11, <2>3, LineageParts
    <3>2. s \notin ApprovedRequests(b)
      BY <1>0, <2>3 DEF ApprovedRequests
    <3>3. \A r \in ApprovedRequests(b) : requests'[r].slot = requests[r].slot
      BY <1>5, <3>2 DEF ApprovedRequests
    <3>4. Lineage(b)'
      BY <1>6, <1>10, <2>3, <3>1, <3>3, LineageKept
    <3>5. bookings[b].from \in BookingId \cup {Null}
      BY <1>1, <3>1, BookingFields
    <3>6. \A x \in BookingId : bookings[x] # Null => bookings'[x] # Null
      BY <1>8 DEF SameClaim
    <3> QED
      BY <3>1, <3>4, <3>5, <3>6 DEF FromOk
  <2> QED
    BY <2>1, <2>2, <2>3
<1>12. ASSUME NEW r \in RequestId, IsPending(r)'
       PROVE  PendingOk(r)'
  <2>1. r # s
    BY <1>5, <1>12 DEF IsPending
  <2>2. requests'[r] = requests[r] /\ IsPending(r) /\ PendingOk(r)
    BY <1>5, <1>12, <2>1, LineageParts DEF IsPending, RequestExists
  <2>3. requests[r].booking \in BookingId
    BY <1>1, <2>2, RequestFields DEF IsPending, RequestExists
  <2>4. requests[r].booking # o
    BY <1>3, <2>1, <2>2 DEF PendingOk
  <2>5. requests[r].booking # c
    BY <1>2, <2>2 DEF PendingOk
  <2> QED
    BY <1>4, <1>7, <2>2, <2>3, <2>4, <2>5 DEF PendingOk
<1> QED
  BY <1>11, <1>12
  DEF LineageInv, ReplacedOnce, Lineage, FromOk, PendingOnLiveBooking, PendingOk

LEMMA LineageReject ==
    ASSUME LineageInv, [Next]_tables, TypeOK', RequestsNameRows',
           NEW s \in RequestId, RejectReschedule(s)
    PROVE  LineageInv'
<1>1. TypeOK /\ RequestsNameRows
  BY LineageParts
<1>2. /\ IsPending(s) /\ requests[s] # Null /\ UNCHANGED bookings
      /\ requests' = [requests EXCEPT ![s].status = "rejected"]
  BY DEF RejectReschedule, IsPending, RequestExists
<1>3. /\ requests'[s].status = "rejected"
      /\ requests'[s].booking = requests[s].booking
      /\ \A r \in RequestId \ {s} : requests'[r] = requests[r]
  BY <1>1, <1>2, RequestFields DEF TypeOK, TablesTypeOK, Request
<1>4. \A b \in BookingId : /\ ApprovedRequests(b)' = ApprovedRequests(b)
                            /\ Replacements(b)' = Replacements(b)
  BY <1>2, <1>3 DEF ApprovedRequests, Replacements, IsPending
<1>5. \A b \in BookingId :
         b # requests[s].booking => PendingRequests(b)' = PendingRequests(b)
  BY <1>3 DEF PendingRequests
<1>6. ASSUME NEW b \in BookingId, bookings'[b] # Null
      PROVE  Lineage(b)' /\ FromOk(b)'
  <2>1. bookings[b] # Null /\ FromOk(b)
    BY <1>2, <1>6, LineageParts
  <2>2. \A r \in ApprovedRequests(b) : requests'[r].slot = requests[r].slot
    BY <1>2, <1>3 DEF ApprovedRequests, IsPending
  <2>3. Lineage(b)'
    BY <1>2, <1>4, <2>1, <2>2, LineageKept
  <2> QED
    BY <1>2, <2>1, <2>3 DEF FromOk
<1>7. ASSUME NEW r \in RequestId, IsPending(r)'
      PROVE  PendingOk(r)'
  <2>1. r # s
    BY <1>3, <1>7 DEF IsPending
  <2>2. requests'[r] = requests[r] /\ IsPending(r) /\ PendingOk(r)
    BY <1>3, <1>7, <2>1, LineageParts DEF IsPending, RequestExists
  <2>3. requests[r].booking \in BookingId
    BY <1>1, <2>2, RequestFields DEF IsPending, RequestExists
  <2>4. requests[r].booking # requests[s].booking
    BY <1>2, <2>1, <2>2, LineageParts DEF PendingOk
  <2> QED
    BY <1>2, <1>5, <2>2, <2>3, <2>4 DEF PendingOk
<1> QED
  BY <1>6, <1>7
  DEF LineageInv, ReplacedOnce, Lineage, FromOk, PendingOnLiveBooking, PendingOk

LEMMA LineageUpdateStatus ==
    ASSUME LineageInv, [Next]_tables, TypeOK', RequestsNameRows',
           UNCHANGED requests, NEW c \in BookingId, bookings[c] # Null,
           NEW status \in BookingStatus \ {"rescheduled"},
           bookings[c].status # "rescheduled",
           bookings[c].status \in {"confirmed", "cancelled"}
                => status \in {"confirmed", "cancelled"},
           UpdateStatus(c, status)
    PROVE  LineageInv'
<1>1. TypeOK /\ bookings[c] \in Booking
  BY LineageParts, BookingFields
<1>2. /\ bookings'[c] = [bookings[c] EXCEPT !.status = status]
      /\ \A b \in BookingId \ {c} : bookings'[b] = bookings[b]
  BY <1>1 DEF UpdateStatus, TypeOK, TablesTypeOK
<1>3. bookings'[c] \in Booking /\ bookings'[c].status = status
  BY <1>1, <1>2 DEF Booking
<1>4. \A b \in BookingId : bookings[b] = Null <=> bookings'[b] = Null
  BY <1>2, <1>3, NullIsNoRow
<1> QED
  BY <1>2, <1>3, <1>4, LineageQuiet

LEMMA LineageStep ==
    ASSUME LineageInv, [Next]_tables
    PROVE  LineageInv'
<1>1. TypeOK' /\ RequestsNameRows'
  BY LineageParts, TypeStep, RequestsNameRowsStep
<1>2. CASE UNCHANGED bookings /\ UNCHANGED requests
  BY <1>1, <1>2, LineageQuiet
<1>3. CASE UNCHANGED tables
  BY <1>2, <1>3 DEF tables
<1>4. ASSUME NEW b \in BookingId,
             ConfirmPayment(b) \/ Approve(b) \/ Reject(b) \/ Cancel(b)
      PROVE  LineageInv'
  <2>1. CASE ConfirmPayment(b)
    BY <1>1, <2>1, LineageUpdateStatus DEF ConfirmPayment, StatusIs
  <2>2. CASE Approve(b)
    BY <1>1, <2>2, LineageUpdateStatus DEF Approve, StatusIs
  <2>3. CASE Reject(b)
    BY <1>1, <2>3, LineageUpdateStatus DEF Reject, StatusIs
  <2>4. CASE Cancel(b)
    BY <1>1, <2>4, LineageUpdateStatus DEF Cancel, StatusIs
  <2> QED
    BY <1>4, <2>1, <2>2, <2>3, <2>4
<1>5. CASE \E b \in BookingId, l \in LockId, slot \in Slot, q \in Quantity :
              CreateBooking(b, l, slot, q)
  BY <1>1, <1>5, LineageCreate
<1>6. CASE \E b \in BookingId, r \in RequestId, slot \in Slot :
              RequestReschedule(b, r, slot)
  BY <1>1, <1>6, LineageRequest
<1>7. CASE \E r \in RequestId, new \in BookingId : ApproveReschedule(r, new)
  BY <1>1, <1>7, LineageApproveReschedule
<1>8. CASE \E r \in RequestId : RejectReschedule(r)
  BY <1>1, <1>8, LineageReject
<1>9. CASE \/ \E l \in LockId, svc \in Service, slot \in Slot, q \in Quantity :
                 LockSlot(l, svc, slot, q)
          \/ \E l \in LockId : ExpireLock(l)
  BY <1>2, <1>9 DEF LockSlot, ExpireLock
<1> QED
  BY <1>3, <1>4, <1>5, <1>6, <1>7, <1>8, <1>9 DEF Next

LEMMA LineageInit == Init => LineageInv
BY CapacityInit
DEF Init, TablesInit, LineageInv, CapacityInv, ReplacedOnce, PendingOnLiveBooking,
    IsPending, RequestExists

LEMMA LineageInvariant == Spec => []LineageInv
BY LineageInit, LineageStep, PTL DEF Spec

\* Whatever the calls and their order, every booking marked 'rescheduled' was
\* moved by one approved request to one new booking that carries its service
\* and quantity over, and nothing else is ever made from a booking.
THEOREM MovedBookingsReplacedOnce == Spec => []ReplacedOnce
BY LineageInvariant, PTL DEF LineageInv

\* A booking never has two requests waiting, and one that waits is for a
\* booking that has not been moved: approving it cannot move a booking twice.
THEOREM RequestsWaitOnLiveBookings == Spec => []PendingOnLiveBooking
BY LineageInvariant, PTL DEF LineageInv

-----------------------------------------------------------------------------
(* Attempts.                                                               *)

RequestsOf(b) == {r \in RequestId : requests[r] # Null /\ requests[r].booking = b}

\* The requests for a booking are finitely many, as each took an attempt.
AttemptsInv ==
    /\ TypeOK /\ RequestsNameRows
    /\ \A b \in BookingId : IsFiniteSet(RequestsOf(b))
    /\ AttemptsCountRequests

\* Every call but RequestReschedule leaves the attempts of a booking as they
\* are, and gives a new one none.
KeepsAttempts(b) ==
    /\ RequestsOf(b)' = RequestsOf(b)
    /\ bookings'[b] # Null =>
          bookings'[b].attempts = IF bookings[b] = Null THEN 0 ELSE bookings[b].attempts

LEMMA UpdateStatusKeepsAttempts ==
    ASSUME TypeOK, NEW c \in BookingId, bookings[c] # Null,
           NEW status \in BookingStatus, UpdateStatus(c, status),
           NEW b \in BookingId
    PROVE  bookings'[b] # Null =>
               bookings'[b].attempts = IF bookings[b] = Null THEN 0 ELSE bookings[b].attempts
BY BookingFields DEF UpdateStatus, TypeOK, TablesTypeOK, Booking

LEMMA OthersKeepAttempts ==
    ASSUME TypeOK, RequestsNameRows, [Next]_tables,
           \A c \in BookingId, r \in RequestId, slot \in Slot : ~RequestReschedule(c, r, slot),
           NEW b \in BookingId
    PROVE  KeepsAttempts(b)
<1>1. CASE UNCHANGED <<bookings, requests>>
  BY <1>1 DEF KeepsAttempts, RequestsOf
<1>2. ASSUME NEW c \in BookingId, NEW l \in LockId, NEW slot \in Slot,
             NEW q \in Quantity, CreateBooking(c, l, slot, q)
      PROVE  KeepsAttempts(b)
  BY <1>2 DEF CreateBooking, NewBooking, KeepsAttempts, RequestsOf, TypeOK, TablesTypeOK
<1>3. ASSUME NEW c \in BookingId,
             ConfirmPayment(c) \/ Approve(c) \/ Reject(c) \/ Cancel(c)
      PROVE  KeepsAttempts(b)
  <2>1. bookings[c] # Null /\ UNCHANGED requests
    BY <1>3 DEF ConfirmPayment, Approve, Reject, Cancel, StatusIs
  <2>2. \E status \in BookingStatus : UpdateStatus(c, status)
    BY <1>3 DEF ConfirmPayment, Approve, Reject, Cancel
  <2> QED
    BY <2>1, <2>2, UpdateStatusKeepsAttempts DEF KeepsAttempts, RequestsOf
<1>4. ASSUME NEW r \in RequestId, NEW new \in BookingId, ApproveReschedule(r, new)
      PROVE  KeepsAttempts(b)
  <2> DEFINE orig == requests[r].booking
  <2>1. requests[r] # Null /\ bookings[new] = Null
    BY <1>4 DEF ApproveReschedule, IsPending, RequestExists
  <2>2. orig \in BookingId /\ bookings[orig] # Null /\ orig # new
    BY <2>1, RequestFields DEF RequestsNameRows
  <2>3. RequestsOf(b)' = RequestsOf(b)
    <3>1. [requests[r] EXCEPT !.status = "approved"] # Null
      BY <2>1, RequestFields, NullIsNoRow DEF Request
    <3> QED
      BY <1>4, <2>1, <3>1, RequestFields
      DEF ApproveReschedule, RequestsOf, TypeOK, TablesTypeOK, Request
  <2>4. CASE b = new
    BY <1>4, <2>1, <2>3, <2>4
    DEF ApproveReschedule, NewBooking, KeepsAttempts, TypeOK, TablesTypeOK
  <2>5. CASE b # new
    BY <1>4, <2>2, <2>3, <2>5, BookingFields
    DEF ApproveReschedule, KeepsAttempts, TypeOK, TablesTypeOK, Booking
  <2> QED
    BY <2>4, <2>5
<1>5. ASSUME NEW r \in RequestId, RejectReschedule(r)
      PROVE  KeepsAttempts(b)
  <2>1. requests[r] # Null
    BY <1>5 DEF RejectReschedule, IsPending, RequestExists
  <2>2. [requests[r] EXCEPT !.status = "rejected"] # Null
    BY <2>1, RequestFields, NullIsNoRow DEF Request
  <2> QED
    BY <1>5, <2>1, <2>2, RequestFields
    DEF RejectReschedule, KeepsAttempts, RequestsOf, TypeOK, TablesTypeOK, Request
<1>6. ASSUME ~UNCHANGED <<bookings, requests>>
      PROVE  \/ \E c \in BookingId, l \in LockId, slot \in Slot, q \in Quantity :
                    CreateBooking(c, l, slot, q)
             \/ \E c \in BookingId :
                    ConfirmPayment(c) \/ Approve(c) \/ Reject(c) \/ Cancel(c)
             \/ \E r \in RequestId, new \in BookingId : ApproveReschedule(r, new)
             \/ \E r \in RequestId : RejectReschedule(r)
  BY <1>6 DEF Next, tables, LockSlot, ExpireLock
<1> QED
  BY <1>1, <1>2, <1>3, <1>4, <1>5, <1>6

LEMMA RequestTakesAttempt ==
    ASSUME AttemptsInv, NEW c \in BookingId, NEW r \in RequestId, NEW slot \in Slot,
           RequestReschedule(c, r, slot), NEW b \in BookingId
    PROVE  /\ IsFiniteSet(RequestsOf(b))'
           /\ bookings'[b] # Null =>
                  bookings'[b].attempts = Cardinality(RequestsOf(b)')
<1> USE DEF AttemptsInv
<1>1. bookings[c] # Null /\ requests[r] = Null
  BY DEF RequestReschedule, StatusIs
<1>2. [booking |-> c, slot |-> slot, status |-> "pending"] # Null
  BY NullIsNoRow DEF Request
<1>3. CASE b = c
  <2>1. RequestsOf(b)' = RequestsOf(b) \cup {r} /\ r \notin RequestsOf(b)
    BY <1>1, <1>2, <1>3 DEF RequestReschedule, RequestsOf, TypeOK, TablesTypeOK
  <2>2. /\ IsFiniteSet(RequestsOf(b) \cup {r})
        /\ Cardinality(RequestsOf(b) \cup {r}) = Cardinality(RequestsOf(b)) + 1
    BY <2>1, FS_AddElement
  <2>3. bookings'[b].attempts = bookings[b].attempts + 1
    BY <1>1, <1>3, BookingFields
    DEF RequestReschedule, AttemptsAfterRequest, TypeOK, TablesTypeOK, Booking
  <2>4. bookings[b].attempts = Cardinality(RequestsOf(b))
    BY <1>1, <1>3 DEF AttemptsCountRequests, RequestsOf
  <2> QED
    BY <2>1, <2>2, <2>3, <2>4
<1>4. CASE b # c
  <2>1. RequestsOf(b)' = RequestsOf(b) /\ bookings'[b] = bookings[b]
    BY <1>1, <1>2, <1>4 DEF RequestReschedule, RequestsOf, TypeOK, TablesTypeOK
  <2> QED
    BY <2>1 DEF AttemptsCountRequests, RequestsOf
<1> QED
  BY <1>3, <1>4

LEMMA AttemptsStep ==
    ASSUME AttemptsInv, [Next]_tables
    PROVE  AttemptsInv'
<1>1. TypeOK' /\ RequestsNameRows'
  BY TypeStep, RequestsNameRowsStep DEF AttemptsInv
<1>2. ASSUME NEW b \in BookingId
      PROVE  /\ IsFiniteSet(RequestsOf(b))'
             /\ bookings'[b] # Null =>
                    bookings'[b].attempts = Cardinality(RequestsOf(b)')
  <2>1. CASE \E c \in BookingId, r \in RequestId, slot \in Slot :
                 RequestReschedule(c, r, slot)
    BY <2>1, RequestTakesAttempt
  <2>2. CASE \A c \in BookingId, r \in RequestId, slot \in Slot :
                 ~RequestReschedule(c, r, slot)
    <3>1. KeepsAttempts(b)
      BY <2>2, OthersKeepAttempts DEF AttemptsInv
    <3>2. bookings[b] = Null => RequestsOf(b) = {}
      BY DEF AttemptsInv, RequestsNameRows, RequestsOf
    <3>3. bookings[b] # Null => bookings[b].attempts = Cardinality(RequestsOf(b))
      BY DEF AttemptsInv, AttemptsCountRequests, RequestsOf
    <3> QED
      BY <3>1, <3>2, <3>3, FS_EmptySet DEF KeepsAttempts, AttemptsInv
  <2> QED
    BY <2>1, <2>2
<1> QED
  BY <1>1, <1>2 DEF AttemptsInv, AttemptsCountRequests, RequestsOf

\* The attempts a booking has used up are the requests made for it, so that the
\* limit of three in the code is a limit on rows of reschedule_requests.
THEOREM AttemptsAreRequests == Spec => []AttemptsCountRequests
<1>1. Init => AttemptsInv
  <2> SUFFICES ASSUME Init PROVE AttemptsInv
    OBVIOUS
  <2>1. CapacityInv
    BY CapacityInit
  <2>2. \A b \in BookingId : bookings[b] = Null /\ RequestsOf(b) = {}
    BY DEF Init, TablesInit, RequestsOf
  <2> QED
    BY <2>1, <2>2, FS_EmptySet DEF CapacityInv, AttemptsInv, AttemptsCountRequests
<1>2. AttemptsInv /\ [Next]_tables => AttemptsInv'
  BY AttemptsStep
<1>3. AttemptsInv => AttemptsCountRequests
  BY DEF AttemptsInv
<1> QED
  BY <1>1, <1>2, <1>3, PTL DEF Spec

-----------------------------------------------------------------------------
(* Claims.                                                                 *)

ActiveAt(svc, t) == BookedAt(ActiveStatus, svc, t)

\* Taking a row away takes away its quantity.
LEMMA SumRemoveRow ==
    ASSUME NEW table, NEW S, IsFiniteSet(S), NEW x \in S, table[x].quantity \in Quantity
    PROVE  Sum(table, S \ {x}) + table[x].quantity = Sum(table, S)
<1>1. IsFiniteSet(S \ {x}) /\ IsFiniteSet({x})
  BY FS_Singleton, FS_Subset
<1>2. /\ IsFiniteSet(Units(table, S \ {x})) /\ IsFiniteSet(Units(table, {x}))
  BY <1>1, UnitsFinite
<1>3. Units(table, S) = Units(table, S \ {x}) \cup Units(table, {x})
  BY DEF Units
<1>4. Units(table, S \ {x}) \cap Units(table, {x}) = {}
  BY DEF Units
<1>5. Cardinality(Units(table, S))
        = Cardinality(Units(table, S \ {x})) + Cardinality(Units(table, {x}))
            - Cardinality(Units(table, S \ {x}) \cap Units(table, {x}))
  BY <1>2, <1>3, FS_Union
<1>6. /\ Cardinality(Units(table, S \ {x})) \in Nat
      /\ Cardinality(Units(table, {x})) = table[x].quantity
      /\ table[x].quantity \in Nat
  BY <1>2, FS_CardinalityType, SumSingleton, TablesAssumption DEF Sum, Quantity
<1>7. Cardinality(Units(table, S \ {x}) \cap Units(table, {x})) = 0
  BY <1>4, FS_EmptySet
<1> QED
  BY <1>5, <1>6, <1>7 DEF Sum

LEMMA ClaimsFinite ==
    ASSUME NEW svc, NEW t
    PROVE  /\ IsFiniteSet(ActiveAt(svc, t)) /\ IsFiniteSet(ActiveAt(svc, t)')
           /\ IsFiniteSet(LockedAt(svc, t)) /\ IsFiniteSet(LockedAt(svc, t)')
           /\ Sum(bookings, ActiveAt(svc, t)) \in Nat
           /\ Sum(locks, LockedAt(svc, t)) \in Nat
           /\ Sum(bookings', ActiveAt(svc, t)') \in Nat
           /\ Sum(locks', LockedAt(svc, t)') \in Nat
<1>1. /\ ActiveAt(svc, t) \subseteq BookingId /\ ActiveAt(svc, t)' \subseteq BookingId
      /\ LockedAt(svc, t) \subseteq LockId /\ LockedAt(svc, t)' \subseteq LockId
  BY DEF ActiveAt, BookedAt, InStatus, LockedAt, LiveLocks
<1>2. /\ IsFiniteSet(ActiveAt(svc, t)) /\ IsFiniteSet(ActiveAt(svc, t)')
      /\ IsFiniteSet(LockedAt(svc, t)) /\ IsFiniteSet(LockedAt(svc, t)')
  BY <1>1, TablesAssumption, FS_Subset
<1> QED
  BY <1>2, SumType

\* What an accepted check of a slot says of each instant of the slot.
LEMMA CheckCoversClaims ==
    ASSUME TypeOK, NEW svc \in Service, NEW slot \in Slot, NEW quantity \in Quantity,
           NEW excluded, ~SlotConflict(svc, slot, quantity, excluded),
           NEW t \in Time, Covers(slot, t)
    PROVE  Sum(bookings, ActiveAt(svc, t) \ excluded) + Sum(locks, LockedAt(svc, t))
             + quantity <= Capacity[svc]
<1> DEFINE A == ActiveOverlap(svc, slot) \ excluded
           L == LockOverlap(svc, slot)
           B == ActiveAt(svc, t) \ excluded
           K == LockedAt(svc, t)
<1>1. B \subseteq A
  <2> SUFFICES ASSUME NEW b \in B PROVE b \in A
    OBVIOUS
  <2>1. /\ b \in InStatus(ActiveStatus) /\ b \notin excluded
        /\ b \in BookingId /\ bookings[b] # Null
        /\ bookings[b].service = svc /\ Covers(bookings[b].slot, t)
    BY DEF ActiveAt, BookedAt, InStatus
  <2>2. Overlaps(bookings[b].slot, slot)
    BY <2>1, CoversOverlaps, BookingFields
  <2> QED
    BY <2>1, <2>2 DEF ActiveOverlap
<1>2. K \subseteq L
  <2> SUFFICES ASSUME NEW l \in K PROVE l \in L
    OBVIOUS
  <2>1. l \in LiveLocks /\ locks[l].service = svc /\ Covers(locks[l].slot, t)
    BY DEF LockedAt
  <2>2. Overlaps(locks[l].slot, slot)
    BY <2>1, CoversOverlaps, LockFields
  <2> QED
    BY <2>1, <2>2 DEF LockOverlap
<1>3. IsFiniteSet(A) /\ IsFiniteSet(L)
  BY QueriesFinite
<1>4. IsFiniteSet(B) /\ IsFiniteSet(K)
  BY <1>1, <1>2, <1>3, FS_Subset
<1>5. Sum(bookings, B) <= Sum(bookings, A) /\ Sum(locks, K) <= Sum(locks, L)
  BY <1>1, <1>2, <1>3, SumMonotone
<1>6. /\ Sum(bookings, A) \in Nat /\ Sum(bookings, B) \in Nat
      /\ Sum(locks, L) \in Nat /\ Sum(locks, K) \in Nat
      /\ quantity \in Nat /\ Capacity[svc] \in Nat
  BY <1>3, <1>4, SumType, TablesAssumption DEF Quantity
<1>7. Sum(bookings, A) + Sum(locks, L) + quantity <= Capacity[svc]
  BY <1>6 DEF SlotConflict
<1> HIDE DEF A, B, K, L
<1>8. Sum(bookings, B) + Sum(locks, K) + quantity <= Capacity[svc]
  BY <1>5, <1>6, <1>7
<1> QED
  BY <1>8 DEF B, K

ClaimsInv == TypeOK /\ RequestsNameRows /\ ClaimsWithinCapacity

\* The claims of an instant after a step, in terms of those before.
Claimed(svc, t) == Sum(bookings, ActiveAt(svc, t)) + Sum(locks, LockedAt(svc, t))

LEMMA SameBookingQuantities ==
    ASSUME TypeOK, RequestsNameRows, [Next]_tables, NEW S,
           \A b \in S : b \in BookingId /\ bookings[b] # Null
    PROVE  Sum(bookings', S) = Sum(bookings, S)
<1>1. \A b \in S : bookings'[b].quantity = bookings[b].quantity
  BY RowsKeepTheirClaim DEF SameClaim
<1> QED
  BY <1>1, SumSameQuantities

\* A step that adds no claim at an instant.
LEMMA NothingNewClaimed ==
    ASSUME ClaimsInv, [Next]_tables, NEW svc \in Careful, NEW t \in Time,
           ActiveAt(svc, t)' \subseteq ActiveAt(svc, t),
           LockedAt(svc, t)' \subseteq LockedAt(svc, t),
           \A l \in LockedAt(svc, t)' : locks'[l] = locks[l]
    PROVE  Claimed(svc, t)' <= Capacity[svc]
<1> DEFINE B == ActiveAt(svc, t)
           K == LockedAt(svc, t)
<1>1. Sum(bookings', B') = Sum(bookings, B')
  <2>1. \A b \in B' : b \in BookingId /\ bookings[b] # Null
    BY DEF ActiveAt, BookedAt, InStatus
  <2> QED
    BY <2>1, SameBookingQuantities DEF ClaimsInv
<1>2. Sum(locks', K') = Sum(locks, K')
  BY SumSameQuantities
<1>3. Sum(bookings, B') <= Sum(bookings, B) /\ Sum(locks, K') <= Sum(locks, K)
  BY ClaimsFinite, SumMonotone
<1>4. Sum(bookings, B) + Sum(locks, K) <= Capacity[svc]
  BY DEF ClaimsInv, ClaimsWithinCapacity, ActiveAt
<1>5. /\ Sum(bookings, B) \in Nat /\ Sum(locks, K) \in Nat
      /\ Sum(bookings', B') \in Nat /\ Sum(locks', K') \in Nat
      /\ Capacity[svc] \in Nat
  BY ClaimsFinite, TablesAssumption, ServiceAssumption
<1> HIDE DEF B, K
<1>6. Sum(bookings', B') + Sum(locks', K') <= Capacity[svc]
  BY <1>1, <1>2, <1>3, <1>4, <1>5
<1> QED
  BY <1>6 DEF Claimed, B, K

\* The lock fits in with everything its check has counted.
LEMMA LockSlotKeepsClaims ==
    ASSUME ClaimsInv, [Next]_tables, NEW svc \in Careful, NEW t \in Time,
           NEW l \in LockId, NEW other \in Service, NEW slot \in Slot, NEW q \in Quantity,
           LockSlot(l, other, slot, q)
    PROVE  Claimed(svc, t)' <= Capacity[svc]
<1> DEFINE B == ActiveAt(svc, t)
           K == LockedAt(svc, t)
           lock == [service |-> other, slot |-> slot, quantity |-> q]
<1>1. /\ locks[l] = Null /\ bookings' = bookings
      /\ locks' = [locks EXCEPT ![l] = lock] /\ locks'[l] = lock
      /\ ~SlotConflict(other, slot, q, {})
  BY DEF LockSlot, ClaimsInv, TypeOK, TablesTypeOK
<1>2. B' = B
  BY <1>1 DEF ActiveAt, BookedAt, InStatus
<1>3. \A k \in K' \ {l} : k \in K /\ locks'[k] = locks[k]
  BY <1>1 DEF LockedAt, LiveLocks, ClaimsInv, TypeOK, TablesTypeOK
<1>4. CASE svc = other /\ Covers(slot, t)
  <2>1. Sum(bookings, B \ {}) + Sum(locks, K) + q <= Capacity[svc]
    BY <1>1, <1>4, CheckCoversClaims DEF ClaimsInv
  <2>2. B \ {} = B
    OBVIOUS
  <2>3. IsFiniteSet(K' \ {l}) /\ IsFiniteSet((K' \ {l}) \cup {l})
    BY ClaimsFinite, FS_Subset, FS_AddElement
  <2>4. Sum(locks', K' \ {l}) = Sum(locks, K' \ {l})
    BY <1>3, SumSameQuantities
  <2>5. Sum(locks, K' \ {l}) <= Sum(locks, K)
    <3>1. K' \ {l} \subseteq K
      BY <1>3
    <3> QED
      BY <3>1, ClaimsFinite, SumMonotone
  <2>6. Sum(locks', (K' \ {l}) \cup {l}) <= Sum(locks', K' \ {l}) + q
    <3>1. locks'[l].quantity = q
      BY <1>1
    <3>2. IsFiniteSet(K' \ {l}) /\ locks'[l].quantity \in Quantity
      BY <2>3, <3>1
    <3>3. Sum(locks', (K' \ {l}) \cup {l}) <= Sum(locks', K' \ {l}) + locks'[l].quantity
      BY <3>2, SumAddRow
    <3> HIDE DEF K
    <3> QED
      BY <3>1, <3>3
  <2>7. Sum(locks', K') <= Sum(locks', (K' \ {l}) \cup {l})
    <3>1. K' \subseteq (K' \ {l}) \cup {l}
      OBVIOUS
    <3> QED
      BY <2>3, <3>1, SumMonotone
  <2>8. /\ Sum(bookings, B) \in Nat /\ Sum(locks, K) \in Nat /\ Sum(locks', K') \in Nat
        /\ Sum(locks', K' \ {l}) \in Nat /\ Sum(locks', (K' \ {l}) \cup {l}) \in Nat
        /\ q \in Nat /\ Capacity[svc] \in Nat
    BY <1>4, <2>3, ClaimsFinite, SumType, TablesAssumption DEF Quantity
  <2>9. Sum(bookings', B') = Sum(bookings, B)
    BY <1>1, <1>2
  <2> HIDE DEF B, K
  <2>10. Sum(bookings', B') + Sum(locks', K') <= Capacity[svc]
    BY <2>1, <2>2, <2>4, <2>5, <2>6, <2>7, <2>8, <2>9
  <2> QED
    BY <2>10 DEF Claimed, B, K
<1>5. CASE ~(svc = other /\ Covers(slot, t))
  <2>1. l \notin K'
    BY <1>1, <1>5 DEF LockedAt, LiveLocks, Covers
  <2>2. K' \subseteq K /\ \A k \in K' : locks'[k] = locks[k]
    BY <1>3, <2>1
  <2> QED
    BY <1>2, <2>2, NothingNewClaimed
<1> QED
  BY <1>4, <1>5

\* The lock is used up by the booking that takes its place.
LEMMA CreateBookingKeepsClaims ==
    ASSUME ClaimsInv, [Next]_tables, NEW svc \in Careful, NEW t \in Time,
           NEW b \in BookingId, NEW l \in LockId, NEW slot \in Slot, NEW q \in Quantity,
           CreateBooking(b, l, slot, q)
    PROVE  Claimed(svc, t)' <= Capacity[svc]
<1> DEFINE B == ActiveAt(svc, t)
           K == LockedAt(svc, t)
           row == NewBooking("pending", locks[l].service, slot, q, Null)
<1>1. /\ l \in LiveLocks /\ bookings[b] = Null
      /\ bookings' = [bookings EXCEPT ![b] = row] /\ bookings'[b] = row
      /\ row.service = locks[l].service /\ row.slot = slot /\ row.quantity = q
  BY DEF CreateBooking, NewBooking, ClaimsInv, TypeOK, TablesTypeOK
<1>2. locks' = [locks EXCEPT ![l] = Spent] \/ locks' = locks
  BY DEF CreateBooking
<1>3. \A c \in B' \ {b} : c \in B
  BY <1>1 DEF ActiveAt, BookedAt, InStatus, Covers, ClaimsInv, TypeOK, TablesTypeOK
<1>4. K' \subseteq K /\ \A k \in K' : locks'[k] = locks[k]
  BY <1>1, <1>2 DEF LockedAt, LiveLocks, Covers, ClaimsInv, TypeOK, TablesTypeOK
<1>5. CASE svc = locks[l].service /\ Covers(slot, t)
  <2>1. /\ slot = locks[l].slot /\ q = locks[l].quantity
        /\ locks' = [locks EXCEPT ![l] = Spent]
    BY <1>5 DEF CreateBooking
  <2>2. l \in K /\ K' \subseteq K \ {l}
    <3>1. l \in K
      BY <1>1, <1>5, <2>1 DEF LockedAt
    <3>2. l \notin K'
      BY <1>1, <2>1 DEF LockedAt, LiveLocks, ClaimsInv, TypeOK, TablesTypeOK
    <3> QED
      BY <1>4, <3>1, <3>2
  <2>3. IsFiniteSet(B) /\ IsFiniteSet(B') /\ IsFiniteSet(K)
    BY ClaimsFinite
  <2>4. /\ IsFiniteSet(B' \ {b}) /\ IsFiniteSet((B' \ {b}) \cup {b})
        /\ IsFiniteSet(K \ {l})
    BY <2>3, FS_Subset, FS_AddElement
  <2>5. Sum(locks, K \ {l}) + q = Sum(locks, K)
    BY <2>1, <2>2, <2>3, SumRemoveRow
  <2>6. Sum(locks', K') <= Sum(locks, K \ {l})
    <3>1. Sum(locks', K') = Sum(locks, K')
      BY <1>4, SumSameQuantities
    <3>2. Sum(locks, K') <= Sum(locks, K \ {l})
      BY <2>2, <2>4, SumMonotone
    <3> QED
      BY <3>1, <3>2
  <2>7. Sum(bookings', B' \ {b}) <= Sum(bookings, B)
    <3>1. \A c \in B' \ {b} : c \in BookingId /\ bookings[c] # Null
      BY <1>3 DEF ActiveAt, BookedAt, InStatus
    <3>2. Sum(bookings', B' \ {b}) = Sum(bookings, B' \ {b})
      BY <3>1, SameBookingQuantities DEF ClaimsInv
    <3>3. B' \ {b} \subseteq B
      BY <1>3
    <3>4. Sum(bookings, B' \ {b}) <= Sum(bookings, B)
      BY <2>3, <3>3, SumMonotone
    <3> QED
      BY <3>2, <3>4
  <2>8. Sum(bookings', (B' \ {b}) \cup {b}) <= Sum(bookings', B' \ {b}) + q
    <3>1. bookings'[b].quantity = q
      BY <1>1
    <3>2. bookings'[b].quantity \in Quantity
      BY <3>1
    <3>3. Sum(bookings', (B' \ {b}) \cup {b})
            <= Sum(bookings', B' \ {b}) + bookings'[b].quantity
      BY <2>4, <3>2, SumAddRow
    <3> HIDE DEF B
    <3> QED
      BY <3>1, <3>3
  <2>9. Sum(bookings', B') <= Sum(bookings', (B' \ {b}) \cup {b})
    <3>1. B' \subseteq (B' \ {b}) \cup {b}
      OBVIOUS
    <3> QED
      BY <2>4, <3>1, SumMonotone
  <2>10. Sum(bookings, B) + Sum(locks, K) <= Capacity[svc]
    BY DEF ClaimsInv, ClaimsWithinCapacity, ActiveAt
  <2>11. /\ Sum(bookings, B) \in Nat /\ Sum(locks, K) \in Nat
         /\ Sum(bookings', B') \in Nat /\ Sum(locks', K') \in Nat
         /\ Sum(locks, K \ {l}) \in Nat /\ Sum(bookings', B' \ {b}) \in Nat
         /\ Sum(bookings', (B' \ {b}) \cup {b}) \in Nat
         /\ q \in Nat /\ Capacity[svc] \in Nat
    BY <2>4, ClaimsFinite, SumType, TablesAssumption, ServiceAssumption DEF Quantity
  <2> HIDE DEF B, K
  <2>12. Sum(bookings', B') + Sum(locks', K') <= Capacity[svc]
    BY <2>5, <2>6, <2>7, <2>8, <2>9, <2>10, <2>11
  <2> QED
    BY <2>12 DEF Claimed, B, K
<1>6. CASE ~(svc = locks[l].service /\ Covers(slot, t))
  <2>1. b \notin B'
    BY <1>1, <1>6 DEF ActiveAt, BookedAt, InStatus, Covers
  <2>2. B' \subseteq B
    BY <1>3, <2>1
  <2> QED
    BY <1>4, <2>2, NothingNewClaimed
<1> QED
  BY <1>5, <1>6

\* The new booking fits in with everything but the one it replaces.
LEMMA ApproveRescheduleKeepsClaims ==
    ASSUME ClaimsInv, [Next]_tables, NEW svc \in Careful, NEW t \in Time,
           NEW r \in RequestId, NEW new \in BookingId, ApproveReschedule(r, new)
    PROVE  Claimed(svc, t)' <= Capacity[svc]
<1> DEFINE orig == requests[r].booking
           slot == requests[r].slot
           row  == bookings[orig]
           B == ActiveAt(svc, t)
           K == LockedAt(svc, t)
<1> USE DEF ClaimsInv
<1>1. requests[r] # Null /\ bookings[new] = Null
  BY DEF ApproveReschedule, IsPending, RequestExists
<1>2. /\ orig \in BookingId /\ row # Null /\ slot \in Slot
      /\ row.service \in Service /\ row.quantity \in Quantity
  BY <1>1, RequestFields, BookingFields DEF RequestsNameRows
<1>3. /\ bookings' = [bookings EXCEPT
            ![orig].status = "rescheduled",
            ![new] = NewBooking("confirmed", row.service, slot, row.quantity, orig)]
      /\ orig # new /\ locks' = locks
  BY <1>1, <1>2 DEF ApproveReschedule
<1>4. /\ bookings'[new].service = row.service
      /\ bookings'[new].slot = slot /\ bookings'[new].quantity = row.quantity
  BY <1>3 DEF NewBooking, TypeOK, TablesTypeOK
<1>5. \A c \in B' \ {new} : c \in B /\ c # orig
  <2> SUFFICES ASSUME NEW c \in B' \ {new}
               PROVE  c \in B /\ c # orig
    OBVIOUS
  <2>1. /\ c \in BookingId /\ c # new /\ bookings'[c] # Null
        /\ bookings'[c].status \in ActiveStatus
        /\ bookings'[c].service = svc /\ Covers(bookings'[c].slot, t)
    BY DEF ActiveAt, BookedAt, InStatus, Covers
  <2>2. c # orig
    BY <1>2, <1>3, <2>1, BookingFields DEF TypeOK, TablesTypeOK, Booking
  <2>3. bookings'[c] = bookings[c]
    BY <1>3, <2>1, <2>2 DEF TypeOK, TablesTypeOK
  <2> QED
    BY <2>1, <2>2, <2>3 DEF ActiveAt, BookedAt, InStatus
<1>6. K' = K
  BY <1>3 DEF LockedAt, LiveLocks
<1>7. CASE svc = row.service /\ Covers(slot, t)
  <2>1. Sum(bookings, B \ {orig}) + Sum(locks, K) + row.quantity <= Capacity[svc]
    BY <1>2, <1>7, CheckCoversClaims DEF ApproveReschedule, RescheduleConflict
  <2>2. /\ IsFiniteSet(B' \ {new}) /\ IsFiniteSet((B' \ {new}) \cup {new})
        /\ IsFiniteSet(B \ {orig})
    BY ClaimsFinite, FS_Subset, FS_AddElement
  <2>3. Sum(bookings', B' \ {new}) <= Sum(bookings, B \ {orig})
    <3>1. \A c \in B' \ {new} : c \in BookingId /\ bookings[c] # Null
      BY <1>5 DEF ActiveAt, BookedAt, InStatus
    <3>2. Sum(bookings', B' \ {new}) = Sum(bookings, B' \ {new})
      BY <3>1, SameBookingQuantities
    <3>3. B' \ {new} \subseteq B \ {orig}
      BY <1>5
    <3>4. Sum(bookings, B' \ {new}) <= Sum(bookings, B \ {orig})
      BY <2>2, <3>3, SumMonotone
    <3> QED
      BY <3>2, <3>4
  <2>4. Sum(bookings', (B' \ {new}) \cup {new})
          <= Sum(bookings', B' \ {new}) + row.quantity
    BY <1>2, <1>4, <2>2, SumAddRow
  <2>5. Sum(bookings', B') <= Sum(bookings', (B' \ {new}) \cup {new})
    <3>1. B' \subseteq (B' \ {new}) \cup {new}
      OBVIOUS
    <3> QED
      BY <2>2, <3>1, SumMonotone
  <2>6. /\ Sum(bookings', B') \in Nat /\ Sum(locks, K) \in Nat
        /\ Sum(bookings, B \ {orig}) \in Nat /\ Sum(bookings', B' \ {new}) \in Nat
        /\ Sum(bookings', (B' \ {new}) \cup {new}) \in Nat
        /\ row.quantity \in Nat /\ Capacity[svc] \in Nat
    BY <1>2, <1>7, <2>2, ClaimsFinite, SumType, TablesAssumption DEF Quantity
  <2>7. Sum(locks', K') = Sum(locks, K)
    BY <1>3, <1>6
  <2> HIDE DEF B, K, row
  <2>8. Sum(bookings', B') + Sum(locks', K') <= Capacity[svc]
    BY <2>1, <2>3, <2>4, <2>5, <2>6, <2>7
  <2> QED
    BY <2>8 DEF Claimed, B, K
<1>8. CASE ~(svc = row.service /\ Covers(slot, t))
  <2>1. new \notin B'
    BY <1>4, <1>8 DEF ActiveAt, BookedAt, InStatus, Covers
  <2>2. B' \subseteq B
    BY <1>5, <2>1
  <2>3. K' \subseteq K /\ \A k \in K' : locks'[k] = locks[k]
    BY <1>3, <1>6
  <2> QED
    BY <2>2, <2>3, NothingNewClaimed
<1> QED
  BY <1>7, <1>8

\* The remaining calls claim nothing.
LEMMA OthersKeepClaims ==
    ASSUME ClaimsInv, [Next]_tables, NEW svc \in Careful, NEW t \in Time,
           \A l \in LockId, other \in Service, slot \in Slot, q \in Quantity :
               ~LockSlot(l, other, slot, q),
           \A b \in BookingId, l \in LockId, slot \in Slot, q \in Quantity :
               ~CreateBooking(b, l, slot, q),
           \A r \in RequestId, new \in BookingId : ~ApproveReschedule(r, new)
    PROVE  Claimed(svc, t)' <= Capacity[svc]
<1> USE DEF ClaimsInv
<1>1. \A l \in LockId : locks'[l] = locks[l] \/ locks'[l] = Spent
  BY DEF Next, tables, ExpireLock, ConfirmPayment, Approve, Reject, Cancel,
         RequestReschedule, RejectReschedule, TypeOK, TablesTypeOK
<1>2. \A l \in LockedAt(svc, t)' : l \in LockedAt(svc, t) /\ locks'[l] = locks[l]
  BY <1>1 DEF LockedAt, LiveLocks, Covers
<1>3. ASSUME NEW b \in BookingId, bookings'[b] # Null,
             bookings'[b].status \in ActiveStatus
      PROVE  bookings[b] # Null /\ bookings[b].status \in ActiveStatus
  <2>1. CASE bookings' = bookings
    BY <1>3, <2>1
  <2>2. ASSUME NEW c \in BookingId,
               ConfirmPayment(c) \/ Approve(c) \/ Reject(c) \/ Cancel(c)
        PROVE  bookings[b] # Null /\ bookings[b].status \in ActiveStatus
    <3>1. /\ bookings[c] # Null /\ bookings[c].status \in ActiveStatus
          /\ \A d \in BookingId : d # c => bookings'[d] = bookings[d]
      BY <2>2 DEF ConfirmPayment, Approve, Reject, Cancel, StatusIs, UpdateStatus,
                 TypeOK, TablesTypeOK
    <3> QED
      BY <1>3, <3>1
  <2>3. ASSUME NEW c \in BookingId, NEW r \in RequestId, NEW slot \in Slot,
               RequestReschedule(c, r, slot)
        PROVE  bookings[b] # Null /\ bookings[b].status \in ActiveStatus
    <3>1. /\ bookings[c] # Null /\ bookings[c].status \in ActiveStatus
          /\ \A d \in BookingId : d # c => bookings'[d] = bookings[d]
      BY <2>3 DEF RequestReschedule, StatusIs, TypeOK, TablesTypeOK
    <3> QED
      BY <1>3, <3>1
  <2>4. ASSUME bookings' # bookings
        PROVE  \/ \E c \in BookingId :
                      ConfirmPayment(c) \/ Approve(c) \/ Reject(c) \/ Cancel(c)
               \/ \E c \in BookingId, r \in RequestId, slot \in Slot :
                      RequestReschedule(c, r, slot)
    BY <2>4 DEF Next, tables, ExpireLock, RejectReschedule
  <2> QED
    BY <2>1, <2>2, <2>3, <2>4
<1>4. ASSUME NEW b \in ActiveAt(svc, t)' PROVE b \in ActiveAt(svc, t)
  <2>1. /\ b \in BookingId /\ bookings'[b] # Null
        /\ bookings'[b].status \in ActiveStatus
        /\ bookings'[b].service = svc /\ Covers(bookings'[b].slot, t)
    BY <1>4 DEF ActiveAt, BookedAt, InStatus, Covers
  <2>2. bookings[b] # Null /\ bookings[b].status \in ActiveStatus
    BY <1>3, <2>1
  <2>3. SameClaim(b)
    BY <2>1, <2>2, RowsKeepTheirClaim
  <2> QED
    BY <2>1, <2>2, <2>3 DEF ActiveAt, BookedAt, InStatus, SameClaim
<1> QED
  BY <1>2, <1>4, NothingNewClaimed

LEMMA ClaimsStep ==
    ASSUME ClaimsInv, [Next]_tables
    PROVE  ClaimsInv'
<1>1. TypeOK' /\ RequestsNameRows'
  BY TypeStep, RequestsNameRowsStep DEF ClaimsInv
<1>2. ASSUME NEW svc \in Careful, NEW t \in Time
      PROVE  Claimed(svc, t)' <= Capacity[svc]
  BY LockSlotKeepsClaims, CreateBookingKeepsClaims, ApproveRescheduleKeepsClaims,
     OthersKeepClaims
<1> QED
  BY <1>1, <1>2 DEF ClaimsInv, ClaimsWithinCapacity, Claimed, ActiveAt

\* Where customers book what they locked and used locks do get deleted, the
\* slot is theirs from the lock on: locks and live bookings of a service never
\* take more units together than it has.  The lock's own check, the exchange of
\* a lock for a booking of the same claim, and the check of the transaction
\* that moves a booking are what it takes.
THEOREM LockHoldsTheSlot == Spec => []ClaimsWithinCapacity
<1>1. Init => ClaimsInv
  <2> SUFFICES ASSUME Init PROVE ClaimsInv
    OBVIOUS
  <2>1. CapacityInv
    BY CapacityInit
  <2>2. ASSUME NEW svc \in Careful, NEW t \in Time
        PROVE  Sum(bookings, ActiveAt(svc, t)) + Sum(locks, LockedAt(svc, t)) <= Capacity[svc]
    <3>1. ActiveAt(svc, t) = {} /\ LockedAt(svc, t) = {}
      BY DEF Init, TablesInit, ActiveAt, BookedAt, InStatus, LockedAt, LiveLocks
    <3>2. Units(bookings, {}) = {} /\ Units(locks, {}) = {}
      BY DEF Units
    <3>3. Sum(bookings, {}) = 0 /\ Sum(locks, {}) = 0
      BY <3>2, FS_EmptySet DEF Sum
    <3> QED
      BY <3>1, <3>3, TablesAssumption, ServiceAssumption
  <2> QED
    BY <2>1, <2>2 DEF CapacityInv, ClaimsInv, ClaimsWithinCapacity, ActiveAt
<1>2. ClaimsInv /\ [Next]_tables => ClaimsInv'
  BY ClaimsStep
<1>3. ClaimsInv => ClaimsWithinCapacity
  BY DEF ClaimsInv
<1> QED
  BY <1>1, <1>2, <1>3, PTL DEF Spec
=============================================================================
