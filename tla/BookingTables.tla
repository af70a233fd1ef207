---------------------------- MODULE BookingTables ---------------------------
(***************************************************************************)
(* The tables of internal/bookings and the queries of its repository.      *)
(*                                                                         *)
(* A table is a function from the ids it may hold to rows; an id that no   *)
(* row has yet maps to Null.  Ids are UUIDs and never come back: a lock    *)
(* that has expired or has been deleted is Spent, and as every query asks  *)
(* for expires_at > now() no query tells the two apart.                    *)
(*                                                                         *)
(* Left out: columns no guard reads (payment method, currency, the owner's *)
(* deadline, rejection reason, cancelled_by) and the caller's identity: a  *)
(* call by someone who is not the booking's customer, or does not own its  *)
(* branch, returns an error and changes nothing.                           *)
(***************************************************************************)
EXTENDS Integers, FiniteSets

CONSTANTS
    Service,      \* rows of services
    Capacity,     \* services.capacity
    Time,         \* instants a booking may start or end at
    MaxQuantity,  \* bound on the quantity of one request
    BookingId,    \* ids of rows of bookings
    LockId,       \* ids of rows of booking_locks
    RequestId,    \* ids of rows of reschedule_requests
    Null,         \* no row
    Spent         \* a lock no query finds any more

VARIABLES bookings, locks, requests

tables == <<bookings, locks, requests>>

maxRescheduleAttempts == 3

-----------------------------------------------------------------------------
(* Rows.  A slot may be empty (start = end) but not inverted: the index    *)
(* over tstzrange(start_time, end_time) refuses such a row.                *)

Slot == {s \in [start: Time, end: Time] : s.start <= s.end}

\* The intervals parseTimes lets through.
ParsedSlot == {s \in Slot : s.start < s.end}

Quantity == 1..MaxQuantity

\* Nothing sets 'completed', which the CHECK constraint of status allows too.
ActiveStatus  == {"pending", "awaiting_approval", "confirmed"}
BookingStatus == ActiveStatus \cup {"rejected", "cancelled", "rescheduled"}

Booking == [status:   BookingStatus,
            service:  Service,
            slot:     Slot,
            quantity: Quantity,
            attempts: 0..maxRescheduleAttempts,
            from:     BookingId \cup {Null}]

Lock == [service: Service, slot: Slot, quantity: Quantity]

Request == [booking: BookingId,
            slot:    Slot,
            status:  {"pending", "approved", "rejected"}]

ASSUME TablesAssumption ==
    /\ IsFiniteSet(BookingId) /\ IsFiniteSet(LockId)
    /\ Time \subseteq Int
    /\ MaxQuantity \in Nat
    /\ Capacity \in [Service -> Nat]
    /\ Null \notin Booking \cup Lock \cup Request \cup BookingId
    /\ Spent \notin Lock \cup {Null}

\* A row whose status was never set: the zero value of the field.
NewBookingWithoutStatus(status, svc, slot, quantity, from) ==
    [status |-> "", service |-> svc, slot |-> slot,
     quantity |-> quantity, attempts |-> 0, from |-> from]

NewBooking(status, svc, slot, quantity, from) ==
    [status |-> status, service |-> svc, slot |-> slot,
     quantity |-> quantity, attempts |-> 0, from |-> from]

TablesTypeOK ==
    /\ bookings \in [BookingId -> Booking \cup {Null}]
    /\ locks    \in [LockId -> Lock \cup {Null, Spent}]
    /\ requests \in [RequestId -> Request \cup {Null}]

TablesInit ==
    /\ bookings = [b \in BookingId |-> Null]
    /\ locks    = [l \in LockId |-> Null]
    /\ requests = [r \in RequestId |-> Null]

-----------------------------------------------------------------------------
(* Queries.                                                                *)

Overlaps(s, t) == s.start < t.end /\ s.end > t.start

\* The rows of bookings in one of the given statuses.
InStatus(statuses) ==
    {b \in BookingId : bookings[b] # Null /\ bookings[b].status \in statuses}

ConfirmedOverlap(svc, slot) ==
    {b \in InStatus({"confirmed"}) :
        bookings[b].service = svc /\ Overlaps(bookings[b].slot, slot)}

\* The rows a slot check counts: active bookings and live locks of the
\* service that overlap the interval.
ActiveOverlap(svc, slot) ==
    {b \in InStatus(ActiveStatus) :
        bookings[b].service = svc /\ Overlaps(bookings[b].slot, slot)}

LiveLocks == {l \in LockId : locks[l] \notin {Null, Spent}}

LockOverlap(svc, slot) ==
    {l \in LiveLocks : locks[l].service = svc /\ Overlaps(locks[l].slot, slot)}

\* SUM(quantity) over the rows S of a table: the number of their units.
Units(table, S) == {u \in S \X Quantity : u[2] <= table[u[1]].quantity}
Sum(table, S)   == Cardinality(Units(table, S))

SlotConflictWithoutLocks(svc, slot, quantity, excluded) ==
    Sum(bookings, ActiveOverlap(svc, slot) \ excluded) + quantity > Capacity[svc]

\* The check of CheckSlotConflict, and of checkSlotAvailabilityTx, which
\* leaves the booking being moved out of the count.
SlotConflict(svc, slot, quantity, excluded) ==
    Sum(bookings, ActiveOverlap(svc, slot) \ excluded)
        + Sum(locks, LockOverlap(svc, slot)) + quantity > Capacity[svc]

PendingRequests(b) ==
    {r \in RequestId : /\ requests[r] # Null
                       /\ requests[r].booking = b
                       /\ requests[r].status = "pending"}

\* UPDATE bookings SET status = ... WHERE id = ...: whatever the row says.
UpdateStatus(b, status) ==
    bookings' = [bookings EXCEPT ![b].status = status]

-----------------------------------------------------------------------------
(* The load of a calendar, instant by instant.                             *)

Covers(slot, t) == slot.start <= t /\ t < slot.end

BookedAt(statuses, svc, t) ==
    {b \in InStatus(statuses) :
        bookings[b].service = svc /\ Covers(bookings[b].slot, t)}

LockedAt(svc, t) ==
    {l \in LiveLocks : locks[l].service = svc /\ Covers(locks[l].slot, t)}

\* At no instant do the confirmed bookings of a service take more units than
\* it has, whatever customers lock, book, cancel and move, and whether or not
\* the interval and quantity they book are the ones they locked: the re-check
\* of Approve and the one of ApproveReschedule each have to see to it.
ConfirmedWithinCapacity ==
    \A svc \in Service, t \in Time :
        Sum(bookings, BookedAt({"confirmed"}, svc, t)) <= Capacity[svc]
=============================================================================
