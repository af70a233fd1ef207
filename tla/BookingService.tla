--------------------------- MODULE BookingService ---------------------------
(***************************************************************************)
(* The booking service of internal/bookings, one call at a time.           *)
(*                                                                         *)
(* Each action is one service call that runs from its first statement to   *)
(* its last with no other call in between and no database error: what the  *)
(* code promises when nothing gets in its way.  BookingRequests takes the  *)
(* same calls apart into statements.  A call the code refuses returns an   *)
(* error and changes nothing, so its action is simply not enabled.         *)
(***************************************************************************)
EXTENDS BookingTables

CONSTANT
    Careful   \* services whose customers book exactly what they locked, and
              \* whose used locks do get deleted

ASSUME ServiceAssumption == Careful \subseteq Service

StatusIs(b, status) == bookings[b] # Null /\ bookings[b].status = status

RequestExists(r) == requests[r] # Null

IsPending(r) == RequestExists(r) /\ requests[r].status = "pending"

-----------------------------------------------------------------------------
(* Locks.                                                                  *)

LockSlot(l, svc, slot, quantity) ==
    /\ locks[l] = Null
    /\ slot \in ParsedSlot
    /\ ~SlotConflict(svc, slot, quantity, {})
    /\ locks' = [locks EXCEPT
                    ![l] = [service |-> svc, slot |-> slot, quantity |-> quantity]]
    /\ UNCHANGED <<bookings, requests>>

\* Five minutes pass: expires_at > now() turns false.
ExpireLock(l) ==
    /\ l \in LiveLocks
    /\ locks' = [locks EXCEPT ![l] = Spent]
    /\ UNCHANGED <<bookings, requests>>

-----------------------------------------------------------------------------
(* Bookings.                                                               *)

\* The service comes from the lock, the interval and the quantity from the
\* request, which nothing compares with the lock; an error of DeleteLock is
\* ignored.
CreateBooking(b, l, slot, quantity) ==
    /\ l \in LiveLocks
    /\ bookings[b] = Null
    /\ locks[l].service \in Careful =>
           slot = locks[l].slot /\ quantity = locks[l].quantity
    /\ bookings' = [bookings EXCEPT
           ![b] = NewBooking("pending", locks[l].service, slot, quantity, Null)]
    /\ \/ locks' = [locks EXCEPT ![l] = Spent]
       \/ locks[l].service \notin Careful /\ UNCHANGED locks
    /\ UNCHANGED requests

ConfirmPayment(b) ==
    /\ StatusIs(b, "pending")
    /\ UpdateStatus(b, "awaiting_approval")
    /\ UNCHANGED <<locks, requests>>

\* The re-check of Approve finds the very booking it approves, which is
\* active, and adds its quantity once more.
NoRecheck(x) == FALSE

ApproveConflict(b) ==
    SlotConflict(bookings[b].service, bookings[b].slot, bookings[b].quantity, {})

Approve(b) ==
    /\ StatusIs(b, "awaiting_approval")
    /\ ~ApproveConflict(b)
    /\ UpdateStatus(b, "confirmed")
    /\ UNCHANGED <<locks, requests>>

Reject(b) ==
    /\ StatusIs(b, "awaiting_approval")
    /\ UpdateStatus(b, "rejected")
    /\ UNCHANGED <<locks, requests>>

Cancel(b) ==
    /\ StatusIs(b, "confirmed")
    /\ UpdateStatus(b, "cancelled")
    /\ UNCHANGED <<locks, requests>>

-----------------------------------------------------------------------------
(* Reschedules.                                                            *)

AttemptsAllowedAtLimit(b) == bookings[b].attempts <= maxRescheduleAttempts

AttemptsAllowed(b) == bookings[b].attempts < maxRescheduleAttempts

AttemptsUnchanged(b) == bookings[b].attempts

AttemptsAfterRequest(b) == bookings[b].attempts + 1

NoPendingCheck(b) == FALSE

HasPendingRequest(b) == PendingRequests(b) # {}

RequestReschedule(b, r, slot) ==
    /\ StatusIs(b, "confirmed")
    /\ AttemptsAllowed(b)
    /\ ~HasPendingRequest(b)
    /\ slot \in ParsedSlot
    /\ requests[r] = Null
    /\ requests' = [requests EXCEPT
           ![r] = [booking |-> b, slot |-> slot, status |-> "pending"]]
    /\ bookings' = [bookings EXCEPT ![b].attempts = AttemptsAfterRequest(b)]
    /\ UNCHANGED locks

\* The conflict check of the transaction, which leaves out the booking moved.
RescheduleConflict(r) ==
    LET orig == requests[r].booking
    IN  SlotConflict(bookings[orig].service, requests[r].slot,
                     bookings[orig].quantity, {orig})

\* The transaction of ADR-002: all of it or nothing.  It never looks at the
\* status of the booking it replaces.
ApproveReschedule(r, new) ==
    LET orig == requests[r].booking IN
    /\ IsPending(r)
    /\ ~RescheduleConflict(r)
    /\ bookings[new] = Null
    /\ requests' = [requests EXCEPT ![r].status = "approved"]
    /\ bookings' = [bookings EXCEPT
           ![orig].status = "rescheduled",
           ![new] = NewBooking("confirmed", bookings[orig].service,
                               requests[r].slot, bookings[orig].quantity, orig)]
    /\ UNCHANGED locks

RejectReschedule(r) ==
    /\ IsPending(r)
    /\ requests' = [requests EXCEPT ![r].status = "rejected"]
    /\ UNCHANGED <<bookings, locks>>

-----------------------------------------------------------------------------
Init == TablesInit

Next ==
    \/ \E l \in LockId, svc \in Service, slot \in Slot, q \in Quantity :
           LockSlot(l, svc, slot, q)
    \/ \E l \in LockId : ExpireLock(l)
    \/ \E b \in BookingId, l \in LockId, slot \in Slot, q \in Quantity :
           CreateBooking(b, l, slot, q)
    \/ \E b \in BookingId :
           ConfirmPayment(b) \/ Approve(b) \/ Reject(b) \/ Cancel(b)
    \/ \E b \in BookingId, r \in RequestId, slot \in Slot :
           RequestReschedule(b, r, slot)
    \/ \E r \in RequestId, new \in BookingId : ApproveReschedule(r, new)
    \/ \E r \in RequestId : RejectReschedule(r)

Spec == Init /\ [][Next]_tables

TypeOK == TablesTypeOK

-----------------------------------------------------------------------------
(* Properties.                                                             *)

\* Where customers book what they locked and used locks are deleted, the slot
\* is theirs from the lock on: locks and bookings that are not yet refused,
\* cancelled or moved never take more units together than the service has.
ClaimsWithinCapacity ==
    \A svc \in Careful, t \in Time :
        Sum(bookings, BookedAt(ActiveStatus, svc, t))
            + Sum(locks, LockedAt(svc, t)) <= Capacity[svc]

\* The foreign key of reschedule_requests.booking_id.
RequestsNameRows ==
    \A r \in RequestId : requests[r] # Null => bookings[requests[r].booking] # Null

\* What keeps the confirmed bookings within capacity from step to step.
CapacityInv == TypeOK /\ RequestsNameRows /\ ConfirmedWithinCapacity

Replacements(b) == {n \in BookingId : bookings[n] # Null /\ bookings[n].from = b}

ApprovedRequests(b) ==
    {r \in RequestId : requests[r] # Null /\ requests[r].booking = b
                                         /\ requests[r].status = "approved"}

\* A booking is 'rescheduled' exactly when one request for it was approved,
\* and then one booking, and only one, replaces it: for the time that request
\* asked for, with the service and the quantity of the booking replaced.
ReplacedOnce ==
    \A b \in BookingId : bookings[b] # Null =>
        IF bookings[b].status = "rescheduled"
        THEN \E r \in RequestId, n \in BookingId :
                /\ ApprovedRequests(b) = {r}
                /\ Replacements(b) = {n}
                /\ bookings[n].slot = requests[r].slot
                /\ bookings[n].service = bookings[b].service
                /\ bookings[n].quantity = bookings[b].quantity
        ELSE ApprovedRequests(b) = {} /\ Replacements(b) = {}

\* The attempts a booking has used up are the requests made for it, answered
\* or not: the limit of three is a limit on rows of reschedule_requests.
AttemptsCountRequests ==
    \A b \in BookingId : bookings[b] # Null =>
        bookings[b].attempts =
            Cardinality({r \in RequestId :
                            requests[r] # Null /\ requests[r].booking = b})

\* A request waits for an answer only on a booking that is still confirmed,
\* or was cancelled after it was made; never on one already replaced.
PendingOnLiveBooking ==
    \A r \in RequestId : IsPending(r) =>
        /\ bookings[requests[r].booking] # Null
        /\ bookings[requests[r].booking].status \in {"confirmed", "cancelled"}
        /\ PendingRequests(requests[r].booking) = {r}

\* What keeps the histories of moved bookings apart from step to step.
LineageInv ==
    /\ TypeOK /\ RequestsNameRows
    /\ \A n \in BookingId : bookings[n] # Null /\ bookings[n].from # Null
                              => bookings[bookings[n].from] # Null
    /\ PendingOnLiveBooking
    /\ ReplacedOnce

\* The confirmed bookings are claims on a ledger that honours capacities:
\* confirming takes a claim, cancelling releases it, and an approved
\* reschedule hands it over in one step.
HeldClaims ==
    [b \in BookingId |->
        IF StatusIs(b, "confirmed")
        THEN [service  |-> bookings[b].service,
              slot     |-> bookings[b].slot,
              quantity |-> bookings[b].quantity]
        ELSE Null]

Ledger == INSTANCE SlotLedger WITH
              Holder <- BookingId, NoClaim <- Null, held <- HeldClaims

\* BookingService implements SlotLedger.
ImplementsLedger == Ledger!Spec

\* The claim of docs/domain-glossary.md:90: the original stays confirmed
\* while a request is pending, so what gets replaced is a confirmed booking.
OnlyConfirmedIsReplaced ==
    [][\A b \in BookingId :
         bookings[b] # Null /\ bookings'[b].status = "rescheduled"
             => bookings[b].status \in {"confirmed", "rescheduled"}]_tables
=============================================================================
