--------------------------- MODULE BookingRequests --------------------------
(***************************************************************************)
(* The booking service of internal/bookings, one statement at a time.      *)
(*                                                                         *)
(* Every HTTP request runs in a goroutine of its own, and every query it   *)
(* makes is a statement of its own on the pool, committed at once: between *)
(* two of them any other request may run, a lock may expire, and the       *)
(* request may stop, because its client hung up (handlers pass the context *)
(* of the request down) or the database returned an error.  Only           *)
(* ApproveReschedule opens a transaction; its row locks are held until it  *)
(* commits or rolls back, and what it writes is seen only when it commits. *)
(*                                                                         *)
(* A call that is under way remembers what it has read: its guards are     *)
(* about rows as they were then.                                           *)
(***************************************************************************)
EXTENDS BookingTables

CONSTANTS
    Caller,     \* requests served at the same time
    Ops,        \* the calls this instance makes
    MayAbort    \* a call may stop between two statements

VARIABLE call   \* call[c]: what c is doing, or Null

vars == <<bookings, locks, requests, call>>

\* What the calls that change the status of one booking expect to read and
\* what they write.
ReadsStatus == [ConfirmPayment    |-> "pending",
                Approve           |-> "awaiting_approval",
                Reject            |-> "awaiting_approval",
                Cancel            |-> "confirmed",
                RequestReschedule |-> "confirmed"]

WritesStatus == [ConfirmPayment    |-> "awaiting_approval",
                 Approve           |-> "confirmed",
                 Reject            |-> "rejected",
                 Cancel            |-> "cancelled"]

StatusOps == DOMAIN ReadsStatus

AllOps == StatusOps \cup
          {"LockSlot", "CreateBooking", "ApproveReschedule", "RejectReschedule"}

ASSUME RequestsAssumption == Ops \subseteq AllOps /\ MayAbort \in BOOLEAN

Wish == [slot: Slot, quantity: Quantity]

\* op: the service call.  at: the statement it makes next.  id: the row it was
\* called for (the service, for LockSlot).  row: that row as it was read.
\* wish: the interval and quantity of the request.  units: SUM(quantity) of
\* the bookings, once it is known.
Call == [op:    AllOps,
         at:    {"bookings", "locks", "write", "increment", "delete", "pending",
                 "lock request", "lock booking"},
         id:    Service \cup BookingId \cup LockId \cup RequestId,
         row:   Booking \cup Lock \cup Request \cup {Null},
         wish:  Wish \cup {Null},
         units: Nat]

ASSUME CallAssumption == Null \notin Call

TypeOK ==
    /\ TablesTypeOK
    /\ call \in [Caller -> Call \cup {Null}]

Init ==
    /\ TablesInit
    /\ call = [c \in Caller |-> Null]

-----------------------------------------------------------------------------
(* Control.                                                                *)

At(c, op, at) == call[c] # Null /\ call[c].op = op /\ call[c].at = at

\* Bound of the instance: a call that inserts a row starts only while ids are
\* left for it and for every call under way, so that none runs out halfway.
InsertsInto == [bookings |-> {"CreateBooking", "ApproveReschedule"},
                locks    |-> {"LockSlot"},
                requests |-> {"RequestReschedule"}]

Free == [bookings |-> {b \in BookingId : bookings[b] = Null},
         locks    |-> {l \in LockId : locks[l] = Null},
         requests |-> {r \in RequestId : requests[r] = Null}]

RoomFor(op) ==
    \A t \in DOMAIN Free : op \in InsertsInto[t] =>
        Cardinality({c \in Caller : call[c] # Null /\ call[c].op \in InsertsInto[t]})
            < Cardinality(Free[t])

Begin(c, op, at, id, row, wish) ==
    /\ op \in Ops
    /\ call[c] = Null
    /\ RoomFor(op)
    /\ call' = [call EXCEPT
           ![c] = [op |-> op, at |-> at, id |-> id, row |-> row,
                   wish |-> wish, units |-> 0]]

Goto(c, at) == call' = [call EXCEPT ![c].at = at]

\* The call returns, with a result or an error.
Return(c) == call' = [call EXCEPT ![c] = Null]

\* The request row and the booking row a transaction holds FOR UPDATE.  An
\* UPDATE of such a row waits, and so does the INSERT of a request for such a
\* booking (its foreign key locks the row FOR KEY SHARE).
InTransaction(c) == call[c] # Null /\ call[c].op = "ApproveReschedule"
                                   /\ call[c].at # "lock request"

NoRowLock(r) == FALSE

RequestLocked(r) == \E c \in Caller : InTransaction(c) /\ call[c].id = r

\* The rows a transaction k would hold if it locked the bookings in the way of
\* the new interval before the one to be moved.
SlotHeldFirst(k) ==
    LET inTheWay == ActiveOverlap(bookings[k.row.booking].service, k.row.slot)
    IN  IF k.at = "lock booking" THEN inTheWay \ {k.row.booking}
                                 ELSE inTheWay \cup {k.row.booking}

\* The rows of bookings a transaction k holds: the one it moves, once it has it.
HeldBookings(k) == IF k.at # "lock booking" THEN {k.row.booking} ELSE {}

BookingLocked(b) == \E c \in Caller : InTransaction(c) /\ b \in HeldBookings(call[c])

\* Between any two statements; an open transaction is rolled back, which
\* leaves nothing behind but releases its rows.
Abort(c) ==
    /\ MayAbort
    /\ call[c] # Null
    /\ Return(c)
    /\ UNCHANGED tables

ExpireLock(l) ==
    /\ l \in LiveLocks
    /\ locks' = [locks EXCEPT ![l] = Spent]
    /\ UNCHANGED <<bookings, requests, call>>

-----------------------------------------------------------------------------
(* The slot check: CheckSlotConflict, or checkSlotAvailabilityTx, which    *)
(* leaves the booking to be moved out.  Two sums, two statements.          *)

\* What a call wants room for.
Wanted(c) ==
    LET k == call[c] IN
    CASE k.op = "LockSlot" ->
             [service |-> k.id, slot |-> k.wish.slot,
              quantity |-> k.wish.quantity, excluded |-> {}]
      [] k.op = "Approve" ->
             [service |-> k.row.service, slot |-> k.row.slot,
              quantity |-> k.row.quantity, excluded |-> {}]
      [] k.op = "ApproveReschedule" ->
             LET orig == k.row.booking
             IN  [service |-> bookings[orig].service, slot |-> k.row.slot,
                  quantity |-> bookings[orig].quantity, excluded |-> {orig}]

SumBookings(c) ==
    /\ call[c] # Null /\ call[c].at = "bookings"
    /\ LET w == Wanted(c) IN
       call' = [call EXCEPT
           ![c].at = "locks",
           ![c].units =
               Sum(bookings, ActiveOverlap(w.service, w.slot) \ w.excluded)]
    /\ UNCHANGED tables

SlotUnavailable(c) == Return(c)

SumLocks(c) ==
    /\ call[c] # Null /\ call[c].at = "locks"
    /\ LET w == Wanted(c) IN
       IF call[c].units + Sum(locks, LockOverlap(w.service, w.slot))
              + w.quantity > Capacity[w.service]
       THEN SlotUnavailable(c)
       ELSE Goto(c, "write")
    /\ UNCHANGED tables

-----------------------------------------------------------------------------
(* Locks and bookings.                                                     *)

StartLockSlot(c, svc, wish) ==
    /\ wish.slot \in ParsedSlot
    /\ Begin(c, "LockSlot", "bookings", svc, Null, wish)
    /\ UNCHANGED tables

CreateLock(c, l) ==
    /\ At(c, "LockSlot", "write")
    /\ locks[l] = Null
    /\ locks' = [locks EXCEPT
           ![l] = [service |-> call[c].id, slot |-> call[c].wish.slot,
                   quantity |-> call[c].wish.quantity]]
    /\ Return(c)
    /\ UNCHANGED <<bookings, requests>>

GetLock(c, l, wish) ==
    /\ l \in LiveLocks
    /\ Begin(c, "CreateBooking", "write", l, locks[l], wish)
    /\ UNCHANGED tables

\* The lock is not looked at again: it may be gone by now.
Create(c, b) ==
    /\ At(c, "CreateBooking", "write")
    /\ bookings[b] = Null
    /\ bookings' = [bookings EXCEPT
           ![b] = NewBooking("pending", call[c].row.service, call[c].wish.slot,
                             call[c].wish.quantity, Null)]
    /\ Goto(c, "delete")
    /\ UNCHANGED <<locks, requests>>

DeleteLock(c) ==
    /\ At(c, "CreateBooking", "delete")
    /\ locks' = [locks EXCEPT ![call[c].id] = Spent]
    /\ Return(c)
    /\ UNCHANGED <<bookings, requests>>

-----------------------------------------------------------------------------
(* ConfirmPayment, Approve, Reject, Cancel, RequestReschedule: read the    *)
(* booking, look around, write its status.                                 *)

AfterGetByID(op) == CASE op = "Approve" -> "bookings"
                      [] op = "RequestReschedule" -> "pending"
                      [] OTHER -> "write"

GetByID(c, op, b) ==
    /\ op # "RequestReschedule"
    /\ bookings[b] # Null /\ bookings[b].status = ReadsStatus[op]
    /\ Begin(c, op, AfterGetByID(op), b, bookings[b], Null)
    /\ UNCHANGED tables

\* A move keeps the quantity.  An interval that parseTimes refuses changes
\* nothing, so it is refused here.
GetByIDToReschedule(c, b, slot) ==
    /\ bookings[b] # Null /\ bookings[b].status = "confirmed"
    /\ bookings[b].attempts < maxRescheduleAttempts
    /\ slot \in ParsedSlot
    /\ Begin(c, "RequestReschedule", AfterGetByID("RequestReschedule"), b,
             bookings[b], [slot |-> slot, quantity |-> bookings[b].quantity])
    /\ UNCHANGED tables

WriteStatus(c) ==
    /\ \E op \in StatusOps \ {"RequestReschedule"} : At(c, op, "write")
    /\ ~BookingLocked(call[c].id)
    /\ UpdateStatus(call[c].id, WritesStatus[call[c].op])
    /\ Return(c)
    /\ UNCHANGED <<locks, requests>>

\* The query for a pending request; parseTimes comes after it.
GetPendingReschedule(c) ==
    /\ At(c, "RequestReschedule", "pending")
    /\ IF PendingRequests(call[c].id) = {} THEN Goto(c, "write") ELSE Return(c)
    /\ UNCHANGED tables

NoIndex(b) == FALSE

\* The unique index idx_one_pending_reschedule refuses a second pending row.
IndexRefuses(b) == PendingRequests(b) # {}

CreateRescheduleRequest(c, r) ==
    LET b == call[c].id IN
    /\ At(c, "RequestReschedule", "write")
    /\ ~BookingLocked(b)
    /\ requests[r] = Null
    /\ IF IndexRefuses(b)
       THEN Return(c) /\ UNCHANGED requests
       ELSE /\ requests' = [requests EXCEPT
                   ![r] = [booking |-> b, slot |-> call[c].wish.slot,
                           status |-> "pending"]]
            /\ Goto(c, "increment")
    /\ UNCHANGED <<bookings, locks>>

AttemptsKept(k) == k.row.attempts

AttemptsWritten(k) == k.row.attempts + 1

\* Status and count as they were read, the count plus one.
IncrementAttempts(c) ==
    /\ At(c, "RequestReschedule", "increment")
    /\ ~BookingLocked(call[c].id)
    /\ bookings' = [bookings EXCEPT
           ![call[c].id].status   = call[c].row.status,
           ![call[c].id].attempts = AttemptsWritten(call[c])]
    /\ Return(c)
    /\ UNCHANGED <<locks, requests>>

-----------------------------------------------------------------------------
(* ApproveReschedule, the transaction of ADR-002, and RejectReschedule.    *)

\* OwnsRescheduleBranch, GetRescheduleByID and GetByID outside the
\* transaction read nothing that decides anything in it.
StartApproveReschedule(c, r) ==
    /\ requests[r] # Null
    /\ Begin(c, "ApproveReschedule", "lock request", r, Null, Null)
    /\ UNCHANGED tables

LockRequest(c) ==
    /\ At(c, "ApproveReschedule", "lock request")
    /\ ~RequestLocked(call[c].id)
    /\ IF requests[call[c].id].status = "pending"
       THEN call' = [call EXCEPT ![c].at  = "lock booking",
                                 ![c].row = requests[call[c].id]]
       ELSE Return(c)
    /\ UNCHANGED tables

\* The row is locked whatever its status says.
LockBooking(c) ==
    /\ At(c, "ApproveReschedule", "lock booking")
    /\ ~BookingLocked(call[c].row.booking)
    /\ Goto(c, "bookings")
    /\ UNCHANGED tables

MarkedOnly(orig, new, slot) ==
    [bookings EXCEPT ![orig].status = "rescheduled"]

\* The status of the request in the row of the booking.
MovedAsApproved(orig, new, slot) ==
    [bookings EXCEPT
        ![orig].status = "rescheduled",
        ![new] = NewBooking("approved", bookings[orig].service, slot,
                            bookings[orig].quantity, orig)]

\* The original becomes 'rescheduled', its replacement is 'confirmed'.
Moved(orig, new, slot) ==
    [bookings EXCEPT
        ![orig].status = "rescheduled",
        ![new] = NewBooking("confirmed", bookings[orig].service, slot,
                            bookings[orig].quantity, orig)]

\* The three writes and the commit that makes them visible together.
CommitReschedule(c, new) ==
    LET r    == call[c].id
        orig == call[c].row.booking
    IN  /\ At(c, "ApproveReschedule", "write")
        /\ bookings[new] = Null
        /\ requests' = [requests EXCEPT ![r].status = "approved"]
        /\ bookings' = Moved(orig, new, call[c].row.slot)
        /\ Return(c)
        /\ UNCHANGED locks

GetRescheduleByID(c, r) ==
    /\ requests[r] # Null /\ requests[r].status = "pending"
    /\ Begin(c, "RejectReschedule", "write", r, requests[r], Null)
    /\ UNCHANGED tables

UpdateRescheduleStatus(c) ==
    /\ At(c, "RejectReschedule", "write")
    /\ ~RequestLocked(call[c].id)
    /\ requests' = [requests EXCEPT ![call[c].id].status = "rejected"]
    /\ Return(c)
    /\ UNCHANGED <<bookings, locks>>

-----------------------------------------------------------------------------
\* The next statement of a call under way.
Statement(c) ==
    \/ SumBookings(c) \/ SumLocks(c)
    \/ \E l \in LockId : CreateLock(c, l)
    \/ \E b \in BookingId : Create(c, b)
    \/ DeleteLock(c)
    \/ WriteStatus(c)
    \/ GetPendingReschedule(c)
    \/ \E r \in RequestId : CreateRescheduleRequest(c, r)
    \/ IncrementAttempts(c)
    \/ LockRequest(c) \/ LockBooking(c)
    \/ \E b \in BookingId : CommitReschedule(c, b)
    \/ UpdateRescheduleStatus(c)

Start(c) ==
    \/ \E svc \in Service, wish \in Wish : StartLockSlot(c, svc, wish)
    \/ \E l \in LockId, wish \in Wish : GetLock(c, l, wish)
    \/ \E op \in StatusOps, b \in BookingId : GetByID(c, op, b)
    \/ \E b \in BookingId, slot \in Slot : GetByIDToReschedule(c, b, slot)
    \/ \E r \in RequestId : StartApproveReschedule(c, r) \/ GetRescheduleByID(c, r)

Next ==
    \/ \E c \in Caller : Start(c) \/ Statement(c) \/ Abort(c)
    \/ \E l \in LockId : ExpireLock(l)

Spec == Init /\ [][Next]_vars

\* A goroutine whose statement can run gets to run it, and PostgreSQL grants
\* row locks in the order they were asked for.  Nothing obliges a client to
\* call, a call to stop or a lock to expire.  That PostgreSQL ends a deadlock
\* by failing one of its transactions is left out: there must be none.
Fairness == \A c \in Caller : SF_vars(Statement(c))

-----------------------------------------------------------------------------
(* Properties.                                                             *)

\* Two requests to move the same booking never wait together, although the
\* service looks for a waiting one long before it inserts the next.
OnePendingRequest ==
    \A b \in BookingId : Cardinality(PendingRequests(b)) <= 1

Replacements(b) == {n \in BookingId : bookings[n] # Null /\ bookings[n].from = b}

AnsweredRequests(b) ==
    {r \in RequestId : requests[r] # Null /\ requests[r].booking = b
                                         /\ requests[r].status # "pending"}

\* An approval clicked twice, or sent again after an error, moves the booking
\* once: no booking has more replacements than requests that were answered.
RequestMovesOnce ==
    \A b \in BookingId :
        Cardinality(Replacements(b)) <= Cardinality(AnsweredRequests(b))

\* However calls stop or overtake one another, an approved request has its new
\* booking, for the time asked for and with the original's service and
\* quantity, and a booking is marked 'rescheduled' only if it was replaced.
MovesAreWhole ==
    /\ \A r \in RequestId : requests[r] # Null /\ requests[r].status = "approved" =>
         \E n \in Replacements(requests[r].booking) :
             /\ bookings[n].slot = requests[r].slot
             /\ bookings[n].service = bookings[requests[r].booking].service
             /\ bookings[n].quantity = bookings[requests[r].booking].quantity
    /\ \A b \in InStatus({"rescheduled"}) : Replacements(b) # {}

\* A rejected request is never approved after all, whichever of the owner's
\* two answers reads the request first.
RejectionIsFinal ==
    [][\A r \in RequestId :
         requests[r] # Null /\ requests[r].status = "rejected"
             => requests'[r].status = "rejected"]_vars

\* No call waits forever for rows: a transaction takes the row of its request
\* and then that of its booking, and holds no row of a booking while it waits
\* for another, so that no two approvals, requests or rejections of moves of
\* bookings in the same slot can wait for each other.
EveryCallReturns == \A c \in Caller : call[c] # Null ~> call[c] = Null

\* One call at a time and none stopped halfway, the statements add up to the
\* calls of BookingService.  An attempt counts as used once its request is there,
CountedBookings ==
    [b \in BookingId |->
        IF \E c \in Caller : At(c, "RequestReschedule", "increment") /\ call[c].id = b
        THEN [bookings[b] EXCEPT !.attempts = @ + 1]
        ELSE bookings[b]]

\* and a lock that GetLock has found as live until the booking is there.
HeldLocks ==
    [l \in LockId |->
        IF \E c \in Caller : At(c, "CreateBooking", "write") /\ call[c].id = l
        THEN (CHOOSE k \in {call[c] : c \in Caller} : k # Null /\ k.id = l).row
        ELSE locks[l]]

Sequential == INSTANCE BookingService WITH
                  Careful <- {}, bookings <- CountedBookings, locks <- HeldLocks

\* For one caller, BookingRequests implements BookingService.
ImplementsSequential == Sequential!Spec
=============================================================================
