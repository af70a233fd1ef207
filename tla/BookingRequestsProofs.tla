------------------------ MODULE BookingRequestsProofs ------------------------
(***************************************************************************)
(* Theorems about BookingRequests, for any number of calls at a time, any  *)
(* finite set of bookings and locks, and calls that stop anywhere.         *)
(*                                                                         *)
(* The last part is about one call at a time: there the statements of the  *)
(* calls implement BookingService, whose theorems carry over.              *)
(***************************************************************************)
EXTENDS BookingRequests, FiniteSetTheorems, TLAPS

-----------------------------------------------------------------------------
(* What a call under way knows.                                            *)

\* Its fields, by the call it is.
Shape(k) ==
    /\ k.op = "LockSlot" => k.id \in Service /\ k.wish \in Wish
    /\ k.op = "CreateBooking" => k.id \in LockId /\ k.row \in Lock /\ k.wish \in Wish
    /\ k.op \in StatusOps => k.id \in BookingId /\ k.row \in Booking
    /\ k.op = "RequestReschedule" =>
           k.wish \in Wish /\ k.row.status = "confirmed" /\ k.row.attempts < maxRescheduleAttempts
    /\ k.op \in {"ApproveReschedule", "RejectReschedule"} => k.id \in RequestId
    /\ k.op = "ApproveReschedule" /\ k.at # "lock request" => k.row \in Request

\* The rows it has found.
Found(k) ==
    /\ k.op \in StatusOps => bookings[k.id] # Null
    /\ k.op \in {"ApproveReschedule", "RejectReschedule"} => requests[k.id] # Null

\* A transaction has seen the request it holds waiting, and nobody else answers it.
Holds(c) ==
    InTransaction(c) =>
        /\ requests[call[c].id] = call[c].row /\ call[c].row.status = "pending"
        /\ \A d \in Caller : InTransaction(d) /\ call[d].id = call[c].id => d = c

CallsInv == \A c \in Caller : call[c] # Null => Shape(call[c]) /\ Found(call[c]) /\ Holds(c)

RequestsNameRows ==
    \A r \in RequestId : requests[r] # Null => bookings[requests[r].booking] # Null

RequestsInv == TypeOK /\ RequestsNameRows /\ CallsInv

-----------------------------------------------------------------------------
(* Rows.                                                                   *)

LEMMA NullIsNoRow ==
    Null \notin Booking /\ Null \notin Lock /\ Null \notin Request /\ Null \notin BookingId
BY TablesAssumption

LEMMA BookingIsARow ==
    ASSUME TypeOK, NEW b \in BookingId, bookings[b] # Null
    PROVE  bookings[b] \in Booking
BY DEF TypeOK, TablesTypeOK

LEMMA RequestIsARow ==
    ASSUME TypeOK, NEW r \in RequestId, requests[r] # Null
    PROVE  requests[r] \in Request
BY DEF TypeOK, TablesTypeOK

LEMMA CallIsARow ==
    ASSUME TypeOK, NEW c \in Caller, call[c] # Null
    PROVE  call[c] \in Call /\ call[c].op \in AllOps /\ call[c].units \in Nat
BY DEF TypeOK, Call

\* A new row of bookings.
Inserted(b, row) ==
    /\ bookings[b] = Null /\ bookings' = [bookings EXCEPT ![b] = row]
    /\ row.status = "pending" /\ row.from = Null
    /\ UNCHANGED requests

\* A row written over: status and attempts change, and it is not moved.
Overwritten(b, row) ==
    /\ bookings[b] # Null /\ bookings' = [bookings EXCEPT ![b] = row]
    /\ row.service = bookings[b].service /\ row.slot = bookings[b].slot
    /\ row.quantity = bookings[b].quantity /\ row.from = bookings[b].from
    /\ row.status # "rescheduled"
    /\ UNCHANGED requests

\* A new request, where none was waiting.
Requested(r, b, slot) ==
    /\ requests[r] = Null /\ bookings[b] # Null /\ PendingRequests(b) = {}
    /\ requests' = [requests EXCEPT ![r] = [booking |-> b, slot |-> slot, status |-> "pending"]]
    /\ UNCHANGED bookings

Rejected(r) ==
    /\ requests[r] # Null /\ ~RequestLocked(r)
    /\ requests' = [requests EXCEPT ![r].status = "rejected"]
    /\ UNCHANGED bookings

\* An approved move.
MovedBy(r, new) ==
    LET orig == requests[r].booking IN
    /\ requests[r] # Null /\ requests[r].status = "pending"
    /\ bookings[orig] # Null /\ bookings[new] = Null
    /\ requests' = [requests EXCEPT ![r].status = "approved"]
    /\ bookings' = Moved(orig, new, requests[r].slot)

LEMMA StatusIsOverwritten ==
    ASSUME RequestsInv, NEW c \in Caller, WriteStatus(c)
    PROVE  \E b \in BookingId, row \in Booking : Overwritten(b, row)
<1> DEFINE k == call[c]
           b == k.id
           row == [bookings[b] EXCEPT !.status = WritesStatus[k.op]]
<1>1. k # Null /\ k.op \in {"ConfirmPayment", "Approve", "Reject", "Cancel"}
  BY DEF WriteStatus, At, StatusOps, ReadsStatus
<1>2. b \in BookingId /\ bookings[b] # Null
  BY <1>1 DEF RequestsInv, CallsInv, Shape, Found, StatusOps, ReadsStatus
<1>3. WritesStatus[k.op] \in BookingStatus \ {"rescheduled"}
  BY <1>1 DEF WritesStatus, BookingStatus, ActiveStatus
<1>4. bookings[b] \in Booking
  BY <1>2, BookingIsARow DEF RequestsInv
<1> DEFINE status == WritesStatus[k.op]
<1>5. status \in BookingStatus /\ status # "rescheduled"
  BY <1>3
<1>6. bookings' = [bookings EXCEPT ![b].status = status] /\ requests' = requests
  BY DEF WriteStatus, UpdateStatus
<1> HIDE DEF status
<1>7. [bookings[b] EXCEPT !.status = status] \in Booking
  BY <1>4, <1>5 DEF Booking
<1>8. bookings' = [bookings EXCEPT ![b] = [bookings[b] EXCEPT !.status = status]]
  BY <1>6
<1>9. Overwritten(b, [bookings[b] EXCEPT !.status = status])
  BY <1>2, <1>4, <1>5, <1>6, <1>8 DEF Overwritten, Booking
<1> QED
  BY <1>2, <1>7, <1>9

LEMMA AttemptsAreOverwritten ==
    ASSUME RequestsInv, NEW c \in Caller, IncrementAttempts(c)
    PROVE  \E b \in BookingId, row \in Booking : Overwritten(b, row)
<1> DEFINE k == call[c]
           b == k.id
           n == k.row.attempts + 1
           row == [bookings[b] EXCEPT !.status = "confirmed", !.attempts = n]
<1>1. k # Null /\ k.op = "RequestReschedule"
  BY DEF IncrementAttempts, At
<1>2. /\ b \in BookingId /\ bookings[b] # Null /\ k.row \in Booking
      /\ k.row.status = "confirmed" /\ k.row.attempts < maxRescheduleAttempts
  BY <1>1 DEF RequestsInv, CallsInv, Shape, Found, StatusOps, ReadsStatus
<1>3. bookings[b] \in Booking
  BY <1>2, BookingIsARow DEF RequestsInv
<1>4. n \in 0..maxRescheduleAttempts
  BY <1>2 DEF Booking, maxRescheduleAttempts
<1>5. requests' = requests
  BY DEF IncrementAttempts
<1>6. bookings' = [bookings EXCEPT ![b].status = "confirmed", ![b].attempts = n]
  BY <1>2 DEF IncrementAttempts, AttemptsWritten
<1> HIDE DEF n, k
<1>7. row \in Booking
  BY <1>3, <1>4 DEF Booking, BookingStatus, ActiveStatus
<1>8. bookings' = [bookings EXCEPT ![b] = row]
  BY <1>2, <1>6 DEF RequestsInv, TypeOK, TablesTypeOK
<1>9. Overwritten(b, row)
  BY <1>2, <1>3, <1>5, <1>8 DEF Overwritten, Booking
<1> QED
  BY <1>2, <1>7, <1>9

LEMMA RowsChange ==
    ASSUME RequestsInv, [Next]_vars
    PROVE  \/ UNCHANGED <<bookings, requests>>
           \/ \E b \in BookingId, row \in Booking : Inserted(b, row) \/ Overwritten(b, row)
           \/ \E r \in RequestId, b \in BookingId, slot \in Slot : Requested(r, b, slot)
           \/ \E r \in RequestId : Rejected(r)
           \/ \E r \in RequestId, new \in BookingId : MovedBy(r, new)
<1> USE DEF RequestsInv
<1>1. ASSUME NEW c \in Caller, NEW b \in BookingId, Create(c, b)
      PROVE  \E row \in Booking : Inserted(b, row)
  <2> DEFINE k == call[c]
             row == NewBooking("pending", k.row.service, k.wish.slot, k.wish.quantity, Null)
  <2>1. k # Null /\ k.row \in Lock /\ k.wish \in Wish
    BY <1>1 DEF Create, At, CallsInv, Shape
  <2>2. row \in Booking
    BY <2>1 DEF NewBooking, Booking, Lock, Wish, BookingStatus, ActiveStatus,
               maxRescheduleAttempts
  <2>3. Inserted(b, row)
    BY <1>1 DEF Create, Inserted, NewBooking
  <2> QED
    BY <2>2, <2>3
<1>2. ASSUME NEW c \in Caller, NEW r \in RequestId, CreateRescheduleRequest(c, r)
      PROVE  \/ UNCHANGED <<bookings, requests>>
             \/ \E b \in BookingId, slot \in Slot : Requested(r, b, slot)
  <2> DEFINE k == call[c]
  <2>1. /\ k # Null /\ k.wish \in Wish /\ k.id \in BookingId /\ bookings[k.id] # Null
    BY <1>2 DEF CreateRescheduleRequest, At, CallsInv, Shape, Found, StatusOps, ReadsStatus
  <2>2. k.wish.slot \in Slot
    BY <2>1 DEF Wish
  <2> QED
    BY <1>2, <2>1, <2>2 DEF CreateRescheduleRequest, Requested, IndexRefuses
<1>3. ASSUME NEW c \in Caller, UpdateRescheduleStatus(c)
      PROVE  \E r \in RequestId : Rejected(r)
  BY <1>3 DEF UpdateRescheduleStatus, Rejected, At, CallsInv, Shape, Found
<1>4. ASSUME NEW c \in Caller, NEW new \in BookingId, CommitReschedule(c, new)
      PROVE  \E r \in RequestId : MovedBy(r, new)
  <2> DEFINE r == call[c].id
  <2>1. /\ call[c] # Null /\ call[c].op = "ApproveReschedule" /\ call[c].at = "write"
    BY <1>4 DEF CommitReschedule, At
  <2>2. /\ r \in RequestId /\ requests[r] # Null
        /\ requests[r] = call[c].row /\ call[c].row.status = "pending"
    BY <2>1 DEF CallsInv, Shape, Found, Holds, InTransaction
  <2>3. bookings[requests[r].booking] # Null
    BY <2>2 DEF RequestsNameRows
  <2>4. MovedBy(r, new)
    BY <1>4, <2>2, <2>3 DEF CommitReschedule, MovedBy
  <2> QED
    BY <2>2, <2>4
<1>5. ASSUME NEW c \in Caller, Start(c) \/ Abort(c)
      PROVE  UNCHANGED <<bookings, requests>>
  BY <1>5 DEF Start, Abort, StartLockSlot, GetLock, GetByID, GetByIDToReschedule,
              StartApproveReschedule, GetRescheduleByID, tables
<1>6. ASSUME NEW c \in Caller,
             \/ SumBookings(c) \/ SumLocks(c) \/ DeleteLock(c) \/ GetPendingReschedule(c)
             \/ LockRequest(c) \/ LockBooking(c) \/ \E l \in LockId : CreateLock(c, l)
      PROVE  UNCHANGED <<bookings, requests>>
  BY <1>6 DEF SumBookings, SumLocks, DeleteLock, GetPendingReschedule, LockRequest,
              LockBooking, CreateLock, tables
<1>7. ASSUME (\E l \in LockId : ExpireLock(l)) \/ UNCHANGED vars
      PROVE  UNCHANGED <<bookings, requests>>
  BY <1>7 DEF ExpireLock, vars
<1> QED
  BY <1>1, <1>2, <1>3, <1>4, <1>5, <1>6, <1>7, StatusIsOverwritten, AttemptsAreOverwritten
  DEF Next, Statement

\* A row of bookings stays what and when it was booked for, and what it replaces.
LEMMA BookingsStay ==
    ASSUME RequestsInv, [Next]_vars, NEW b \in BookingId, bookings[b] # Null
    PROVE  /\ bookings'[b] # Null
           /\ bookings'[b].service = bookings[b].service
           /\ bookings'[b].slot = bookings[b].slot
           /\ bookings'[b].quantity = bookings[b].quantity
           /\ bookings'[b].from = bookings[b].from
<1> DEFINE Same == /\ bookings'[b] # Null
                   /\ bookings'[b].service = bookings[b].service
                   /\ bookings'[b].slot = bookings[b].slot
                   /\ bookings'[b].quantity = bookings[b].quantity
                   /\ bookings'[b].from = bookings[b].from
<1> USE DEF RequestsInv
<1>1. CASE bookings' = bookings
  BY <1>1
<1>2. ASSUME NEW d \in BookingId, NEW row \in Booking, Inserted(d, row) PROVE Same
  BY <1>2 DEF Inserted, TypeOK, TablesTypeOK
<1>3. ASSUME NEW d \in BookingId, NEW row \in Booking, Overwritten(d, row) PROVE Same
  BY <1>3, NullIsNoRow DEF Overwritten, TypeOK, TablesTypeOK
<1>4. ASSUME NEW r \in RequestId, NEW new \in BookingId, MovedBy(r, new) PROVE Same
  <2> DEFINE orig == requests[r].booking
  <2>1. orig \in BookingId /\ bookings[orig] \in Booking
    BY <1>4, RequestIsARow, BookingIsARow DEF MovedBy, Request
  <2>2. [bookings[orig] EXCEPT !.status = "rescheduled"] \in Booking
    BY <2>1 DEF Booking, BookingStatus, ActiveStatus
  <2>3. bookings'[b] = IF b = orig THEN [bookings[orig] EXCEPT !.status = "rescheduled"]
                                   ELSE bookings[b]
    BY <1>4, <2>1 DEF MovedBy, Moved, TypeOK, TablesTypeOK
  <2> QED
    BY <2>1, <2>2, <2>3, NullIsNoRow DEF Booking
<1> QED
  BY <1>1, <1>2, <1>3, <1>4, RowsChange DEF Requested, Rejected

\* A request stays for the same booking and interval.
LEMMA RequestsStay ==
    ASSUME RequestsInv, [Next]_vars, NEW r \in RequestId, requests[r] # Null
    PROVE  /\ requests'[r] # Null
           /\ requests'[r].booking = requests[r].booking
           /\ requests'[r].slot = requests[r].slot
           /\ requests'[r].status # requests[r].status =>
                  requests'[r].status = "rejected" \/ requests[r].status = "pending"
           /\ requests'[r].status = "pending" => requests[r].status = "pending"
<1> DEFINE Same == /\ requests'[r] # Null
                   /\ requests'[r].booking = requests[r].booking
                   /\ requests'[r].slot = requests[r].slot
                   /\ requests'[r].status # requests[r].status =>
                          requests'[r].status = "rejected" \/ requests[r].status = "pending"
                   /\ requests'[r].status = "pending" => requests[r].status = "pending"
<1> USE DEF RequestsInv
<1>1. CASE requests' = requests
  BY <1>1
<1>2. ASSUME NEW q \in RequestId, NEW b \in BookingId, NEW slot \in Slot, Requested(q, b, slot)
      PROVE  Same
  BY <1>2 DEF Requested, TypeOK, TablesTypeOK
<1>3. ASSUME NEW q \in RequestId, NEW status \in {"approved", "rejected"}, requests[q] # Null,
             requests' = [requests EXCEPT ![q].status = status],
             status = "approved" => requests[q].status = "pending"
      PROVE  Same
  <2>1. requests[q] \in Request /\ [requests[q] EXCEPT !.status = status] \in Request
    BY <1>3, RequestIsARow DEF Request
  <2>2. requests'[r] = IF r = q THEN [requests[q] EXCEPT !.status = status] ELSE requests[r]
    BY <1>3 DEF TypeOK, TablesTypeOK
  <2> QED
    BY <1>3, <2>1, <2>2, NullIsNoRow DEF Request
<1> QED
  BY <1>1, <1>2, <1>3, RowsChange DEF Inserted, Overwritten, Rejected, MovedBy

\* A request that was not there is for a booking that is.
LEMMA RequestIsNew ==
    ASSUME RequestsInv, [Next]_vars, NEW r \in RequestId, requests[r] = Null,
           requests'[r] # Null
    PROVE  \E b \in BookingId, slot \in Slot :
               /\ Requested(r, b, slot) /\ bookings'[b] # Null
               /\ requests'[r] = [booking |-> b, slot |-> slot, status |-> "pending"]
<1> USE DEF RequestsInv
<1>1. ASSUME NEW q \in RequestId, NEW b \in BookingId, NEW slot \in Slot, Requested(q, b, slot)
      PROVE  /\ q = r /\ bookings'[b] # Null
             /\ requests'[r] = [booking |-> b, slot |-> slot, status |-> "pending"]
  BY <1>1 DEF Requested, TypeOK, TablesTypeOK
<1>2. ASSUME NEW q \in RequestId, Rejected(q) PROVE FALSE
  BY <1>2 DEF Rejected, TypeOK, TablesTypeOK
<1>3. ASSUME NEW q \in RequestId, NEW new \in BookingId, MovedBy(q, new) PROVE FALSE
  BY <1>3 DEF MovedBy, TypeOK, TablesTypeOK
<1> QED
  BY <1>1, <1>2, <1>3, RowsChange DEF Inserted, Overwritten

LEMMA TableStep ==
    ASSUME RequestsInv, [Next]_vars
    PROVE  TablesTypeOK'
<1> USE DEF RequestsInv
<1> DEFINE Typed == /\ bookings' \in [BookingId -> Booking \cup {Null}]
                    /\ requests' \in [RequestId -> Request \cup {Null}]
<1>1. ASSUME UNCHANGED <<bookings, requests>> PROVE Typed
  BY <1>1 DEF TypeOK, TablesTypeOK
<1>2. ASSUME NEW b \in BookingId, NEW row \in Booking, Inserted(b, row) \/ Overwritten(b, row)
      PROVE  Typed
  BY <1>2 DEF Inserted, Overwritten, TypeOK, TablesTypeOK
<1>3. ASSUME NEW r \in RequestId, NEW b \in BookingId, NEW slot \in Slot, Requested(r, b, slot)
      PROVE  Typed
  <2>1. [booking |-> b, slot |-> slot, status |-> "pending"] \in Request
    BY DEF Request
  <2> QED
    BY <1>3, <2>1 DEF Requested, TypeOK, TablesTypeOK
<1>4. ASSUME NEW r \in RequestId, Rejected(r) PROVE Typed
  <2>1. [requests[r] EXCEPT !.status = "rejected"] \in Request
    BY <1>4, RequestIsARow DEF Rejected, Request
  <2> QED
    BY <1>4, <2>1 DEF Rejected, TypeOK, TablesTypeOK
<1>5. ASSUME NEW r \in RequestId, NEW new \in BookingId, MovedBy(r, new) PROVE Typed
  <2> DEFINE orig == requests[r].booking
             slot == requests[r].slot
             row == NewBooking("confirmed", bookings[orig].service, slot,
                               bookings[orig].quantity, orig)
  <2>1. orig \in BookingId /\ slot \in Slot /\ bookings[orig] \in Booking
    BY <1>5, RequestIsARow, BookingIsARow DEF MovedBy, Request
  <2>2. [bookings[orig] EXCEPT !.status = "rescheduled"] \in Booking
    BY <2>1 DEF Booking, BookingStatus, ActiveStatus
  <2>3. row \in Booking
    BY <2>1 DEF NewBooking, Booking, BookingStatus, ActiveStatus, maxRescheduleAttempts
  <2>4. bookings' = [bookings EXCEPT ![orig].status = "rescheduled", ![new] = row]
    BY <1>5 DEF MovedBy, Moved
  <2>5. [requests[r] EXCEPT !.status = "approved"] \in Request
    BY <1>5, RequestIsARow DEF MovedBy, Request
  <2>6. requests' \in [RequestId -> Request \cup {Null}]
    BY <1>5, <2>5 DEF MovedBy, TypeOK, TablesTypeOK
  <2> HIDE DEF row
  <2> QED
    BY <2>2, <2>3, <2>4, <2>6 DEF TypeOK, TablesTypeOK
<1>6. Typed
  BY <1>1, <1>2, <1>3, <1>4, <1>5, RowsChange DEF TypeOK, TablesTypeOK
<1>7. locks' \in [LockId -> Lock \cup {Null, Spent}]
  <2>1. ASSUME NEW c \in Caller, NEW l \in LockId, CreateLock(c, l)
        PROVE  locks' \in [LockId -> Lock \cup {Null, Spent}]
    <3>1. call[c].id \in Service /\ call[c].wish \in Wish
      BY <2>1 DEF CreateLock, At, CallsInv, Shape
    <3>2. [service |-> call[c].id, slot |-> call[c].wish.slot,
           quantity |-> call[c].wish.quantity] \in Lock
      BY <3>1 DEF Wish, Lock
    <3> QED
      BY <2>1, <3>2 DEF CreateLock, TypeOK, TablesTypeOK
  <2>2. ASSUME NEW c \in Caller, DeleteLock(c)
        PROVE  locks' \in [LockId -> Lock \cup {Null, Spent}]
    BY <2>2 DEF DeleteLock, TypeOK, TablesTypeOK
  <2>3. ASSUME NEW l \in LockId, ExpireLock(l)
        PROVE  locks' \in [LockId -> Lock \cup {Null, Spent}]
    BY <2>3 DEF ExpireLock, TypeOK, TablesTypeOK
  <2>4. ASSUME locks' # locks
        PROVE  \/ \E c \in Caller : DeleteLock(c) \/ \E l \in LockId : CreateLock(c, l)
               \/ \E l \in LockId : ExpireLock(l)
    BY <2>4 DEF Next, vars, tables, Start, Statement, Abort, StartLockSlot, GetLock, GetByID,
                GetByIDToReschedule, StartApproveReschedule, GetRescheduleByID, SumBookings,
                SumLocks, Create, WriteStatus, GetPendingReschedule, CreateRescheduleRequest,
                IncrementAttempts, LockRequest, LockBooking, CommitReschedule,
                UpdateRescheduleStatus
  <2> QED
    BY <2>1, <2>2, <2>3, <2>4 DEF TypeOK, TablesTypeOK
<1> QED
  BY <1>6, <1>7 DEF TablesTypeOK

-----------------------------------------------------------------------------
(* What a step makes of a call.                                            *)

\* It begins, for rows that are there, outside any transaction.
Begins(d) ==
    /\ call[d] = Null /\ call'[d] \in Call
    /\ Shape(call'[d]) /\ Found(call'[d])
    /\ call'[d].op = "ApproveReschedule" => call'[d].at = "lock request"

\* It goes on with what it knows.
Continues(d) ==
    /\ call[d] # Null /\ call'[d] \in Call
    /\ call'[d].op = call[d].op /\ call'[d].id = call[d].id
    /\ call'[d].row = call[d].row /\ call'[d].wish = call[d].wish
    /\ call'[d].at = "lock request" <=> call[d].at = "lock request"

\* It takes the row of a waiting request that no transaction holds.
Takes(d) ==
    /\ call[d] # Null /\ call'[d] \in Call
    /\ call[d].op = "ApproveReschedule" /\ call[d].at = "lock request"
    /\ call'[d].op = call[d].op /\ call'[d].id = call[d].id
    /\ call'[d].row = requests[call[d].id] /\ requests[call[d].id].status = "pending"
    /\ ~RequestLocked(call[d].id)
    /\ UNCHANGED requests
    /\ \A e \in Caller : e # d => call'[e] = call[e]

LEMMA SumIsNatural ==
    ASSUME NEW table, NEW S, IsFiniteSet(S)
    PROVE  Sum(table, S) \in Nat
<1>1. IsFiniteSet(Quantity)
  BY TablesAssumption, FS_Interval DEF Quantity
<1>2. IsFiniteSet(S \X Quantity)
  BY <1>1, FS_Product
<1>3. Units(table, S) \subseteq S \X Quantity
  BY DEF Units
<1> QED
  BY <1>2, <1>3, FS_Subset, FS_CardinalityType DEF Sum

LEMMA BeginMoves ==
    ASSUME TypeOK, NEW c \in Caller, NEW op \in AllOps,
           NEW at \in {"bookings", "write", "pending", "lock request"},
           NEW id \in Service \cup BookingId \cup LockId \cup RequestId,
           NEW row \in Booking \cup Lock \cup Request \cup {Null},
           NEW wish \in Wish \cup {Null},
           Begin(c, op, at, id, row, wish),
           op = "LockSlot" => id \in Service /\ wish \in Wish,
           op = "CreateBooking" => id \in LockId /\ row \in Lock /\ wish \in Wish,
           op \in StatusOps => id \in BookingId /\ row \in Booking /\ bookings[id] # Null,
           op = "RequestReschedule" => /\ wish \in Wish /\ row.status = "confirmed"
                                       /\ row.attempts < maxRescheduleAttempts,
           op \in {"ApproveReschedule", "RejectReschedule"} =>
               id \in RequestId /\ requests[id] # Null,
           op = "ApproveReschedule" => at = "lock request",
           NEW d \in Caller
    PROVE  call'[d] = call[d] \/ Begins(d)
<1> DEFINE k == [op |-> op, at |-> at, id |-> id, row |-> row, wish |-> wish, units |-> 0]
<1>1. k \in Call
  BY DEF Call
<1>2. /\ k.op = op /\ k.at = at /\ k.id = id /\ k.row = row /\ k.wish = wish
  OBVIOUS
<1>3. call[c] = Null /\ call' = [call EXCEPT ![c] = k]
  BY DEF Begin
<1> HIDE DEF k
<1>4. Shape(k) /\ Found(k)
  BY <1>2 DEF Shape, Found
<1> QED
  BY <1>1, <1>2, <1>3, <1>4 DEF Begins, TypeOK

LEMMA GotoMoves ==
    ASSUME TypeOK, NEW c \in Caller, call[c] # Null, call[c].at # "lock request",
           NEW at \in {"bookings", "locks", "write", "increment", "delete", "lock booking"},
           Goto(c, at), NEW d \in Caller
    PROVE  call'[d] = call[d] \/ Continues(d)
<1> DEFINE k == [call[c] EXCEPT !.at = at]
<1>1. k \in Call
  BY CallIsARow DEF Call
<1>2. /\ k.op = call[c].op /\ k.id = call[c].id /\ k.row = call[c].row
      /\ k.wish = call[c].wish /\ k.at = at
  BY CallIsARow DEF Call
<1>3. call' = [call EXCEPT ![c] = k]
  BY DEF Goto
<1> HIDE DEF k
<1> QED
  BY <1>1, <1>2, <1>3 DEF Continues, TypeOK

Moves(d) == \/ call'[d] = call[d] \/ call'[d] = Null
            \/ Begins(d) \/ Continues(d) \/ Takes(d)

LEMMA StartMoves ==
    ASSUME RequestsInv, NEW c \in Caller, Start(c), NEW d \in Caller
    PROVE  Moves(d)
<1> USE DEF RequestsInv
<1>1. ASSUME NEW svc \in Service, NEW wish \in Wish, StartLockSlot(c, svc, wish)
      PROVE  Moves(d)
  <2>1. Begin(c, "LockSlot", "bookings", svc, Null, wish)
    BY <1>1 DEF StartLockSlot
  <2> QED
    BY <2>1, BeginMoves DEF Moves, AllOps, StatusOps, ReadsStatus
<1>2. ASSUME NEW l \in LockId, NEW wish \in Wish, GetLock(c, l, wish)
      PROVE  Moves(d)
  <2>1. /\ Begin(c, "CreateBooking", "write", l, locks[l], wish) /\ locks[l] \in Lock
    BY <1>2 DEF GetLock, LiveLocks, TypeOK, TablesTypeOK
  <2> QED
    BY <2>1, BeginMoves DEF Moves, AllOps, StatusOps, ReadsStatus
<1>3. ASSUME NEW op \in StatusOps, NEW b \in BookingId, GetByID(c, op, b)
      PROVE  Moves(d)
  <2>1. /\ op # "RequestReschedule" /\ bookings[b] # Null /\ bookings[b] \in Booking
        /\ Begin(c, op, AfterGetByID(op), b, bookings[b], Null)
    BY <1>3, BookingIsARow DEF GetByID
  <2>2. AfterGetByID(op) \in {"bookings", "write"}
    BY <2>1 DEF AfterGetByID
  <2>3. op \in AllOps /\ op \notin {"LockSlot", "CreateBooking", "ApproveReschedule",
                                    "RejectReschedule"}
    BY DEF AllOps, StatusOps, ReadsStatus
  <2> QED
    BY <2>1, <2>2, <2>3, BeginMoves DEF Moves
<1>4. ASSUME NEW b \in BookingId, NEW slot \in Slot, GetByIDToReschedule(c, b, slot)
      PROVE  Moves(d)
  <2> DEFINE wish == [slot |-> slot, quantity |-> bookings[b].quantity]
  <2>1. /\ bookings[b] # Null /\ bookings[b] \in Booking
        /\ bookings[b].status = "confirmed" /\ bookings[b].attempts < maxRescheduleAttempts
        /\ Begin(c, "RequestReschedule", "pending", b, bookings[b], wish)
    BY <1>4, BookingIsARow DEF GetByIDToReschedule, AfterGetByID
  <2>2. wish \in Wish
    BY <2>1 DEF Wish, Booking
  <2> HIDE DEF wish
  <2> QED
    BY <2>1, <2>2, BeginMoves DEF Moves, AllOps, StatusOps, ReadsStatus
<1>5. ASSUME NEW r \in RequestId, StartApproveReschedule(c, r) PROVE Moves(d)
  <2>1. /\ requests[r] # Null
        /\ Begin(c, "ApproveReschedule", "lock request", r, Null, Null)
    BY <1>5 DEF StartApproveReschedule
  <2> QED
    BY <2>1, BeginMoves DEF Moves, AllOps, StatusOps, ReadsStatus
<1>6. ASSUME NEW r \in RequestId, GetRescheduleByID(c, r) PROVE Moves(d)
  <2>1. /\ requests[r] # Null /\ requests[r] \in Request
        /\ Begin(c, "RejectReschedule", "write", r, requests[r], Null)
    BY <1>6, RequestIsARow DEF GetRescheduleByID
  <2> QED
    BY <2>1, BeginMoves DEF Moves, AllOps, StatusOps, ReadsStatus
<1> QED
  BY <1>1, <1>2, <1>3, <1>4, <1>5, <1>6 DEF Start

LEMMA StatementMoves ==
    ASSUME RequestsInv, NEW c \in Caller, Statement(c), NEW d \in Caller
    PROVE  Moves(d)
<1> USE DEF RequestsInv
<1>1. ASSUME Return(c) PROVE Moves(d)
  BY <1>1 DEF Return, Moves, TypeOK
<1>2. ASSUME call[c] # Null, call[c].at # "lock request",
             NEW at \in {"bookings", "locks", "write", "increment", "delete", "lock booking"},
             Goto(c, at)
      PROVE  Moves(d)
  BY <1>2, GotoMoves DEF Moves
<1>3. ASSUME SumBookings(c) PROVE Moves(d)
  <2> DEFINE w == Wanted(c)
             S == ActiveOverlap(w.service, w.slot) \ w.excluded
             n == Sum(bookings, S)
             k == [call[c] EXCEPT !.at = "locks", !.units = n]
  <2>1. call[c] # Null /\ call[c] \in Call /\ call[c].at = "bookings"
    BY <1>3, CallIsARow DEF SumBookings
  <2>2. S \subseteq BookingId
    BY DEF ActiveOverlap, InStatus
  <2>3. IsFiniteSet(S)
    BY <2>2, TablesAssumption, FS_Subset
  <2>4. n \in Nat
    BY <2>3, SumIsNatural
  <2>5. call' = [call EXCEPT ![c].at = "locks", ![c].units = n]
    BY <1>3 DEF SumBookings
  <2> HIDE DEF n
  <2>6. k \in Call
    BY <2>1, <2>4 DEF Call
  <2>7. /\ k.op = call[c].op /\ k.id = call[c].id /\ k.row = call[c].row
        /\ k.wish = call[c].wish /\ k.at = "locks"
    BY <2>1 DEF Call
  <2>8. call' = [call EXCEPT ![c] = k]
    BY <2>1, <2>5 DEF TypeOK
  <2> HIDE DEF k
  <2> QED
    BY <2>1, <2>6, <2>7, <2>8 DEF Moves, Continues, TypeOK
<1>4. ASSUME SumLocks(c) PROVE Moves(d)
  BY <1>1, <1>2, <1>4 DEF SumLocks, SlotUnavailable
<1>5. ASSUME NEW b \in BookingId, Create(c, b) PROVE Moves(d)
  BY <1>2, <1>5 DEF Create, At
<1>6. ASSUME GetPendingReschedule(c) PROVE Moves(d)
  BY <1>1, <1>2, <1>6 DEF GetPendingReschedule, At
<1>7. ASSUME NEW r \in RequestId, CreateRescheduleRequest(c, r) PROVE Moves(d)
  BY <1>1, <1>2, <1>7 DEF CreateRescheduleRequest, At
<1>8. ASSUME LockBooking(c) PROVE Moves(d)
  BY <1>2, <1>8 DEF LockBooking, At
<1>9. ASSUME LockRequest(c) PROVE Moves(d)
  <2> DEFINE r == call[c].id
             k == [call[c] EXCEPT !.at = "lock booking", !.row = requests[r]]
  <2>1. /\ call[c] # Null /\ call[c] \in Call
        /\ call[c].op = "ApproveReschedule" /\ call[c].at = "lock request"
    BY <1>9, CallIsARow DEF LockRequest, At
  <2>2. r \in RequestId /\ requests[r] # Null /\ requests[r] \in Request
    BY <2>1, RequestIsARow DEF CallsInv, Shape, Found
  <2>3. k \in Call
    BY <2>1, <2>2 DEF Call
  <2>4. /\ k.op = call[c].op /\ k.id = r /\ k.row = requests[r] /\ k.at = "lock booking"
    BY <2>1 DEF Call
  <2>5. \/ Return(c)
        \/ /\ requests[r].status = "pending"
           /\ call' = [call EXCEPT ![c].at = "lock booking", ![c].row = requests[r]]
    BY <1>9 DEF LockRequest
  <2>6. ~RequestLocked(r) /\ UNCHANGED requests
    BY <1>9 DEF LockRequest, tables
  <2>7. CASE /\ requests[r].status = "pending"
             /\ call' = [call EXCEPT ![c].at = "lock booking", ![c].row = requests[r]]
    <3>1. call' = [call EXCEPT ![c] = k]
      BY <2>1, <2>7 DEF TypeOK
    <3> HIDE DEF k
    <3> QED
      BY <2>1, <2>3, <2>4, <2>6, <2>7, <3>1 DEF Moves, Takes, TypeOK
  <2> QED
    BY <1>1, <2>5, <2>7
<1>10. ASSUME \/ \E l \in LockId : CreateLock(c, l)
              \/ DeleteLock(c) \/ WriteStatus(c) \/ IncrementAttempts(c)
              \/ \E b \in BookingId : CommitReschedule(c, b)
              \/ UpdateRescheduleStatus(c)
       PROVE  Moves(d)
  BY <1>1, <1>10 DEF CreateLock, DeleteLock, WriteStatus, IncrementAttempts,
                     CommitReschedule, UpdateRescheduleStatus
<1> QED
  BY <1>3, <1>4, <1>5, <1>6, <1>7, <1>8, <1>9, <1>10 DEF Statement

LEMMA CallMoves ==
    ASSUME RequestsInv, [Next]_vars, NEW d \in Caller
    PROVE  Moves(d)
<1>1. ASSUME NEW c \in Caller, Abort(c) PROVE Moves(d)
  BY <1>1 DEF Abort, Return, Moves, RequestsInv, TypeOK
<1>2. ASSUME (\E l \in LockId : ExpireLock(l)) \/ UNCHANGED vars PROVE Moves(d)
  BY <1>2 DEF ExpireLock, vars, Moves
<1> QED
  BY <1>1, <1>2, StartMoves, StatementMoves DEF Next

-----------------------------------------------------------------------------
(* The invariant.                                                          *)

\* Only the transaction that holds a request writes it, as the last it does.
LEMMA HeldRequestsKept ==
    ASSUME RequestsInv, [Next]_vars, NEW d \in Caller, InTransaction(d), call'[d] # Null
    PROVE  requests'[call[d].id] = requests[call[d].id]
<1> DEFINE q == call[d].id
           Kept == requests'[q] = requests[q]
<1> USE DEF RequestsInv
<1>1. q \in RequestId /\ requests[q] # Null /\ RequestLocked(q)
  BY DEF CallsInv, Shape, Found, InTransaction, RequestLocked
<1>2. ASSUME NEW c \in Caller, NEW r \in RequestId, CreateRescheduleRequest(c, r) PROVE Kept
  BY <1>1, <1>2 DEF CreateRescheduleRequest, TypeOK, TablesTypeOK
<1>3. ASSUME NEW c \in Caller, UpdateRescheduleStatus(c) PROVE Kept
  BY <1>1, <1>3 DEF UpdateRescheduleStatus, TypeOK, TablesTypeOK
<1>4. ASSUME NEW c \in Caller, NEW new \in BookingId, CommitReschedule(c, new) PROVE Kept
  <2>1. InTransaction(c) /\ call[c] # Null
    BY <1>4 DEF CommitReschedule, At, InTransaction
  <2>2. call'[c] = Null
    BY <1>4 DEF CommitReschedule, Return, TypeOK
  <2>3. call[c].id # q
    BY <2>1, <2>2 DEF CallsInv, Holds, InTransaction
  <2> QED
    BY <1>1, <1>4, <2>3 DEF CommitReschedule, TypeOK, TablesTypeOK
<1>5. ASSUME requests' # requests
      PROVE  \E c \in Caller : \/ \E r \in RequestId : CreateRescheduleRequest(c, r)
                               \/ UpdateRescheduleStatus(c)
                               \/ \E new \in BookingId : CommitReschedule(c, new)
  BY <1>5 DEF Next, vars, tables, Start, Statement, Abort, ExpireLock, StartLockSlot, GetLock,
              GetByID, GetByIDToReschedule, StartApproveReschedule, GetRescheduleByID,
              SumBookings, SumLocks, CreateLock, Create, DeleteLock, WriteStatus,
              GetPendingReschedule, IncrementAttempts, LockRequest, LockBooking
<1> QED
  BY <1>2, <1>3, <1>4, <1>5

LEMMA FoundStays ==
    ASSUME RequestsInv, [Next]_vars, NEW k, Shape(k), Found(k)
    PROVE  Found(k)'
BY BookingsStay, RequestsStay DEF Shape, Found

\* A call in a transaction has been there, knowing what it knows, or has just
\* taken its request, while the other calls stood still.
LEMMA TransactionMoves ==
    ASSUME RequestsInv, [Next]_vars, NEW d \in Caller, InTransaction(d)'
    PROVE  \/ /\ InTransaction(d)
              /\ call'[d].id = call[d].id /\ call'[d].row = call[d].row
           \/ Takes(d)
<1>1. call'[d] # Null /\ call'[d].op = "ApproveReschedule" /\ call'[d].at # "lock request"
  BY DEF InTransaction
<1>2. CASE call'[d] = call[d]
  BY <1>1, <1>2 DEF InTransaction
<1>3. CASE Continues(d)
  BY <1>1, <1>3 DEF Continues, InTransaction
<1>4. ~Begins(d)
  BY <1>1 DEF Begins
<1> QED
  BY <1>1, <1>2, <1>3, <1>4, CallMoves DEF Moves

LEMMA CallsStep ==
    ASSUME RequestsInv, [Next]_vars
    PROVE  CallsInv'
<1> USE DEF RequestsInv
<1> SUFFICES ASSUME NEW d \in Caller, call'[d] # Null
             PROVE  Shape(call'[d]) /\ Found(call[d])' /\ Holds(d)'
  BY DEF CallsInv
<1>1. Shape(call'[d]) /\ Found(call[d])'
  <2>1. CASE call'[d] = call[d]
    BY <2>1, FoundStays DEF CallsInv, Found
  <2>2. CASE Begins(d)
    <3> DEFINE k == call'[d]
    <3>1. Shape(k) /\ Found(k)
      BY <2>2 DEF Begins
    <3> QED
      BY <3>1, BookingsStay, RequestsStay DEF Shape, Found
  <2>3. CASE Continues(d)
    <3>1. Shape(call[d]) /\ Found(call[d]) /\ call[d] # Null
      BY <2>3 DEF Continues, CallsInv
    <3>2. Shape(call'[d])
      BY <2>3, <3>1 DEF Continues, Shape
    <3> QED
      BY <2>3, <3>1, <3>2, BookingsStay, RequestsStay DEF Continues, Shape, Found
  <2>4. CASE Takes(d)
    <3>1. call[d].id \in RequestId /\ requests[call[d].id] # Null
      BY <2>4 DEF Takes, CallsInv, Shape, Found
    <3>2. requests[call[d].id] \in Request
      BY <3>1, RequestIsARow
    <3>3. call'[d].op = "ApproveReschedule" /\ call'[d].id = call[d].id
          /\ call'[d].row = requests[call[d].id]
      BY <2>4 DEF Takes
    <3> QED
      BY <3>1, <3>2, <3>3, RequestsStay DEF Shape, Found, StatusOps, ReadsStatus
  <2> QED
    BY <2>1, <2>2, <2>3, <2>4, CallMoves DEF Moves
<1>2. Holds(d)'
  <2> SUFFICES ASSUME InTransaction(d)'
               PROVE  /\ requests'[call'[d].id] = call'[d].row
                      /\ call'[d].row.status = "pending"
                      /\ \A e \in Caller :
                             InTransaction(e)' /\ call'[e].id = call'[d].id => e = d
    BY DEF Holds
  <2>1. CASE /\ InTransaction(d)
             /\ call'[d].id = call[d].id /\ call'[d].row = call[d].row
    <3>1. /\ requests[call[d].id] = call[d].row /\ call[d].row.status = "pending"
          /\ \A e \in Caller : InTransaction(e) /\ call[e].id = call[d].id => e = d
      BY <2>1 DEF CallsInv, Holds, InTransaction
    <3>2. requests'[call[d].id] = requests[call[d].id]
      BY <2>1, HeldRequestsKept
    <3>3. ASSUME NEW e \in Caller, InTransaction(e)', call'[e].id = call'[d].id
          PROVE  e = d
      <4>1. CASE InTransaction(e) /\ call'[e].id = call[e].id
        BY <2>1, <3>1, <3>3, <4>1
      <4>2. CASE Takes(e)
        BY <2>1, <3>3, <4>2 DEF Takes, RequestLocked
      <4> QED
        BY <3>3, <4>1, <4>2, TransactionMoves
    <3> QED
      BY <2>1, <3>1, <3>2, <3>3
  <2>2. CASE Takes(d)
    <3>1. ASSUME NEW e \in Caller, InTransaction(e)', call'[e].id = call'[d].id, e # d
          PROVE  FALSE
      <4>1. call'[e] = call[e]
        BY <2>2, <3>1 DEF Takes
      <4> QED
        BY <2>2, <3>1, <4>1 DEF Takes, RequestLocked, InTransaction
    <3> QED
      BY <2>2, <3>1 DEF Takes
  <2> QED
    BY <2>1, <2>2, TransactionMoves
<1> QED
  BY <1>1, <1>2

LEMMA CallsStayAFunction ==
    ASSUME RequestsInv, [Next]_vars
    PROVE  call' = [d \in Caller |-> call'[d]]
<1> USE DEF RequestsInv, TypeOK
<1>1. ASSUME NEW c \in Caller, Start(c) PROVE \E k : call' = [call EXCEPT ![c] = k]
  BY <1>1 DEF Start, StartLockSlot, GetLock, GetByID, GetByIDToReschedule,
              StartApproveReschedule, GetRescheduleByID, Begin
<1>2. ASSUME NEW c \in Caller, Return(c) PROVE call' = [d \in Caller |-> call'[d]]
  BY <1>2 DEF Return
<1>3. ASSUME NEW c \in Caller, NEW at, Goto(c, at) PROVE call' = [d \in Caller |-> call'[d]]
  BY <1>3 DEF Goto
<1>4. ASSUME NEW c \in Caller, Statement(c) PROVE call' = [d \in Caller |-> call'[d]]
  <2>1. CASE SumBookings(c)
    BY <2>1 DEF SumBookings
  <2>2. CASE LockRequest(c)
    BY <1>2, <2>2 DEF LockRequest
  <2>3. CASE \/ SumLocks(c) \/ (\E l \in LockId : CreateLock(c, l))
             \/ (\E b \in BookingId : Create(c, b)) \/ DeleteLock(c)
             \/ WriteStatus(c) \/ GetPendingReschedule(c)
    BY <1>2, <1>3, <2>3 DEF SumLocks, SlotUnavailable, CreateLock, Create, DeleteLock,
                            WriteStatus, GetPendingReschedule
  <2>4. CASE \/ (\E r \in RequestId : CreateRescheduleRequest(c, r)) \/ IncrementAttempts(c)
             \/ LockBooking(c) \/ (\E b \in BookingId : CommitReschedule(c, b))
             \/ UpdateRescheduleStatus(c)
    BY <1>2, <1>3, <2>4 DEF CreateRescheduleRequest, IncrementAttempts, LockBooking,
                            CommitReschedule, UpdateRescheduleStatus
  <2> QED
    BY <1>4, <2>1, <2>2, <2>3, <2>4 DEF Statement
<1>5. ASSUME (\E l \in LockId : ExpireLock(l)) \/ UNCHANGED vars
      PROVE  call' = [d \in Caller |-> call'[d]]
  BY <1>5 DEF ExpireLock, vars
<1> QED
  BY <1>1, <1>2, <1>4, <1>5 DEF Next, Abort

LEMMA RequestsInvariant == Spec => []RequestsInv
<1>1. Init => RequestsInv
  BY NullIsNoRow DEF Init, TablesInit, RequestsInv, TypeOK, TablesTypeOK, RequestsNameRows, CallsInv
<1>2. RequestsInv /\ [Next]_vars => RequestsInv'
  <2> SUFFICES ASSUME RequestsInv, [Next]_vars PROVE RequestsInv'
    OBVIOUS
  <2>1. TypeOK'
    <3>1. call' \in [Caller -> Call \cup {Null}]
      <4>1. \A d \in Caller : call'[d] \in Call \cup {Null}
        BY CallMoves DEF Moves, Begins, Continues, Takes, RequestsInv, TypeOK
      <4> QED
        BY <4>1, CallsStayAFunction
    <3> QED
      BY <3>1, TableStep DEF TypeOK
  <2>2. RequestsNameRows'
    <3> SUFFICES ASSUME NEW r \in RequestId, requests'[r] # Null
                 PROVE  bookings'[requests'[r].booking] # Null
      BY DEF RequestsNameRows
    <3>1. CASE requests[r] # Null
      <4>1. requests[r].booking \in BookingId /\ bookings[requests[r].booking] # Null
        BY <3>1, RequestIsARow DEF RequestsInv, RequestsNameRows, Request
      <4> QED
        BY <3>1, <4>1, RequestsStay, BookingsStay
    <3>2. CASE requests[r] = Null
      <4>1. PICK b \in BookingId, slot \in Slot :
                /\ bookings'[b] # Null
                /\ requests'[r] = [booking |-> b, slot |-> slot, status |-> "pending"]
        BY <3>2, RequestIsNew
      <4>2. requests'[r].booking = b
        BY <4>1
      <4> QED
        BY <4>1, <4>2
    <3> QED
      BY <3>1, <3>2
  <2> QED
    BY <2>1, <2>2, CallsStep DEF RequestsInv
<1> QED
  BY <1>1, <1>2, PTL DEF Spec

\* Rows and calls under way keep their types, and a call knows what its kind needs.
THEOREM RequestsTyped == Spec => []TypeOK
<1>1. RequestsInv => TypeOK
  BY DEF RequestsInv
<1> QED
  BY <1>1, RequestsInvariant, PTL

\* The owner's "rejected" stays, whatever calls are under way: an approval
\* answers only a request it has seen waiting, and holds it until it is done.
THEOREM RejectedForGood == Spec => RejectionIsFinal
<1>1. RequestsInv /\ [Next]_vars =>
          \A r \in RequestId :
              requests[r] # Null /\ requests[r].status = "rejected"
                  => requests'[r].status = "rejected"
  BY RequestsStay
<1> QED
  BY <1>1, RequestsInvariant, PTL DEF Spec, RejectionIsFinal

-----------------------------------------------------------------------------
(* One waiting request.                                                    *)

WaitAlone ==
    \A b \in BookingId : \A r, s \in PendingRequests(b) : r = s

LEMMA WaitAloneStep ==
    ASSUME RequestsInv, WaitAlone, [Next]_vars
    PROVE  WaitAlone'
<1> SUFFICES ASSUME NEW b \in BookingId, NEW r \in RequestId, NEW s \in RequestId,
                    requests'[r] # Null, requests'[r].booking = b,
                    requests'[r].status = "pending",
                    requests'[s] # Null, requests'[s].booking = b,
                    requests'[s].status = "pending"
             PROVE  r = s
  BY DEF WaitAlone, PendingRequests
<1>1. ASSUME NEW q \in RequestId, requests[q] # Null, requests'[q].booking = b,
             requests'[q].status = "pending"
      PROVE  q \in PendingRequests(b)
  BY <1>1, RequestsStay DEF PendingRequests
<1>2. ASSUME NEW q \in RequestId, requests[q] = Null, requests'[q] # Null,
             requests'[q].booking = b
      PROVE  /\ PendingRequests(b) = {}
             /\ \A p \in RequestId : p # q => requests'[p] = requests[p]
  <2>1. PICK d \in BookingId, slot \in Slot :
            /\ Requested(q, d, slot)
            /\ requests'[q] = [booking |-> d, slot |-> slot, status |-> "pending"]
    BY <1>2, RequestIsNew
  <2>2. d = b
    BY <1>2, <2>1
  <2> QED
    BY <2>1, <2>2 DEF Requested, RequestsInv, TypeOK, TablesTypeOK
<1> QED
  BY <1>1, <1>2 DEF WaitAlone, PendingRequests

\* At most one request waits for each booking, although the insert of one comes
\* long after the look for another.
THEOREM RequestsWaitAlone == Spec => []OnePendingRequest
<1>1. Init => WaitAlone
  BY DEF Init, TablesInit, WaitAlone, PendingRequests
<1>2. RequestsInv /\ WaitAlone /\ [Next]_vars => WaitAlone'
  BY WaitAloneStep
<1>3. WaitAlone => OnePendingRequest
  <2> SUFFICES ASSUME WaitAlone, NEW b \in BookingId
               PROVE  Cardinality(PendingRequests(b)) <= 1
    BY DEF OnePendingRequest
  <2>1. CASE PendingRequests(b) = {}
    BY <2>1, FS_EmptySet
  <2>2. ASSUME NEW r \in PendingRequests(b) PROVE Cardinality(PendingRequests(b)) <= 1
    <3>1. PendingRequests(b) = {r}
      BY <2>2 DEF WaitAlone
    <3>2. Cardinality({r}) = 1
      BY FS_Singleton
    <3> QED
      BY <3>1, <3>2
  <2> QED
    BY <2>1, <2>2
<1> QED
  BY <1>1, <1>2, <1>3, RequestsInvariant, PTL DEF Spec

-----------------------------------------------------------------------------
(* Whole moves.                                                            *)

LEMMA MovesStep ==
    ASSUME RequestsInv, MovesAreWhole, [Next]_vars
    PROVE  MovesAreWhole'
<1> USE DEF RequestsInv
<1> DEFINE Replaces(n, r) ==
               /\ bookings[n] # Null /\ bookings[n].from = requests[r].booking
               /\ bookings[n].slot = requests[r].slot
               /\ bookings[n].service = bookings[requests[r].booking].service
               /\ bookings[n].quantity = bookings[requests[r].booking].quantity
           ReplacesNext(n, r) ==
               /\ bookings'[n] # Null /\ bookings'[n].from = requests'[r].booking
               /\ bookings'[n].slot = requests'[r].slot
               /\ bookings'[n].service = bookings'[requests'[r].booking].service
               /\ bookings'[n].quantity = bookings'[requests'[r].booking].quantity
<1>1. ASSUME NEW r \in RequestId, NEW new \in BookingId, MovedBy(r, new)
      PROVE  ReplacesNext(new, r)
  <2> DEFINE orig == requests[r].booking
             slot == requests[r].slot
             row == NewBooking("confirmed", bookings[orig].service, slot,
                               bookings[orig].quantity, orig)
  <2>1. /\ requests[r] # Null /\ orig \in BookingId /\ bookings[orig] # Null
        /\ bookings[orig] \in Booking /\ new # orig
    BY <1>1, RequestIsARow, BookingIsARow DEF MovedBy, Request
  <2>2. bookings'[new] = row
    BY <1>1, <2>1 DEF MovedBy, Moved, TypeOK, TablesTypeOK
  <2>3. /\ row.slot = slot /\ row.service = bookings[orig].service
        /\ row.quantity = bookings[orig].quantity /\ row.from = orig /\ row \in Booking
    BY <2>1, RequestIsARow DEF NewBooking, Booking, Request, BookingStatus, ActiveStatus,
                               maxRescheduleAttempts
  <2> HIDE DEF row
  <2> QED
    BY <2>1, <2>2, <2>3, NullIsNoRow, RequestsStay, BookingsStay
<1>2. ASSUME NEW r \in RequestId, requests'[r] # Null, requests'[r].status = "approved"
      PROVE  \E n \in BookingId : ReplacesNext(n, r)
  <2>1. CASE requests[r] # Null /\ requests[r].status = "approved"
    <3>1. PICK n \in BookingId : Replaces(n, r)
      BY <2>1 DEF MovesAreWhole, Replacements
    <3>2. requests[r].booking \in BookingId /\ bookings[requests[r].booking] # Null
      BY <2>1, RequestIsARow DEF RequestsNameRows, Request
    <3> QED
      BY <2>1, <3>1, <3>2, RequestsStay, BookingsStay
  <2>2. CASE requests[r] = Null
    <3>1. PICK b \in BookingId, slot \in Slot :
              requests'[r] = [booking |-> b, slot |-> slot, status |-> "pending"]
      BY <1>2, <2>2, RequestIsNew
    <3> QED
      BY <1>2, <3>1
  <2>3. CASE requests[r] # Null /\ requests[r].status # "approved"
    <3>1. ASSUME NEW q \in RequestId, NEW b \in BookingId, NEW slot \in Slot,
                 Requested(q, b, slot)
          PROVE  FALSE
      BY <1>2, <2>3, <3>1 DEF Requested, TypeOK, TablesTypeOK
    <3>2. ASSUME NEW q \in RequestId, Rejected(q) PROVE FALSE
      BY <1>2, <2>3, <3>2, RequestIsARow DEF Rejected, TypeOK, TablesTypeOK, Request
    <3>3. ASSUME NEW q \in RequestId, NEW new \in BookingId, MovedBy(q, new) PROVE q = r
      BY <1>2, <2>3, <3>3 DEF MovedBy, TypeOK, TablesTypeOK
    <3> QED
      BY <1>1, <1>2, <2>3, <3>1, <3>2, <3>3, RowsChange DEF Inserted, Overwritten
  <2> QED
    BY <2>1, <2>2, <2>3
<1>3. ASSUME NEW b \in BookingId, bookings'[b] # Null, bookings'[b].status = "rescheduled"
      PROVE  \E n \in BookingId : bookings'[n] # Null /\ bookings'[n].from = b
  <2>1. CASE bookings[b] # Null /\ bookings[b].status = "rescheduled"
    <3>1. PICK n \in BookingId : bookings[n] # Null /\ bookings[n].from = b
      BY <2>1 DEF MovesAreWhole, InStatus, Replacements
    <3> QED
      BY <3>1, BookingsStay
  <2>2. CASE ~(bookings[b] # Null /\ bookings[b].status = "rescheduled")
    <3>1. ASSUME NEW d \in BookingId, NEW row \in Booking, Inserted(d, row) PROVE FALSE
      BY <1>3, <2>2, <3>1 DEF Inserted, TypeOK, TablesTypeOK
    <3>2. ASSUME NEW d \in BookingId, NEW row \in Booking, Overwritten(d, row) PROVE FALSE
      BY <1>3, <2>2, <3>2 DEF Overwritten, TypeOK, TablesTypeOK
    <3>3. ASSUME NEW r \in RequestId, NEW new \in BookingId, MovedBy(r, new)
          PROVE  b = requests[r].booking
      <4> DEFINE orig == requests[r].booking
                 row == NewBooking("confirmed", bookings[orig].service, requests[r].slot,
                                   bookings[orig].quantity, orig)
      <4>1. row.status = "confirmed"
        BY DEF NewBooking
      <4>2. bookings' = [bookings EXCEPT ![orig].status = "rescheduled", ![new] = row]
        BY <3>3 DEF MovedBy, Moved
      <4> HIDE DEF row, orig
      <4>3. b # orig => bookings'[b] = row \/ bookings'[b] = bookings[b]
        BY <4>2 DEF TypeOK, TablesTypeOK
      <4> QED
        BY <1>3, <2>2, <4>1, <4>3 DEF orig
    <3>4. \E r \in RequestId, new \in BookingId : MovedBy(r, new)
      BY <1>3, <2>2, <3>1, <3>2, RowsChange DEF Requested, Rejected
    <3>5. PICK r \in RequestId, new \in BookingId : MovedBy(r, new)
      BY <3>4
    <3>6. requests[r] # Null /\ requests'[r].booking = b
      BY <3>3, <3>5, RequestsStay DEF MovedBy
    <3> QED
      BY <1>1, <3>5, <3>6
  <2> QED
    BY <2>1, <2>2
<1> QED
  BY <1>2, <1>3 DEF MovesAreWhole, Replacements, InStatus

\* However calls stop or overtake one another, an approved request has its
\* booking, and a booking marked as moved has been.
THEOREM MovesNeverHalfDone == Spec => []MovesAreWhole
<1>1. Init => MovesAreWhole
  BY DEF Init, TablesInit, MovesAreWhole, InStatus
<1>2. RequestsInv /\ MovesAreWhole /\ [Next]_vars => MovesAreWhole'
  BY MovesStep
<1> QED
  BY <1>1, <1>2, RequestsInvariant, PTL DEF Spec

-----------------------------------------------------------------------------
(* As many moves as answers.                                               *)

MovesCounted ==
    \A b \in BookingId :
        /\ IsFiniteSet(AnsweredRequests(b))
        /\ Cardinality(Replacements(b)) <= Cardinality(AnsweredRequests(b))

\* Answers stay answered, and only a move adds a replacement.
LEMMA AnswersGrow ==
    ASSUME RequestsInv, [Next]_vars, NEW b \in BookingId
    PROVE  /\ AnsweredRequests(b) \subseteq AnsweredRequests(b)'
           /\ \/ /\ \E r \in RequestId : AnsweredRequests(b)' \subseteq AnsweredRequests(b) \cup {r}
                 /\ Replacements(b)' \subseteq Replacements(b)
              \/ \E r \in RequestId, new \in BookingId :
                     /\ r \notin AnsweredRequests(b)
                     /\ AnsweredRequests(b)' = AnsweredRequests(b) \cup {r}
                     /\ Replacements(b)' \subseteq Replacements(b) \cup {new}
              \/ /\ AnsweredRequests(b)' = AnsweredRequests(b)
                 /\ Replacements(b)' \subseteq Replacements(b)
<1> USE DEF RequestsInv
<1>1. AnsweredRequests(b) \subseteq AnsweredRequests(b)'
  BY RequestsStay DEF AnsweredRequests
<1>2. ASSUME \A n \in BookingId : bookings[n] = Null /\ bookings'[n] # Null => bookings'[n].from # b
      PROVE  Replacements(b)' \subseteq Replacements(b)
  BY <1>2, BookingsStay DEF Replacements
<1>3. ASSUME \A r \in RequestId : requests[r] = Null /\ requests'[r] # Null =>
                                      requests'[r].status = "pending",
             NEW S \in SUBSET RequestId,
             \A r \in RequestId : requests[r] # Null /\ requests'[r] # requests[r] => r \in S
      PROVE  AnsweredRequests(b)' \subseteq AnsweredRequests(b) \cup S
  BY <1>3 DEF AnsweredRequests
<1>4. CASE UNCHANGED <<bookings, requests>>
  BY <1>4 DEF AnsweredRequests, Replacements
<1>5. ASSUME NEW d \in BookingId, NEW row \in Booking, Inserted(d, row) \/ Overwritten(d, row)
      PROVE  /\ AnsweredRequests(b)' = AnsweredRequests(b)
             /\ Replacements(b)' \subseteq Replacements(b)
  <2>1. AnsweredRequests(b)' = AnsweredRequests(b)
    BY <1>5 DEF Inserted, Overwritten, AnsweredRequests
  <2>2. \A n \in BookingId : bookings[n] = Null /\ bookings'[n] # Null => bookings'[n].from # b
    BY <1>5, NullIsNoRow DEF Inserted, Overwritten, TypeOK, TablesTypeOK
  <2> QED
    BY <1>2, <2>1, <2>2
<1>6. ASSUME NEW r \in RequestId, NEW d \in BookingId, NEW slot \in Slot, Requested(r, d, slot)
      PROVE  /\ AnsweredRequests(b)' = AnsweredRequests(b)
             /\ Replacements(b)' \subseteq Replacements(b)
  <2>1. Replacements(b)' = Replacements(b)
    BY <1>6 DEF Requested, Replacements
  <2>2. \A q \in RequestId : requests'[q] =
            IF q = r THEN [booking |-> d, slot |-> slot, status |-> "pending"] ELSE requests[q]
    BY <1>6 DEF Requested, TypeOK, TablesTypeOK
  <2>3. AnsweredRequests(b)' \subseteq AnsweredRequests(b)
    BY <1>6, <2>2 DEF AnsweredRequests
  <2> QED
    BY <1>1, <2>1, <2>3
<1>7. ASSUME NEW r \in RequestId, Rejected(r)
      PROVE  /\ AnsweredRequests(b)' \subseteq AnsweredRequests(b) \cup {r}
             /\ Replacements(b)' \subseteq Replacements(b)
  <2>1. Replacements(b)' = Replacements(b)
    BY <1>7 DEF Rejected, Replacements
  <2>2. \A q \in RequestId : q # r => requests'[q] = requests[q]
    BY <1>7 DEF Rejected, TypeOK, TablesTypeOK
  <2> QED
    BY <2>1, <2>2 DEF AnsweredRequests
<1>8. ASSUME NEW r \in RequestId, NEW new \in BookingId, MovedBy(r, new)
      PROVE  \/ /\ r \notin AnsweredRequests(b)
                /\ AnsweredRequests(b)' = AnsweredRequests(b) \cup {r}
                /\ Replacements(b)' \subseteq Replacements(b) \cup {new}
             \/ /\ AnsweredRequests(b)' = AnsweredRequests(b)
                /\ Replacements(b)' \subseteq Replacements(b)
  <2> DEFINE orig == requests[r].booking
             row == NewBooking("confirmed", bookings[orig].service, requests[r].slot,
                               bookings[orig].quantity, orig)
  <2>1. /\ requests[r] \in Request /\ requests[r] # Null /\ requests[r].status = "pending"
        /\ orig \in BookingId /\ bookings[orig] # Null /\ bookings[new] = Null
    BY <1>8, RequestIsARow DEF MovedBy, Request
  <2>2. \A q \in RequestId : q # r => requests'[q] = requests[q]
    BY <1>8 DEF MovedBy, TypeOK, TablesTypeOK
  <2>3. requests'[r] = [requests[r] EXCEPT !.status = "approved"]
    BY <1>8 DEF MovedBy, TypeOK, TablesTypeOK
  <2>4. /\ requests'[r].status = "approved" /\ requests'[r].booking = orig
        /\ requests'[r] # Null
    BY <2>1, <2>3, RequestsStay DEF Request
  <2>5. bookings'[new] = row
    BY <1>8, <2>1 DEF MovedBy, Moved, TypeOK, TablesTypeOK
  <2>6. row.from = orig
    BY DEF NewBooking
  <2>7. \A n \in BookingId : bookings[n] = Null /\ bookings'[n] # Null => n = new
    <3>1. bookings' = [bookings EXCEPT ![orig].status = "rescheduled", ![new] = row]
      BY <1>8 DEF MovedBy, Moved
    <3> HIDE DEF row, orig
    <3> QED
      BY <2>1, <3>1 DEF TypeOK, TablesTypeOK
  <2> HIDE DEF row
  <2>8. CASE orig = b
    <3>1. r \notin AnsweredRequests(b)
      BY <2>1 DEF AnsweredRequests
    <3>2. AnsweredRequests(b)' = AnsweredRequests(b) \cup {r}
      BY <2>2, <2>4, <2>8 DEF AnsweredRequests
    <3>3. Replacements(b)' \subseteq Replacements(b) \cup {new}
      BY <2>7, BookingsStay DEF Replacements
    <3> QED
      BY <3>1, <3>2, <3>3
  <2>9. CASE orig # b
    <3>1. AnsweredRequests(b)' = AnsweredRequests(b)
      BY <2>1, <2>2, <2>4, <2>9 DEF AnsweredRequests
    <3>2. Replacements(b)' \subseteq Replacements(b)
      BY <1>2, <2>5, <2>6, <2>7, <2>9
    <3> QED
      BY <3>1, <3>2
  <2> QED
    BY <2>8, <2>9
<1> QED
  BY <1>1, <1>4, <1>5, <1>6, <1>7, <1>8, RowsChange

LEMMA MovesCountedStep ==
    ASSUME RequestsInv, MovesCounted, [Next]_vars
    PROVE  MovesCounted'
<1> SUFFICES ASSUME NEW b \in BookingId
             PROVE  /\ IsFiniteSet(AnsweredRequests(b))'
                    /\ (Cardinality(Replacements(b)) <= Cardinality(AnsweredRequests(b)))'
  BY DEF MovesCounted
<1> DEFINE R == Replacements(b)
           S == Replacements(b)'
           A == AnsweredRequests(b)
           B == AnsweredRequests(b)'
<1>1. /\ IsFiniteSet(R) /\ IsFiniteSet(S) /\ IsFiniteSet(A)
      /\ Cardinality(R) <= Cardinality(A)
  BY TablesAssumption, FS_Subset DEF Replacements, MovesCounted
<1>2. /\ A \subseteq B
      /\ \/ (\E r \in RequestId : B \subseteq A \cup {r}) /\ S \subseteq R
         \/ \E r \in RequestId, new \in BookingId :
                r \notin A /\ B = A \cup {r} /\ S \subseteq R \cup {new}
         \/ B = A /\ S \subseteq R
  BY AnswersGrow
<1> HIDE DEF R, S, A, B
<1>3. ASSUME NEW T, IsFiniteSet(T), NEW U, U \subseteq T
      PROVE  /\ IsFiniteSet(U) /\ Cardinality(U) \in Nat /\ Cardinality(T) \in Nat
             /\ Cardinality(U) <= Cardinality(T)
  BY <1>3, FS_Subset, FS_CardinalityType
<1>4. ASSUME NEW T, IsFiniteSet(T), NEW x
      PROVE  /\ IsFiniteSet(T \cup {x}) /\ Cardinality(T) \in Nat
             /\ Cardinality(T \cup {x}) <= Cardinality(T) + 1
             /\ x \notin T => Cardinality(T \cup {x}) = Cardinality(T) + 1
  <2>1. /\ IsFiniteSet(T \cup {x})
        /\ Cardinality(T \cup {x}) =
               IF x \in T THEN Cardinality(T) ELSE Cardinality(T) + 1
    BY <1>4, FS_AddElement
  <2>2. Cardinality(T) \in Nat
    BY <1>4, FS_CardinalityType
  <2> QED
    BY <2>1, <2>2
<1>5. ASSUME S \subseteq R, \E T : IsFiniteSet(T) /\ B \subseteq T
      PROVE  IsFiniteSet(B) /\ Cardinality(S) <= Cardinality(B)
  <2>1. IsFiniteSet(B)
    <3>1. PICK T : IsFiniteSet(T) /\ B \subseteq T
      BY <1>5
    <3> QED
      BY <1>3, <3>1
  <2>2. Cardinality(S) <= Cardinality(R) /\ Cardinality(S) \in Nat /\ Cardinality(R) \in Nat
    BY <1>1, <1>3, <1>5
  <2>3. Cardinality(A) <= Cardinality(B) /\ Cardinality(A) \in Nat /\ Cardinality(B) \in Nat
    BY <1>2, <1>3, <2>1
  <2> QED
    BY <1>1, <2>1, <2>2, <2>3
<1>6. ASSUME NEW r \in RequestId, NEW new \in BookingId,
             r \notin A, B = A \cup {r}, S \subseteq R \cup {new}
      PROVE  IsFiniteSet(B) /\ Cardinality(S) <= Cardinality(B)
  <2>1. /\ IsFiniteSet(B) /\ Cardinality(A) \in Nat
        /\ Cardinality(B) = Cardinality(A) + 1
    BY <1>1, <1>4, <1>6
  <2>2. /\ IsFiniteSet(R \cup {new}) /\ Cardinality(R) \in Nat
        /\ Cardinality(R \cup {new}) <= Cardinality(R) + 1
    BY <1>1, <1>4
  <2>3. /\ Cardinality(S) <= Cardinality(R \cup {new})
        /\ Cardinality(S) \in Nat /\ Cardinality(R \cup {new}) \in Nat
    BY <1>3, <1>6, <2>2
  <2> QED
    BY <1>1, <2>1, <2>2, <2>3
<1>7. IsFiniteSet(B) /\ Cardinality(S) <= Cardinality(B)
  <2>1. ASSUME NEW r \in RequestId, B \subseteq A \cup {r}
        PROVE  \E T : IsFiniteSet(T) /\ B \subseteq T
    <3>1. IsFiniteSet(A \cup {r})
      BY <1>1, <1>4
    <3> QED
      BY <2>1, <3>1
  <2>2. CASE B = A /\ S \subseteq R
    BY <1>1, <1>5, <2>2
  <2> QED
    BY <1>2, <1>5, <1>6, <2>1, <2>2
<1> QED
  BY <1>7 DEF S, B

\* However often an approval is sent, a booking is moved no more often than
\* its requests were answered.
THEOREM AnsweredRequestsMoveOnce == Spec => []RequestMovesOnce
<1>1. Init => MovesCounted
  <2> SUFFICES ASSUME Init, NEW b \in BookingId
               PROVE  /\ IsFiniteSet(AnsweredRequests(b))
                      /\ Cardinality(Replacements(b)) <= Cardinality(AnsweredRequests(b))
    BY DEF MovesCounted
  <2>1. Replacements(b) = {} /\ AnsweredRequests(b) = {}
    BY DEF Init, TablesInit, Replacements, AnsweredRequests
  <2> QED
    BY <2>1, FS_EmptySet
<1>2. RequestsInv /\ MovesCounted /\ [Next]_vars => MovesCounted'
  BY MovesCountedStep
<1>3. MovesCounted => RequestMovesOnce
  BY DEF MovesCounted, RequestMovesOnce
<1> QED
  BY <1>1, <1>2, <1>3, RequestsInvariant, PTL DEF Spec

-----------------------------------------------------------------------------
(* Confirmed bookings, as long as no call takes a booking off the calendar.*)

\* No booking is rejected, cancelled or moved.
BookingsAreKept == Ops \cap {"Reject", "Cancel", "ApproveReschedule"} = {}

\* A call about to confirm a booking: its check has found room, or is going to.
Confirms(k) ==
    \/ k.op = "RequestReschedule"
    \/ k.op = "Approve" /\ k.at = "write"
    \/ /\ k.op = "Approve" /\ k.at = "locks"
       /\ k.units + k.row.quantity <= Capacity[k.row.service]

\* The bookings that are confirmed, or will be by a call that no longer asks.
Granted ==
    {b \in BookingId :
        \/ bookings[b] # Null /\ bookings[b].status = "confirmed"
        \/ \E c \in Caller : call[c] # Null /\ call[c].id = b /\ Confirms(call[c])}

GrantedAt(svc, t) ==
    {b \in Granted : bookings[b].service = svc /\ Covers(bookings[b].slot, t)}

\* A call about a booking knows what the booking takes.
Knows(k) ==
    k.op \in StatusOps =>
        /\ k.row.service = bookings[k.id].service
        /\ k.row.slot = bookings[k.id].slot
        /\ k.row.quantity = bookings[k.id].quantity

\* Every booking is active, hence counted by every check, and those granted fit.
GrantsInv ==
    /\ \A c \in Caller : call[c] # Null => call[c].op \in Ops /\ Knows(call[c])
    /\ \A b \in BookingId : bookings[b] # Null => bookings[b].status \in ActiveStatus
    /\ \A svc \in Service, t \in Time :
           Sum(bookings, GrantedAt(svc, t)) <= Capacity[svc]

LEMMA SumOfFewer ==
    ASSUME NEW table, NEW other, NEW T, IsFiniteSet(T), NEW S \in SUBSET T,
           \A x \in S : other[x].quantity = table[x].quantity
    PROVE  Sum(other, S) <= Sum(table, T)
<1>1. IsFiniteSet(Quantity)
  BY TablesAssumption, FS_Interval DEF Quantity
<1>2. IsFiniteSet(T \X Quantity)
  BY <1>1, FS_Product
<1>3. Units(table, T) \subseteq T \X Quantity /\ Units(other, S) \subseteq Units(table, T)
  BY DEF Units
<1> QED
  BY <1>2, <1>3, FS_Subset DEF Sum

\* What a call about a booking has found is there.
LEMMA GrantedAreThere ==
    ASSUME RequestsInv, NEW b \in Granted
    PROVE  b \in BookingId /\ bookings[b] # Null
BY DEF Granted, RequestsInv, CallsInv, Found, Confirms, StatusOps, ReadsStatus

\* Only the first sum of an approval grants anything.
LEMMA GrantsGrow ==
    ASSUME RequestsInv, GrantsInv, BookingsAreKept, [Next]_vars
    PROVE  \/ Granted' \subseteq Granted
           \/ \E c \in Caller :
                  /\ call[c] # Null /\ call[c].op = "Approve" /\ bookings' = bookings
                  /\ Granted' \subseteq Granted \cup {call[c].id}
                  /\ \/ Granted' \subseteq Granted
                     \/ Sum(bookings, ActiveOverlap(call[c].row.service, call[c].row.slot))
                            + call[c].row.quantity <= Capacity[call[c].row.service]
<1> USE DEF RequestsInv
<1> DEFINE Confirmed(b) == bookings[b] # Null /\ bookings[b].status = "confirmed"
           Sums == \E c \in Caller :
                       /\ call[c] # Null /\ call[c].op = "Approve" /\ bookings' = bookings
                       /\ Granted' \subseteq Granted \cup {call[c].id}
                       /\ \/ Granted' \subseteq Granted
                          \/ Sum(bookings, ActiveOverlap(call[c].row.service, call[c].row.slot))
                                 + call[c].row.quantity <= Capacity[call[c].row.service]
\* A call that goes on confirms what it confirmed before; one that was not there
\* confirms what is confirmed.
<1>1. ASSUME NEW c \in Caller, \A d \in Caller : d # c => call'[d] = call[d],
             \A b \in BookingId : Confirmed(b)' => b \in Granted,
             call'[c] # Null /\ Confirms(call'[c]) /\ call'[c].id \in BookingId
                 => call'[c].id \in Granted
      PROVE  Granted' \subseteq Granted
  <2> SUFFICES ASSUME NEW b \in BookingId, b \in Granted' PROVE b \in Granted
    BY DEF Granted
  <2>1. Confirmed(b)' \/ \E d \in Caller : call'[d] # Null /\ call'[d].id = b /\ Confirms(call'[d])
    BY DEF Granted, Confirms
  <2>2. ASSUME NEW d \in Caller, d # c, call'[d] # Null, call'[d].id = b, Confirms(call'[d])
        PROVE  b \in Granted
    BY <1>1, <2>2 DEF Granted
  <2> QED
    BY <1>1, <2>1, <2>2
<1>2. ASSUME NEW c \in Caller, Return(c) PROVE call'[c] = Null /\ \A d \in Caller : d # c => call'[d] = call[d]
  BY <1>2 DEF Return, TypeOK
<1>3. ASSUME bookings' = bookings, NEW b \in BookingId, Confirmed(b)' PROVE b \in Granted
  BY <1>3 DEF Granted
<1>4. ASSUME NEW c \in Caller, Return(c), bookings' = bookings PROVE Granted' \subseteq Granted
  BY <1>1, <1>2, <1>3, <1>4
<1>5. ASSUME NEW c \in Caller, call[c] # Null, NEW at, Goto(c, at), at \notin {"locks", "write"}
      PROVE  /\ \A d \in Caller : d # c => call'[d] = call[d]
             /\ call'[c].op = call[c].op /\ call'[c].id = call[c].id /\ call'[c].at = at
             /\ Confirms(call'[c]) => Confirms(call[c])
  <2>1. call[c] \in Call
    BY <1>5, CallIsARow
  <2> QED
    BY <1>5, <2>1 DEF Goto, TypeOK, Call, Confirms
<1>6. ASSUME NEW c \in Caller, call[c] # Null, NEW at, Goto(c, at), at \notin {"locks", "write"},
             bookings' = bookings
      PROVE  Granted' \subseteq Granted
  <2>1. call'[c] # Null /\ Confirms(call'[c]) /\ call'[c].id \in BookingId
            => call'[c].id \in Granted
    BY <1>5, <1>6 DEF Granted
  <2> QED
    BY <1>1, <1>3, <1>5, <1>6, <2>1
<1>7. ASSUME NEW c \in Caller, Start(c) PROVE Granted' \subseteq Granted
  <2>1. \A d \in Caller : d # c => call'[d] = call[d]
    BY <1>7 DEF Start, StartLockSlot, GetLock, GetByID, GetByIDToReschedule,
                StartApproveReschedule, GetRescheduleByID, Begin, TypeOK
  <2>2. bookings' = bookings
    BY <1>7 DEF Start, StartLockSlot, GetLock, GetByID, GetByIDToReschedule,
                StartApproveReschedule, GetRescheduleByID, tables
  <2>3. ASSUME Confirms(call'[c]), call'[c].id \in BookingId PROVE call'[c].id \in Granted
    <3>1. ASSUME NEW op, NEW at, NEW id, NEW row, NEW wish, Begin(c, op, at, id, row, wish)
          PROVE  call'[c].op = op /\ call'[c].at = at /\ call'[c].id = id
      BY <3>1 DEF Begin, TypeOK
    <3>2. ASSUME NEW op, NEW at, NEW id, NEW row, NEW wish, Begin(c, op, at, id, row, wish),
                 op # "RequestReschedule", op = "Approve" => at = "bookings"
          PROVE  FALSE
      BY <2>3, <3>1, <3>2 DEF Confirms
    <3>3. ASSUME NEW b \in BookingId, NEW slot \in Slot, GetByIDToReschedule(c, b, slot)
          PROVE  call'[c].id = b /\ Confirmed(b)
      BY <3>1, <3>3 DEF GetByIDToReschedule
    <3>4. ASSUME NEW op \in StatusOps, NEW b \in BookingId, GetByID(c, op, b) PROVE FALSE
      BY <3>2, <3>4 DEF GetByID, AfterGetByID
    <3> QED
      BY <1>7, <3>2, <3>3, <3>4 DEF Start, StartLockSlot, GetLock, StartApproveReschedule,
                                    GetRescheduleByID, Granted
  <2> QED
    BY <1>1, <1>3, <2>1, <2>2, <2>3
<1>8. ASSUME NEW c \in Caller, SumBookings(c) PROVE Granted' \subseteq Granted \/ Sums
  <2> DEFINE w == Wanted(c)
             n == Sum(bookings, ActiveOverlap(w.service, w.slot) \ w.excluded)
  <2>1. call[c] # Null /\ call[c] \in Call /\ call[c].at = "bookings" /\ bookings' = bookings
    BY <1>8, CallIsARow DEF SumBookings, tables
  <2>2. call' = [call EXCEPT ![c].at = "locks", ![c].units = n]
    BY <1>8 DEF SumBookings
  <2> HIDE DEF n
  <2>3. /\ call'[c].op = call[c].op /\ call'[c].id = call[c].id /\ call'[c].row = call[c].row
        /\ call'[c].at = "locks" /\ \A d \in Caller : d # c => call'[d] = call[d]
    BY <2>1, <2>2 DEF TypeOK, Call
  <2>4. CASE call[c].op # "Approve"
    <3>1. Confirms(call'[c]) /\ call'[c].id \in BookingId => call'[c].id \in Granted
      BY <2>1, <2>3, <2>4 DEF Confirms, Granted
    <3> QED
      BY <1>1, <1>3, <2>1, <2>3, <3>1
  <2>5. CASE call[c].op = "Approve"
    <3> DEFINE k == call[c]
    <3>1. n = Sum(bookings, ActiveOverlap(k.row.service, k.row.slot))
      <4>1. w.service = k.row.service /\ w.slot = k.row.slot /\ w.excluded = {}
        BY <2>5 DEF Wanted
      <4>2. ActiveOverlap(w.service, w.slot) \ w.excluded
                = ActiveOverlap(k.row.service, k.row.slot)
        BY <4>1
      <4> QED
        BY <4>2 DEF n
    <3>2. call'[c].units = n
      BY <2>1, <2>2 DEF TypeOK, Call
    <3>3. ASSUME NEW b \in BookingId, b \in Granted', b \notin Granted
          PROVE  b = k.id /\ n + k.row.quantity <= Capacity[k.row.service]
      <4>1. PICK d \in Caller : call'[d] # Null /\ call'[d].id = b /\ Confirms(call'[d])
        BY <3>3, <2>1 DEF Granted, Confirms
      <4>2. d = c
        BY <2>3, <3>3, <4>1 DEF Granted
      <4> QED
        BY <2>3, <2>5, <3>2, <4>1, <4>2 DEF Confirms
    <3>4. Granted' \subseteq BookingId
      BY DEF Granted
    <3> QED
      BY <2>1, <2>5, <3>1, <3>3, <3>4
  <2> QED
    BY <2>4, <2>5
<1>9. ASSUME NEW c \in Caller, SumLocks(c) PROVE Granted' \subseteq Granted
  <2> DEFINE w == Wanted(c)
  <2>1. call[c] # Null /\ call[c] \in Call /\ call[c].at = "locks" /\ bookings' = bookings
    BY <1>9, CallIsARow DEF SumLocks, tables
  <2>2. CASE Return(c)
    BY <1>4, <2>1, <2>2
  <2>3. CASE /\ Goto(c, "write")
             /\ ~(call[c].units + Sum(locks, LockOverlap(w.service, w.slot)) + w.quantity
                      > Capacity[w.service])
    <3>1. /\ call'[c].op = call[c].op /\ call'[c].id = call[c].id
          /\ \A d \in Caller : d # c => call'[d] = call[d]
      BY <2>1, <2>3 DEF Goto, TypeOK, Call
    <3>2. call[c].op = "Approve" => Confirms(call[c])
      <4> SUFFICES ASSUME call[c].op = "Approve" PROVE Confirms(call[c])
        OBVIOUS
      <4> DEFINE L == LockOverlap(call[c].row.service, call[c].row.slot)
                 m == Sum(locks, L)
      <4>1. IsFiniteSet(L)
        BY TablesAssumption, FS_Subset DEF LockOverlap, LiveLocks
      <4>2. m \in Nat
        BY <4>1, SumIsNatural
      <4>3. call[c].row \in Booking
        BY <2>1 DEF CallsInv, Shape, StatusOps, ReadsStatus
      <4>4. ~(call[c].units + m + call[c].row.quantity > Capacity[call[c].row.service])
        BY <2>3 DEF Wanted
      <4>5. /\ call[c].units \in Nat /\ call[c].row.quantity \in Nat
            /\ Capacity[call[c].row.service] \in Nat
        <5>1. call[c].row.service \in Service /\ call[c].row.quantity \in Quantity
          BY <4>3 DEF Booking
        <5>2. Quantity \subseteq Nat
          BY TablesAssumption DEF Quantity
        <5> QED
          BY <2>1, <5>1, <5>2, TablesAssumption, CallIsARow DEF RequestsInv
      <4> HIDE DEF m
      <4>6. call[c].units + call[c].row.quantity <= Capacity[call[c].row.service]
        BY <4>2, <4>4, <4>5
      <4> QED
        BY <2>1, <4>6 DEF Confirms
    <3>3. Confirms(call'[c]) => Confirms(call[c])
      BY <3>1, <3>2 DEF Confirms
    <3>4. call'[c] # Null /\ Confirms(call'[c]) /\ call'[c].id \in BookingId
              => call'[c].id \in Granted
      BY <2>1, <3>1, <3>3 DEF Granted
    <3> QED
      BY <1>1, <1>3, <2>1, <3>1, <3>4
  <2> QED
    BY <1>9, <2>2, <2>3 DEF SumLocks, SlotUnavailable
<1>10. ASSUME NEW c \in Caller, NEW b \in BookingId, Create(c, b)
       PROVE  Granted' \subseteq Granted
  <2>1. /\ call[c] # Null /\ call[c].op = "CreateBooking" /\ Goto(c, "delete")
        /\ \A d \in BookingId : Confirmed(d)' => Confirmed(d)
    BY <1>10 DEF Create, At, NewBooking, TypeOK, TablesTypeOK
  <2>2. call'[c] # Null /\ Confirms(call'[c]) /\ call'[c].id \in BookingId
            => call'[c].id \in Granted
    BY <1>5, <2>1 DEF Confirms
  <2> QED
    BY <1>1, <1>5, <2>1, <2>2 DEF Granted
<1>11. ASSUME NEW c \in Caller, WriteStatus(c) PROVE Granted' \subseteq Granted
  <2> DEFINE k == call[c]
             status == WritesStatus[k.op]
  <2>1. k # Null /\ k.at = "write" /\ k.op \in {"ConfirmPayment", "Approve"} /\ Return(c)
    BY <1>11 DEF WriteStatus, At, StatusOps, ReadsStatus, GrantsInv, BookingsAreKept
  <2>2. k.id \in BookingId /\ bookings[k.id] # Null /\ bookings[k.id] \in Booking
    BY <2>1, BookingIsARow DEF CallsInv, Shape, Found, StatusOps, ReadsStatus
  <2>3. bookings' = [bookings EXCEPT ![k.id].status = status]
    BY <1>11 DEF WriteStatus, UpdateStatus
  <2>4. status = "confirmed" => k.op = "Approve"
    BY <2>1 DEF WritesStatus
  <2>5. k.op = "Approve" => k.id \in Granted
    BY <2>1, <2>2 DEF Granted, Confirms
  <2> HIDE DEF status
  <2>6. ASSUME NEW b \in BookingId, Confirmed(b)' PROVE b \in Granted
    <3>1. CASE b = k.id
      <4>1. bookings'[b].status = status
        BY <2>2, <2>3, <3>1 DEF TypeOK, TablesTypeOK, Booking
      <4> QED
        BY <2>4, <2>5, <2>6, <3>1, <4>1
    <3>2. CASE b # k.id
      BY <2>3, <2>6, <3>2 DEF Granted, TypeOK, TablesTypeOK
    <3> QED
      BY <3>1, <3>2
  <2> QED
    BY <1>1, <1>2, <2>1, <2>6
<1>12. ASSUME NEW c \in Caller, IncrementAttempts(c) PROVE Granted' \subseteq Granted
  <2>1. call[c] # Null /\ call[c].op = "RequestReschedule" /\ Return(c)
    BY <1>12 DEF IncrementAttempts, At
  <2>2. call[c].id \in Granted
    BY <2>1 DEF Granted, Confirms, CallsInv, Shape, StatusOps, ReadsStatus
  <2>3. ASSUME NEW b \in BookingId, Confirmed(b)' PROVE b \in Granted
    <3>1. CASE b # call[c].id
      BY <1>12, <2>3, <3>1 DEF IncrementAttempts, Granted, TypeOK, TablesTypeOK
    <3> QED
      BY <2>2, <3>1
  <2> QED
    BY <1>1, <1>2, <2>1, <2>3
<1>13. ASSUME NEW c \in Caller, GetPendingReschedule(c) PROVE Granted' \subseteq Granted
  <2>1. /\ call[c] # Null /\ call[c].op = "RequestReschedule" /\ bookings' = bookings
        /\ Return(c) \/ Goto(c, "write")
    BY <1>13 DEF GetPendingReschedule, At, tables
  <2>2. call[c].id \in Granted
    BY <2>1 DEF Granted, Confirms, CallsInv, Shape, StatusOps, ReadsStatus
  <2>3. ASSUME Goto(c, "write")
        PROVE  call'[c].id = call[c].id /\ \A d \in Caller : d # c => call'[d] = call[d]
    BY <2>1, <2>3, CallIsARow DEF Goto, TypeOK, Call
  <2> QED
    BY <1>1, <1>3, <1>4, <2>1, <2>2, <2>3
<1>14. ASSUME NEW c \in Caller, NEW r \in RequestId, CreateRescheduleRequest(c, r)
       PROVE  Granted' \subseteq Granted
  BY <1>4, <1>6, <1>14 DEF CreateRescheduleRequest, At
<1>15. ASSUME NEW c \in Caller, LockRequest(c) \/ LockBooking(c) PROVE FALSE
  BY <1>15 DEF LockRequest, LockBooking, At, GrantsInv, BookingsAreKept
<1>16. ASSUME NEW c \in Caller, NEW b \in BookingId, CommitReschedule(c, b) PROVE FALSE
  BY <1>16 DEF CommitReschedule, At, GrantsInv, BookingsAreKept
<1>17. ASSUME NEW c \in Caller,
              \/ \E l \in LockId : CreateLock(c, l)
              \/ DeleteLock(c) \/ UpdateRescheduleStatus(c) \/ Abort(c)
       PROVE  Granted' \subseteq Granted
  BY <1>4, <1>17 DEF CreateLock, DeleteLock, UpdateRescheduleStatus, Abort, tables
<1>18. ASSUME (\E l \in LockId : ExpireLock(l)) \/ UNCHANGED vars
       PROVE  Granted' \subseteq Granted
  BY <1>18 DEF ExpireLock, vars, Granted, Confirms
<1> QED
  BY <1>7, <1>8, <1>9, <1>10, <1>11, <1>12, <1>13, <1>14, <1>15, <1>16, <1>17, <1>18
  DEF Next, Statement

LEMMA GrantsFit ==
    ASSUME RequestsInv, GrantsInv, BookingsAreKept, [Next]_vars,
           NEW svc \in Service, NEW t \in Time
    PROVE  Sum(bookings', GrantedAt(svc, t)') <= Capacity[svc]
<1> USE DEF RequestsInv
<1> DEFINE S == GrantedAt(svc, t)
<1>1. IsFiniteSet(S)
  BY TablesAssumption, FS_Subset DEF GrantedAt, Granted
<1>2. Sum(bookings, S) \in Nat /\ Sum(bookings, S) <= Capacity[svc]
  BY <1>1, SumIsNatural DEF GrantsInv
<1>3. Capacity[svc] \in Nat
  BY TablesAssumption
<1>4. ASSUME NEW b \in Granted
      PROVE  /\ b \in BookingId /\ bookings[b] # Null
             /\ bookings'[b].service = bookings[b].service
             /\ bookings'[b].slot = bookings[b].slot
             /\ bookings'[b].quantity = bookings[b].quantity
  BY GrantedAreThere, BookingsStay
<1>5. ASSUME GrantedAt(svc, t)' \subseteq S
      PROVE  Sum(bookings', GrantedAt(svc, t)') <= Capacity[svc]
  <2>1. \A b \in GrantedAt(svc, t)' : bookings'[b].quantity = bookings[b].quantity
    BY <1>4, <1>5 DEF GrantedAt
  <2> DEFINE T == GrantedAt(svc, t)'
  <2>2. IsFiniteSet(T)
    BY <1>1, <1>5, FS_Subset
  <2>3. Sum(bookings', T) \in Nat
    BY <2>2, SumIsNatural
  <2>4. Sum(bookings', T) <= Sum(bookings, S)
    BY <1>1, <1>5, <2>1, SumOfFewer
  <2> QED
    BY <1>2, <1>3, <2>3, <2>4
<1>6. CASE Granted' \subseteq Granted
  <2>1. GrantedAt(svc, t)' \subseteq S
    BY <1>4, <1>6 DEF GrantedAt
  <2> QED
    BY <1>5, <2>1
<1>7. ASSUME NEW c \in Caller, call[c] # Null, call[c].op = "Approve", bookings' = bookings,
             Granted' \subseteq Granted \cup {call[c].id},
             Sum(bookings, ActiveOverlap(call[c].row.service, call[c].row.slot))
                 + call[c].row.quantity <= Capacity[call[c].row.service]
      PROVE  Sum(bookings', GrantedAt(svc, t)') <= Capacity[svc]
  <2> DEFINE b == call[c].id
             A == ActiveOverlap(call[c].row.service, call[c].row.slot)
             T == GrantedAt(svc, t)'
  <2>1. /\ b \in BookingId /\ bookings[b] # Null /\ call[c].row \in Booking
        /\ call[c].row.service = bookings[b].service /\ call[c].row.slot = bookings[b].slot
    BY <1>7 DEF CallsInv, Shape, Found, StatusOps, ReadsStatus, GrantsInv, Knows
  <2>2. T \subseteq S \cup {b}
    BY <1>7, <2>1 DEF GrantedAt
  <2>3. CASE bookings[b].service = svc /\ Covers(bookings[b].slot, t)
    <3>1. ASSUME NEW x \in T PROVE x \in A
      <4>1. /\ x \in BookingId /\ bookings[x] # Null /\ bookings[x] \in Booking
            /\ bookings[x].service = svc /\ Covers(bookings[x].slot, t)
        BY <1>4, <2>1, <2>2, <2>3, BookingIsARow DEF GrantedAt
      <4>2. x \in InStatus(ActiveStatus)
        BY <4>1 DEF InStatus, GrantsInv
      <4>3. bookings[b].slot \in [start : Time, end : Time]
            /\ bookings[x].slot \in [start : Time, end : Time]
        BY <2>1, <4>1, BookingIsARow DEF Booking, Slot
      <4>4. Overlaps(bookings[x].slot, bookings[b].slot)
        <5> DEFINE p == bookings[x].slot
                   q == bookings[b].slot
        <5>1. /\ p.start \in Int /\ p.end \in Int /\ q.start \in Int /\ q.end \in Int
              /\ t \in Int
          BY <4>3, TablesAssumption
        <5>2. p.start <= t /\ t < p.end /\ q.start <= t /\ t < q.end
          BY <2>3, <4>1 DEF Covers
        <5> HIDE DEF p, q
        <5>3. p.start < q.end /\ p.end > q.start
          BY <5>1, <5>2
        <5> QED
          BY <5>3 DEF Overlaps, p, q
      <4> QED
        BY <2>1, <2>3, <4>1, <4>2, <4>4 DEF ActiveOverlap
    <3>2. IsFiniteSet(A) /\ IsFiniteSet(T)
      BY <3>1, TablesAssumption, FS_Subset DEF ActiveOverlap, InStatus
    <3>3. Sum(bookings, A) \in Nat /\ Sum(bookings', T) \in Nat
      BY <3>2, SumIsNatural
    <3>4. Sum(bookings', T) <= Sum(bookings, A)
      BY <1>7, <3>1, <3>2, SumOfFewer
    <3>5. call[c].row.quantity \in Quantity /\ Quantity \subseteq Nat
      BY <2>1, TablesAssumption DEF Booking, Quantity
    <3>6. Sum(bookings, A) + call[c].row.quantity <= Capacity[svc]
      BY <1>7, <2>1, <2>3
    <3> HIDE DEF A, T
    <3>7. call[c].row.quantity \in Nat
      BY <3>5
    <3>8. Sum(bookings', T) <= Capacity[svc]
      BY <1>3, <3>3, <3>4, <3>6, <3>7
    <3> QED
      BY <3>8 DEF T
  <2>4. CASE ~(bookings[b].service = svc /\ Covers(bookings[b].slot, t))
    <3>1. T \subseteq S
      BY <1>7, <2>2, <2>4 DEF GrantedAt
    <3> QED
      BY <1>5, <3>1
  <2> QED
    BY <2>3, <2>4
<1> QED
  BY <1>6, <1>7, GrantsGrow

\* A statement changes its own call only.
LEMMA OthersStandStill ==
    ASSUME RequestsInv, NEW c \in Caller, Statement(c), NEW d \in Caller, d # c
    PROVE  call'[d] = call[d]
<1> USE DEF RequestsInv, TypeOK
<1>1. ASSUME Return(c) PROVE call'[d] = call[d]
  BY <1>1 DEF Return
<1>2. ASSUME NEW at, Goto(c, at) PROVE call'[d] = call[d]
  BY <1>2 DEF Goto
<1>3. CASE SumBookings(c)
  BY <1>3 DEF SumBookings
<1>4. CASE LockRequest(c)
  BY <1>1, <1>4 DEF LockRequest
<1>5. CASE \/ SumLocks(c) \/ (\E l \in LockId : CreateLock(c, l))
           \/ (\E b \in BookingId : Create(c, b)) \/ DeleteLock(c)
           \/ WriteStatus(c) \/ GetPendingReschedule(c)
  BY <1>1, <1>2, <1>5 DEF SumLocks, SlotUnavailable, CreateLock, Create, DeleteLock,
                          WriteStatus, GetPendingReschedule
<1>6. CASE \/ (\E r \in RequestId : CreateRescheduleRequest(c, r)) \/ IncrementAttempts(c)
           \/ LockBooking(c) \/ (\E b \in BookingId : CommitReschedule(c, b))
           \/ UpdateRescheduleStatus(c)
  BY <1>1, <1>2, <1>6 DEF CreateRescheduleRequest, IncrementAttempts, LockBooking,
                          CommitReschedule, UpdateRescheduleStatus
<1> QED
  BY <1>3, <1>4, <1>5, <1>6 DEF Statement

\* A call that was not there begins.
LEMMA CallsBegin ==
    ASSUME RequestsInv, [Next]_vars, NEW d \in Caller, call[d] = Null, call'[d] # Null
    PROVE  Start(d)
<1> USE DEF RequestsInv, TypeOK
<1>1. ASSUME NEW c \in Caller, Start(c) PROVE c = d
  BY <1>1 DEF Start, StartLockSlot, GetLock, GetByID, GetByIDToReschedule,
              StartApproveReschedule, GetRescheduleByID, Begin
<1>2. ASSUME NEW c \in Caller, Statement(c) PROVE FALSE
  <2>1. call[c] # Null
    BY <1>2 DEF Statement, SumBookings, SumLocks, CreateLock, Create, DeleteLock, WriteStatus,
                GetPendingReschedule, CreateRescheduleRequest, IncrementAttempts, LockRequest,
                LockBooking, CommitReschedule, UpdateRescheduleStatus, At
  <2>2. c # d
    BY <2>1
  <2> QED
    BY <1>2, <2>2, OthersStandStill
<1>3. ASSUME NEW c \in Caller, Abort(c) PROVE FALSE
  BY <1>3 DEF Abort, Return
<1>4. ~(\E l \in LockId : ExpireLock(l)) /\ ~UNCHANGED vars
  BY DEF ExpireLock, vars
<1> QED
  BY <1>1, <1>2, <1>3, <1>4 DEF Next

LEMMA GrantsStep ==
    ASSUME RequestsInv, GrantsInv, BookingsAreKept, [Next]_vars
    PROVE  GrantsInv'
<1> USE DEF RequestsInv
<1>1. ASSUME NEW d \in Caller, call'[d] # Null PROVE call'[d].op \in Ops /\ Knows(call[d])'
  <2>1. CASE call[d] # Null /\ call'[d].op = call[d].op /\ call'[d].id = call[d].id
             /\ (call'[d].row = call[d].row \/ call[d].op = "ApproveReschedule")
    <3>1. call[d].op \in Ops /\ Knows(call[d]) /\ Shape(call[d]) /\ Found(call[d])
      BY <2>1 DEF GrantsInv, CallsInv
    <3>2. call[d].op \in StatusOps => call[d].id \in BookingId /\ bookings[call[d].id] # Null
      BY <3>1 DEF Shape, Found
    <3> QED
      BY <2>1, <3>1, <3>2, BookingsStay DEF Knows, StatusOps, ReadsStatus
  <2>2. CASE call[d] = Null
    <3>1. Start(d) /\ bookings' = bookings
      BY <1>1, <2>2, CallsBegin
      DEF Start, StartLockSlot, GetLock, GetByID, GetByIDToReschedule, StartApproveReschedule,
          GetRescheduleByID, tables
    <3>2. ASSUME NEW op, NEW at, NEW id, NEW row, NEW wish, Begin(d, op, at, id, row, wish)
          PROVE  /\ op \in Ops /\ call'[d].op = op
                 /\ call'[d].id = id /\ call'[d].row = row
      BY <3>2 DEF Begin, TypeOK
    <3>3. ASSUME NEW op \in StatusOps, NEW b \in BookingId, GetByID(d, op, b)
          PROVE  call'[d].op \in Ops /\ Knows(call[d])'
      BY <3>1, <3>2, <3>3 DEF GetByID, Knows
    <3>4. ASSUME NEW b \in BookingId, NEW slot \in Slot, GetByIDToReschedule(d, b, slot)
          PROVE  call'[d].op \in Ops /\ Knows(call[d])'
      BY <3>1, <3>2, <3>4 DEF GetByIDToReschedule, Knows
    <3>5. ASSUME NEW op, NEW at, NEW id, NEW row, NEW wish, Begin(d, op, at, id, row, wish),
                 op \notin StatusOps
          PROVE  call'[d].op \in Ops /\ Knows(call[d])'
      BY <3>2, <3>5 DEF Knows
    <3>6. {"LockSlot", "CreateBooking", "ApproveReschedule", "RejectReschedule"} \cap StatusOps = {}
      BY DEF StatusOps, ReadsStatus
    <3> QED
      BY <3>1, <3>3, <3>4, <3>5, <3>6 DEF Start, StartLockSlot, GetLock, StartApproveReschedule,
                                         GetRescheduleByID
  <2> QED
    BY <1>1, <2>1, <2>2, CallMoves DEF Moves, Continues, Takes, Begins
<1>2. ASSUME NEW b \in BookingId, bookings'[b] # Null PROVE bookings'[b].status \in ActiveStatus
  <2>1. CASE bookings' = bookings
    BY <1>2, <2>1 DEF GrantsInv
  <2>3. ASSUME NEW c \in Caller, WriteStatus(c)
        PROVE  bookings'[b].status \in ActiveStatus
    <3> DEFINE k == call[c]
               status == WritesStatus[k.op]
    <3>1. k # Null /\ k.op \in {"ConfirmPayment", "Approve"}
      BY <2>3 DEF WriteStatus, At, StatusOps, ReadsStatus, GrantsInv, BookingsAreKept
    <3>2. k.id \in BookingId /\ bookings[k.id] # Null /\ bookings[k.id] \in Booking
      BY <3>1, BookingIsARow DEF CallsInv, Shape, Found, StatusOps, ReadsStatus
    <3>3. bookings' = [bookings EXCEPT ![k.id].status = status]
      BY <2>3 DEF WriteStatus, UpdateStatus
    <3>4. status \in ActiveStatus
      BY <3>1 DEF WritesStatus, ActiveStatus
    <3> HIDE DEF status
    <3> QED
      BY <1>2, <3>2, <3>3, <3>4 DEF GrantsInv, TypeOK, TablesTypeOK, Booking
  <2>4. ASSUME NEW c \in Caller, IncrementAttempts(c)
        PROVE  bookings'[b].status \in ActiveStatus
    <3> DEFINE k == call[c]
               n == AttemptsWritten(k)
    <3>1. k # Null /\ k.op = "RequestReschedule"
      BY <2>4 DEF IncrementAttempts, At
    <3>2. /\ k.id \in BookingId /\ bookings[k.id] # Null /\ bookings[k.id] \in Booking
          /\ k.row.status = "confirmed"
      BY <3>1, BookingIsARow DEF CallsInv, Shape, Found, StatusOps, ReadsStatus
    <3>3. bookings' = [bookings EXCEPT ![k.id].status = "confirmed", ![k.id].attempts = n]
      BY <2>4, <3>2 DEF IncrementAttempts
    <3> HIDE DEF n
    <3> QED
      BY <1>2, <3>2, <3>3 DEF GrantsInv, TypeOK, TablesTypeOK, Booking, ActiveStatus
  <2>5. ASSUME bookings' # bookings
        PROVE  \E c \in Caller : \/ \E x \in BookingId : Create(c, x) \/ CommitReschedule(c, x)
                                 \/ WriteStatus(c) \/ IncrementAttempts(c)
    BY <2>5 DEF Next, vars, tables, Start, Statement, Abort, ExpireLock, StartLockSlot, GetLock,
                GetByID, GetByIDToReschedule, StartApproveReschedule, GetRescheduleByID,
                SumBookings, SumLocks, CreateLock, DeleteLock, GetPendingReschedule,
                CreateRescheduleRequest, LockRequest, LockBooking, UpdateRescheduleStatus
  <2>6. ASSUME NEW c \in Caller, NEW x \in BookingId, CommitReschedule(c, x) PROVE FALSE
    BY <2>6 DEF CommitReschedule, At, GrantsInv, BookingsAreKept
  <2>7. ASSUME NEW c \in Caller, NEW x \in BookingId, Create(c, x)
        PROVE  bookings'[b].status \in ActiveStatus
    BY <1>2, <2>7 DEF Create, NewBooking, GrantsInv, TypeOK, TablesTypeOK, ActiveStatus
  <2> QED
    BY <2>1, <2>3, <2>4, <2>5, <2>6, <2>7
<1> QED
  BY <1>1, <1>2, GrantsFit DEF GrantsInv

\* Calls that lock, book, pay and approve, and those that ask for a move or refuse
\* one, cannot overbook a service, however many of them run at a time and wherever
\* they stop: it takes a booking that leaves the calendar while an approval of it,
\* or a check that no longer counts it, is under way.
THEOREM InterleavedApprovalsFit ==
    BookingsAreKept => (Spec => []ConfirmedWithinCapacity)
<1> SUFFICES ASSUME BookingsAreKept PROVE Spec => []ConfirmedWithinCapacity
  OBVIOUS
<1>1. Init => GrantsInv
  <2> SUFFICES ASSUME Init, NEW svc \in Service, NEW t \in Time
               PROVE  Sum(bookings, GrantedAt(svc, t)) <= Capacity[svc]
    BY DEF Init, TablesInit, GrantsInv
  <2>1. Granted = {}
    BY DEF Init, TablesInit, Granted
  <2>2. Units(bookings, GrantedAt(svc, t)) = {}
    BY <2>1 DEF GrantedAt, Units
  <2>3. Sum(bookings, GrantedAt(svc, t)) = 0
    BY <2>2, FS_EmptySet DEF Sum
  <2> QED
    BY <2>3, TablesAssumption
<1>2. RequestsInv /\ GrantsInv /\ [Next]_vars => GrantsInv'
  BY GrantsStep
<1>3. RequestsInv /\ GrantsInv => ConfirmedWithinCapacity
  <2> SUFFICES ASSUME RequestsInv, GrantsInv, NEW svc \in Service, NEW t \in Time
               PROVE  Sum(bookings, BookedAt({"confirmed"}, svc, t)) <= Capacity[svc]
    BY DEF ConfirmedWithinCapacity
  <2> DEFINE T == BookedAt({"confirmed"}, svc, t)
             S == GrantedAt(svc, t)
  <2>1. T \subseteq S
    BY DEF BookedAt, InStatus, GrantedAt, Granted
  <2>2. IsFiniteSet(S) /\ IsFiniteSet(T)
    BY <2>1, TablesAssumption, FS_Subset DEF GrantedAt, Granted
  <2>3. Sum(bookings, T) \in Nat /\ Sum(bookings, S) \in Nat /\ Capacity[svc] \in Nat
    BY <2>2, SumIsNatural, TablesAssumption
  <2>4. Sum(bookings, T) <= Sum(bookings, S)
    BY <2>1, <2>2, SumOfFewer
  <2>5. Sum(bookings, S) <= Capacity[svc]
    BY DEF GrantsInv
  <2> QED
    BY <2>3, <2>4, <2>5
<1> QED
  BY <1>1, <1>2, <1>3, RequestsInvariant, PTL DEF Spec

-----------------------------------------------------------------------------
(* One caller: the statements of a call add up to a call of BookingService.*)

\* No two calls at a time, and none that stops between two statements.
OneAtATime == (\A c, d \in Caller : c = d) /\ ~MayAbort

\* The statements each call has yet to make, by the call it is.
StatementsOf(op) ==
    CASE op \in {"LockSlot", "Approve"} -> {"bookings", "locks", "write"}
      [] op = "ApproveReschedule" ->
             {"lock request", "lock booking", "bookings", "locks", "write"}
      [] op = "CreateBooking" -> {"write", "delete"}
      [] op = "RequestReschedule" -> {"pending", "write", "increment"}
      [] OTHER -> {"write"}

\* What a call has read is still so: only locks expire meanwhile.
UpToDate(k) ==
    /\ k.at \in StatementsOf(k.op)
    /\ k.op \in StatusOps => bookings[k.id] = k.row /\ k.row.status = ReadsStatus[k.op]
    /\ k.op \in {"LockSlot", "RequestReschedule"} => k.wish.slot \in ParsedSlot
    /\ k.op = "RequestReschedule" /\ k.at = "write" => PendingRequests(k.id) = {}
    /\ k.op = "CreateBooking" => locks[k.id] \in {k.row, Spent}
    /\ k.op = "RejectReschedule" => requests[k.id].status = "pending"

\* So is what its slot check has counted and found.
Checked(c) ==
    LET w == Wanted(c) IN
    call[c].op \in {"LockSlot", "Approve", "ApproveReschedule"} =>
        /\ call[c].at = "locks" =>
               call[c].units = Sum(bookings, ActiveOverlap(w.service, w.slot) \ w.excluded)
        /\ call[c].at = "write" =>
               ~SlotConflict(w.service, w.slot, w.quantity, w.excluded)

SequenceInv == \A c \in Caller : call[c] # Null => UpToDate(call[c]) /\ Checked(c)

\* A lock that expires leaves no less room.
LEMMA ExpiryLeavesRoom ==
    ASSUME NEW l \in LockId, ExpireLock(l), NEW svc \in Service, NEW slot, NEW quantity \in Nat,
           NEW excluded, TypeOK, ~SlotConflict(svc, slot, quantity, excluded)
    PROVE  ~SlotConflict(svc, slot, quantity, excluded)'
<1> DEFINE A == ActiveOverlap(svc, slot) \ excluded
           L == LockOverlap(svc, slot)
           M == LockOverlap(svc, slot)'
<1>1. bookings' = bookings
  BY DEF ExpireLock
<1>2. A' = A
  BY <1>1 DEF ActiveOverlap, InStatus
<1>3. M \subseteq L /\ \A x \in M : locks'[x].quantity = locks[x].quantity
  BY DEF ExpireLock, LockOverlap, LiveLocks, TypeOK, TablesTypeOK
<1>4. IsFiniteSet(A) /\ IsFiniteSet(L) /\ IsFiniteSet(M)
  <2>1. A \subseteq BookingId /\ L \subseteq LockId /\ M \subseteq LockId
    BY DEF ActiveOverlap, InStatus, LockOverlap, LiveLocks
  <2> QED
    BY <2>1, TablesAssumption, FS_Subset
<1>5. Sum(bookings, A) \in Nat /\ Sum(locks, L) \in Nat /\ Sum(locks', M) \in Nat
  BY <1>4, SumIsNatural
<1>6. Sum(locks', M) <= Sum(locks, L)
  BY <1>3, <1>4, SumOfFewer
<1>7. Capacity[svc] \in Nat
  BY TablesAssumption
<1>8. ~(Sum(bookings, A) + Sum(locks, L) + quantity > Capacity[svc])
  BY DEF SlotConflict
<1>9. SlotConflict(svc, slot, quantity, excluded)'
          <=> Sum(bookings, A) + Sum(locks', M) + quantity > Capacity[svc]
  BY <1>1, <1>2 DEF SlotConflict
<1> HIDE DEF A, L, M
<1> QED
  BY <1>5, <1>6, <1>7, <1>8, <1>9

LEMMA GotoKeeps ==
    ASSUME TypeOK, NEW c \in Caller, call[c] # Null, NEW at, Goto(c, at)
    PROVE  /\ call'[c].op = call[c].op /\ call'[c].id = call[c].id
           /\ call'[c].row = call[c].row /\ call'[c].wish = call[c].wish
           /\ call'[c].units = call[c].units /\ call'[c].at = at
<1>1. call[c] \in Call
  BY CallIsARow
<1>2. call'[c] = [call[c] EXCEPT !.at = at]
  BY DEF Goto, TypeOK
<1> QED
  BY <1>1, <1>2 DEF Call

LEMMA BeginSets ==
    ASSUME TypeOK, NEW c \in Caller, NEW op, NEW at, NEW id, NEW row, NEW wish,
           Begin(c, op, at, id, row, wish)
    PROVE  /\ call'[c].op = op /\ call'[c].at = at /\ call'[c].id = id
           /\ call'[c].row = row /\ call'[c].wish = wish
BY DEF Begin, TypeOK

\* What a call wants room for hangs on what it is for, and on the booking it moves.
LEMMA WantedStays ==
    ASSUME NEW c \in Caller, call'[c].op = call[c].op, call'[c].id = call[c].id,
           call'[c].row = call[c].row, call'[c].wish = call[c].wish, bookings' = bookings
    PROVE  Wanted(c)' = Wanted(c)
BY DEF Wanted

LEMMA QuantitiesAreNumbers == Quantity \subseteq Nat
BY TablesAssumption DEF Quantity

LEMMA WantedIsANumber ==
    ASSUME RequestsInv, NEW c \in Caller, call[c] # Null,
           call[c].op \in {"LockSlot", "Approve", "ApproveReschedule"},
           call[c].op = "ApproveReschedule" => call[c].at # "lock request"
    PROVE  Wanted(c).quantity \in Nat /\ Wanted(c).service \in Service
<1> USE DEF RequestsInv
<1>1. Quantity \subseteq Nat
  BY QuantitiesAreNumbers
<1>2. Shape(call[c]) /\ Found(call[c]) /\ Holds(c)
  BY DEF CallsInv
<1>3. CASE call[c].op = "LockSlot"
  BY <1>1, <1>2, <1>3 DEF Shape, Wish, Wanted
<1>4. CASE call[c].op = "Approve"
  BY <1>1, <1>2, <1>4 DEF Shape, StatusOps, ReadsStatus, Booking, Wanted
<1>5. CASE call[c].op = "ApproveReschedule"
  <2> DEFINE orig == call[c].row.booking
  <2>1. InTransaction(c)
    BY <1>5 DEF InTransaction
  <2>2. requests[call[c].id] = call[c].row /\ call[c].id \in RequestId
        /\ requests[call[c].id] # Null
    BY <1>2, <1>5, <2>1 DEF Holds, Shape, Found
  <2>3. orig \in BookingId /\ bookings[orig] # Null
    BY <2>2, RequestIsARow DEF RequestsNameRows, Request
  <2>4. bookings[orig] \in Booking
    BY <2>3, BookingIsARow
  <2> QED
    BY <1>1, <1>5, <2>4 DEF Booking, Wanted
<1> QED
  BY <1>3, <1>4, <1>5

LEMMA SequenceStep ==
    ASSUME OneAtATime, RequestsInv, SequenceInv, [Next]_vars
    PROVE  SequenceInv'
<1> USE DEF RequestsInv
<1> SUFFICES ASSUME NEW c \in Caller, call'[c] # Null
             PROVE  UpToDate(call[c])' /\ Checked(c)'
  BY DEF SequenceInv
<1> DEFINE Fresh == UpToDate(call[c])' /\ Checked(c)'
<1>1. ASSUME UNCHANGED vars PROVE Fresh
  <2>1. call' = call /\ bookings' = bookings /\ requests' = requests /\ locks' = locks
    BY <1>1 DEF vars
  <2>2. UpToDate(call[c]) /\ Checked(c)
    BY <2>1 DEF SequenceInv
  <2>3. UpToDate(call[c])'
    BY <2>1, <2>2 DEF UpToDate, PendingRequests
  <2>4. Checked(c)'
    BY <2>1, <2>2, WantedStays
    DEF Checked, SlotConflict, ActiveOverlap, InStatus, LockOverlap, LiveLocks
  <2> QED
    BY <2>3, <2>4
<1>2. ASSUME NEW l \in LockId, ExpireLock(l) PROVE Fresh
  <2>1. call' = call /\ bookings' = bookings /\ requests' = requests
    BY <1>2 DEF ExpireLock
  <2>2. UpToDate(call[c]) /\ Checked(c) /\ Shape(call[c])
    BY <2>1 DEF SequenceInv, CallsInv
  <2>3. UpToDate(call[c])'
    <3>1. call[c].op = "CreateBooking" => locks'[call[c].id] \in {call[c].row, Spent}
      BY <1>2, <2>2 DEF ExpireLock, UpToDate, Shape, TypeOK, TablesTypeOK
    <3> QED
      BY <2>1, <2>2, <3>1 DEF UpToDate, PendingRequests
  <2>4. Wanted(c)' = Wanted(c)
    BY <2>1, WantedStays
  <2> DEFINE w == Wanted(c)
  <2>5. ActiveOverlap(w.service, w.slot)' = ActiveOverlap(w.service, w.slot)
    BY <2>1, <2>4 DEF ActiveOverlap, InStatus
  <2>6. ASSUME call[c].op \in {"LockSlot", "Approve", "ApproveReschedule"}, call[c].at = "write"
        PROVE  (~SlotConflict(w.service, w.slot, w.quantity, w.excluded))'
    <3>1. w.quantity \in Nat /\ w.service \in Service
      BY <2>1, <2>6, WantedIsANumber
    <3>2. ~SlotConflict(w.service, w.slot, w.quantity, w.excluded)
      BY <2>2, <2>6 DEF Checked
    <3>3. ASSUME NEW svc, NEW slot, NEW quantity, NEW excluded, svc = w.service, slot = w.slot,
                 quantity = w.quantity, excluded = w.excluded
          PROVE  ~SlotConflict(svc, slot, quantity, excluded)'
      BY <1>2, <3>1, <3>2, <3>3, ExpiryLeavesRoom
    <3> QED
      BY <2>4, <3>3
  <2>7. Checked(c)'
    BY <2>1, <2>2, <2>4, <2>5, <2>6 DEF Checked
  <2> QED
    BY <2>3, <2>7
<1>3. ASSUME NEW d \in Caller, Start(d) PROVE Fresh
  <2> USE DEF UpToDate, Checked, StatementsOf
  <2>1. d = c /\ bookings' = bookings /\ requests' = requests /\ locks' = locks
    BY <1>3 DEF OneAtATime, Start, StartLockSlot, GetLock, GetByID, GetByIDToReschedule,
                StartApproveReschedule, GetRescheduleByID, tables
  <2>2. ASSUME NEW svc \in Service, NEW wish \in Wish, StartLockSlot(c, svc, wish) PROVE Fresh
    <3>1. /\ call'[c].op = "LockSlot" /\ call'[c].at = "bookings" /\ call'[c].wish = wish
          /\ wish.slot \in ParsedSlot
      BY <2>2, BeginSets DEF StartLockSlot
    <3> QED
      BY <3>1 DEF StatusOps, ReadsStatus
  <2>3. ASSUME NEW l \in LockId, NEW wish \in Wish, GetLock(c, l, wish) PROVE Fresh
    <3>1. /\ call'[c].op = "CreateBooking" /\ call'[c].at = "write" /\ call'[c].id = l
          /\ call'[c].row = locks[l]
      BY <2>3, BeginSets DEF GetLock
    <3> QED
      BY <2>1, <3>1 DEF StatusOps, ReadsStatus
  <2>4. ASSUME NEW op \in StatusOps, NEW b \in BookingId, GetByID(c, op, b) PROVE Fresh
    <3>1. /\ call'[c].op = op /\ call'[c].at = AfterGetByID(op) /\ call'[c].id = b
          /\ call'[c].row = bookings[b] /\ bookings[b].status = ReadsStatus[op]
          /\ op # "RequestReschedule"
      BY <2>4, BeginSets DEF GetByID
    <3> QED
      BY <2>1, <3>1 DEF StatusOps, ReadsStatus, AfterGetByID
  <2>5. ASSUME NEW b \in BookingId, NEW slot \in Slot, GetByIDToReschedule(c, b, slot) PROVE Fresh
    <3>1. /\ call'[c].op = "RequestReschedule" /\ call'[c].at = "pending" /\ call'[c].id = b
          /\ call'[c].row = bookings[b] /\ bookings[b].status = "confirmed"
          /\ call'[c].wish.slot = slot /\ slot \in ParsedSlot
      BY <2>5, BeginSets DEF GetByIDToReschedule, AfterGetByID
    <3> QED
      BY <2>1, <3>1 DEF StatusOps, ReadsStatus
  <2>6. ASSUME NEW r \in RequestId, StartApproveReschedule(c, r) PROVE Fresh
    <3>1. call'[c].op = "ApproveReschedule" /\ call'[c].at = "lock request"
      BY <2>6, BeginSets DEF StartApproveReschedule
    <3> QED
      BY <3>1 DEF StatusOps, ReadsStatus
  <2>7. ASSUME NEW r \in RequestId, GetRescheduleByID(c, r) PROVE Fresh
    <3>1. /\ call'[c].op = "RejectReschedule" /\ call'[c].at = "write" /\ call'[c].id = r
          /\ requests[r].status = "pending"
      BY <2>7, BeginSets DEF GetRescheduleByID
    <3> QED
      BY <2>1, <3>1 DEF StatusOps, ReadsStatus
  <2> QED
    BY <1>3, <2>1, <2>2, <2>3, <2>4, <2>5, <2>6, <2>7 DEF Start
<1>4. ASSUME NEW d \in Caller, Statement(d) PROVE Fresh
  <2>1. d = c
    BY DEF OneAtATime
  <2>2. call[c] # Null /\ call[c] \in Call
    <3>1. call[c] # Null
      BY <1>4, <2>1 DEF Statement, SumBookings, SumLocks, CreateLock, Create, DeleteLock,
             WriteStatus, GetPendingReschedule, CreateRescheduleRequest, IncrementAttempts,
             LockRequest, LockBooking, CommitReschedule, UpdateRescheduleStatus, At
    <3> QED
      BY <3>1, CallIsARow
  <2>3. UpToDate(call[c]) /\ Checked(c) /\ Shape(call[c]) /\ Found(call[c]) /\ Holds(c)
    BY <2>2 DEF SequenceInv, CallsInv
  <2>4. ASSUME Return(c) PROVE FALSE
    BY <2>4 DEF Return, TypeOK
  <2>5. CASE SumBookings(c)
    <3> DEFINE w == Wanted(c)
               n == Sum(bookings, ActiveOverlap(w.service, w.slot) \ w.excluded)
    <3>1. call[c].at = "bookings" /\ UNCHANGED tables
      BY <2>5 DEF SumBookings
    <3>2. call' = [call EXCEPT ![c].at = "locks", ![c].units = n]
      BY <2>5 DEF SumBookings
    <3>3. call[c].op \in {"LockSlot", "Approve", "ApproveReschedule"}
      BY <2>3, <3>1 DEF UpToDate, StatementsOf
    <3> HIDE DEF n
    <3>4. /\ call'[c].op = call[c].op /\ call'[c].id = call[c].id
          /\ call'[c].row = call[c].row /\ call'[c].wish = call[c].wish
          /\ call'[c].units = n /\ call'[c].at = "locks"
      BY <2>2, <3>2 DEF TypeOK, Call
    <3>5. UpToDate(call[c])'
      BY <2>3, <3>1, <3>3, <3>4 DEF UpToDate, StatementsOf, tables
    <3>6. Wanted(c)' = w
      BY <3>1, <3>4, WantedStays DEF tables
    <3>7. bookings' = bookings
      BY <3>1 DEF tables
    <3>8. ActiveOverlap(w.service, w.slot)' = ActiveOverlap(w.service, w.slot)
      BY <3>6, <3>7 DEF ActiveOverlap, InStatus
    <3>9. Checked(c)'
      BY <3>4, <3>6, <3>7, <3>8 DEF Checked, n
    <3> QED
      BY <3>5, <3>9
  <2>6. CASE SumLocks(c)
    <3> DEFINE w == Wanted(c)
    <3>1. call[c].at = "locks" /\ UNCHANGED tables
      BY <2>6 DEF SumLocks
    <3>2. /\ Goto(c, "write")
          /\ ~(call[c].units + Sum(locks, LockOverlap(w.service, w.slot)) + w.quantity
                   > Capacity[w.service])
      BY <2>4, <2>6 DEF SumLocks, SlotUnavailable
    <3>3. call[c].op \in {"LockSlot", "Approve", "ApproveReschedule"}
      BY <2>3, <3>1 DEF UpToDate, StatementsOf
    <3>4. /\ call'[c].op = call[c].op /\ call'[c].id = call[c].id
          /\ call'[c].row = call[c].row /\ call'[c].wish = call[c].wish
          /\ call'[c].at = "write"
      BY <2>2, <3>2, GotoKeeps
    <3>5. UpToDate(call[c])'
      BY <2>3, <3>1, <3>3, <3>4 DEF UpToDate, StatementsOf, tables
    <3>6. ~SlotConflict(w.service, w.slot, w.quantity, w.excluded)
      BY <2>3, <3>1, <3>2, <3>3 DEF Checked, SlotConflict
    <3>7. bookings' = bookings /\ locks' = locks
      BY <3>1 DEF tables
    <3>8. Wanted(c)' = w
      BY <3>4, <3>7, WantedStays
    <3>9. (~SlotConflict(w.service, w.slot, w.quantity, w.excluded))'
      BY <3>6, <3>7, <3>8 DEF SlotConflict, ActiveOverlap, InStatus, LockOverlap, LiveLocks
    <3> QED
      BY <3>4, <3>5, <3>9 DEF Checked
  <2>7. ASSUME NEW b \in BookingId, Create(c, b) PROVE Fresh
    <3>1. call[c].op = "CreateBooking" /\ Goto(c, "delete") /\ UNCHANGED <<locks, requests>>
      BY <2>7 DEF Create, At
    <3>2. /\ call'[c].op = call[c].op /\ call'[c].id = call[c].id
          /\ call'[c].row = call[c].row /\ call'[c].at = "delete"
      BY <2>2, <3>1, GotoKeeps
    <3> QED
      BY <2>3, <3>1, <3>2 DEF UpToDate, Checked, StatementsOf, StatusOps, ReadsStatus
  <2>8. CASE GetPendingReschedule(c)
    <3>1. /\ call[c].op = "RequestReschedule" /\ PendingRequests(call[c].id) = {}
          /\ Goto(c, "write") /\ UNCHANGED tables
      BY <2>4, <2>8 DEF GetPendingReschedule, At
    <3>2. /\ call'[c].op = call[c].op /\ call'[c].id = call[c].id
          /\ call'[c].row = call[c].row /\ call'[c].at = "write" /\ call'[c].wish = call[c].wish
      BY <2>2, <3>1, GotoKeeps
    <3>3. PendingRequests(call[c].id)' = {}
      BY <3>1, <3>2 DEF PendingRequests, tables
    <3> QED
      BY <2>3, <3>1, <3>2, <3>3 DEF UpToDate, Checked, StatementsOf, tables
  <2>9. ASSUME NEW r \in RequestId, CreateRescheduleRequest(c, r) PROVE Fresh
    <3>1. /\ call[c].op = "RequestReschedule" /\ Goto(c, "increment")
          /\ UNCHANGED <<bookings, locks>>
      BY <2>4, <2>9 DEF CreateRescheduleRequest, At
    <3>2. /\ call'[c].op = call[c].op /\ call'[c].id = call[c].id
          /\ call'[c].row = call[c].row /\ call'[c].at = "increment"
          /\ call'[c].wish = call[c].wish
      BY <2>2, <3>1, GotoKeeps
    <3> QED
      BY <2>3, <3>1, <3>2 DEF UpToDate, Checked, StatementsOf
  <2>10. CASE LockRequest(c)
    <3> DEFINE r == call[c].id
    <3>1. /\ call[c].op = "ApproveReschedule" /\ UNCHANGED tables
          /\ call' = [call EXCEPT ![c].at = "lock booking", ![c].row = requests[r]]
      BY <2>4, <2>10 DEF LockRequest, At
    <3>2. r \in RequestId /\ requests[r] \in Request
      BY <2>3, <3>1, RequestIsARow DEF Shape, Found
    <3>3. call'[c].op = "ApproveReschedule" /\ call'[c].at = "lock booking"
      BY <2>2, <3>1, <3>2 DEF TypeOK, Call
    <3> QED
      BY <3>3 DEF UpToDate, Checked, StatementsOf, StatusOps, ReadsStatus
  <2>11. CASE LockBooking(c)
    <3>1. call[c].op = "ApproveReschedule" /\ Goto(c, "bookings")
      BY <2>11 DEF LockBooking, At
    <3>2. call'[c].op = "ApproveReschedule" /\ call'[c].at = "bookings"
      BY <2>2, <3>1, GotoKeeps
    <3> QED
      BY <3>2 DEF UpToDate, Checked, StatementsOf, StatusOps, ReadsStatus
  <2>12. CASE \/ \E l \in LockId : CreateLock(c, l)
              \/ DeleteLock(c) \/ WriteStatus(c) \/ IncrementAttempts(c)
              \/ \E b \in BookingId : CommitReschedule(c, b)
              \/ UpdateRescheduleStatus(c)
    BY <2>4, <2>12 DEF CreateLock, DeleteLock, WriteStatus, IncrementAttempts, CommitReschedule,
                       UpdateRescheduleStatus
  <2> QED
    BY <1>4, <2>1, <2>5, <2>6, <2>7, <2>8, <2>9, <2>10, <2>11, <2>12 DEF Statement
<1>5. ASSUME NEW d \in Caller, Abort(d) PROVE FALSE
  BY <1>5 DEF Abort, OneAtATime
<1> QED
  BY <1>1, <1>2, <1>3, <1>4, <1>5 DEF Next

\* Between the two writes of a request, and of a booking and its lock.
Counting(k) == k.op = "RequestReschedule" /\ k.at = "increment"
Holding(k)  == k.op = "CreateBooking" /\ k.at = "write"

NoneBetween == \A c \in Caller : call[c] # Null => ~Counting(call[c]) /\ ~Holding(call[c])

\* The tables as BookingService sees them: as they are,
AsTheyAre == CountedBookings = bookings /\ HeldLocks = locks

\* with the attempt counted that is about to be,
AttemptsCounted ==
    \A c \in Caller : call[c] # Null /\ Counting(call[c]) =>
        /\ CountedBookings =
               [bookings EXCEPT ![call[c].id].attempts = bookings[call[c].id].attempts + 1]
        /\ HeldLocks = locks

\* or with the lock live that a call has found.
LocksHeld ==
    \A c \in Caller : call[c] # Null /\ Holding(call[c]) =>
        /\ CountedBookings = bookings
        /\ HeldLocks = [locks EXCEPT ![call[c].id] = call[c].row]

TablesSeen == (NoneBetween => AsTheyAre) /\ AttemptsCounted /\ LocksHeld

LEMMA TablesAreSeen ==
    ASSUME OneAtATime, RequestsInv
    PROVE  TablesSeen
<1> USE DEF RequestsInv, TypeOK, TablesTypeOK
<1>1. NoneBetween => AsTheyAre
  BY DEF NoneBetween, AsTheyAre, CountedBookings, HeldLocks, At, Counting, Holding
<1>2. ASSUME NEW c \in Caller, call[c] # Null, Counting(call[c])
      PROVE  /\ CountedBookings =
                    [bookings EXCEPT ![call[c].id].attempts = bookings[call[c].id].attempts + 1]
             /\ HeldLocks = locks
  <2>1. \A d \in Caller : d = c
    BY DEF OneAtATime
  <2>2. call[c].id \in BookingId
    BY <1>2 DEF CallsInv, Shape, Counting, StatusOps, ReadsStatus
  <2> QED
    BY <1>2, <2>1, <2>2 DEF CountedBookings, HeldLocks, At, Counting
<1>3. ASSUME NEW c \in Caller, call[c] # Null, Holding(call[c])
      PROVE  CountedBookings = bookings /\ HeldLocks = [locks EXCEPT ![call[c].id] = call[c].row]
  <2> DEFINE k == call[c]
  <2>1. \A d \in Caller : d = c
    BY DEF OneAtATime
  <2>2. k.id \in LockId
    BY <1>3 DEF CallsInv, Shape, Holding
  <2>3. ASSUME NEW l \in LockId, l = k.id
        PROVE  (CHOOSE x \in {call[d] : d \in Caller} : x # Null /\ x.id = l) = k
    BY <1>3, <2>1, <2>3
  <2>4. CountedBookings = bookings
    BY <1>3, <2>1 DEF CountedBookings, At, Holding
  <2>5. \A l \in LockId : (\E d \in Caller : At(d, "CreateBooking", "write") /\ call[d].id = l)
                              <=> l = k.id
    BY <1>3, <2>1, <2>2 DEF At, Holding
  <2>6. \A l \in LockId : HeldLocks[l] = IF l = k.id THEN k.row ELSE locks[l]
    <3> SUFFICES ASSUME NEW l \in LockId
                 PROVE  HeldLocks[l] = IF l = k.id THEN k.row ELSE locks[l]
      OBVIOUS
    <3>1. CASE l = k.id
      <4>1. HeldLocks[l] = (CHOOSE x \in {call[d] : d \in Caller} : x # Null /\ x.id = l).row
        BY <2>5, <3>1 DEF HeldLocks
      <4> QED
        BY <2>3, <3>1, <4>1
    <3>2. CASE l # k.id
      BY <2>5, <3>2 DEF HeldLocks
    <3> QED
      BY <3>1, <3>2
  <2>7. HeldLocks = [l \in LockId |-> HeldLocks[l]]
    BY DEF HeldLocks
  <2> QED
    BY <2>2, <2>4, <2>6, <2>7
<1> QED
  BY <1>1, <1>2, <1>3 DEF TablesSeen, AttemptsCounted, LocksHeld

LEMMA SequentialCardinality == \A S : Sequential!Cardinality(S) = Cardinality(S)
BY DEF Sequential!Cardinality, Cardinality

\* On tables seen as they are BookingService finds the same conflicts.
LEMMA SameConflicts ==
    ASSUME CountedBookings = bookings, HeldLocks = locks,
           NEW svc, NEW slot, NEW quantity, NEW excluded
    PROVE  Sequential!SlotConflict(svc, slot, quantity, excluded)
               <=> SlotConflict(svc, slot, quantity, excluded)
<1>1. /\ Sequential!ActiveOverlap(svc, slot) = ActiveOverlap(svc, slot)
      /\ Sequential!LockOverlap(svc, slot) = LockOverlap(svc, slot)
  BY DEF Sequential!ActiveOverlap, ActiveOverlap, Sequential!InStatus, InStatus,
         Sequential!LockOverlap, LockOverlap, Sequential!LiveLocks, LiveLocks,
         Sequential!Overlaps, Overlaps, Sequential!ActiveStatus, ActiveStatus
<1>2. \A table, S : Sequential!Sum(table, S) = Sum(table, S)
  BY SequentialCardinality DEF Sequential!Sum, Sum, Sequential!Units, Units,
     Sequential!Quantity, Quantity
<1> QED
  BY <1>1, <1>2 DEF Sequential!SlotConflict, SlotConflict


\* Every statement is a step of BookingService, or none.
SequentialStep == [Sequential!Next]_(Sequential!tables)

\* Nothing changes where the tables are seen as they are, and stay so.
LEMMA SeenAlike ==
    ASSUME TablesSeen, TablesSeen', NoneBetween, NoneBetween', UNCHANGED tables
    PROVE  SequentialStep
BY DEF TablesSeen, AsTheyAre, tables, SequentialStep, Sequential!tables

LEMMA SequentialStart ==
    ASSUME OneAtATime, RequestsInv, TablesSeen, TablesSeen', NEW c \in Caller, Start(c)
    PROVE  SequentialStep
<1> USE DEF RequestsInv
<1>1. call[c] = Null /\ UNCHANGED tables
  BY DEF Start, StartLockSlot, GetLock, GetByID, GetByIDToReschedule, StartApproveReschedule,
         GetRescheduleByID, Begin
<1>2. \A d \in Caller : d = c
  BY DEF OneAtATime
<1>3. NoneBetween
  BY <1>1, <1>2 DEF NoneBetween
<1>4. ASSUME NEW op, NEW at, NEW id, NEW row, NEW wish, Begin(c, op, at, id, row, wish),
             op = "CreateBooking" => at # "write", op = "RequestReschedule" => at # "increment"
      PROVE  SequentialStep
  <2>1. NoneBetween'
    BY <1>2, <1>4, BeginSets DEF NoneBetween, Counting, Holding
  <2> QED
    BY <1>1, <1>3, <2>1, SeenAlike
<1>5. ASSUME NEW l \in LockId, NEW wish \in Wish, GetLock(c, l, wish) PROVE SequentialStep
  <2> DEFINE k == [op |-> "CreateBooking", at |-> "write", id |-> l, row |-> locks[l],
                   wish |-> wish, units |-> 0]
  <2>1. call'[c] = k /\ l \in LiveLocks
    BY <1>5 DEF GetLock, Begin, TypeOK
  <2>2. locks[l] \in Lock
    BY <2>1 DEF LiveLocks, TypeOK, TablesTypeOK
  <2>3. call'[c] # Null
    <3>1. k \in Call
      BY <2>2 DEF Call, AllOps
    <3> QED
      BY <2>1, <3>1, CallAssumption
  <2>4. CountedBookings' = bookings' /\ HeldLocks' = [locks' EXCEPT ![l] = locks[l]]
    BY <2>1, <2>3 DEF TablesSeen, LocksHeld, Holding
  <2> QED
    BY <1>1, <1>3, <2>4 DEF TablesSeen, AsTheyAre, tables, SequentialStep, Sequential!tables,
                            TypeOK, TablesTypeOK
<1>6. ASSUME NEW op \in StatusOps, NEW b \in BookingId, GetByID(c, op, b) PROVE SequentialStep
  BY <1>4, <1>6 DEF GetByID, StatusOps, ReadsStatus
<1>7. ASSUME NEW b \in BookingId, NEW slot \in Slot, GetByIDToReschedule(c, b, slot)
      PROVE  SequentialStep
  BY <1>4, <1>7 DEF GetByIDToReschedule, AfterGetByID
<1> QED
  BY <1>4, <1>5, <1>6, <1>7 DEF Start, StartLockSlot, StartApproveReschedule, GetRescheduleByID

\* The statements that only read, or that free what nobody waits for.
LEMMA SequentialRead ==
    ASSUME OneAtATime, RequestsInv, SequenceInv, TablesSeen, TablesSeen', NEW c \in Caller,
           \/ SumBookings(c) \/ SumLocks(c) \/ GetPendingReschedule(c)
           \/ LockRequest(c) \/ LockBooking(c)
    PROVE  SequentialStep
<1> USE DEF RequestsInv
<1>1. call[c] # Null /\ call[c] \in Call /\ UNCHANGED tables
  BY CallIsARow DEF SumBookings, SumLocks, GetPendingReschedule, LockRequest, LockBooking, At
<1>2. \A d \in Caller : d = c
  BY DEF OneAtATime
<1>3. call[c].at \in StatementsOf(call[c].op)
  BY <1>1 DEF SequenceInv, UpToDate
<1>4. ~Counting(call[c]) /\ ~Holding(call[c])
  BY <1>3 DEF SumBookings, SumLocks, GetPendingReschedule, LockRequest, LockBooking, At,
              StatementsOf, Counting, Holding
<1>5. call'[c] = Null \/ (~Counting(call'[c]) /\ ~Holding(call'[c]))
  <2>1. CASE Return(c)
    BY <2>1 DEF Return, TypeOK
  <2>2. ASSUME NEW at, Goto(c, at), at # "increment", call[c].op # "CreateBooking"
        PROVE  ~Counting(call'[c]) /\ ~Holding(call'[c])
    BY <1>1, <2>2, GotoKeeps DEF Counting, Holding
  <2>3. CASE SumBookings(c)
    <3> DEFINE w == Wanted(c)
               n == Sum(bookings, ActiveOverlap(w.service, w.slot) \ w.excluded)
    <3>1. call' = [call EXCEPT ![c].at = "locks", ![c].units = n]
      BY <2>3 DEF SumBookings
    <3> HIDE DEF n
    <3>2. call'[c].at = "locks"
      BY <1>1, <3>1 DEF TypeOK, Call
    <3> QED
      BY <3>2 DEF Counting, Holding
  <2>4. CASE LockRequest(c)
    <3> DEFINE row == requests[call[c].id]
    <3>1. Return(c) \/ call' = [call EXCEPT ![c].at = "lock booking", ![c].row = row]
      BY <2>4 DEF LockRequest
    <3> HIDE DEF row
    <3>2. ASSUME call' = [call EXCEPT ![c].at = "lock booking", ![c].row = row]
          PROVE  call'[c].at = "lock booking"
      BY <1>1, <3>2 DEF TypeOK, Call
    <3> QED
      BY <2>1, <3>1, <3>2 DEF Counting, Holding
  <2>5. CASE SumLocks(c) \/ GetPendingReschedule(c) \/ LockBooking(c)
    BY <1>3, <2>1, <2>2, <2>5 DEF SumLocks, SlotUnavailable, GetPendingReschedule, LockBooking,
                                  At, StatementsOf
  <2> QED
    BY <2>3, <2>4, <2>5
<1>6. NoneBetween /\ NoneBetween'
  BY <1>2, <1>4, <1>5 DEF NoneBetween
<1> QED
  BY <1>1, <1>6, SeenAlike

\* The statements that write.
LEMMA SequentialWrite ==
    ASSUME OneAtATime, RequestsInv, SequenceInv, TablesSeen, TablesSeen', NEW c \in Caller,
           Return(c), call[c] # Null, ~Counting(call[c]), ~Holding(call[c])
    PROVE  AsTheyAre /\ AsTheyAre'
<1>1. \A d \in Caller : d = c
  BY DEF OneAtATime
<1>2. NoneBetween /\ NoneBetween'
  BY <1>1 DEF Return, RequestsInv, TypeOK, NoneBetween
<1> QED
  BY <1>2 DEF TablesSeen

LEMMA SequentialCreateLock ==
    ASSUME OneAtATime, RequestsInv, SequenceInv, TablesSeen, TablesSeen', NEW c \in Caller,
           NEW l \in LockId, CreateLock(c, l)
    PROVE  SequentialStep
<1> DEFINE k == call[c]
           wish == k.wish
<1>1. k # Null /\ k.op = "LockSlot" /\ k.at = "write" /\ Return(c)
  BY DEF CreateLock, At
<1>2. AsTheyAre /\ AsTheyAre'
  BY <1>1, SequentialWrite DEF Counting, Holding
<1>3. k.id \in Service /\ wish \in Wish /\ wish.slot \in ParsedSlot
  BY <1>1 DEF RequestsInv, CallsInv, Shape, SequenceInv, UpToDate
<1>4. ~SlotConflict(k.id, wish.slot, wish.quantity, {})
  BY <1>1 DEF SequenceInv, Checked, Wanted
<1>5. ~Sequential!SlotConflict(k.id, wish.slot, wish.quantity, {})
  BY <1>2, <1>4, SameConflicts DEF AsTheyAre
<1>6. Sequential!LockSlot(l, k.id, wish.slot, wish.quantity)
  BY <1>2, <1>3, <1>5 DEF AsTheyAre, CreateLock, Sequential!LockSlot, Sequential!ParsedSlot,
                          Sequential!Slot, ParsedSlot, Slot
<1>7. wish.slot \in Sequential!Slot /\ wish.quantity \in Sequential!Quantity
  BY <1>3 DEF Wish, Sequential!Slot, Slot, Sequential!Quantity, Quantity
<1> QED
  BY <1>3, <1>6, <1>7 DEF SequentialStep, Sequential!Next

LEMMA SequentialWriteStatus ==
    ASSUME OneAtATime, RequestsInv, SequenceInv, TablesSeen, TablesSeen', NEW c \in Caller,
           WriteStatus(c)
    PROVE  SequentialStep
<1> DEFINE k == call[c]
           b == k.id
<1>1. /\ k # Null /\ k.op \in {"ConfirmPayment", "Approve", "Reject", "Cancel"}
      /\ k.at = "write" /\ Return(c)
  BY DEF WriteStatus, At, StatusOps, ReadsStatus
<1>2. AsTheyAre /\ AsTheyAre'
  BY <1>1, SequentialWrite DEF Counting, Holding
<1>3. /\ b \in BookingId /\ bookings[b] # Null /\ bookings[b] = k.row
      /\ bookings[b].status = ReadsStatus[k.op]
  BY <1>1 DEF RequestsInv, CallsInv, Shape, Found, SequenceInv, UpToDate, StatusOps, ReadsStatus
<1>4. /\ bookings' = [bookings EXCEPT ![b].status = WritesStatus[k.op]]
      /\ UNCHANGED <<locks, requests>>
  BY DEF WriteStatus, UpdateStatus
<1> USE DEF AsTheyAre, Sequential!StatusIs, Sequential!UpdateStatus, ReadsStatus, WritesStatus
<1>5. CASE k.op = "ConfirmPayment"
  <2>1. Sequential!ConfirmPayment(b)
    BY <1>2, <1>3, <1>4, <1>5 DEF Sequential!ConfirmPayment
  <2> QED
    BY <1>3, <2>1 DEF SequentialStep, Sequential!Next
<1>6. CASE k.op = "Approve"
  <2>1. ~SlotConflict(bookings[b].service, bookings[b].slot, bookings[b].quantity, {})
    BY <1>1, <1>3, <1>6 DEF SequenceInv, Checked, Wanted
  <2>2. ~Sequential!ApproveConflict(b)
    BY <1>2, <2>1, SameConflicts DEF Sequential!ApproveConflict
  <2>3. Sequential!Approve(b)
    BY <1>2, <1>3, <1>4, <1>6, <2>2 DEF Sequential!Approve
  <2> QED
    BY <1>3, <2>3 DEF SequentialStep, Sequential!Next
<1>7. CASE k.op = "Reject"
  <2>1. Sequential!Reject(b)
    BY <1>2, <1>3, <1>4, <1>7 DEF Sequential!Reject
  <2> QED
    BY <1>3, <2>1 DEF SequentialStep, Sequential!Next
<1>8. CASE k.op = "Cancel"
  <2>1. Sequential!Cancel(b)
    BY <1>2, <1>3, <1>4, <1>8 DEF Sequential!Cancel
  <2> QED
    BY <1>3, <2>1 DEF SequentialStep, Sequential!Next
<1> QED
  BY <1>1, <1>5, <1>6, <1>7, <1>8

\* A new booking, whose lock was held for it.
LEMMA SequentialCreate ==
    ASSUME OneAtATime, RequestsInv, RequestsInv', SequenceInv, TablesSeen, TablesSeen',
           NEW c \in Caller, NEW b \in BookingId, Create(c, b)
    PROVE  SequentialStep
<1> USE DEF RequestsInv
<1> DEFINE k == call[c]
           l == k.id
           slot == k.wish.slot
           quantity == k.wish.quantity
<1>1. k # Null /\ k.op = "CreateBooking" /\ k.at = "write" /\ Goto(c, "delete")
  BY DEF Create, At
<1>2. CountedBookings = bookings /\ HeldLocks = [locks EXCEPT ![l] = k.row]
  BY <1>1 DEF TablesSeen, LocksHeld, Holding
<1>3. CountedBookings' = bookings' /\ HeldLocks' = locks
  <2>1. call'[c].at = "delete"
    BY <1>1, GotoKeeps
  <2>2. NoneBetween'
    BY <2>1 DEF OneAtATime, NoneBetween, Counting, Holding
  <2> QED
    BY <2>2 DEF TablesSeen, AsTheyAre, Create
<1>4. l \in LockId /\ k.row \in Lock /\ k.wish \in Wish /\ locks[l] \in {k.row, Spent}
  BY <1>1 DEF CallsInv, Shape, SequenceInv, UpToDate
<1>5. HeldLocks[l] = k.row /\ l \in Sequential!LiveLocks
  BY <1>2, <1>4, TablesAssumption DEF Sequential!LiveLocks, TypeOK, TablesTypeOK
<1>6. HeldLocks' = [HeldLocks EXCEPT ![l] = Spent] \/ HeldLocks' = HeldLocks
  BY <1>2, <1>3, <1>4 DEF TypeOK, TablesTypeOK
<1>7. CountedBookings' = [CountedBookings EXCEPT
          ![b] = Sequential!NewBooking("pending", HeldLocks[l].service, slot, quantity, Null)]
  BY <1>2, <1>3, <1>5 DEF Create, NewBooking, Sequential!NewBooking
<1>8. Sequential!CreateBooking(b, l, slot, quantity)
  BY <1>2, <1>5, <1>6, <1>7 DEF Create, Sequential!CreateBooking
<1>9. slot \in Sequential!Slot /\ quantity \in Sequential!Quantity
  BY <1>4 DEF Wish, Sequential!Slot, Slot, Sequential!Quantity, Quantity
<1> QED
  BY <1>4, <1>8, <1>9 DEF SequentialStep, Sequential!Next

\* The lock is deleted after its booking is there: as if it expired then.
LEMMA SequentialDeleteLock ==
    ASSUME OneAtATime, RequestsInv, SequenceInv, TablesSeen, TablesSeen', NEW c \in Caller,
           DeleteLock(c)
    PROVE  SequentialStep
<1> DEFINE k == call[c]
           l == k.id
<1>1. k # Null /\ k.op = "CreateBooking" /\ k.at = "delete" /\ Return(c)
  BY DEF DeleteLock, At
<1>2. AsTheyAre /\ AsTheyAre'
  BY <1>1, SequentialWrite DEF Counting, Holding
<1>3. l \in LockId /\ k.row \in Lock /\ locks[l] \in {k.row, Spent}
  BY <1>1 DEF RequestsInv, CallsInv, Shape, SequenceInv, UpToDate
<1>4. locks' = [locks EXCEPT ![l] = Spent] /\ UNCHANGED <<bookings, requests>>
  BY DEF DeleteLock
<1>5. CASE locks[l] = Spent
  <2>1. locks' = locks
    BY <1>3, <1>4, <1>5 DEF RequestsInv, TypeOK, TablesTypeOK
  <2> QED
    BY <1>2, <1>4, <2>1 DEF AsTheyAre, SequentialStep, Sequential!tables
<1>6. CASE locks[l] = k.row
  <2>1. l \in Sequential!LiveLocks
    BY <1>2, <1>3, <1>6, TablesAssumption DEF AsTheyAre, Sequential!LiveLocks
  <2>2. Sequential!ExpireLock(l)
    BY <1>2, <1>4, <2>1 DEF AsTheyAre, Sequential!ExpireLock
  <2> QED
    BY <1>3, <2>2 DEF SequentialStep, Sequential!Next
<1> QED
  BY <1>3, <1>5, <1>6

LEMMA SequentialExpireLock ==
    ASSUME OneAtATime, RequestsInv, SequenceInv, TablesSeen, TablesSeen', NEW l \in LockId,
           ExpireLock(l)
    PROVE  SequentialStep
<1> USE DEF RequestsInv
<1>1. /\ l \in LiveLocks /\ locks' = [locks EXCEPT ![l] = Spent]
      /\ UNCHANGED <<bookings, requests, call>>
  BY DEF ExpireLock
<1>2. ASSUME CountedBookings' = CountedBookings,
             HeldLocks[l] = locks[l], HeldLocks' = [HeldLocks EXCEPT ![l] = Spent]
      PROVE  SequentialStep
  <2>1. l \in Sequential!LiveLocks
    BY <1>1, <1>2 DEF LiveLocks, Sequential!LiveLocks
  <2>2. Sequential!ExpireLock(l)
    BY <1>1, <1>2, <2>1 DEF Sequential!ExpireLock
  <2> QED
    BY <2>2 DEF SequentialStep, Sequential!Next
<1>3. CASE NoneBetween
  <2>1. NoneBetween'
    BY <1>1, <1>3 DEF NoneBetween
  <2> QED
    BY <1>1, <1>2, <1>3, <2>1 DEF TablesSeen, AsTheyAre
<1>4. ASSUME NEW c \in Caller, call[c] # Null, Counting(call[c]) PROVE SequentialStep
  <2>1. /\ CountedBookings' = CountedBookings
        /\ HeldLocks = locks /\ HeldLocks' = locks'
    BY <1>1, <1>4 DEF TablesSeen, AttemptsCounted
  <2>2. l \in Sequential!LiveLocks
    BY <1>1, <2>1 DEF LiveLocks, Sequential!LiveLocks
  <2>3. Sequential!ExpireLock(l)
    BY <1>1, <2>1, <2>2 DEF Sequential!ExpireLock
  <2> QED
    BY <2>3 DEF SequentialStep, Sequential!Next
<1>5. ASSUME NEW c \in Caller, call[c] # Null, Holding(call[c]) PROVE SequentialStep
  <2> DEFINE k == call[c]
  <2>1. /\ CountedBookings = bookings /\ CountedBookings' = bookings
        /\ HeldLocks = [locks EXCEPT ![k.id] = k.row]
        /\ HeldLocks' = [locks' EXCEPT ![k.id] = k.row]
    BY <1>1, <1>5 DEF TablesSeen, LocksHeld
  <2>2. k.id \in LockId
    BY <1>5 DEF CallsInv, Shape, Holding
  <2>3. CASE k.id = l
    <3>1. HeldLocks' = HeldLocks
      BY <1>1, <2>1, <2>2, <2>3 DEF TypeOK, TablesTypeOK
    <3> QED
      BY <1>1, <2>1, <3>1 DEF SequentialStep, Sequential!tables
  <2>4. CASE k.id # l
    <3>1. HeldLocks[l] = locks[l] /\ HeldLocks' = [HeldLocks EXCEPT ![l] = Spent]
      BY <1>1, <2>1, <2>2, <2>4 DEF TypeOK, TablesTypeOK
    <3> QED
      BY <1>2, <2>1, <3>1
  <2> QED
    BY <2>3, <2>4
<1> QED
  BY <1>3, <1>4, <1>5 DEF NoneBetween

\* The same requests wait.
LEMMA SamePending ==
    \A b : Sequential!PendingRequests(b) = PendingRequests(b)
BY DEF Sequential!PendingRequests, PendingRequests

\* The insert of a request is the request; the count that follows changes nothing
\* that was not seen before.
LEMMA SequentialCreateRequest ==
    ASSUME OneAtATime, RequestsInv, SequenceInv, TablesSeen, TablesSeen', NEW c \in Caller,
           NEW r \in RequestId, CreateRescheduleRequest(c, r)
    PROVE  SequentialStep
<1> USE DEF RequestsInv
<1> DEFINE k == call[c]
           b == k.id
           slot == k.wish.slot
<1>1. /\ k # Null /\ k \in Call /\ k.op = "RequestReschedule" /\ k.at = "write"
      /\ requests[r] = Null /\ UNCHANGED <<bookings, locks>>
  BY CallIsARow DEF CreateRescheduleRequest, At
<1>2. /\ b \in BookingId /\ k.wish \in Wish /\ k.row.attempts < maxRescheduleAttempts
      /\ bookings[b] # Null /\ bookings[b] = k.row /\ k.row.status = "confirmed"
      /\ slot \in ParsedSlot /\ PendingRequests(b) = {}
  BY <1>1 DEF CallsInv, Shape, Found, SequenceInv, UpToDate, StatusOps, ReadsStatus
<1>3. /\ requests' = [requests EXCEPT
             ![r] = [booking |-> b, slot |-> slot, status |-> "pending"]]
      /\ Goto(c, "increment")
  BY <1>2 DEF CreateRescheduleRequest, IndexRefuses
<1>4. CountedBookings = bookings /\ HeldLocks = locks
  <2>1. NoneBetween
    BY <1>1 DEF OneAtATime, NoneBetween, Counting, Holding
  <2> QED
    BY <2>1 DEF TablesSeen, AsTheyAre
<1>5. /\ CountedBookings' = [bookings EXCEPT ![b].attempts = bookings[b].attempts + 1]
      /\ HeldLocks' = locks
  <2>1. call'[c].op = "RequestReschedule" /\ call'[c].at = "increment" /\ call'[c].id = b
    BY <1>1, <1>3, GotoKeeps
  <2>2. call'[c] # Null
    <3>1. [k EXCEPT !.at = "increment"] \in Call
      BY <1>1 DEF Call
    <3>2. call'[c] = [k EXCEPT !.at = "increment"]
      BY <1>3 DEF Goto, TypeOK
    <3> QED
      BY <3>1, <3>2, CallAssumption
  <2> QED
    BY <1>1, <2>1, <2>2 DEF TablesSeen, AttemptsCounted, Counting
<1>6. Sequential!RequestReschedule(b, r, slot)
  BY <1>1, <1>2, <1>3, <1>4, <1>5, SamePending
  DEF Sequential!RequestReschedule, Sequential!StatusIs, Sequential!AttemptsAllowed,
      Sequential!HasPendingRequest, Sequential!ParsedSlot, Sequential!Slot, ParsedSlot, Slot,
      Sequential!AttemptsAfterRequest, Sequential!maxRescheduleAttempts, maxRescheduleAttempts
<1>7. slot \in Sequential!Slot
  BY <1>2 DEF Wish, Sequential!Slot, Slot
<1> QED
  BY <1>2, <1>6, <1>7 DEF SequentialStep, Sequential!Next

LEMMA SequentialIncrement ==
    ASSUME OneAtATime, RequestsInv, SequenceInv, TablesSeen, TablesSeen', NEW c \in Caller,
           IncrementAttempts(c)
    PROVE  SequentialStep
<1> USE DEF RequestsInv
<1> DEFINE k == call[c]
           b == k.id
<1>1. k # Null /\ Counting(k) /\ k.op = "RequestReschedule" /\ Return(c)
  BY DEF IncrementAttempts, At, Counting
<1>2. b \in BookingId /\ bookings[b] = k.row /\ k.row \in Booking
  BY <1>1 DEF CallsInv, Shape, SequenceInv, UpToDate, StatusOps, ReadsStatus
<1>3. /\ CountedBookings = [bookings EXCEPT ![b].attempts = bookings[b].attempts + 1]
      /\ HeldLocks = locks
  BY <1>1 DEF TablesSeen, AttemptsCounted
<1>4. CountedBookings' = bookings' /\ HeldLocks' = locks'
  <2>1. NoneBetween'
    BY <1>1 DEF OneAtATime, Return, TypeOK, NoneBetween
  <2> QED
    BY <2>1 DEF TablesSeen, AsTheyAre
<1> DEFINE n == k.row.attempts + 1
<1>5. /\ bookings' = [bookings EXCEPT ![b].status = k.row.status, ![b].attempts = n]
      /\ UNCHANGED <<locks, requests>>
  BY DEF IncrementAttempts, AttemptsWritten
<1>6. CountedBookings = [bookings EXCEPT ![b].attempts = n]
  BY <1>2, <1>3
<1> HIDE DEF n
<1>7. bookings' = [bookings EXCEPT ![b].attempts = n]
  <2>1. [bookings[b] EXCEPT !.status = k.row.status, !.attempts = n]
            = [bookings[b] EXCEPT !.attempts = n]
    BY <1>2 DEF Booking
  <2>2. bookings' = [bookings EXCEPT
                         ![b] = [bookings[b] EXCEPT !.status = k.row.status, !.attempts = n]]
    BY <1>2, <1>5 DEF TypeOK, TablesTypeOK
  <2> QED
    BY <2>1, <2>2
<1> QED
  BY <1>3, <1>4, <1>5, <1>6, <1>7 DEF SequentialStep, Sequential!tables

LEMMA SequentialCommit ==
    ASSUME OneAtATime, RequestsInv, SequenceInv, TablesSeen, TablesSeen', NEW c \in Caller,
           NEW new \in BookingId, CommitReschedule(c, new)
    PROVE  SequentialStep
<1> USE DEF RequestsInv
<1> DEFINE k == call[c]
           r == k.id
           orig == k.row.booking
<1>1. k # Null /\ k.op = "ApproveReschedule" /\ k.at = "write" /\ Return(c)
  BY DEF CommitReschedule, At
<1>2. AsTheyAre /\ AsTheyAre'
  BY <1>1, SequentialWrite DEF Counting, Holding
<1>3. r \in RequestId /\ requests[r] # Null /\ requests[r] = k.row /\ k.row.status = "pending"
  BY <1>1 DEF CallsInv, Shape, Found, Holds, InTransaction
<1>4. ~SlotConflict(bookings[orig].service, k.row.slot, bookings[orig].quantity, {orig})
  BY <1>1 DEF SequenceInv, Checked, Wanted
<1>5. ~Sequential!RescheduleConflict(r)
  BY <1>2, <1>3, <1>4, SameConflicts DEF AsTheyAre, Sequential!RescheduleConflict
<1>6. Sequential!ApproveReschedule(r, new)
  BY <1>2, <1>3, <1>5 DEF AsTheyAre, CommitReschedule, Moved, Sequential!ApproveReschedule,
     Sequential!IsPending, Sequential!RequestExists, Sequential!NewBooking, NewBooking
<1> QED
  BY <1>3, <1>6 DEF SequentialStep, Sequential!Next

LEMMA SequentialReject ==
    ASSUME OneAtATime, RequestsInv, SequenceInv, TablesSeen, TablesSeen', NEW c \in Caller,
           UpdateRescheduleStatus(c)
    PROVE  SequentialStep
<1> DEFINE k == call[c]
           r == k.id
<1>1. k # Null /\ k.op = "RejectReschedule" /\ Return(c)
  BY DEF UpdateRescheduleStatus, At
<1>2. AsTheyAre /\ AsTheyAre'
  BY <1>1, SequentialWrite DEF Counting, Holding
<1>3. r \in RequestId /\ requests[r] # Null /\ requests[r].status = "pending"
  BY <1>1 DEF RequestsInv, CallsInv, Shape, Found, SequenceInv, UpToDate
<1>4. Sequential!RejectReschedule(r)
  BY <1>2, <1>3 DEF AsTheyAre, UpdateRescheduleStatus, Sequential!RejectReschedule,
     Sequential!IsPending, Sequential!RequestExists
<1> QED
  BY <1>3, <1>4 DEF SequentialStep, Sequential!Next

LEMMA EveryStepIsSequential ==
    ASSUME OneAtATime, RequestsInv, RequestsInv', SequenceInv, TablesSeen, TablesSeen',
           [Next]_vars
    PROVE  SequentialStep
<1>1. ASSUME NEW c \in Caller, Statement(c) PROVE SequentialStep
  BY <1>1, SequentialRead, SequentialCreateLock, SequentialCreate, SequentialDeleteLock,
     SequentialWriteStatus, SequentialCreateRequest, SequentialIncrement, SequentialCommit,
     SequentialReject
  DEF Statement
<1>2. ASSUME NEW c \in Caller, Abort(c) PROVE FALSE
  BY <1>2 DEF Abort, OneAtATime
<1>3. ASSUME UNCHANGED vars PROVE SequentialStep
  <2>1. CountedBookings' = CountedBookings /\ HeldLocks' = HeldLocks
    BY <1>3 DEF vars, CountedBookings, HeldLocks, At
  <2> QED
    BY <1>3, <2>1 DEF vars, SequentialStep, Sequential!tables
<1> QED
  BY <1>1, <1>2, <1>3, SequentialStart, SequentialExpireLock DEF Next

LEMMA SequenceInvariant == OneAtATime => (Spec => []SequenceInv)
<1> SUFFICES ASSUME OneAtATime PROVE Spec => []SequenceInv
  OBVIOUS
<1>1. Init => SequenceInv
  BY DEF Init, SequenceInv
<1>2. RequestsInv /\ SequenceInv /\ [Next]_vars => SequenceInv'
  BY SequenceStep
<1> QED
  BY <1>1, <1>2, RequestsInvariant, PTL DEF Spec

\* One call at a time and none stopped halfway, the statements of the code add up
\* to the calls of BookingService, whatever locks expire between two of them: all
\* that is proved of BookingService then holds of the statements too.
THEOREM StatementsImplementCalls ==
    OneAtATime => (Spec => ImplementsSequential)
<1> SUFFICES ASSUME OneAtATime PROVE Spec => ImplementsSequential
  OBVIOUS
<1>1. RequestsInv => TablesSeen
  BY TablesAreSeen
<1>2. Init /\ RequestsInv => Sequential!Init
  <2> SUFFICES ASSUME Init, RequestsInv PROVE Sequential!Init
    OBVIOUS
  <2>1. NoneBetween
    BY DEF Init, NoneBetween
  <2> QED
    BY <1>1, <2>1 DEF TablesSeen, AsTheyAre, Init, TablesInit, Sequential!Init,
                      Sequential!TablesInit
<1>3. RequestsInv /\ RequestsInv' /\ SequenceInv /\ TablesSeen /\ TablesSeen' /\ [Next]_vars
          => [Sequential!Next]_(Sequential!tables)
  BY EveryStepIsSequential DEF SequentialStep
<1> QED
  BY RequestsInvariant, SequenceInvariant, <1>1, <1>2, <1>3, PTL
  DEF Spec, ImplementsSequential, Sequential!Spec

-----------------------------------------------------------------------------
(* What is proved of BookingService, for the statements of one caller.     *)

Calls == INSTANCE BookingServiceProofs WITH
             Careful <- {}, bookings <- CountedBookings, locks <- HeldLocks

LEMMA CallsAssumptions == Calls!TablesAssumption /\ Calls!ServiceAssumption
<1>1. \A S : Calls!IsFiniteSet(S) = IsFiniteSet(S)
  BY DEF Calls!IsFiniteSet, IsFiniteSet
<1>2. Calls!Booking = Booking /\ Calls!Lock = Lock /\ Calls!Request = Request
  BY DEF Calls!Booking, Booking, Calls!BookingStatus, BookingStatus, Calls!ActiveStatus,
         ActiveStatus, Calls!maxRescheduleAttempts, maxRescheduleAttempts, Calls!Slot, Slot,
         Calls!Quantity, Quantity, Calls!Lock, Lock, Calls!Request, Request
<1>3. Calls!TablesAssumption
  BY <1>1, <1>2, TablesAssumption DEF Calls!TablesAssumption
<1>4. Calls!ServiceAssumption
  BY DEF Calls!ServiceAssumption
<1> QED
  BY <1>3, <1>4

LEMMA SameCalls == Sequential!Next => Calls!Next
BY DEF
     Sequential!Next, Calls!Next,
     Sequential!LockSlot, Calls!LockSlot, Sequential!ExpireLock, Calls!ExpireLock,
     Sequential!CreateBooking, Calls!CreateBooking, Sequential!ConfirmPayment,
     Calls!ConfirmPayment, Sequential!Approve, Calls!Approve, Sequential!Reject,
     Calls!Reject, Sequential!Cancel, Calls!Cancel, Sequential!RequestReschedule,
     Calls!RequestReschedule, Sequential!ApproveReschedule, Calls!ApproveReschedule,
     Sequential!RejectReschedule, Calls!RejectReschedule, Sequential!SlotConflict,
     Calls!SlotConflict, Sequential!Sum, Calls!Sum, Sequential!Units, Calls!Units,
     Sequential!ActiveOverlap, Calls!ActiveOverlap, Sequential!LockOverlap,
     Calls!LockOverlap, Sequential!LiveLocks, Calls!LiveLocks, Sequential!InStatus,
     Calls!InStatus, Sequential!Overlaps, Calls!Overlaps, Sequential!ActiveStatus,
     Calls!ActiveStatus, Sequential!Quantity, Calls!Quantity, Sequential!Slot, Calls!Slot,
     Sequential!ParsedSlot, Calls!ParsedSlot, Sequential!StatusIs, Calls!StatusIs,
     Sequential!UpdateStatus, Calls!UpdateStatus, Sequential!NewBooking, Calls!NewBooking,
     Sequential!ApproveConflict, Calls!ApproveConflict, Sequential!AttemptsAllowed,
     Calls!AttemptsAllowed, Sequential!HasPendingRequest, Calls!HasPendingRequest,
     Sequential!PendingRequests, Calls!PendingRequests, Sequential!AttemptsAfterRequest,
     Calls!AttemptsAfterRequest, Sequential!RescheduleConflict, Calls!RescheduleConflict,
     Sequential!IsPending, Calls!IsPending, Sequential!RequestExists, Calls!RequestExists,
     Sequential!maxRescheduleAttempts, Calls!maxRescheduleAttempts, Sequential!Cardinality,
     Calls!Cardinality

LEMMA SameSpecification == ImplementsSequential => Calls!Spec
<1>1. Sequential!Init => Calls!Init
  BY DEF Sequential!Init, Calls!Init, Sequential!TablesInit, Calls!TablesInit
<1> QED
  BY <1>1, SameCalls, PTL
  DEF ImplementsSequential, Sequential!Spec, Calls!Spec, Sequential!tables, Calls!tables

\* With one call at a time, of whatever kind, the confirmed bookings of a service
\* never exceed its capacity at any point between two statements.
THEOREM OneCallerNeverOverbooks ==
    OneAtATime => (Spec => []ConfirmedWithinCapacity)
<1> SUFFICES ASSUME OneAtATime PROVE Spec => []ConfirmedWithinCapacity
  OBVIOUS
<1>1. Calls!Spec => []Calls!ConfirmedWithinCapacity
  BY CallsAssumptions, Calls!ConfirmedNeverOverbook, PTL
<1>2. RequestsInv /\ SequenceInv /\ Calls!ConfirmedWithinCapacity => ConfirmedWithinCapacity
  <2> SUFFICES ASSUME RequestsInv, SequenceInv, Calls!ConfirmedWithinCapacity,
                      NEW svc \in Service, NEW t \in Time
               PROVE  Sum(bookings, BookedAt({"confirmed"}, svc, t)) <= Capacity[svc]
    BY DEF ConfirmedWithinCapacity
  <2> DEFINE S == BookedAt({"confirmed"}, svc, t)
  <2>1. ASSUME NEW b \in BookingId
        PROVE  /\ CountedBookings[b] # Null <=> bookings[b] # Null
               /\ bookings[b] # Null =>
                      /\ CountedBookings[b].status = bookings[b].status
                      /\ CountedBookings[b].service = bookings[b].service
                      /\ CountedBookings[b].slot = bookings[b].slot
                      /\ CountedBookings[b].quantity = bookings[b].quantity
    <3>1. CASE CountedBookings[b] = bookings[b]
      BY <3>1
    <3>2. CASE CountedBookings[b] # bookings[b]
      <4>1. PICK c \in Caller : At(c, "RequestReschedule", "increment") /\ call[c].id = b
        BY <3>2 DEF CountedBookings
      <4>2. /\ bookings[b] = call[c].row /\ call[c].row \in Booking
            /\ call[c].row.attempts < maxRescheduleAttempts
        BY <4>1 DEF At, RequestsInv, CallsInv, Shape, SequenceInv, UpToDate, StatusOps, ReadsStatus
      <4>3. CountedBookings[b] = [bookings[b] EXCEPT !.attempts = bookings[b].attempts + 1]
        BY <4>1 DEF CountedBookings
      <4>4. CountedBookings[b] \in Booking
        BY <4>2, <4>3 DEF Booking, maxRescheduleAttempts
      <4> QED
        BY <4>2, <4>3, <4>4, NullIsNoRow DEF Booking
    <3> QED
      BY <3>1, <3>2
  <2>2. Calls!BookedAt({"confirmed"}, svc, t) = S
    BY <2>1 DEF Calls!BookedAt, BookedAt, Calls!InStatus, InStatus, Calls!Covers, Covers
  <2>3. Calls!Sum(CountedBookings, S) <= Capacity[svc]
    BY <2>2 DEF Calls!ConfirmedWithinCapacity
  <2>4. \A T : Calls!Cardinality(T) = Cardinality(T)
    BY DEF Calls!Cardinality, Cardinality
  <2>5. Calls!Units(CountedBookings, S) = Units(bookings, S)
    BY <2>1 DEF Calls!Units, Units, Calls!Quantity, Quantity, BookedAt, InStatus
  <2> QED
    BY <2>3, <2>4, <2>5 DEF Calls!Sum, Sum
<1> QED
  BY <1>1, <1>2, RequestsInvariant, SequenceInvariant, StatementsImplementCalls,
     SameSpecification, PTL

\* With one call at a time, a booking is replaced once or not at all, requests wait on
\* bookings that can still be moved, and the attempts used up are the requests made,
\* counting the one whose count is the next statement.
THEOREM OneCallerInherits ==
    OneAtATime => (Spec => [](/\ Sequential!ReplacedOnce
                              /\ Sequential!PendingOnLiveBooking
                              /\ Sequential!AttemptsCountRequests))
<1> SUFFICES ASSUME OneAtATime
             PROVE  Spec => [](/\ Sequential!ReplacedOnce
                               /\ Sequential!PendingOnLiveBooking
                               /\ Sequential!AttemptsCountRequests)
  OBVIOUS
<1>1. Calls!Spec => []Calls!ReplacedOnce
  BY CallsAssumptions, Calls!MovedBookingsReplacedOnce, PTL
<1>2. Calls!Spec => []Calls!PendingOnLiveBooking
  BY CallsAssumptions, Calls!RequestsWaitOnLiveBookings, PTL
<1>3. Calls!Spec => []Calls!AttemptsCountRequests
  BY CallsAssumptions, Calls!AttemptsAreRequests, PTL
<1>4. Calls!ReplacedOnce => Sequential!ReplacedOnce
  BY DEF Calls!ReplacedOnce, Sequential!ReplacedOnce, Calls!ApprovedRequests,
         Sequential!ApprovedRequests, Calls!Replacements, Sequential!Replacements
<1>5. Calls!PendingOnLiveBooking => Sequential!PendingOnLiveBooking
  BY DEF Calls!PendingOnLiveBooking, Sequential!PendingOnLiveBooking, Calls!IsPending,
         Sequential!IsPending, Calls!RequestExists, Sequential!RequestExists,
         Calls!PendingRequests, Sequential!PendingRequests
<1>6. Calls!AttemptsCountRequests => Sequential!AttemptsCountRequests
  BY DEF Calls!AttemptsCountRequests, Sequential!AttemptsCountRequests, Calls!Cardinality,
         Sequential!Cardinality
<1> QED
  BY <1>1, <1>2, <1>3, <1>4, <1>5, <1>6, StatementsImplementCalls, SameSpecification, PTL
=============================================================================
