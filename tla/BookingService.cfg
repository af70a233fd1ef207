\* Two services: customers of s1 book what they locked, customers of s2 book
\* any interval and quantity, and their used locks may survive.
SPECIFICATION Spec
CONSTANTS
    Service = {s1, s2}
    Careful = {s1}
    Units1 = 2
    Capacity <- MCCapacity
    Time <- MCTime2
    MaxQuantity = 2
    BookingId = {b1, b2, b3}
    LockId = {l1, l2}
    RequestId = {r1, r2}
    Null = Null
    Spent = Spent
SYMMETRY Symmetry
INVARIANTS
    TypeOK
    ConfirmedWithinCapacity
    ClaimsWithinCapacity
    ReplacedOnce
    AttemptsCountRequests
    PendingOnLiveBooking
PROPERTIES
    ImplementsLedger
\* Ids run out: the instance stops, the service does not.
CHECK_DEADLOCK FALSE
