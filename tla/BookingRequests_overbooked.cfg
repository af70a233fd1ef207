\* The status a request to reschedule has read is written back late, twice.
SPECIFICATION Spec
CONSTANTS
    Service = {s1}
    Units1 = 2
    Capacity <- MCCapacity
    Time <- MCTime2
    MaxQuantity = 1
    BookingId = {b1, b2, b3}
    LockId = {l1}
    RequestId = {r1, r2}
    Caller = {c1, c2}
    Ops <- MCReschedules
    MayAbort = FALSE
    Null = Null
    Spent = Spent
SYMMETRY Symmetry
INVARIANTS
    ConfirmedWithinCapacity
\* Ids run out: the instance stops, the service does not.
CHECK_DEADLOCK FALSE
