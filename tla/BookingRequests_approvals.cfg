\* Two callers that lock, book, pay and approve.
SPECIFICATION Spec
CONSTANTS
    Service = {s1}
    Units1 = 4
    Capacity <- MCCapacity
    Time <- MCTime2
    MaxQuantity = 2
    BookingId = {b1, b2, b3}
    LockId = {l1, l2}
    RequestId = {r1}
    Caller = {c1, c2}
    Ops <- MCApprovals
    MayAbort = FALSE
    Null = Null
    Spent = Spent
SYMMETRY Symmetry
INVARIANTS
    ConfirmedWithinCapacity
\* Ids run out: the instance stops, the service does not.
CHECK_DEADLOCK FALSE
