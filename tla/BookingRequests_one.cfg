\* One caller and no call stopped halfway.
SPECIFICATION Spec
CONSTANTS
    Service = {s1}
    Units1 = 4
    Capacity <- MCCapacity
    Time <- MCTime2
    MaxQuantity = 2
    BookingId = {b1, b2, b3}
    LockId = {l1, l2}
    RequestId = {r1, r2, r3, r4}
    Caller = {c1}
    Ops <- MCAllOps
    MayAbort = FALSE
    Null = Null
    Spent = Spent
SYMMETRY Symmetry
PROPERTIES
    ImplementsSequential
\* Ids run out: the instance stops, the service does not.
CHECK_DEADLOCK FALSE
