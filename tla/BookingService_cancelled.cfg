\* A booking is cancelled while a request to move it waits.
SPECIFICATION Spec
CONSTANTS
    Service = {s1}
    Careful = {s1}
    Units1 = 2
    Capacity <- MCCapacity
    Time <- MCTime2
    MaxQuantity = 1
    BookingId = {b1, b2}
    LockId = {l1}
    RequestId = {r1}
    Null = Null
    Spent = Spent
PROPERTIES
    OnlyConfirmedIsReplaced
\* Ids run out: the instance stops, the service does not.
CHECK_DEADLOCK FALSE
