\* Two callers and two bookings they ask to move, with every answer to that,
\* and room for four bookings and two requests.
SPECIFICATION SettledSpec
CONSTANTS
    s1 = s1
    b1 = b1
    b2 = b2
    Service = {s1}
    Units1 = 3
    Capacity <- MCCapacity
    Time <- MCTime2
    MaxQuantity = 2
    BookingId = {b1, b2, b3, b4}
    LockId = {l1}
    RequestId = {r1, r2}
    Caller = {c1, c2}
    Ops <- MCMoves
    MayAbort = TRUE
    Null = Null
    Spent = Spent
INVARIANTS
    TypeOK
    OnePendingRequest
    RequestMovesOnce
    MovesAreWhole
PROPERTIES
    RejectionIsFinal
    EveryCallReturns
\* Ids run out: the instance stops, the service does not.
CHECK_DEADLOCK FALSE
