\* Reviews of one service, one call at a time.
SPECIFICATION ReputationSpec
CONSTANTS
    Service = {s1}
    BookingId = {b1, b2}
    User = {u1, u2, u3}
    Given = {1, 5}
    ReviewCaller = {c1}
    NoReview = NoReview
    MayStop = FALSE
    k1 = k1
    Customer = {k1}
    Booking = {b1, b2}
    CustomerOf <- MCCustomerOf
    Marks = {4}
    Statement = {c1}
    Nothing = Nothing
INVARIANTS
    BucketsFollowStatus
\* A review is written once, a flag set once: the instance stops, the service
\* does not.
CHECK_DEADLOCK FALSE
