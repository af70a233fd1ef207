\* Two calls at a time on the reviews of two bookings, or two statements at a
\* time on the profile of one customer.
SPECIFICATION ReputationSpec
CONSTANTS
    Service = {s1}
    BookingId = {b1, b2}
    User = {u1, u2, u3}
    Given = {1, 5}
    ReviewCaller = {c1, c2}
    NoReview = NoReview
    MayStop = TRUE
    k1 = k1
    Customer = {k1}
    Booking = {b1, b2}
    CustomerOf <- MCCustomerOf
    Marks = {4}
    Statement = {c1, c2}
    Nothing = Nothing
SYMMETRY Symmetry
INVARIANTS
    ReviewsTypeOK
    SummaryIsExact
    TotalsNeverOverstate
    ThreeFlagsDecide
    TrustIsConsistent
PROPERTIES
    StaleOnlyIfOvertaken
\* A review is written once, a flag set once: the instance stops, the service
\* does not.
CHECK_DEADLOCK FALSE
