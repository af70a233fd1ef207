\* Two calls at a time about two payments of one or two bookings, or about the
\* participants of a booking: its customer and two users to invite.
SPECIFICATION RecordsSpec
CONSTANTS
    u1 = u1
    b1 = b1
    Caller = {c1, c2}
    Booking = {p1, p2}
    PaymentId = {i1, i2}
    MaxRefunds = 2
    Null = Null
    User = {u1, u2, u3}
    BookingId = {b1}
    Customer <- MCCustomer
    TagCaller = {c1, c2}
    Absent = Absent
SYMMETRY Symmetry
INVARIANTS
    TypeOK
    RecordsAreBacked
    OnlyHoldsAreReleased
    ParticipantsTypeOK
    BookedWithMutual
    HistoryIsAgreed
    InvitedOnce
    OnlyTruthIsAnnounced
PROPERTIES
    CompletedIsClosed
\* Payment ids run out: the instance stops, the service does not.
CHECK_DEADLOCK FALSE
