\* One search at a time, two offerings, and a page of one unless asked for more.
SPECIFICATION DiscoverySpec
CONSTANTS
    multi1 = multi1
    single1 = single1
    near1 = near1
    far1 = far1
    Service <- MCService
    Careful = {}
    Capacity <- MCCapacity
    CapacityType <- MCCapacityType
    StepMinutes <- MCStepMinutes
    MinDuration <- MCMinDuration
    Time <- MCTime
    MaxQuantity = 2
    BookingId = {b1}
    LockId = {l1, l2}
    RequestId = {}
    Null = Null
    Spent = Spent
    Place <- MCPlace
    Branch <- MCBranch
    Offering <- MCOffering
    Ranking <- MCRanking
    Reach <- MCReach
    Listings <- MCListings
    defaultLimit = 1
    maxLimit = 2
    Inquiry <- MCInquiry
    Searcher = {c1}
    Missing = Missing
SYMMETRY Symmetry
INVARIANT FeedsAreComplete
\* Ids run out: the instance stops, the service does not.
CHECK_DEADLOCK FALSE
