--------------------------- MODULE CustomerReviews --------------------------
(***************************************************************************)
(* internal/customer_reviews and the trust profiles of migrations/010:     *)
(* owners review the customers of completed bookings, customers dispute a  *)
(* review, and two triggers count the bookings and the reviews of a        *)
(* customer again whenever one of them changes.                            *)
(*                                                                         *)
(* The statement that fires a trigger commits at its end, trigger and all; *)
(* until then nobody else sees what it wrote.  Inside it come an INSERT    *)
(* that makes sure of the profile, which waits for another statement that  *)
(* is inserting the same one, and an UPDATE, whose subqueries see what was *)
(* committed when it began and whose row it then has to wait for.  So what *)
(* a recount has seen may be overtaken before it is stored.                *)
(*                                                                         *)
(* The bookings are those of internal/bookings, which overwrites one       *)
(* status with another without asking; completing and moderating are       *)
(* external.  Left out: who owns the branch (others get an error), texts,  *)
(* the rates of completion and cancellation (quotients of the three        *)
(* counts, stored by the same UPDATE), and the window of 14 days, for      *)
(* which there is no constraint.                                           *)
(***************************************************************************)
EXTENDS Integers, FiniteSets

CONSTANTS
    Customer,
    Booking,
    CustomerOf,    \* bookings.customer_id, which no statement changes
    Marks,         \* the ratings owners give
    Statement,     \* statements that may run at a time
    Nothing        \* no row, no statement

\* Statuses that no trigger counts are one: open.
Stage == {"open", "confirmed", "completed", "cancelled"}

OwnerReview == [rating: 1..5, status: {"published", "removed"}]

\* avg_owner_rating in tenths.
Profile == [total_bookings: Nat, completed_bookings: Nat, cancelled_bookings: Nat,
            total_owner_reviews: Nat, avg_owner_rating: Nat]

NewProfile == [total_bookings |-> 0, completed_bookings |-> 0, cancelled_bookings |-> 0,
               total_owner_reviews |-> 0, avg_owner_rating |-> 0]

\* What a statement makes of a row: of bookings, without a rating, or of
\* customer_reviews.
RowWritten == [status: Stage \cup {"published", "removed"}, rating: 0..5]

\* writes: the row as the statement leaves it.  counted: what the recount has
\* seen.  overtaken, which no statement reads: whether rows it counts have
\* changed since.
Running ==
    [booking: Booking, table: {"bookings", "customer_reviews"},
     writes: RowWritten,
     at: {"write", "insert profile", "recount", "commit"},
     counted: Profile, overtaken: BOOLEAN]

ASSUME CustomerReviewsAssumption ==
    /\ IsFiniteSet(Booking)
    /\ CustomerOf \in [Booking -> Customer]
    /\ Marks \subseteq 1..5
    /\ Nothing \notin OwnerReview \cup Profile \cup Running

VARIABLES
    stage,         \* the status of a booking
    ownerReviews,  \* the review of a booking's customer, or Nothing
    disputes,      \* the reviews their customer has disputed
    profiles,      \* rows of customer_trust_profiles, or Nothing
    running

trustTables == <<stage, ownerReviews, disputes, profiles>>
trustVars   == <<trustTables, running>>

TrustTypeOK ==
    /\ stage \in [Booking -> Stage]
    /\ ownerReviews \in [Booking -> OwnerReview \cup {Nothing}]
    /\ disputes \subseteq Booking
    /\ profiles \in [Customer -> Profile \cup {Nothing}]
    /\ running \in [Statement -> Running \cup {Nothing}]

TrustInit ==
    /\ stage = [b \in Booking |-> "open"]
    /\ ownerReviews = [b \in Booking |-> Nothing]
    /\ disputes = {}
    /\ profiles = [u \in Customer |-> Nothing]
    /\ running = [c \in Statement |-> Nothing]

-----------------------------------------------------------------------------
(* What the subqueries of the triggers count, in tables st and rv.         *)

InStage(st, u, stages) == {b \in Booking : CustomerOf[b] = u /\ st[b] \in stages}

Published(rv, u) ==
    {b \in Booking : CustomerOf[b] = u /\ rv[b] # Nothing /\ rv[b].status = "published"}

MarkUnits(rv, S) == {x \in S \X (1..5) : x[2] <= rv[x[1]].rating}

\* ROUND(AVG(rating), 1) in tenths, or 0.
AverageMark(rv, S) ==
    IF S = {} THEN 0
    ELSE (20 * Cardinality(MarkUnits(rv, S)) + Cardinality(S)) \div (2 * Cardinality(S))

CountBookingsKept(st, u, profile) ==
    [profile EXCEPT !.total_bookings     = Cardinality(InStage(st, u, {"confirmed", "completed"})),
                    !.completed_bookings = Cardinality(InStage(st, u, {"completed"})),
                    !.cancelled_bookings = Cardinality(InStage(st, u, {"cancelled"}))]

CountBookings(st, u, profile) ==
    [profile EXCEPT
        !.total_bookings     = Cardinality(InStage(st, u, {"confirmed", "completed", "cancelled"})),
        !.completed_bookings = Cardinality(InStage(st, u, {"completed"})),
        !.cancelled_bookings = Cardinality(InStage(st, u, {"cancelled"}))]

CountReviews(rv, u, profile) ==
    [profile EXCEPT !.total_owner_reviews = Cardinality(Published(rv, u)),
                    !.avg_owner_rating    = AverageMark(rv, Published(rv, u))]

\* The part of a profile that a trigger on the table writes, from what it saw.
Store(table, profile, counted) ==
    IF table = "bookings"
    THEN [counted EXCEPT !.total_owner_reviews = profile.total_owner_reviews,
                         !.avg_owner_rating    = profile.avg_owner_rating]
    ELSE [profile EXCEPT !.total_owner_reviews = counted.total_owner_reviews,
                         !.avg_owner_rating    = counted.avg_owner_rating]

-----------------------------------------------------------------------------
(* Statements.                                                             *)

StatementAt(c, at) == running[c] # Nothing /\ running[c].at = at

CustomerIn(c) == CustomerOf[running[c].booking]

\* A row of the table for b that a running statement has written.
RowHeld(table, b) ==
    \E c \in Statement : /\ running[c] # Nothing /\ running[c].at # "write"
                         /\ running[c].table = table /\ running[c].booking = b

BeginStatement(c, b, table, writes, at) ==
    /\ running[c] = Nothing
    /\ running' = [running EXCEPT
           ![c] = [booking |-> b, table |-> table, writes |-> writes, at |-> at,
                   counted |-> NewProfile, overtaken |-> FALSE]]

Proceed(c, at) == running' = [running EXCEPT ![c].at = at]

\* The recounts of u's rows of the table that have seen what is no longer so.
Overtaken(table, u) ==
    [d \in Statement |->
        IF /\ running[d] # Nothing /\ running[d].at = "commit"
           /\ running[d].table = table /\ CustomerIn(d) = u
        THEN [running[d] EXCEPT !.overtaken = TRUE] ELSE running[d]]

Finish(c) == running' = [running EXCEPT ![c] = Nothing]

\* The statement fails, and leaves nothing behind.
RollBack(c) ==
    /\ running[c] # Nothing
    /\ Finish(c)
    /\ UNCHANGED trustTables

\* UPDATE bookings SET status: the trigger returns at once unless the booking
\* becomes completed or cancelled.
UpdateBookingStatus(c, b, to) ==
    /\ to # stage[b]
    /\ ~RowHeld("bookings", b)
    /\ IF to \in {"completed", "cancelled"}
       THEN /\ BeginStatement(c, b, "bookings", [status |-> to, rating |-> 0], "insert profile")
            /\ UNCHANGED stage
       ELSE /\ stage' = [stage EXCEPT ![b] = to]
            /\ running' = Overtaken("bookings", CustomerOf[b])
    /\ UNCHANGED <<ownerReviews, disputes, profiles>>

\* The branch and the customer of the booking are read next, and never change.
ValidateBookingForOwnerReview(c, b, rating) ==
    /\ stage[b] = "completed"
    /\ BeginStatement(c, b, "customer_reviews",
                      [rating |-> rating, status |-> "published"], "write")
    /\ UNCHANGED trustTables

\* UNIQUE (booking_id): waits for another insert, and gives up if it commits.
CreateOwnerReview(c) ==
    /\ StatementAt(c, "write")
    /\ ~RowHeld("customer_reviews", running[c].booking)
    /\ IF ownerReviews[running[c].booking] = Nothing
       THEN Proceed(c, "insert profile") ELSE Finish(c)
    /\ UNCHANGED trustTables

\* Removal by an administrator.
RemoveOwnerReview(c, b) ==
    /\ ownerReviews[b] # Nothing
    /\ ~RowHeld("customer_reviews", b)
    /\ BeginStatement(c, b, "customer_reviews",
                      [ownerReviews[b] EXCEPT !.status = "removed"], "insert profile")
    /\ UNCHANGED trustTables

\* GetByID, the check that it is the customer's, CreateDispute: one for each
\* review, which stays as it is.
Dispute(b) ==
    /\ ownerReviews[b] # Nothing
    /\ b \notin disputes
    /\ disputes' = disputes \cup {b}
    /\ UNCHANGED <<stage, ownerReviews, profiles, running>>

-----------------------------------------------------------------------------
(* The triggers.                                                           *)

NobodyInserts(c) == TRUE

\* No other running statement has inserted the profile this one looks for.
ProfileFree(c) ==
    profiles[CustomerIn(c)] = Nothing =>
        \A d \in Statement : ~ /\ running[d] # Nothing
                               /\ running[d].at \in {"recount", "commit"}
                               /\ CustomerIn(d) = CustomerIn(c)

\* INSERT ... ON CONFLICT DO NOTHING.
InsertProfile(c) ==
    /\ StatementAt(c, "insert profile")
    /\ ProfileFree(c)
    /\ Proceed(c, "recount")
    /\ UNCHANGED trustTables

\* The tables with what the statement itself has written.
StagesSeen(c) ==
    IF running[c].table = "bookings"
    THEN [stage EXCEPT ![running[c].booking] = running[c].writes.status] ELSE stage

ReviewsSeen(c) ==
    IF running[c].table = "customer_reviews"
    THEN [ownerReviews EXCEPT ![running[c].booking] = running[c].writes] ELSE ownerReviews

\* The UPDATE of the profile begins.
Recount(c) ==
    /\ StatementAt(c, "recount")
    /\ running' = [running EXCEPT
           ![c].at = "commit",
           ![c].counted = IF running[c].table = "bookings"
                          THEN CountBookings(StagesSeen(c), CustomerIn(c), NewProfile)
                          ELSE CountReviews(ReviewsSeen(c), CustomerIn(c), NewProfile)]
    /\ UNCHANGED trustTables

\* It has the row, stores what it counted, and the statement commits.
CommitStatement(c) ==
    LET u   == CustomerIn(c)
        old == IF profiles[u] = Nothing THEN NewProfile ELSE profiles[u]
    IN  /\ StatementAt(c, "commit")
        /\ stage' = StagesSeen(c)
        /\ ownerReviews' = ReviewsSeen(c)
        /\ profiles' = [profiles EXCEPT ![u] = Store(running[c].table, old, running[c].counted)]
        /\ running' = [Overtaken(running[c].table, u) EXCEPT ![c] = Nothing]
        /\ UNCHANGED disputes

-----------------------------------------------------------------------------
TrustNext ==
    \/ \E c \in Statement, b \in Booking :
           \/ \E to \in Stage : UpdateBookingStatus(c, b, to)
           \/ \E rating \in Marks : ValidateBookingForOwnerReview(c, b, rating)
           \/ RemoveOwnerReview(c, b)
    \/ \E c \in Statement :
           \/ RollBack(c) \/ CreateOwnerReview(c)
           \/ InsertProfile(c) \/ Recount(c) \/ CommitStatement(c)
    \/ \E b \in Booking : Dispute(b)

TrustSpec == TrustInit /\ [][TrustNext]_trustVars

-----------------------------------------------------------------------------
(* Properties.                                                             *)

\* However stale a profile is, its numbers fit together: completed and
\* cancelled bookings are among the total, so that the two rates never exceed
\* one, and there is an average of the owners' ratings, between one star and
\* five, exactly if there are reviews.  Each trigger counts all its numbers in
\* one statement, from one state of the tables.
TrustIsConsistent ==
    \A u \in Customer : profiles[u] # Nothing =>
        LET p == profiles[u] IN
        /\ p.completed_bookings + p.cancelled_bookings <= p.total_bookings
        /\ IF p.total_owner_reviews = 0 THEN p.avg_owner_rating = 0
           ELSE p.avg_owner_rating \in 10..50

\* A recount that stores a stale number was overtaken: another change to the
\* same customer's rows was committed after it had counted and before it got
\* the row of the profile.  Without that it stores what the tables then say.
\* And the change that brings the profile into being overtakes nobody: of the
\* first bookings of a customer to be completed or cancelled each is counted,
\* as the others wait for the profile before they count.
StaleOnlyIfOvertaken ==
    [][\A c \in Statement : CommitStatement(c) =>
         LET u     == CustomerIn(c)
             p     == profiles'[u]
             In(S) == Cardinality({b \in Booking : CustomerOf[b] = u /\ stage'[b] \in S})
         IN  /\ ~running[c].overtaken =>
                    IF running[c].table = "bookings"
                    THEN /\ p.completed_bookings = In({"completed"})
                         /\ p.cancelled_bookings = In({"cancelled"})
                         /\ p.total_bookings = In({"confirmed", "completed", "cancelled"})
                    ELSE p.total_owner_reviews = Cardinality(
                             {b \in Booking : /\ CustomerOf[b] = u /\ ownerReviews'[b] # Nothing
                                              /\ ownerReviews'[b].status # "removed"})
             /\ profiles[u] = Nothing =>
                    \A d \in Statement \ {c} : running'[d] = running[d]]_trustVars
=============================================================================
