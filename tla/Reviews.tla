------------------------------ MODULE Reviews -------------------------------
(***************************************************************************)
(* internal/reviews: customers review completed bookings, anybody flags a  *)
(* review, owners respond, and a trigger keeps the rating of each service  *)
(* up to date by adding and subtracting.                                   *)
(*                                                                         *)
(* Every call is a row of statements without a transaction, and the        *)
(* trigger of migrations/009 runs inside the statement that fires it; its  *)
(* increments are made on the locked row of the summary, so a statement    *)
(* and its trigger are one step.  A review has the id of its booking, of   *)
(* which it is the only one.  The service is the one the request names:    *)
(* no statement compares it with the booking's.                            *)
(*                                                                         *)
(* External: the completion of a booking and the removal of a review by a  *)
(* moderator, which the documents describe and no code does yet.           *)
(*                                                                         *)
(* Left out: the customer and the owner of a call (others get an error),   *)
(* texts, anonymity, and the window of 14 days, which the code leaves to a *)
(* CHECK constraint that no migration adds.                                *)
(***************************************************************************)
EXTENDS Integers, FiniteSets

CONSTANTS
    Service,
    BookingId,
    User,          \* users who may flag
    Given,         \* the ratings customers give
    ReviewCaller,  \* calls that may be under way at a time
    NoReview,      \* no row, no call
    MayStop        \* a call may stop between two statements

Rating == 1..5

Review == [service: Service, rating: Rating,
           status: {"published", "flagged", "removed"}]

\* avg_rating, NUMERIC(2,1), in tenths.  The five buckets of stars are one
\* function.
Summary == [total_reviews: Nat, total_rating: Nat, avg_rating: -99..99,
            stars: [Rating -> Nat]]

\* A call about the review of a booking, and the statement it makes next.
ReviewCall ==
    [booking: BookingId, review: Review,
     at: {"insert", "count flags", "flag review", "insert response", "update response"}]

ASSUME ReviewsAssumption ==
    /\ IsFiniteSet(BookingId) /\ IsFiniteSet(User)
    /\ Given \subseteq Rating
    /\ NoReview \notin Review \cup ReviewCall
    /\ MayStop \in BOOLEAN

VARIABLES
    reviewable,   \* bookings with status 'completed'
    reviews,      \* the review of a booking, or NoReview
    flags,        \* the users who flagged a review
    responses,    \* the reviews that have a response
    summaries,    \* rows of rating_summaries; one not inserted yet is all zero
    reviewCalls,
    restored,     \* reviews shown again after a removal; no statement reads this
    unfinished    \* reviews a call to flag stopped at; nor this

reviewTables == <<reviewable, reviews, flags, responses, summaries>>
reviewVars   == <<reviewTables, reviewCalls, restored, unfinished>>

ReviewsTypeOK ==
    /\ reviewable \subseteq BookingId
    /\ reviews \in [BookingId -> Review \cup {NoReview}]
    /\ flags \in [BookingId -> SUBSET User]
    /\ responses \subseteq BookingId
    /\ summaries \in [Service -> Summary]
    /\ reviewCalls \in [ReviewCaller -> ReviewCall \cup {NoReview}]
    /\ restored \subseteq BookingId
    /\ unfinished \subseteq BookingId

ReviewsInit ==
    /\ reviewable = {}
    /\ reviews = [b \in BookingId |-> NoReview]
    /\ flags = [b \in BookingId |-> {}]
    /\ responses = {}
    /\ summaries = [s \in Service |->
           [total_reviews |-> 0, total_rating |-> 0, avg_rating |-> 0,
            stars |-> [k \in Rating |-> 0]]]
    /\ reviewCalls = [c \in ReviewCaller |-> NoReview]
    /\ restored = {}
    /\ unfinished = {}

-----------------------------------------------------------------------------
(* The trigger update_rating_summary.                                      *)

\* ROUND(total::numeric / n, 1) in tenths: half away from zero.
Magnitude(x) == IF x < 0 THEN -x ELSE x

Average(total, n) ==
    LET tenths == (20 * Magnitude(total) + Magnitude(n)) \div (2 * Magnitude(n))
    IN  IF (total < 0) = (n < 0) THEN tenths ELSE -tenths

Greatest(x, y) == IF x >= y THEN x ELSE y

AfterInsert(s, rating) ==
    [total_reviews |-> s.total_reviews + 1,
     total_rating  |-> s.total_rating + rating,
     avg_rating    |-> Average(s.total_rating + rating, s.total_reviews + 1),
     stars         |-> [s.stars EXCEPT ![rating] = @ + 1]]

AverageAfterRemoval(s, rating) ==
    IF s.total_reviews - 1 = 0 THEN 0
    ELSE Average(s.total_rating - rating, s.total_reviews - 1)

RemovalForgetsRating(s, rating) ==
    [s EXCEPT !.total_reviews = Greatest(@ - 1, 0),
              !.avg_rating    = AverageAfterRemoval(s, rating)]

RemovalWithoutGreatest(s, rating) ==
    [s EXCEPT !.total_reviews = @ - 1,
              !.total_rating  = @ - rating,
              !.avg_rating    = AverageAfterRemoval(s, rating)]

\* The buckets keep what they have.
AfterRemoval(s, rating) ==
    [s EXCEPT !.total_reviews = Greatest(@ - 1, 0),
              !.total_rating  = Greatest(@ - rating, 0),
              !.avg_rating    = AverageAfterRemoval(s, rating)]

\* An average of ten or more does not fit, and the statement fails.
Fits(s) == s.avg_rating \in -99..99

NeverSubtracts(old, new) == FALSE

Subtracts(old, new) == old # "removed" /\ new = "removed"

\* UPDATE reviews SET status = ... and what the trigger makes of it.
UpdateReviewStatus(b, status) ==
    LET rev == reviews[b]
        sum == summaries[rev.service]
        new == IF Subtracts(rev.status, status) THEN AfterRemoval(sum, rev.rating) ELSE sum
    IN  /\ Fits(new)
        /\ reviews' = [reviews EXCEPT ![b].status = status]
        /\ summaries' = [summaries EXCEPT ![rev.service] = new]
        /\ restored' = IF rev.status = "removed" /\ status # "removed"
                       THEN restored \cup {b} ELSE restored

-----------------------------------------------------------------------------
(* Calls.                                                                  *)

BeginReviewCall(c, b, rev, at) ==
    /\ reviewCalls[c] = NoReview
    /\ reviewCalls' = [reviewCalls EXCEPT ![c] = [booking |-> b, review |-> rev, at |-> at]]

AtReview(c, at) == reviewCalls[c] # NoReview /\ reviewCalls[c].at = at

GotoReview(c, at) == reviewCalls' = [reviewCalls EXCEPT ![c].at = at]

ReturnReview(c) == reviewCalls' = [reviewCalls EXCEPT ![c] = NoReview]

\* An error of the database, a value that does not fit, or the request's
\* context is cancelled.
StopReviewCall(c) ==
    /\ MayStop
    /\ reviewCalls[c] # NoReview
    /\ ReturnReview(c)
    /\ unfinished' = IF reviewCalls[c].at \in {"count flags", "flag review"}
                     THEN unfinished \cup {reviewCalls[c].booking} ELSE unfinished
    /\ UNCHANGED <<reviewTables, restored>>

ValidateBookingForReview(c, b, s, rating) ==
    /\ b \in reviewable
    /\ BeginReviewCall(c, b, [service |-> s, rating |-> rating, status |-> "published"],
                       "insert")
    /\ UNCHANGED <<reviewTables, restored, unfinished>>

\* UNIQUE (booking_id).
AlreadyReviewed(b) == reviews[b] # NoReview

CreateReview(c) ==
    LET b   == reviewCalls[c].booking
        rev == reviewCalls[c].review
        new == AfterInsert(summaries[rev.service], rev.rating)
    IN  /\ AtReview(c, "insert")
        /\ ReturnReview(c)
        /\ IF AlreadyReviewed(b) \/ ~Fits(new)
           THEN UNCHANGED <<reviews, summaries>>
           ELSE /\ reviews' = [reviews EXCEPT ![b] = rev]
                /\ summaries' = [summaries EXCEPT ![rev.service] = new]
        /\ UNCHANGED <<reviewable, flags, responses, restored, unfinished>>

\* Whatever the review says, removed ones included; a user flags once.
CreateFlag(c, b, u) ==
    /\ reviews[b] # NoReview
    /\ u \notin flags[b]
    /\ flags' = [flags EXCEPT ![b] = @ \cup {u}]
    /\ BeginReviewCall(c, b, reviews[b], "count flags")
    /\ UNCHANGED <<reviewable, reviews, responses, summaries, restored, unfinished>>

MoreThanThree(count) == count > 3

EnoughFlags(count) == count >= 3

GetFlagCount(c) ==
    /\ AtReview(c, "count flags")
    /\ IF EnoughFlags(Cardinality(flags[reviewCalls[c].booking]))
       THEN GotoReview(c, "flag review")
       ELSE ReturnReview(c)
    /\ UNCHANGED <<reviewTables, restored, unfinished>>

FlagReview(c) ==
    /\ AtReview(c, "flag review")
    /\ UpdateReviewStatus(reviewCalls[c].booking, "flagged")
    /\ ReturnReview(c)
    /\ UNCHANGED <<reviewable, flags, responses, unfinished>>

\* GetByID and GetOwnerIDForService.
StartResponse(c, b) ==
    /\ reviews[b] # NoReview
    /\ BeginReviewCall(c, b, reviews[b], "insert response")
    /\ UNCHANGED <<reviewTables, restored, unfinished>>

\* UNIQUE (review_id) sends the second one to the update.
CreateResponse(c) ==
    LET b == reviewCalls[c].booking IN
    /\ AtReview(c, "insert response")
    /\ IF b \in responses
       THEN GotoReview(c, "update response") /\ UNCHANGED responses
       ELSE ReturnReview(c) /\ responses' = responses \cup {b}
    /\ UNCHANGED <<reviewable, reviews, flags, summaries, restored, unfinished>>

\* Changes only the text of a row that is there.
UpdateResponse(c) ==
    /\ AtReview(c, "update response")
    /\ ReturnReview(c)
    /\ UNCHANGED <<reviewTables, restored, unfinished>>

CompleteReviewable(b) ==
    /\ reviewable' = reviewable \cup {b}
    /\ UNCHANGED <<reviews, flags, responses, summaries, reviewCalls, restored, unfinished>>

RemoveReview(b) ==
    /\ reviews[b] # NoReview
    /\ UpdateReviewStatus(b, "removed")
    /\ UNCHANGED <<reviewable, flags, responses, reviewCalls, unfinished>>

-----------------------------------------------------------------------------
ReviewsNext ==
    \/ \E c \in ReviewCaller, b \in BookingId :
           \/ \E s \in Service, rating \in Given : ValidateBookingForReview(c, b, s, rating)
           \/ \E u \in User : CreateFlag(c, b, u)
           \/ StartResponse(c, b)
    \/ \E c \in ReviewCaller :
           \/ StopReviewCall(c) \/ CreateReview(c)
           \/ GetFlagCount(c) \/ FlagReview(c)
           \/ CreateResponse(c) \/ UpdateResponse(c)
    \/ \E b \in BookingId : CompleteReviewable(b) \/ RemoveReview(b)

ReviewsSpec == ReviewsInit /\ [][ReviewsNext]_reviewVars

-----------------------------------------------------------------------------
(* Properties.                                                             *)

Written(s) == {b \in BookingId : reviews[b] # NoReview /\ reviews[b].service = s}

\* What GetByService shows: published and flagged reviews.
Visible(s) == {b \in Written(s) : reviews[b].status # "removed"}

\* The sum of the ratings of the reviews S: the number of their stars.
Stars(S)     == {x \in S \X Rating : x[2] <= reviews[x[1]].rating}
RatingSum(S) == Cardinality(Stars(S))

\* As long as no review of a service was shown again after its removal, the
\* two totals that the trigger keeps by adding and subtracting, and the average
\* it derives from them, are those one gets by counting the reviews shown, in
\* whatever order reviews are written, flagged and removed.
SummaryIsExact ==
    \A s \in Service :
        LET sum == summaries[s]
            n   == Cardinality(Visible(s))
        IN  Written(s) \cap restored = {} =>
                /\ sum.total_reviews = n
                /\ sum.total_rating = RatingSum(Visible(s))
                /\ sum.avg_rating = IF n = 0 THEN 0 ELSE Average(RatingSum(Visible(s)), n)

\* Flag does not ask whether the review was removed, so a late flag shows it
\* again, and the next removal subtracts it a second time.  Even so the two
\* totals, which GREATEST clamps, are never more than the number and the
\* ratings of the reviews shown.  It is said of the totals only: the average
\* is not clamped and can be 5.0 with nothing shown.
TotalsNeverOverstate ==
    \A s \in Service :
        /\ summaries[s].total_reviews <= Cardinality(Visible(s))
        /\ summaries[s].total_rating <= RatingSum(Visible(s))

\* What ADR-003 says of the star buckets: they follow the status of a review,
\* as the totals do.
BucketsFollowStatus ==
    \A s \in Service, k \in Rating :
        summaries[s].stars[k] = Cardinality({b \in Visible(s) : reviews[b].rating = k})

\* The calls that have flagged the review of b and not returned.
Flagging(b) ==
    {c \in ReviewCaller : /\ reviewCalls[c] # NoReview /\ reviewCalls[c].booking = b
                          /\ reviewCalls[c].at \in {"count flags", "flag review"}}

\* Three users who flag a review get it flagged although none of them sees
\* the others' calls: each counts after its own row is stored.  Only a call
\* that stops halfway leaves three flags without effect.  And nothing but
\* three flags brings the status about.
ThreeFlagsDecide ==
    \A b \in BookingId : reviews[b] # NoReview =>
        /\ Cardinality(flags[b]) >= 3 /\ Flagging(b) = {} /\ b \notin unfinished
               => reviews[b].status # "published"
        /\ reviews[b].status = "flagged" => Cardinality(flags[b]) >= 3
=============================================================================
