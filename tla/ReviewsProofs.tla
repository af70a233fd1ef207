---------------------------- MODULE ReviewsProofs ----------------------------
(***************************************************************************)
(* Theorems about Reviews, for any finite set of bookings and users, any   *)
(* services and ratings, and any number of calls at a time.                *)
(***************************************************************************)
EXTENDS Reviews, FiniteSetTheorems, TLAPS

-----------------------------------------------------------------------------
(* Type correctness, and what the calls under way know.                    *)

LEMMA ReviewIsARow == \A b \in BookingId : ReviewsTypeOK /\ reviews[b] # NoReview =>
    /\ reviews[b] \in Review
    /\ reviews[b].service \in Service /\ reviews[b].rating \in Rating
    /\ reviews[b].status \in {"published", "flagged", "removed"}
BY DEF ReviewsTypeOK, Review

LEMMA CallIsARow == \A c \in ReviewCaller : ReviewsTypeOK /\ reviewCalls[c] # NoReview =>
    /\ reviewCalls[c] \in ReviewCall
    /\ reviewCalls[c].booking \in BookingId /\ reviewCalls[c].review \in Review
BY DEF ReviewsTypeOK, ReviewCall

LEMMA NoReviewIsNothing == NoReview \notin Review /\ NoReview \notin ReviewCall
BY ReviewsAssumption

\* What a call has found out stays so until its next statement.
CallsInv ==
    \A c \in ReviewCaller : reviewCalls[c] # NoReview =>
        /\ reviewCalls[c].at = "insert" => reviewCalls[c].review.status = "published"
        /\ reviewCalls[c].at \in {"count flags", "flag review"} =>
               reviews[reviewCalls[c].booking] # NoReview
        /\ reviewCalls[c].at = "flag review" =>
               Cardinality(flags[reviewCalls[c].booking]) >= 3

FlagsInv ==
    /\ ReviewsTypeOK /\ CallsInv
    /\ \A b \in BookingId : reviews[b] = NoReview => flags[b] = {}

\* A new row and a change of status are all that happens to the reviews.
Inserted(b, rev) ==
    /\ reviews[b] = NoReview
    /\ reviews' = [reviews EXCEPT ![b] = rev]
    /\ summaries' = [summaries EXCEPT ![rev.service] = AfterInsert(summaries[rev.service], rev.rating)]
    /\ Fits(AfterInsert(summaries[rev.service], rev.rating))
    /\ UNCHANGED <<flags, restored>>

LEMMA ReviewsChange ==
    ASSUME FlagsInv, [ReviewsNext]_reviewVars
    PROVE  \/ UNCHANGED <<reviews, summaries, restored>>
           \/ \E b \in BookingId, rev \in Review :
                  Inserted(b, rev) /\ rev.status = "published"
           \/ \E b \in BookingId, status \in {"flagged", "removed"} :
                  /\ reviews[b] # NoReview /\ UpdateReviewStatus(b, status)
                  /\ status = "flagged" => Cardinality(flags[b]) >= 3
<1> USE DEF FlagsInv
<1>1. ASSUME NEW c \in ReviewCaller, CreateReview(c)
      PROVE  \/ UNCHANGED <<reviews, summaries, restored>>
             \/ \E b \in BookingId, rev \in Review :
                    Inserted(b, rev) /\ rev.status = "published"
  <2> DEFINE b == reviewCalls[c].booking
             rev == reviewCalls[c].review
  <2>1. /\ b \in BookingId /\ rev \in Review /\ rev.status = "published"
    BY <1>1, CallIsARow DEF CreateReview, AtReview, CallsInv
  <2>2. Inserted(b, rev) \/ UNCHANGED <<reviews, summaries, restored>>
    BY <1>1 DEF CreateReview, Inserted, AlreadyReviewed
  <2> QED
    BY <2>1, <2>2
<1>2. ASSUME NEW c \in ReviewCaller, FlagReview(c)
      PROVE  \E b \in BookingId, status \in {"flagged", "removed"} :
                 /\ reviews[b] # NoReview /\ UpdateReviewStatus(b, status)
                 /\ status = "flagged" => Cardinality(flags[b]) >= 3
  BY <1>2, CallIsARow DEF FlagReview, AtReview, CallsInv
<1>3. ASSUME NEW b \in BookingId, RemoveReview(b)
      PROVE  reviews[b] # NoReview /\ UpdateReviewStatus(b, "removed")
  BY <1>3 DEF RemoveReview
<1>4. CASE UNCHANGED reviewVars
  BY <1>4 DEF reviewVars, reviewTables
<1>5. ASSUME NEW c \in ReviewCaller, NEW b \in BookingId,
             \/ \E s \in Service, rating \in Given : ValidateBookingForReview(c, b, s, rating)
             \/ \E u \in User : CreateFlag(c, b, u)
             \/ StartResponse(c, b)
      PROVE  UNCHANGED <<reviews, summaries, restored>>
  BY <1>5 DEF ValidateBookingForReview, CreateFlag, StartResponse, reviewTables
<1>6. ASSUME NEW c \in ReviewCaller,
             \/ StopReviewCall(c) \/ GetFlagCount(c) \/ CreateResponse(c) \/ UpdateResponse(c)
      PROVE  UNCHANGED <<reviews, summaries, restored>>
  BY <1>6 DEF StopReviewCall, GetFlagCount, CreateResponse, UpdateResponse, reviewTables
<1>7. ASSUME NEW b \in BookingId, CompleteReviewable(b)
      PROVE  UNCHANGED <<reviews, summaries, restored>>
  BY <1>7 DEF CompleteReviewable
<1> QED
  BY <1>1, <1>2, <1>3, <1>4, <1>5, <1>6, <1>7 DEF ReviewsNext

\* A row stays, and stays about the same service and rating.
LEMMA ReviewsStay ==
    ASSUME FlagsInv, [ReviewsNext]_reviewVars, NEW b \in BookingId, reviews[b] # NoReview
    PROVE  /\ reviews'[b] # NoReview
           /\ reviews'[b].service = reviews[b].service
           /\ reviews'[b].rating = reviews[b].rating
<1> USE DEF FlagsInv
<1>1. CASE reviews' = reviews
  BY <1>1
<1>2. ASSUME NEW d \in BookingId, NEW rev \in Review, Inserted(d, rev)
      PROVE  reviews'[b] = reviews[b]
  BY <1>2 DEF Inserted, ReviewsTypeOK
<1>3. ASSUME NEW d \in BookingId, NEW status \in {"flagged", "removed"},
             reviews[d] # NoReview, UpdateReviewStatus(d, status)
      PROVE  /\ reviews'[b] # NoReview
             /\ reviews'[b].service = reviews[b].service
             /\ reviews'[b].rating = reviews[b].rating
  <2>1. [reviews[d] EXCEPT !.status = status] \in Review
    BY <1>3, ReviewIsARow DEF Review
  <2>2. reviews'[b] = IF b = d THEN [reviews[d] EXCEPT !.status = status] ELSE reviews[b]
    BY <1>3 DEF UpdateReviewStatus, ReviewsTypeOK
  <2> QED
    BY <1>3, <2>1, <2>2, NoReviewIsNothing, ReviewIsARow DEF Review
<1> QED
  BY <1>1, <1>2, <1>3, ReviewsChange

LEMMA ReviewRowsType ==
    ASSUME FlagsInv, [ReviewsNext]_reviewVars
    PROVE  /\ reviews' \in [BookingId -> Review \cup {NoReview}]
           /\ summaries' \in [Service -> Summary]
           /\ restored' \subseteq BookingId
<1> USE DEF FlagsInv
<1>1. CASE UNCHANGED <<reviews, summaries, restored>>
  BY <1>1 DEF ReviewsTypeOK
<1>2. ASSUME NEW b \in BookingId, NEW rev \in Review, Inserted(b, rev)
      PROVE  /\ reviews' \in [BookingId -> Review \cup {NoReview}]
             /\ summaries' \in [Service -> Summary]
             /\ restored' \subseteq BookingId
  <2> DEFINE sum == summaries[rev.service]
  <2>1. rev.service \in Service /\ rev.rating \in 1..5
    BY DEF Review, Rating
  <2>2. sum \in Summary
    BY <2>1 DEF ReviewsTypeOK
  <2>3. /\ sum.total_reviews + 1 \in Nat /\ sum.total_rating + rev.rating \in Nat
        /\ [sum.stars EXCEPT ![rev.rating] = @ + 1] \in [Rating -> Nat]
    BY <2>1, <2>2 DEF Summary, Rating
  <2>4. AfterInsert(sum, rev.rating) \in Summary
    BY <1>2, <2>3 DEF Inserted, AfterInsert, Fits, Summary
  <2> QED
    BY <1>2, <2>4 DEF Inserted, ReviewsTypeOK
<1>3. ASSUME NEW b \in BookingId, NEW status \in {"flagged", "removed"},
             reviews[b] # NoReview, UpdateReviewStatus(b, status)
      PROVE  /\ reviews' \in [BookingId -> Review \cup {NoReview}]
             /\ summaries' \in [Service -> Summary]
             /\ restored' \subseteq BookingId
  <2> DEFINE rev == reviews[b]
             sum == summaries[rev.service]
  <2>1. rev \in Review /\ rev.service \in Service /\ rev.rating \in 1..5
    BY <1>3, ReviewIsARow DEF Rating
  <2>2. sum \in Summary
    BY <2>1 DEF ReviewsTypeOK
  <2>3. [reviews[b] EXCEPT !.status = status] \in Review
    BY <1>3, ReviewIsARow DEF Review
  <2>4. ASSUME Fits(AfterRemoval(sum, rev.rating)) PROVE AfterRemoval(sum, rev.rating) \in Summary
    <3>1. /\ Greatest(sum.total_reviews - 1, 0) \in Nat
          /\ Greatest(sum.total_rating - rev.rating, 0) \in Nat
      BY <2>1, <2>2 DEF Summary, Greatest
    <3>2. /\ AfterRemoval(sum, rev.rating).avg_rating \in -99..99
          /\ AfterRemoval(sum, rev.rating).avg_rating = AverageAfterRemoval(sum, rev.rating)
      BY <2>2, <2>4 DEF AfterRemoval, Fits, Summary
    <3> HIDE DEF sum, rev
    <3> QED
      BY <2>2, <3>1, <3>2 DEF AfterRemoval, Summary
  <2>5. summaries' \in [Service -> Summary]
    BY <1>3, <2>1, <2>2, <2>4 DEF UpdateReviewStatus, ReviewsTypeOK
  <2>6. restored' \subseteq BookingId
    BY <1>3 DEF UpdateReviewStatus, ReviewsTypeOK
  <2> QED
    BY <1>3, <2>3, <2>5, <2>6 DEF UpdateReviewStatus, ReviewsTypeOK
<1> QED
  BY <1>1, <1>2, <1>3, ReviewsChange

-----------------------------------------------------------------------------
(* Calls and flags.                                                        *)

\* What a step may make of one call.
Begins(c) ==
    /\ reviewCalls[c] = NoReview /\ reviewCalls'[c] \in ReviewCall
    /\ \/ reviewCalls'[c].at = "insert" /\ reviewCalls'[c].review.status = "published"
       \/ reviewCalls'[c].at = "count flags" /\ reviews[reviewCalls'[c].booking] # NoReview
       \/ reviewCalls'[c].at = "insert response"

Continues(c) ==
    /\ reviewCalls[c] # NoReview /\ reviewCalls'[c] \in ReviewCall
    /\ reviewCalls'[c].booking = reviewCalls[c].booking
    /\ \/ /\ reviewCalls[c].at = "count flags" /\ reviewCalls'[c].at = "flag review"
          /\ Cardinality(flags[reviewCalls[c].booking]) >= 3
       \/ reviewCalls[c].at = "insert response" /\ reviewCalls'[c].at = "update response"

LEMMA BeginMoves ==
    ASSUME ReviewsTypeOK, NEW c \in ReviewCaller, NEW b \in BookingId, NEW rev \in Review,
           NEW at \in {"insert", "count flags", "insert response"},
           BeginReviewCall(c, b, rev, at),
           at = "insert" => rev.status = "published",
           at = "count flags" => reviews[b] # NoReview,
           NEW d \in ReviewCaller
    PROVE  reviewCalls'[d] = reviewCalls[d] \/ Begins(d)
<1>1. [booking |-> b, review |-> rev, at |-> at] \in ReviewCall
  BY DEF ReviewCall
<1> QED
  BY <1>1 DEF BeginReviewCall, Begins, ReviewsTypeOK

LEMMA GotoMoves ==
    ASSUME ReviewsTypeOK, NEW c \in ReviewCaller, reviewCalls[c] # NoReview,
           NEW at \in {"flag review", "update response"}, GotoReview(c, at),
           \/ /\ reviewCalls[c].at = "count flags" /\ at = "flag review"
              /\ Cardinality(flags[reviewCalls[c].booking]) >= 3
           \/ reviewCalls[c].at = "insert response" /\ at = "update response",
           NEW d \in ReviewCaller
    PROVE  reviewCalls'[d] = reviewCalls[d] \/ Continues(d)
<1>1. [reviewCalls[c] EXCEPT !.at = at] \in ReviewCall
  BY CallIsARow DEF ReviewCall
<1>2. /\ [reviewCalls[c] EXCEPT !.at = at].booking = reviewCalls[c].booking
      /\ [reviewCalls[c] EXCEPT !.at = at].at = at
  BY CallIsARow DEF ReviewCall
<1>3. reviewCalls'[d] = IF d = c THEN [reviewCalls[c] EXCEPT !.at = at] ELSE reviewCalls[d]
  BY DEF GotoReview, ReviewsTypeOK
<1> QED
  BY <1>1, <1>2, <1>3 DEF Continues

LEMMA CallMoves ==
    ASSUME FlagsInv, [ReviewsNext]_reviewVars, NEW d \in ReviewCaller
    PROVE  \/ reviewCalls'[d] = reviewCalls[d] \/ reviewCalls'[d] = NoReview
           \/ Begins(d) \/ Continues(d)
<1> DEFINE Moves == \/ reviewCalls'[d] = reviewCalls[d] \/ reviewCalls'[d] = NoReview
                    \/ Begins(d) \/ Continues(d)
<1> USE DEF FlagsInv
<1>1. CASE reviewCalls' = reviewCalls
  BY <1>1
<1>2. ASSUME NEW c \in ReviewCaller, ReturnReview(c) PROVE Moves
  BY <1>2 DEF ReturnReview, ReviewsTypeOK
<1>3. ASSUME NEW c \in ReviewCaller, NEW b \in BookingId, NEW s \in Service,
             NEW rating \in Given, ValidateBookingForReview(c, b, s, rating)
      PROVE  Moves
  <2> DEFINE rev == [service |-> s, rating |-> rating, status |-> "published"]
  <2>1. rev \in Review /\ rev.status = "published"
    BY ReviewsAssumption DEF Review
  <2>2. BeginReviewCall(c, b, rev, "insert")
    BY <1>3 DEF ValidateBookingForReview
  <2> HIDE DEF rev
  <2> QED
    BY <2>1, <2>2, BeginMoves
<1>4. ASSUME NEW c \in ReviewCaller, NEW b \in BookingId, NEW u \in User, CreateFlag(c, b, u)
      PROVE  Moves
  <2>1. reviews[b] # NoReview /\ BeginReviewCall(c, b, reviews[b], "count flags")
    BY <1>4 DEF CreateFlag
  <2> QED
    BY <2>1, BeginMoves, ReviewIsARow
<1>5. ASSUME NEW c \in ReviewCaller, NEW b \in BookingId, StartResponse(c, b)
      PROVE  Moves
  <2>1. reviews[b] # NoReview /\ BeginReviewCall(c, b, reviews[b], "insert response")
    BY <1>5 DEF StartResponse
  <2> QED
    BY <2>1, BeginMoves, ReviewIsARow
<1>6. ASSUME NEW c \in ReviewCaller, GetFlagCount(c) PROVE Moves
  <2>1. reviewCalls[c] # NoReview /\ reviewCalls[c].at = "count flags"
    BY <1>6 DEF GetFlagCount, AtReview
  <2>2. \/ ReturnReview(c)
        \/ /\ GotoReview(c, "flag review")
           /\ Cardinality(flags[reviewCalls[c].booking]) >= 3
    BY <1>6 DEF GetFlagCount, EnoughFlags
  <2> QED
    BY <1>2, <2>1, <2>2, GotoMoves
<1>7. ASSUME NEW c \in ReviewCaller, CreateResponse(c) PROVE Moves
  <2>1. reviewCalls[c] # NoReview /\ reviewCalls[c].at = "insert response"
    BY <1>7 DEF CreateResponse, AtReview
  <2>2. ReturnReview(c) \/ GotoReview(c, "update response")
    BY <1>7 DEF CreateResponse
  <2> QED
    BY <1>2, <2>1, <2>2, GotoMoves
<1>8. ASSUME NEW c \in ReviewCaller,
             StopReviewCall(c) \/ CreateReview(c) \/ FlagReview(c) \/ UpdateResponse(c)
      PROVE  Moves
  BY <1>2, <1>8 DEF StopReviewCall, CreateReview, FlagReview, UpdateResponse
<1>9. ASSUME reviewCalls' # reviewCalls
      PROVE  \/ \E c \in ReviewCaller, b \in BookingId :
                    \/ \E s \in Service, rating \in Given : ValidateBookingForReview(c, b, s, rating)
                    \/ \E u \in User : CreateFlag(c, b, u)
                    \/ StartResponse(c, b)
             \/ \E c \in ReviewCaller :
                    \/ StopReviewCall(c) \/ CreateReview(c)
                    \/ GetFlagCount(c) \/ FlagReview(c)
                    \/ CreateResponse(c) \/ UpdateResponse(c)
  BY <1>9 DEF ReviewsNext, reviewVars, CompleteReviewable, RemoveReview
<1> QED
  BY <1>1, <1>3, <1>4, <1>5, <1>6, <1>7, <1>8, <1>9

LEMMA FlagsGrowAll ==
    ASSUME FlagsInv, [ReviewsNext]_reviewVars
    PROVE  flags' \in [BookingId -> SUBSET User]
<1> USE DEF FlagsInv, ReviewsTypeOK
<1>1. ASSUME NEW c \in ReviewCaller, NEW d \in BookingId, NEW u \in User, CreateFlag(c, d, u)
      PROVE  flags' \in [BookingId -> SUBSET User]
  BY <1>1 DEF CreateFlag
<1>2. ASSUME flags' # flags
      PROVE  \E c \in ReviewCaller, d \in BookingId, u \in User : CreateFlag(c, d, u)
  BY <1>2 DEF ReviewsNext, reviewVars, reviewTables, ValidateBookingForReview, StartResponse,
              StopReviewCall, CreateReview, GetFlagCount, FlagReview, CreateResponse,
              UpdateResponse, CompleteReviewable, RemoveReview
<1> QED
  BY <1>1, <1>2

\* Flags are only added, to a review that is there.
LEMMA FlagsGrow ==
    ASSUME FlagsInv, [ReviewsNext]_reviewVars, NEW b \in BookingId
    PROVE  /\ flags' \in [BookingId -> SUBSET User]
           /\ IsFiniteSet(flags[b]) /\ IsFiniteSet(flags'[b])
           /\ flags[b] \subseteq flags'[b]
           /\ Cardinality(flags[b]) <= Cardinality(flags'[b])
           /\ flags'[b] # flags[b] => reviews[b] # NoReview
<1> USE DEF FlagsInv
<1>1. CASE flags' = flags
  BY <1>1, ReviewsAssumption, FS_Subset, FS_CardinalityType DEF ReviewsTypeOK
<1>2. ASSUME NEW c \in ReviewCaller, NEW d \in BookingId, NEW u \in User, CreateFlag(c, d, u)
      PROVE  /\ flags' \in [BookingId -> SUBSET User]
             /\ flags[b] \subseteq flags'[b]
             /\ flags'[b] # flags[b] => reviews[b] # NoReview
  BY <1>2 DEF CreateFlag, ReviewsTypeOK
<1>3. ASSUME flags' # flags
      PROVE  \E c \in ReviewCaller, d \in BookingId, u \in User : CreateFlag(c, d, u)
  BY <1>3 DEF ReviewsNext, reviewVars, reviewTables, ValidateBookingForReview, StartResponse,
              StopReviewCall, CreateReview, GetFlagCount, FlagReview, CreateResponse,
              UpdateResponse, CompleteReviewable, RemoveReview
<1>4. CASE flags' # flags
  <2>1. /\ flags' \in [BookingId -> SUBSET User] /\ flags[b] \subseteq flags'[b]
        /\ flags'[b] # flags[b] => reviews[b] # NoReview
    BY <1>2, <1>3, <1>4
  <2>2. IsFiniteSet(flags[b]) /\ IsFiniteSet(flags'[b])
    BY <2>1, ReviewsAssumption, FS_Subset DEF ReviewsTypeOK
  <2>3. Cardinality(flags[b]) <= Cardinality(flags'[b])
    BY <2>1, <2>2, FS_Subset
  <2> QED
    BY <2>1, <2>2, <2>3
<1> QED
  BY <1>1, <1>4

LEMMA CallsStep ==
    ASSUME FlagsInv, [ReviewsNext]_reviewVars
    PROVE  reviewCalls' \in [ReviewCaller -> ReviewCall \cup {NoReview}] /\ CallsInv'
<1>1. ASSUME NEW c \in ReviewCaller
      PROVE  reviewCalls'[c] \in ReviewCall \cup {NoReview}
  BY CallMoves DEF Begins, Continues, FlagsInv, ReviewsTypeOK
<1>2. reviewCalls' = [c \in ReviewCaller |-> reviewCalls'[c]]
  <2> DEFINE IsFunction == reviewCalls' = [c \in ReviewCaller |-> reviewCalls'[c]]
  <2>1. ASSUME NEW c, NEW x, reviewCalls' = [reviewCalls EXCEPT ![c] = x]
        PROVE  IsFunction
    BY <2>1 DEF FlagsInv, ReviewsTypeOK
  <2>2. ASSUME reviewCalls' = reviewCalls PROVE IsFunction
    BY <2>2 DEF FlagsInv, ReviewsTypeOK
  <2>3. ASSUME NEW c, NEW b, NEW rev, NEW at, BeginReviewCall(c, b, rev, at) PROVE IsFunction
    BY <2>1, <2>3 DEF BeginReviewCall
  <2>4. ASSUME NEW c, NEW at, GotoReview(c, at) PROVE IsFunction
    BY <2>4 DEF GotoReview, FlagsInv, ReviewsTypeOK
  <2>5. ASSUME NEW c, ReturnReview(c) PROVE IsFunction
    BY <2>1, <2>5 DEF ReturnReview
  <2> HIDE DEF IsFunction
  <2>6. ASSUME NEW c, NEW b,
               \/ \E s \in Service, rating \in Given : ValidateBookingForReview(c, b, s, rating)
               \/ \E u \in User : CreateFlag(c, b, u)
               \/ StartResponse(c, b)
        PROVE  IsFunction
    BY <2>3, <2>6 DEF ValidateBookingForReview, CreateFlag, StartResponse
  <2>7. ASSUME NEW c,
               \/ StopReviewCall(c) \/ CreateReview(c) \/ GetFlagCount(c)
               \/ FlagReview(c) \/ CreateResponse(c) \/ UpdateResponse(c)
        PROVE  IsFunction
    BY <2>4, <2>5, <2>7 DEF StopReviewCall, CreateReview, GetFlagCount, FlagReview,
                            CreateResponse, UpdateResponse
  <2>8. ASSUME NEW b, CompleteReviewable(b) \/ RemoveReview(b) PROVE IsFunction
    BY <2>2, <2>8 DEF CompleteReviewable, RemoveReview
  <2>9. IsFunction
    BY <2>2, <2>6, <2>7, <2>8 DEF ReviewsNext, reviewVars
  <2> QED
    BY <2>9 DEF IsFunction
<1>3. ASSUME NEW c \in ReviewCaller, reviewCalls'[c] # NoReview
      PROVE  /\ reviewCalls'[c].at = "insert" => reviewCalls'[c].review.status = "published"
             /\ reviewCalls'[c].at \in {"count flags", "flag review"} =>
                    reviews'[reviewCalls'[c].booking] # NoReview
             /\ reviewCalls'[c].at = "flag review" =>
                    Cardinality(flags'[reviewCalls'[c].booking]) >= 3
  <2> DEFINE b == reviewCalls'[c].booking
  <2>1. b \in BookingId
    BY <1>1, <1>3 DEF ReviewCall
  <2>2. reviews[b] # NoReview => reviews'[b] # NoReview
    BY <2>1, ReviewsStay
  <2>3. /\ Cardinality(flags[b]) <= Cardinality(flags'[b])
        /\ Cardinality(flags[b]) \in Nat /\ Cardinality(flags'[b]) \in Nat
    BY <2>1, FlagsGrow, FS_CardinalityType
  <2>4. \/ reviewCalls'[c] = reviewCalls[c] \/ Begins(c) \/ Continues(c)
    BY <1>3, CallMoves
  <2>5. ASSUME Cardinality(flags[b]) >= 3 PROVE Cardinality(flags'[b]) >= 3
    <3> HIDE DEF b
    <3> QED
      BY <2>3, <2>5
  <2>6. CASE reviewCalls'[c] = reviewCalls[c]
    <3>1. /\ reviewCalls[c].booking = b
          /\ reviewCalls[c].at = "insert" => reviewCalls[c].review.status = "published"
          /\ reviewCalls[c].at \in {"count flags", "flag review"} => reviews[b] # NoReview
          /\ reviewCalls[c].at = "flag review" => Cardinality(flags[b]) >= 3
      BY <1>3, <2>6 DEF FlagsInv, CallsInv
    <3> QED
      BY <2>2, <2>5, <2>6, <3>1
  <2>7. CASE Begins(c)
    BY <2>2, <2>7 DEF Begins
  <2>8. CASE Continues(c)
    <3>1. /\ reviewCalls[c].booking = b
          /\ reviewCalls[c].at = "count flags" => reviews[b] # NoReview
      BY <2>8 DEF Continues, FlagsInv, CallsInv
    <3>2. reviewCalls'[c].at = "flag review" =>
              Cardinality(flags[b]) >= 3 /\ reviewCalls[c].at = "count flags"
      BY <2>8, <3>1 DEF Continues
    <3>3. reviewCalls'[c].at \in {"flag review", "update response"}
      BY <2>8 DEF Continues
    <3> QED
      BY <2>2, <2>5, <3>1, <3>2, <3>3
  <2> QED
    BY <2>4, <2>6, <2>7, <2>8
<1> QED
  BY <1>1, <1>2, <1>3 DEF CallsInv

LEMMA FlagsStep ==
    ASSUME FlagsInv, [ReviewsNext]_reviewVars
    PROVE  FlagsInv'
<1>1. /\ reviewable' \subseteq BookingId /\ responses' \subseteq BookingId
      /\ unfinished' \subseteq BookingId
  <2> USE DEF FlagsInv, ReviewsTypeOK
  <2>1. CASE UNCHANGED reviewVars
    BY <2>1 DEF reviewVars, reviewTables
  <2>2. ASSUME NEW c \in ReviewCaller, NEW b \in BookingId,
               \/ \E s \in Service, rating \in Given : ValidateBookingForReview(c, b, s, rating)
               \/ \E u \in User : CreateFlag(c, b, u)
               \/ StartResponse(c, b)
        PROVE  UNCHANGED <<reviewable, responses, unfinished>>
    BY <2>2 DEF ValidateBookingForReview, CreateFlag, StartResponse, reviewTables
  <2>3. ASSUME NEW c \in ReviewCaller,
               \/ CreateReview(c) \/ GetFlagCount(c) \/ FlagReview(c) \/ UpdateResponse(c)
        PROVE  UNCHANGED <<reviewable, responses, unfinished>>
    BY <2>3 DEF CreateReview, GetFlagCount, FlagReview, UpdateResponse, reviewTables
  <2>4. ASSUME NEW c \in ReviewCaller, StopReviewCall(c) \/ CreateResponse(c)
        PROVE  /\ reviewable' \subseteq BookingId /\ responses' \subseteq BookingId
               /\ unfinished' \subseteq BookingId
    <3>1. reviewCalls[c] # NoReview /\ reviewCalls[c].booking \in BookingId
      BY <2>4, CallIsARow DEF StopReviewCall, CreateResponse, AtReview
    <3> QED
      BY <2>4, <3>1 DEF StopReviewCall, CreateResponse, reviewTables
  <2>5. ASSUME NEW b \in BookingId, CompleteReviewable(b) \/ RemoveReview(b)
        PROVE  /\ reviewable' \subseteq BookingId /\ responses' \subseteq BookingId
               /\ unfinished' \subseteq BookingId
    BY <2>5 DEF CompleteReviewable, RemoveReview
  <2> QED
    BY <2>1, <2>2, <2>3, <2>4, <2>5 DEF ReviewsNext
<1>2. ReviewsTypeOK'
  BY <1>1, ReviewRowsType, CallsStep, FlagsGrowAll DEF ReviewsTypeOK
<1>3. ASSUME NEW b \in BookingId, reviews'[b] = NoReview PROVE flags'[b] = {}
  BY <1>3, ReviewsStay, FlagsGrow DEF FlagsInv
<1> QED
  BY <1>2, <1>3, CallsStep DEF FlagsInv

LEMMA FlagsInit == ReviewsInit => FlagsInv
<1> SUFFICES ASSUME ReviewsInit PROVE FlagsInv
  OBVIOUS
<1>1. summaries \in [Service -> Summary]
  BY DEF ReviewsInit, Summary
<1>2. ReviewsTypeOK
  BY <1>1 DEF ReviewsInit, ReviewsTypeOK
<1> QED
  BY <1>2 DEF ReviewsInit, FlagsInv, CallsInv

\* Type correctness, the averages included: what does not fit into
\* NUMERIC(2,1) is never stored.
THEOREM ReviewsTyped == ReviewsSpec => []ReviewsTypeOK
<1>1. FlagsInv /\ [ReviewsNext]_reviewVars => FlagsInv'
  BY FlagsStep
<1>2. FlagsInv => ReviewsTypeOK
  BY DEF FlagsInv
<1> QED
  BY FlagsInit, <1>1, <1>2, PTL DEF ReviewsSpec

-----------------------------------------------------------------------------
(* Three flags.                                                            *)

ThreeFlagsInv == FlagsInv /\ ThreeFlagsDecide

\* How a call that has flagged a review comes to an end.
LEMMA FlaggingEnds ==
    ASSUME FlagsInv, [ReviewsNext]_reviewVars, NEW b \in BookingId,
           NEW c \in Flagging(b), c \notin Flagging(b)'
    PROVE  \/ b \in unfinished'
           \/ flags' = flags /\ ~(Cardinality(flags[b]) >= 3)
           \/ FlagReview(c)
<1>1. /\ c \in ReviewCaller /\ reviewCalls[c] # NoReview /\ reviewCalls[c].booking = b
      /\ reviewCalls[c].at \in {"count flags", "flag review"}
  BY DEF Flagging
<1>2. reviewCalls'[c] = NoReview
  <2>1. reviewCalls'[c] # reviewCalls[c]
    BY <1>1 DEF Flagging
  <2>2. ~Begins(c)
    BY <1>1 DEF Begins
  <2>3. ~Continues(c)
    <3> SUFFICES ASSUME Continues(c) PROVE FALSE
      OBVIOUS
    <3>1. /\ reviewCalls'[c].at = "flag review" /\ reviewCalls'[c].booking = b
          /\ reviewCalls'[c] # NoReview
      BY <1>1, NoReviewIsNothing DEF Continues
    <3> QED
      BY <1>1, <3>1 DEF Flagging
  <2> QED
    BY <1>1, <2>1, <2>2, <2>3, CallMoves
<1> USE DEF FlagsInv, ReviewsTypeOK
<1>3. ASSUME NEW d \in ReviewCaller, d # c,
             \/ StopReviewCall(d) \/ CreateReview(d) \/ GetFlagCount(d) \/ FlagReview(d)
             \/ CreateResponse(d) \/ UpdateResponse(d)
      PROVE  FALSE
  BY <1>1, <1>2, <1>3 DEF StopReviewCall, CreateReview, GetFlagCount, FlagReview,
                          CreateResponse, UpdateResponse, ReturnReview, GotoReview
<1>4. ASSUME NEW d \in ReviewCaller, NEW e \in BookingId,
             \/ \E s \in Service, rating \in Given : ValidateBookingForReview(d, e, s, rating)
             \/ \E u \in User : CreateFlag(d, e, u)
             \/ StartResponse(d, e)
      PROVE  FALSE
  <2>1. /\ reviewCalls[d] = NoReview
        /\ \E x : reviewCalls' = [reviewCalls EXCEPT ![d] = x]
    BY <1>4 DEF ValidateBookingForReview, CreateFlag, StartResponse, BeginReviewCall
  <2> QED
    BY <1>1, <1>2, <2>1
<1>5. ASSUME UNCHANGED reviewVars \/ \E e \in BookingId : CompleteReviewable(e) \/ RemoveReview(e)
      PROVE  FALSE
  BY <1>1, <1>2, <1>5 DEF reviewVars, CompleteReviewable, RemoveReview
<1>6. ~CreateReview(c) /\ ~CreateResponse(c) /\ ~UpdateResponse(c)
  BY <1>1 DEF CreateReview, CreateResponse, UpdateResponse, AtReview
<1>7. StopReviewCall(c) => b \in unfinished'
  BY <1>1 DEF StopReviewCall
<1>8. GetFlagCount(c) => flags' = flags /\ ~(Cardinality(flags[b]) >= 3)
  <2> SUFFICES ASSUME GetFlagCount(c)
               PROVE  flags' = flags /\ ~(Cardinality(flags[b]) >= 3)
    OBVIOUS
  <2>1. ~GotoReview(c, "flag review")
    <3>1. [reviewCalls[c] EXCEPT !.at = "flag review"] \in ReviewCall
      BY <1>1, CallIsARow DEF ReviewCall
    <3> QED
      BY <1>1, <1>2, <3>1, NoReviewIsNothing DEF GotoReview
  <2> QED
    BY <1>1, <2>1 DEF GetFlagCount, EnoughFlags, reviewTables
<1> QED
  BY <1>3, <1>4, <1>5, <1>6, <1>7, <1>8 DEF ReviewsNext

LEMMA ThreeFlagsStep ==
    ASSUME ThreeFlagsInv, [ReviewsNext]_reviewVars
    PROVE  ThreeFlagsDecide'
<1> USE DEF ThreeFlagsInv
<1> SUFFICES ASSUME NEW b \in BookingId, reviews'[b] # NoReview
             PROVE  /\ Cardinality(flags'[b]) >= 3 /\ Flagging(b)' = {} /\ b \notin unfinished'
                            => reviews'[b].status # "published"
                    /\ reviews'[b].status = "flagged" => Cardinality(flags'[b]) >= 3
  BY DEF ThreeFlagsDecide, Flagging
<1>1. /\ IsFiniteSet(flags[b]) /\ IsFiniteSet(flags'[b])
      /\ Cardinality(flags[b]) \in Nat /\ Cardinality(flags'[b]) \in Nat
      /\ Cardinality(flags[b]) <= Cardinality(flags'[b])
  BY FlagsGrow, FS_CardinalityType
<1>2. ASSUME Cardinality(flags[b]) >= 3 PROVE Cardinality(flags'[b]) >= 3
  BY <1>1, <1>2
<1>3. b \in unfinished => b \in unfinished'
  BY DEF ReviewsNext, reviewVars, reviewTables, ValidateBookingForReview, StartResponse,
         CreateFlag, StopReviewCall, CreateReview, GetFlagCount, FlagReview,
         CreateResponse, UpdateResponse, CompleteReviewable, RemoveReview
<1>4. \/ reviews'[b] = reviews[b]
      \/ reviews'[b].status = "published" /\ flags'[b] = {}
      \/ reviews'[b].status = "flagged" /\ Cardinality(flags[b]) >= 3
      \/ reviews'[b].status = "removed"
  <2>1. ASSUME NEW d \in BookingId, NEW rev \in Review, Inserted(d, rev),
               rev.status = "published"
        PROVE  \/ reviews'[b] = reviews[b]
               \/ reviews'[b].status = "published" /\ flags'[b] = {}
    BY <2>1 DEF Inserted, FlagsInv, ReviewsTypeOK
  <2>2. ASSUME NEW d \in BookingId, NEW status \in {"flagged", "removed"},
               reviews[d] # NoReview, UpdateReviewStatus(d, status)
        PROVE  \/ reviews'[b] = reviews[b]
               \/ b = d /\ reviews'[b].status = status
    BY <2>2, ReviewIsARow DEF UpdateReviewStatus, FlagsInv, ReviewsTypeOK, Review
  <2> QED
    BY <2>1, <2>2, ReviewsChange
<1>5. reviews'[b].status = "flagged" => Cardinality(flags'[b]) >= 3
  <2>1. reviews'[b] = reviews[b] /\ reviews[b].status = "flagged"
            => Cardinality(flags[b]) >= 3
    BY DEF ThreeFlagsDecide
  <2> QED
    BY <1>2, <1>4, <2>1
<1>6. ASSUME Cardinality(flags'[b]) >= 3, Flagging(b)' = {}, b \notin unfinished',
             reviews'[b].status = "published"
      PROVE  FALSE
  <2>1. reviews'[b] = reviews[b]
    <3>1. Cardinality({}) = 0
      BY FS_EmptySet
    <3>2. flags'[b] # {}
      BY <1>6, <3>1
    <3> QED
      BY <1>4, <1>6, <3>2
  <2>2. CASE flags'[b] # flags[b]
    <3>1. PICK c \in ReviewCaller, u \in User : CreateFlag(c, b, u)
      BY <2>2 DEF ReviewsNext, reviewVars, reviewTables, ValidateBookingForReview,
                 StartResponse, CreateFlag, StopReviewCall, CreateReview, GetFlagCount,
                 FlagReview, CreateResponse, UpdateResponse, CompleteReviewable,
                 RemoveReview, FlagsInv, ReviewsTypeOK
    <3> DEFINE call == [booking |-> b, review |-> reviews[b], at |-> "count flags"]
    <3>2. reviewCalls'[c] = call /\ reviews[b] # NoReview
      BY <3>1 DEF CreateFlag, BeginReviewCall, FlagsInv, ReviewsTypeOK
    <3>3. call.booking = b /\ call.at = "count flags"
      OBVIOUS
    <3>4. call \in ReviewCall
      BY <3>2, ReviewIsARow DEF ReviewCall, FlagsInv
    <3> HIDE DEF call
    <3>5. /\ reviewCalls'[c] # NoReview /\ reviewCalls'[c].booking = b
          /\ reviewCalls'[c].at = "count flags"
      BY <3>2, <3>3, <3>4, NoReviewIsNothing
    <3>6. c \in Flagging(b)'
      BY <3>5 DEF Flagging
    <3> QED
      BY <1>6, <3>6
  <2>3. CASE flags'[b] = flags[b] /\ Flagging(b) = {}
    BY <1>3, <1>6, <2>1, <2>3 DEF ThreeFlagsDecide
  <2>4. CASE flags'[b] = flags[b] /\ Flagging(b) # {}
    <3>1. PICK c \in Flagging(b) : TRUE
      BY <2>4
    <3>2. c \notin Flagging(b)'
      BY <1>6
    <3>3. ~(flags' = flags /\ ~(Cardinality(flags[b]) >= 3))
      BY <1>6
    <3>4. ~FlagReview(c)
      <4> SUFFICES ASSUME FlagReview(c) PROVE FALSE
        OBVIOUS
      <4>1. reviewCalls[c].booking = b
        BY <3>1 DEF Flagging
      <4>2. UpdateReviewStatus(b, "flagged")
        BY <4>1 DEF FlagReview
      <4>3. reviews[b] \in Review
        BY <1>6, <2>1, ReviewIsARow DEF FlagsInv
      <4>4. reviews'[b] = [reviews[b] EXCEPT !.status = "flagged"]
        BY <4>2 DEF UpdateReviewStatus, FlagsInv, ReviewsTypeOK
      <4>5. reviews'[b].status = "flagged"
        BY <4>3, <4>4 DEF Review
      <4> QED
        BY <1>6, <4>5
    <3> QED
      BY <1>6, <3>1, <3>2, <3>3, <3>4, FlaggingEnds
  <2> QED
    BY <2>2, <2>3, <2>4
<1> QED
  BY <1>5, <1>6

\* However many users flag a review at once, the third of them gets it flagged
\* unless a call stops halfway, and fewer than three never do.
THEOREM ThreeFlagsAreEnough == ReviewsSpec => []ThreeFlagsDecide
<1>1. ReviewsInit => ThreeFlagsInv
  BY FlagsInit DEF ThreeFlagsInv, ThreeFlagsDecide, ReviewsInit
<1>2. ThreeFlagsInv /\ [ReviewsNext]_reviewVars => ThreeFlagsInv'
  BY FlagsStep, ThreeFlagsStep DEF ThreeFlagsInv
<1>3. ThreeFlagsInv => ThreeFlagsDecide
  BY DEF ThreeFlagsInv
<1> QED
  BY <1>1, <1>2, <1>3, PTL DEF ReviewsSpec

-----------------------------------------------------------------------------
(* Counting stars, in any table rv of reviews.                             *)

StarsIn(rv, S) == {x \in S \X Rating : x[2] <= rv[x[1]].rating}
Total(rv, S)   == Cardinality(StarsIn(rv, S))

LEMMA StarsFinite ==
    ASSUME NEW rv, NEW S, IsFiniteSet(S)
    PROVE  IsFiniteSet(StarsIn(rv, S)) /\ Total(rv, S) \in Nat
<1>1. IsFiniteSet(Rating)
  <2>1. ASSUME NEW k \in Nat PROVE IsFiniteSet(1..k)
    BY FS_Interval
  <2> QED
    BY <2>1 DEF Rating
<1>2. IsFiniteSet(S \X Rating)
  BY <1>1, FS_Product
<1>3. StarsIn(rv, S) \subseteq S \X Rating
  BY DEF StarsIn
<1>4. IsFiniteSet(StarsIn(rv, S))
  BY <1>2, <1>3, FS_Subset
<1> QED
  BY <1>4, FS_CardinalityType DEF Total

LEMMA SameStars ==
    ASSUME NEW rv, NEW other, NEW S, \A b \in S : rv[b].rating = other[b].rating
    PROVE  Total(rv, S) = Total(other, S)
<1>1. StarsIn(rv, S) = StarsIn(other, S)
  BY DEF StarsIn
<1> QED
  BY <1>1 DEF Total

LEMMA StarsOfOne ==
    ASSUME NEW rv, NEW b, rv[b].rating \in Rating
    PROVE  Total(rv, {b}) = rv[b].rating
<1> DEFINE k == rv[b].rating
<1>1. k \in Nat /\ 1 <= k /\ k <= 5
  BY DEF Rating
<1>2. StarsIn(rv, {b}) = {b} \X (1..k)
  BY <1>1 DEF StarsIn, Rating
<1>3. IsFiniteSet(1..k) /\ Cardinality(1..k) = k
  <2> HIDE DEF k
  <2>1. /\ IsFiniteSet(1..k)
        /\ Cardinality(1..k) = IF 1 > k THEN 0 ELSE k - 1 + 1
    BY <1>1, FS_Interval
  <2> QED
    BY <1>1, <2>1
<1>4. IsFiniteSet({b}) /\ Cardinality({b}) = 1
  BY FS_Singleton
<1>5. Cardinality({b} \X (1..k)) = 1 * k
  BY <1>3, <1>4, FS_Product
<1>6. 1 * k = k
  BY <1>1
<1> QED
  BY <1>2, <1>5, <1>6, Zenon DEF Total

\* One more review adds its stars.
LEMMA StarsOfOneMore ==
    ASSUME NEW rv, NEW S, IsFiniteSet(S), NEW b, b \notin S, rv[b].rating \in Rating
    PROVE  Total(rv, S \cup {b}) = Total(rv, S) + rv[b].rating
<1>1. IsFiniteSet({b})
  BY FS_Singleton
<1>2. IsFiniteSet(StarsIn(rv, S)) /\ IsFiniteSet(StarsIn(rv, {b}))
  BY <1>1, StarsFinite
<1>3. StarsIn(rv, S \cup {b}) = StarsIn(rv, S) \cup StarsIn(rv, {b})
  BY DEF StarsIn
<1>4. StarsIn(rv, S) \cap StarsIn(rv, {b}) = {}
  BY DEF StarsIn
<1>5. Cardinality(StarsIn(rv, S \cup {b}))
        = Cardinality(StarsIn(rv, S)) + Cardinality(StarsIn(rv, {b}))
            - Cardinality(StarsIn(rv, S) \cap StarsIn(rv, {b}))
  BY <1>2, <1>3, FS_Union
<1>6. Cardinality(StarsIn(rv, S) \cap StarsIn(rv, {b})) = 0
  BY <1>4, FS_EmptySet
<1>7. /\ Total(rv, S) \in Nat /\ Total(rv, {b}) = rv[b].rating
      /\ rv[b].rating \in Nat
  <2>1. Total(rv, S) \in Nat
    BY StarsFinite
  <2>2. Total(rv, {b}) = rv[b].rating
    BY StarsOfOne
  <2> QED
    BY <2>1, <2>2 DEF Rating
<1> QED
  BY <1>5, <1>6, <1>7 DEF Total

-----------------------------------------------------------------------------
(* Summaries.                                                              *)

\* What a summary says of n reviews with t stars, if exact holds.
Matches(sum, n, t, exact) ==
    /\ sum.total_reviews <= n /\ sum.total_rating <= t
    /\ exact => /\ sum.total_reviews = n /\ sum.total_rating = t
                /\ sum.avg_rating = IF n = 0 THEN 0 ELSE Average(t, n)

SummaryOK(s) ==
    Matches(summaries[s], Cardinality(Visible(s)), Total(reviews, Visible(s)),
            Written(s) \cap restored = {})

SummaryInv ==
    /\ FlagsInv
    /\ \A b \in restored : reviews[b] # NoReview
    /\ \A s \in Service : SummaryOK(s)

LEMMA SummaryOKMeans ==
    (\A s \in Service : SummaryOK(s)) <=> SummaryIsExact /\ TotalsNeverOverstate
BY DEF SummaryOK, Matches, SummaryIsExact, TotalsNeverOverstate, RatingSum, Stars, Total,
       StarsIn

LEMMA MatchesInsert ==
    ASSUME NEW sum \in Summary, NEW n \in Nat, NEW t \in Nat, NEW k \in Rating,
           NEW exact \in BOOLEAN, Matches(sum, n, t, exact)
    PROVE  Matches(AfterInsert(sum, k), n + 1, t + k, exact)
<1>1. sum.total_reviews \in Nat /\ sum.total_rating \in Nat /\ k \in Nat
  BY DEF Summary, Rating
<1>2. /\ AfterInsert(sum, k).total_reviews = sum.total_reviews + 1
      /\ AfterInsert(sum, k).total_rating = sum.total_rating + k
      /\ AfterInsert(sum, k).avg_rating
            = Average(sum.total_rating + k, sum.total_reviews + 1)
  BY DEF AfterInsert
<1> QED
  BY <1>1, <1>2 DEF Matches

LEMMA MatchesRemoval ==
    ASSUME NEW sum \in Summary, NEW n \in Nat, NEW t \in Nat, NEW k \in Rating,
           NEW exact \in BOOLEAN, Matches(sum, n + 1, t + k, exact)
    PROVE  Matches(AfterRemoval(sum, k), n, t, exact)
<1>1. sum.total_reviews \in Nat /\ sum.total_rating \in Nat /\ k \in Nat
  BY DEF Summary, Rating
<1>2. /\ AfterRemoval(sum, k).total_reviews = Greatest(sum.total_reviews - 1, 0)
      /\ AfterRemoval(sum, k).total_rating = Greatest(sum.total_rating - k, 0)
      /\ AfterRemoval(sum, k).avg_rating = AverageAfterRemoval(sum, k)
  BY DEF AfterRemoval, Summary
<1>3. /\ Greatest(sum.total_reviews - 1, 0) <= n
      /\ Greatest(sum.total_rating - k, 0) <= t
  BY <1>1 DEF Greatest, Matches
<1>4. ASSUME exact
      PROVE  /\ Greatest(sum.total_reviews - 1, 0) = n
             /\ Greatest(sum.total_rating - k, 0) = t
             /\ AverageAfterRemoval(sum, k) = IF n = 0 THEN 0 ELSE Average(t, n)
  <2>1. sum.total_reviews = n + 1 /\ sum.total_rating = t + k
    BY <1>4 DEF Matches
  <2>2. sum.total_reviews - 1 = n /\ sum.total_rating - k = t
    BY <1>1, <2>1
  <2>3. Greatest(n, 0) = n /\ Greatest(t, 0) = t
    BY DEF Greatest
  <2>4. AverageAfterRemoval(sum, k) = IF n = 0 THEN 0 ELSE Average(t, n)
    BY <2>2, Zenon DEF AverageAfterRemoval
  <2> QED
    BY <2>2, <2>3, <2>4, Zenon
<1> QED
  BY <1>2, <1>3, <1>4 DEF Matches

LEMMA SetsFinite ==
    ASSUME NEW s
    PROVE  /\ IsFiniteSet(Visible(s)) /\ IsFiniteSet(Written(s))
           /\ Cardinality(Visible(s)) \in Nat /\ Total(reviews, Visible(s)) \in Nat
<1>1. Visible(s) \subseteq BookingId /\ Written(s) \subseteq BookingId
  BY DEF Visible, Written
<1>2. IsFiniteSet(Visible(s)) /\ IsFiniteSet(Written(s))
  BY <1>1, ReviewsAssumption, FS_Subset
<1> QED
  BY <1>2, FS_CardinalityType, StarsFinite

LEMMA InsertKeepsSummary ==
    ASSUME SummaryInv, NEW b \in BookingId, NEW rev \in Review, Inserted(b, rev),
           rev.status = "published", NEW s \in Service
    PROVE  SummaryOK(s)'
<1> DEFINE V == Visible(s)
           sum == summaries[rev.service]
<1> USE DEF SummaryInv
<1>1. /\ reviews[b] = NoReview /\ reviews' = [reviews EXCEPT ![b] = rev] /\ reviews'[b] = rev
      /\ summaries' = [summaries EXCEPT ![rev.service] = AfterInsert(sum, rev.rating)]
      /\ restored' = restored /\ rev # NoReview
  BY NoReviewIsNothing DEF Inserted, FlagsInv, ReviewsTypeOK
<1>2. rev.service \in Service /\ rev.rating \in Rating /\ sum \in Summary
  BY DEF Review, FlagsInv, ReviewsTypeOK
<1>3. \A x \in BookingId : x # b => reviews'[x] = reviews[x]
  BY <1>1 DEF FlagsInv, ReviewsTypeOK
<1>4. b \notin Written(s) /\ b \notin V /\ b \notin restored
  BY <1>1 DEF Written, Visible
<1>5. Total(reviews', V) = Total(reviews, V)
  <2>1. \A x \in V : reviews'[x].rating = reviews[x].rating
    BY <1>3, <1>4 DEF Visible, Written
  <2> QED
    BY <2>1, SameStars
<1>6. SummaryOK(s)
  OBVIOUS
<1>7. CASE s # rev.service
  <2>1. Written(s)' = Written(s) /\ V' = V
    BY <1>1, <1>3, <1>4, <1>7 DEF Written, Visible
  <2>2. summaries'[s] = summaries[s]
    BY <1>1, <1>7 DEF FlagsInv, ReviewsTypeOK
  <2>3. Total(reviews', V') = Total(reviews, V)
    BY <1>5, <2>1
  <2> QED
    BY <1>1, <1>6, <2>1, <2>2, <2>3 DEF SummaryOK
<1>8. CASE s = rev.service
  <2>1. /\ Written(s)' = Written(s) \cup {b} /\ V' = V \cup {b}
    BY <1>1, <1>3, <1>4, <1>8 DEF Written, Visible
  <2>2. /\ IsFiniteSet(V) /\ Cardinality(V) \in Nat /\ Total(reviews, V) \in Nat
    BY SetsFinite
  <2>3. Cardinality(V') = Cardinality(V) + 1
    BY <1>4, <2>1, <2>2, FS_AddElement
  <2>4. Total(reviews', V') = Total(reviews, V) + rev.rating
    <3>1. reviews'[b].rating = rev.rating
      BY <1>1
    <3>2. Total(reviews', V \cup {b}) = Total(reviews', V) + reviews'[b].rating
      BY <1>2, <1>4, <2>2, <3>1, StarsOfOneMore
    <3> QED
      BY <1>5, <2>1, <3>1, <3>2
  <2>5. (Written(s)' \cap restored' = {}) = (Written(s) \cap restored = {})
    BY <1>1, <1>4, <2>1
  <2>6. summaries'[s] = AfterInsert(sum, rev.rating)
    BY <1>1, <1>8 DEF FlagsInv, ReviewsTypeOK
  <2>7. Matches(sum, Cardinality(V), Total(reviews, V), Written(s) \cap restored = {})
    BY <1>6, <1>8 DEF SummaryOK
  <2>8. Matches(AfterInsert(sum, rev.rating), Cardinality(V) + 1,
                Total(reviews, V) + rev.rating, Written(s) \cap restored = {})
    BY <1>2, <2>2, <2>7, MatchesInsert
  <2>9. Matches(summaries[s], Cardinality(V), Total(reviews, V),
                Written(s) \cap restored = {})'
    BY <2>3, <2>4, <2>5, <2>6, <2>8 DEF Matches
  <2> QED
    BY <2>9 DEF SummaryOK
<1> QED
  BY <1>7, <1>8

LEMMA StatusKeepsSummary ==
    ASSUME SummaryInv, NEW b \in BookingId, NEW status \in {"flagged", "removed"},
           reviews[b] # NoReview, UpdateReviewStatus(b, status), NEW s \in Service
    PROVE  SummaryOK(s)'
<1> DEFINE V == Visible(s)
           rev == reviews[b]
           sum == summaries[rev.service]
           row == [reviews[b] EXCEPT !.status = status]
           new == IF Subtracts(rev.status, status) THEN AfterRemoval(sum, rev.rating) ELSE sum
<1> USE DEF SummaryInv
<1>1. /\ rev \in Review /\ rev.service \in Service /\ rev.rating \in Rating
      /\ rev.status \in {"published", "flagged", "removed"} /\ sum \in Summary
  BY ReviewIsARow DEF FlagsInv, ReviewsTypeOK
<1>2. /\ row \in Review /\ row # NoReview /\ row.service = rev.service
      /\ row.rating = rev.rating /\ row.status = status
  <2>1. /\ row \in Review /\ row.service = rev.service
        /\ row.rating = rev.rating /\ row.status = status
    BY <1>1 DEF Review
  <2> QED
    BY <2>1, NoReviewIsNothing
<1>3. /\ reviews' = [reviews EXCEPT ![b].status = status]
      /\ summaries' = [summaries EXCEPT ![rev.service] = new]
      /\ restored' = IF rev.status = "removed" /\ status # "removed"
                     THEN restored \cup {b} ELSE restored
  BY DEF UpdateReviewStatus
<1>4. reviews'[b] = row /\ \A x \in BookingId : x # b => reviews'[x] = reviews[x]
  BY <1>3 DEF FlagsInv, ReviewsTypeOK
<1>5. Written(s)' = Written(s)
  <2>1. \A x \in BookingId : /\ (reviews'[x] # NoReview) = (reviews[x] # NoReview)
                              /\ reviews'[x].service = reviews[x].service
                              /\ reviews'[x].rating = reviews[x].rating
    BY <1>2, <1>4
  <2> HIDE DEF row, new
  <2> QED
    BY <2>1 DEF Written
<1>7. summaries'[s] = IF s = rev.service THEN new ELSE summaries[s]
  BY <1>3 DEF FlagsInv, ReviewsTypeOK
<1>8. SummaryOK(s)
  OBVIOUS
<1>10. \A S : Total(reviews', S \cap BookingId) = Total(reviews, S \cap BookingId)
  <2> SUFFICES ASSUME NEW S
               PROVE  Total(reviews', S \cap BookingId) = Total(reviews, S \cap BookingId)
    OBVIOUS
  <2>1. \A x \in S \cap BookingId : reviews'[x].rating = reviews[x].rating
    BY <1>2, <1>4
  <2> QED
    BY <2>1, SameStars
<1>11. V' \subseteq BookingId /\ V \subseteq BookingId
  BY DEF Visible, Written
<1>12. Total(reviews', V') = Total(reviews, V')
  <2>1. V' \cap BookingId = V'
    BY <1>11
  <2> HIDE DEF V
  <2> QED
    BY <1>10, <2>1
<1>13. /\ IsFiniteSet(V) /\ Cardinality(V) \in Nat /\ Total(reviews, V) \in Nat
  BY SetsFinite
<1>14. Matches(summaries[s], Cardinality(V), Total(reviews, V), Written(s) \cap restored = {})
  BY <1>8 DEF SummaryOK
<1>15. \A x \in BookingId : x # b => (x \in V' <=> x \in V)
  BY <1>4 DEF Visible, Written
<1>16. CASE V' = V /\ new = sum
  <2>1. summaries'[s] = summaries[s] /\ Total(reviews', V') = Total(reviews, V)
    BY <1>7, <1>12, <1>16
  <2>2. Written(s)' \cap restored' = {} => Written(s) \cap restored = {}
    BY <1>3, <1>5
  <2>3. Matches(summaries[s], Cardinality(V), Total(reviews, V),
                Written(s) \cap restored = {})'
    BY <1>14, <1>16, <2>1, <2>2 DEF Matches
  <2> QED
    BY <2>3 DEF SummaryOK
<1>17. CASE s # rev.service
  <2>1. V' = V
    BY <1>2, <1>4, <1>11, <1>15, <1>17 DEF Visible, Written
  <2>2. summaries'[s] = summaries[s] /\ Total(reviews', V') = Total(reviews, V)
    BY <1>7, <1>12, <1>17, <2>1
  <2>3. Written(s)' \cap restored' = {} => Written(s) \cap restored = {}
    BY <1>3, <1>5
  <2>4. Matches(summaries[s], Cardinality(V), Total(reviews, V),
                Written(s) \cap restored = {})'
    BY <1>14, <2>1, <2>2, <2>3 DEF Matches
  <2> QED
    BY <2>4 DEF SummaryOK
<1>18. CASE s = rev.service /\ rev.status # "removed" /\ status = "removed"
  <2> DEFINE W == V \ {b}
  <2>1. V = W \cup {b} /\ b \notin W /\ V' = W
    BY <1>2, <1>4, <1>11, <1>15, <1>18 DEF Visible, Written
  <2>2. /\ IsFiniteSet(W) /\ Cardinality(W) \in Nat /\ Total(reviews, W) \in Nat
    BY <1>13, FS_Subset, FS_CardinalityType, StarsFinite
  <2> HIDE DEF V, W
  <2>3. Cardinality(V) = Cardinality(W) + 1
    BY <2>1, <2>2, FS_AddElement
  <2>4. Total(reviews, V) = Total(reviews, W) + rev.rating
    <3>1. Total(reviews, W \cup {b}) = Total(reviews, W) + reviews[b].rating
      BY <1>1, <2>1, <2>2, StarsOfOneMore
    <3> QED
      BY <2>1, <3>1
  <2>5. Matches(sum, Cardinality(W) + 1, Total(reviews, W) + rev.rating,
                Written(s) \cap restored = {})
    BY <1>14, <1>18, <2>3, <2>4
  <2>6. Matches(AfterRemoval(sum, rev.rating), Cardinality(W), Total(reviews, W),
                Written(s) \cap restored = {})
    BY <1>1, <2>2, <2>5, MatchesRemoval
  <2>7. /\ summaries'[s] = AfterRemoval(sum, rev.rating) /\ restored' = restored
        /\ Total(reviews', V') = Total(reviews, W)
    BY <1>3, <1>7, <1>12, <1>18, <2>1 DEF Subtracts
  <2>8. Matches(summaries'[s], Cardinality(V'), Total(reviews', V'),
                Written(s)' \cap restored' = {})
    BY <1>5, <2>1, <2>6, <2>7
  <2> QED
    BY <2>8 DEF SummaryOK, V
<1>19. CASE s = rev.service /\ rev.status = "removed" /\ status # "removed"
  <2>1. V' = V \cup {b} /\ b \notin V
    BY <1>2, <1>4, <1>11, <1>15, <1>19 DEF Visible, Written
  <2>2. b \in Written(s)' \cap restored'
    BY <1>3, <1>5, <1>19 DEF Written
  <2>3. Cardinality(V') = Cardinality(V) + 1
    BY <1>13, <2>1, FS_AddElement
  <2>4. Total(reviews', V') = Total(reviews, V) + rev.rating
    <3>1. Total(reviews, V \cup {b}) = Total(reviews, V) + reviews[b].rating
      BY <1>1, <1>13, <2>1, StarsOfOneMore
    <3> QED
      BY <1>12, <2>1, <3>1
  <2>5. summaries'[s] = summaries[s]
    BY <1>7, <1>19 DEF Subtracts
  <2>6. /\ summaries[s].total_reviews <= Cardinality(V)
        /\ summaries[s].total_rating <= Total(reviews, V)
        /\ summaries[s].total_reviews \in Nat /\ summaries[s].total_rating \in Nat
        /\ rev.rating \in Nat
    BY <1>1, <1>14, <1>19 DEF Matches, Summary, Rating
  <2> HIDE DEF V, rev, sum, new, row
  <2>7. /\ summaries'[s].total_reviews <= Cardinality(V')
        /\ summaries'[s].total_rating <= Total(reviews', V')
    BY <1>13, <2>3, <2>4, <2>5, <2>6
  <2>8. Matches(summaries'[s], Cardinality(V'), Total(reviews', V'),
                Written(s)' \cap restored' = {})
    BY <2>2, <2>7 DEF Matches
  <2> QED
    BY <2>8 DEF SummaryOK, V
<1>20. CASE s = rev.service /\ (rev.status = "removed" <=> status = "removed")
  <2>1. V' = V
    BY <1>2, <1>4, <1>11, <1>15, <1>20 DEF Visible, Written
  <2>2. new = sum
    BY <1>20 DEF Subtracts
  <2> QED
    BY <1>16, <2>1, <2>2
<1> QED
  BY <1>17, <1>18, <1>19, <1>20

LEMMA SummaryStep ==
    ASSUME SummaryInv, [ReviewsNext]_reviewVars
    PROVE  SummaryInv'
<1>1. FlagsInv'
  BY FlagsStep DEF SummaryInv
<1>2. CASE UNCHANGED <<reviews, summaries, restored>>
  <2>1. ASSUME NEW s \in Service PROVE SummaryOK(s)'
    <3>1. Visible(s)' = Visible(s) /\ Written(s)' = Written(s)
      BY <1>2 DEF Visible, Written
    <3>2. SummaryOK(s)
      BY DEF SummaryInv
    <3> QED
      BY <1>2, <3>1, <3>2 DEF SummaryOK
  <2> QED
    BY <1>1, <1>2, <2>1 DEF SummaryInv
<1>3. ASSUME NEW b \in BookingId, NEW rev \in Review, Inserted(b, rev),
             rev.status = "published"
      PROVE  /\ \A s \in Service : SummaryOK(s)'
             /\ \A d \in restored' : reviews'[d] # NoReview
  BY <1>3, InsertKeepsSummary, ReviewsStay
  DEF Inserted, SummaryInv, FlagsInv, ReviewsTypeOK
<1>4. ASSUME NEW b \in BookingId, NEW status \in {"flagged", "removed"},
             reviews[b] # NoReview, UpdateReviewStatus(b, status)
      PROVE  /\ \A s \in Service : SummaryOK(s)'
             /\ \A d \in restored' : reviews'[d] # NoReview
  <2>1. \A s \in Service : SummaryOK(s)'
    BY <1>4, StatusKeepsSummary
  <2>2. \A d \in restored' : d \in BookingId /\ reviews[d] # NoReview
    BY <1>4 DEF UpdateReviewStatus, SummaryInv, FlagsInv, ReviewsTypeOK
  <2> QED
    BY <2>1, <2>2, ReviewsStay DEF SummaryInv
<1>5. \/ UNCHANGED <<reviews, summaries, restored>>
      \/ (\A s \in Service : SummaryOK(s)') /\ \A d \in restored' : reviews'[d] # NoReview
  BY <1>3, <1>4, ReviewsChange DEF SummaryInv
<1> QED
  BY <1>1, <1>2, <1>5 DEF SummaryInv

LEMMA SummaryInit == ReviewsInit => SummaryInv
<1> SUFFICES ASSUME ReviewsInit PROVE SummaryInv
  OBVIOUS
<1>1. FlagsInv /\ restored = {}
  BY FlagsInit DEF ReviewsInit
<1>2. ASSUME NEW s \in Service PROVE SummaryOK(s)
  <2>1. Visible(s) = {}
    BY DEF ReviewsInit, Visible, Written
  <2>2. StarsIn(reviews, {}) = {}
    BY DEF StarsIn
  <2>3. Cardinality({}) = 0
    BY FS_EmptySet
  <2>4. /\ summaries[s].total_reviews = 0 /\ summaries[s].total_rating = 0
        /\ summaries[s].avg_rating = 0
    BY DEF ReviewsInit
  <2>5. Matches(summaries[s], Cardinality(Visible(s)), Total(reviews, Visible(s)),
                Written(s) \cap restored = {})
    BY <2>1, <2>2, <2>3, <2>4 DEF Matches, Total
  <2> QED
    BY <2>1, <2>3, <2>4, <2>5 DEF SummaryOK
<1> QED
  BY <1>1, <1>2 DEF SummaryInv

LEMMA SummaryInvariant == ReviewsSpec => []SummaryInv
<1>1. SummaryInv /\ [ReviewsNext]_reviewVars => SummaryInv'
  BY SummaryStep
<1> QED
  BY SummaryInit, <1>1, PTL DEF ReviewsSpec

\* The totals the trigger keeps by adding and subtracting, and the average, are
\* those one gets by counting, for any number of reviews and calls and in any
\* order, until a flag shows a removed review of the service again.
THEOREM SummariesExact == ReviewsSpec => []SummaryIsExact
<1>1. SummaryInv => SummaryIsExact
  BY SummaryOKMeans DEF SummaryInv
<1> QED
  BY SummaryInvariant, <1>1, PTL

\* Even then the two totals are no larger than what counting gives: a review
\* subtracted twice only makes them smaller.
THEOREM TotalsAreBounded == ReviewsSpec => []TotalsNeverOverstate
<1>1. SummaryInv => TotalsNeverOverstate
  BY SummaryOKMeans DEF SummaryInv
<1> QED
  BY SummaryInvariant, <1>1, PTL
=============================================================================
