------------------------ MODULE CustomerReviewsProofs -----------------------
(***************************************************************************)
(* Theorems about CustomerReviews, for any customers, any finite set of    *)
(* bookings, and any number of statements at a time.                       *)
(***************************************************************************)
EXTENDS CustomerReviews, FiniteSetTheorems, TLAPS

-----------------------------------------------------------------------------
(* The invariant.                                                          *)

\* What TrustIsConsistent says of a profile.
Sound(p) ==
    /\ p.completed_bookings + p.cancelled_bookings <= p.total_bookings
    /\ IF p.total_owner_reviews = 0 THEN p.avg_owner_rating = 0
       ELSE p.avg_owner_rating \in 10..50

\* A running statement and what its trigger has counted.
RunOK(r) ==
    /\ r \in Running
    /\ r.table = "bookings" => r.writes.status \in Stage
    /\ r.table = "customer_reviews" => r.writes \in OwnerReview
    /\ Sound(r.counted)

\* What a trigger of customer u counts in tables st and rv.
Counts(r, st, rv, u) ==
    IF r.table = "bookings"
    THEN /\ r.counted.completed_bookings = Cardinality(InStage(st, u, {"completed"}))
         /\ r.counted.cancelled_bookings = Cardinality(InStage(st, u, {"cancelled"}))
         /\ r.counted.total_bookings =
                Cardinality(InStage(st, u, {"confirmed", "completed", "cancelled"}))
    ELSE r.counted.total_owner_reviews = Cardinality(Published(rv, u))

\* Unless it was overtaken, a recount is still what the tables would give.
Seen(c) ==
    StatementAt(c, "commit") /\ ~running[c].overtaken
        => Counts(running[c], StagesSeen(c), ReviewsSeen(c), CustomerIn(c))

\* The statements past the insert of the profile of u.
Inserted(u) ==
    {c \in Statement : /\ running[c] # Nothing
                       /\ running[c].at \in {"recount", "commit"} /\ CustomerIn(c) = u}

\* As long as a customer has no profile one statement at most brings it about.
OneInserts ==
    \A u \in Customer : profiles[u] = Nothing =>
        \A c, d \in Inserted(u) : c = d

TrustInv ==
    /\ TrustTypeOK
    /\ \A c \in Statement : running[c] # Nothing => RunOK(running[c])
    /\ TrustIsConsistent

-----------------------------------------------------------------------------
(* Counting.                                                               *)

LEMMA InStageFinite ==
    ASSUME NEW st, NEW u, NEW S
    PROVE  IsFiniteSet(InStage(st, u, S)) /\ Cardinality(InStage(st, u, S)) \in Nat
<1>1. InStage(st, u, S) \subseteq Booking /\ IsFiniteSet(Booking)
  BY CustomerReviewsAssumption DEF InStage
<1> QED
  BY <1>1, FS_Subset, FS_CardinalityType

LEMMA PublishedFinite ==
    ASSUME NEW rv, NEW u
    PROVE  IsFiniteSet(Published(rv, u)) /\ Cardinality(Published(rv, u)) \in Nat
<1>1. Published(rv, u) \subseteq Booking /\ IsFiniteSet(Booking)
  BY CustomerReviewsAssumption DEF Published
<1> QED
  BY <1>1, FS_Subset, FS_CardinalityType

\* Ended bookings are among all that count, and none has ended both ways.
LEMMA EndedAmongTotal ==
    ASSUME NEW st, NEW u
    PROVE  Cardinality(InStage(st, u, {"completed"})) + Cardinality(InStage(st, u, {"cancelled"}))
               <= Cardinality(InStage(st, u, {"confirmed", "completed", "cancelled"}))
<1> DEFINE D == InStage(st, u, {"completed"})
           C == InStage(st, u, {"cancelled"})
           T == InStage(st, u, {"confirmed", "completed", "cancelled"})
<1>1. D \cap C = {} /\ D \cup C \subseteq T
  BY DEF InStage
<1>2. /\ IsFiniteSet(D) /\ IsFiniteSet(C) /\ IsFiniteSet(T)
      /\ Cardinality(D) \in Nat /\ Cardinality(C) \in Nat /\ Cardinality(T) \in Nat
  BY InStageFinite
<1> HIDE DEF D, C, T
<1>3. Cardinality(D \cup C) = Cardinality(D) + Cardinality(C) - Cardinality(D \cap C)
  BY <1>2, FS_Union
<1>4. Cardinality(D \cap C) = 0
  BY <1>1, FS_EmptySet
<1>5. Cardinality(D \cup C) <= Cardinality(T)
  BY <1>1, <1>2, FS_Subset
<1>6. Cardinality(D) + Cardinality(C) <= Cardinality(T)
  BY <1>2, <1>3, <1>4, <1>5
<1> QED
  BY <1>6 DEF D, C, T

\* An average of n marks with t stars in all lies between one star and five.
LEMMA MarkBounds ==
    ASSUME NEW n \in Nat, NEW t \in Nat, n > 0, n <= t, t <= 5 * n
    PROVE  (20 * t + n) \div (2 * n) \in 10..50
<1> DEFINE a == 20 * t + n
           b == 2 * n
           q == a \div b
<1>1. a \in Nat /\ b \in Nat /\ b > 0 /\ 10 * b < a /\ a < 51 * b
  OBVIOUS
<1> HIDE DEF a, b
<1>2. q \in Int /\ b * q <= a /\ a < b * (q + 1)
  BY <1>1
<1> HIDE DEF q
<1>3. q >= 10
  <2> SUFFICES ASSUME q + 1 <= 10 PROVE FALSE
    BY <1>2
  <2>1. b * (q + 1) <= b * 10
    BY <1>1, <1>2
  <2> QED
    BY <1>1, <1>2, <2>1
<1>4. q <= 50
  <2> SUFFICES ASSUME q >= 51 PROVE FALSE
    BY <1>2
  <2>1. b * q >= b * 51
    BY <1>1, <1>2
  <2> QED
    BY <1>1, <1>2, <2>1
<1> QED
  BY <1>2, <1>3, <1>4 DEF q, a, b

LEMMA AverageInRange ==
    ASSUME NEW rv, NEW S, IsFiniteSet(S), \A s \in S : rv[s].rating \in 1..5
    PROVE  IF Cardinality(S) = 0 THEN AverageMark(rv, S) = 0
           ELSE AverageMark(rv, S) \in 10..50
<1>1. Cardinality(S) \in Nat /\ (Cardinality(S) = 0 <=> S = {})
  BY FS_CardinalityType, FS_EmptySet
<1>2. CASE S = {}
  BY <1>1, <1>2 DEF AverageMark
<1>3. CASE S # {}
  <2>1. IsFiniteSet(1..5) /\ Cardinality(1..5) = 5 /\ IsFiniteSet({1}) /\ Cardinality({1}) = 1
    <3>1. ASSUME NEW k \in Nat, k > 0 PROVE IsFiniteSet(1..k) /\ Cardinality(1..k) = k
      <4>1. /\ IsFiniteSet(1..k)
            /\ Cardinality(1..k) = IF 1 > k THEN 0 ELSE k - 1 + 1
        BY FS_Interval
      <4> QED
        BY <3>1, <4>1
    <3>2. IsFiniteSet(1..5) /\ Cardinality(1..5) = 5
      <4>1. PICK k \in Nat : k = 5
        OBVIOUS
      <4>2. k > 0
        BY <4>1
      <4>3. IsFiniteSet(1..k) /\ Cardinality(1..k) = k
        BY <3>1, <4>2, Zenon
      <4> QED
        BY <4>1, <4>3, Zenon
    <3>3. IsFiniteSet({1}) /\ Cardinality({1}) = 1
      BY FS_Singleton
    <3> QED
      BY <3>2, <3>3
  <2>2. /\ IsFiniteSet(S \X (1..5)) /\ Cardinality(S \X (1..5)) = Cardinality(S) * 5
        /\ Cardinality(S \X {1}) = Cardinality(S) * 1
    <3>1. /\ IsFiniteSet(S \X (1..5))
          /\ Cardinality(S \X (1..5)) = Cardinality(S) * Cardinality(1..5)
      BY <2>1, FS_Product, Zenon
    <3>2. Cardinality(S \X {1}) = Cardinality(S) * Cardinality({1})
      BY <2>1, FS_Product, Zenon
    <3> QED
      BY <2>1, <3>1, <3>2
  <2>3. S \X {1} \subseteq MarkUnits(rv, S) /\ MarkUnits(rv, S) \subseteq S \X (1..5)
    <3>1. ASSUME NEW x \in S \X {1} PROVE x \in MarkUnits(rv, S)
      <4>1. x \in S \X (1..5) /\ x[1] \in S /\ x[2] = 1
        OBVIOUS
      <4> QED
        BY <4>1 DEF MarkUnits
    <3> QED
      BY <3>1 DEF MarkUnits
  <2>4. /\ IsFiniteSet(MarkUnits(rv, S)) /\ Cardinality(MarkUnits(rv, S)) \in Nat
        /\ Cardinality(MarkUnits(rv, S)) <= Cardinality(S \X (1..5))
    BY <2>2, <2>3, FS_Subset, FS_CardinalityType
  <2>5. Cardinality(S \X {1}) <= Cardinality(MarkUnits(rv, S))
    BY <2>3, <2>4, FS_Subset
  <2>6. /\ Cardinality(S) <= Cardinality(MarkUnits(rv, S))
        /\ Cardinality(MarkUnits(rv, S)) <= 5 * Cardinality(S)
    BY <1>1, <2>2, <2>4, <2>5
  <2>7. (20 * Cardinality(MarkUnits(rv, S)) + Cardinality(S)) \div (2 * Cardinality(S)) \in 10..50
    BY <1>1, <1>3, <2>4, <2>6, MarkBounds
  <2> QED
    BY <1>1, <1>3, <2>7 DEF AverageMark
<1> QED
  BY <1>2, <1>3

LEMMA NewIsSound == NewProfile \in Profile /\ Sound(NewProfile)
BY DEF NewProfile, Profile, Sound

LEMMA BookingsCounted ==
    ASSUME NEW st, NEW u
    PROVE  /\ CountBookings(st, u, NewProfile) \in Profile
           /\ Sound(CountBookings(st, u, NewProfile))
<1> DEFINE In(S) == Cardinality(InStage(st, u, S))
           all   == {"confirmed", "completed", "cancelled"}
<1>1. In(all) \in Nat /\ In({"completed"}) \in Nat /\ In({"cancelled"}) \in Nat
  BY InStageFinite
<1>2. In({"completed"}) + In({"cancelled"}) <= In(all)
  BY EndedAmongTotal
<1>3. CountBookings(st, u, NewProfile) =
          [NewProfile EXCEPT !.total_bookings = In(all),
                             !.completed_bookings = In({"completed"}),
                             !.cancelled_bookings = In({"cancelled"})]
  BY DEF CountBookings
<1> HIDE DEF In, all
<1>4. /\ CountBookings(st, u, NewProfile) \in Profile
      /\ CountBookings(st, u, NewProfile).total_bookings = In(all)
      /\ CountBookings(st, u, NewProfile).completed_bookings = In({"completed"})
      /\ CountBookings(st, u, NewProfile).cancelled_bookings = In({"cancelled"})
      /\ CountBookings(st, u, NewProfile).total_owner_reviews = 0
      /\ CountBookings(st, u, NewProfile).avg_owner_rating = 0
  <2>1. NewProfile \in Profile /\ NewProfile.total_owner_reviews = 0
        /\ NewProfile.avg_owner_rating = 0
    BY DEF NewProfile, Profile
  <2> QED
    BY <1>1, <1>3, <2>1 DEF Profile
<1> QED
  BY <1>2, <1>4 DEF Sound

LEMMA ReviewsCounted ==
    ASSUME NEW rv, NEW u,
           \A b \in Booking : rv[b] # Nothing => rv[b].rating \in 1..5
    PROVE  /\ CountReviews(rv, u, NewProfile) \in Profile
           /\ Sound(CountReviews(rv, u, NewProfile))
<1>2. \A b \in Published(rv, u) : rv[b].rating \in 1..5
  BY DEF Published
<1>3. IF Cardinality(Published(rv, u)) = 0 THEN AverageMark(rv, Published(rv, u)) = 0
      ELSE AverageMark(rv, Published(rv, u)) \in 10..50
  BY <1>2, PublishedFinite, AverageInRange
<1> DEFINE n == Cardinality(Published(rv, u))
           m == AverageMark(rv, Published(rv, u))
<1>4. n \in Nat /\ m \in Nat
  BY <1>3, PublishedFinite
<1>5. CountReviews(rv, u, NewProfile) =
          [NewProfile EXCEPT !.total_owner_reviews = n, !.avg_owner_rating = m]
  BY DEF CountReviews
<1>6. IF n = 0 THEN m = 0 ELSE m \in 10..50
  BY <1>3
<1> HIDE DEF n, m
<1>7. /\ CountReviews(rv, u, NewProfile) \in Profile
      /\ CountReviews(rv, u, NewProfile).total_owner_reviews = n
      /\ CountReviews(rv, u, NewProfile).avg_owner_rating = m
      /\ CountReviews(rv, u, NewProfile).total_bookings = 0
      /\ CountReviews(rv, u, NewProfile).completed_bookings = 0
      /\ CountReviews(rv, u, NewProfile).cancelled_bookings = 0
  <2>1. NewProfile \in Profile /\ NewProfile.total_bookings = 0
        /\ NewProfile.completed_bookings = 0 /\ NewProfile.cancelled_bookings = 0
    BY DEF NewProfile, Profile
  <2> QED
    BY <1>4, <1>5, <2>1 DEF Profile
<1> QED
  BY <1>6, <1>7 DEF Sound

LEMMA StoredIsSound ==
    ASSUME NEW p \in Profile, NEW counted \in Profile, Sound(p), Sound(counted), NEW table
    PROVE  Store(table, p, counted) \in Profile /\ Sound(Store(table, p, counted))
BY DEF Store, Profile, Sound

-----------------------------------------------------------------------------
(* Types, and profiles that are sound.                                     *)

LEMMA NothingIsNoRow ==
    Nothing \notin OwnerReview /\ Nothing \notin Profile /\ Nothing \notin Running
BY CustomerReviewsAssumption

LEMMA SoundIsConsistent ==
    TrustIsConsistent <=>
        \A u \in Customer : profiles[u] # Nothing => Sound(profiles[u])
BY DEF TrustIsConsistent, Sound

LEMMA MarkOfRow ==
    ASSUME TrustTypeOK, NEW b \in Booking, ownerReviews[b] # Nothing
    PROVE  ownerReviews[b] \in OwnerReview
BY DEF TrustTypeOK

\* The tables as a statement sees them, and the customer it is about.
LEMMA SeenIsTyped ==
    ASSUME TrustInv, NEW c \in Statement, running[c] # Nothing
    PROVE  /\ CustomerIn(c) \in Customer
           /\ StagesSeen(c) \in [Booking -> Stage]
           /\ ReviewsSeen(c) \in [Booking -> OwnerReview \cup {Nothing}]
<1>1. /\ running[c] \in Running /\ running[c].booking \in Booking
      /\ running[c].table = "bookings" => running[c].writes.status \in Stage
      /\ running[c].table = "customer_reviews" => running[c].writes \in OwnerReview
  BY DEF TrustInv, RunOK, Running
<1>2. StagesSeen(c) \in [Booking -> Stage]
  BY <1>1 DEF StagesSeen, TrustInv, TrustTypeOK
<1>3. ReviewsSeen(c) \in [Booking -> OwnerReview \cup {Nothing}]
  BY <1>1 DEF ReviewsSeen, TrustInv, TrustTypeOK
<1> QED
  BY <1>1, <1>2, <1>3, CustomerReviewsAssumption DEF CustomerIn

\* What a step makes of one statement.
Begins(c) ==
    /\ running[c] = Nothing /\ RunOK(running'[c]) /\ running'[c] # Nothing
    /\ running'[c].at \in {"write", "insert profile"}

Continues(c) ==
    /\ running[c] # Nothing /\ running'[c] # Nothing
    /\ \/ running[c].at = "write" /\ running'[c] = [running[c] EXCEPT !.at = "insert profile"]
       \/ InsertProfile(c) /\ running'[c] = [running[c] EXCEPT !.at = "recount"]
       \/ Recount(c)
       \/ StatementAt(c, "commit") /\ running'[c] = [running[c] EXCEPT !.overtaken = TRUE]

Moves(c) ==
    running'[c] = running[c] \/ running'[c] = Nothing \/ Begins(c) \/ Continues(c)

LEMMA FreshIsOK ==
    ASSUME NEW c \in Statement, NEW b \in Booking, NEW table \in {"bookings", "customer_reviews"},
           NEW writes \in RowWritten, NEW at \in {"write", "insert profile"},
           table = "bookings" => writes.status \in Stage,
           table = "customer_reviews" => writes \in OwnerReview,
           TrustInv, BeginStatement(c, b, table, writes, at)
    PROVE  /\ Begins(c)
           /\ \A d \in Statement : Moves(d)
           /\ running' \in [Statement -> Running \cup {Nothing}]
<1> DEFINE new == [booking |-> b, table |-> table, writes |-> writes, at |-> at,
                   counted |-> NewProfile, overtaken |-> FALSE]
<1>1. new \in Running /\ RunOK(new) /\ new.at = at
  BY NewIsSound DEF Running, RunOK
<1> HIDE DEF new
<1>2. running \in [Statement -> Running \cup {Nothing}]
  BY DEF TrustInv, TrustTypeOK
<1>3. running' = [running EXCEPT ![c] = new] /\ running[c] = Nothing
  BY DEF BeginStatement, new
<1>4. running'[c] = new /\ \A d \in Statement \ {c} : running'[d] = running[d]
  BY <1>2, <1>3
<1>5. Begins(c)
  BY <1>1, <1>3, <1>4, NothingIsNoRow DEF Begins
<1> QED
  BY <1>1, <1>2, <1>3, <1>4, <1>5 DEF Moves

LEMMA OvertakenMoves ==
    ASSUME TrustInv, NEW table, NEW u
    PROVE  /\ Overtaken(table, u) \in [Statement -> Running \cup {Nothing}]
           /\ \A d \in Statement :
                  \/ Overtaken(table, u)[d] = running[d]
                  \/ /\ StatementAt(d, "commit") /\ Overtaken(table, u)[d] # Nothing
                     /\ Overtaken(table, u)[d] = [running[d] EXCEPT !.overtaken = TRUE]
<1> SUFFICES ASSUME NEW d \in Statement
             PROVE  /\ Overtaken(table, u)[d] \in Running \cup {Nothing}
                    /\ \/ Overtaken(table, u)[d] = running[d]
                       \/ /\ StatementAt(d, "commit") /\ Overtaken(table, u)[d] # Nothing
                          /\ Overtaken(table, u)[d] = [running[d] EXCEPT !.overtaken = TRUE]
  BY DEF Overtaken
<1>1. running[d] \in Running \cup {Nothing}
  BY DEF TrustInv, TrustTypeOK
<1>2. running[d] \in Running => [running[d] EXCEPT !.overtaken = TRUE] \in Running
  BY DEF Running
<1> QED
  BY <1>1, <1>2, NothingIsNoRow DEF Overtaken, StatementAt

LEMMA EachMoves ==
    ASSUME TrustInv, [TrustNext]_trustVars
    PROVE  /\ \A d \in Statement : Moves(d)
           /\ running' \in [Statement -> Running \cup {Nothing}]
<1>0. /\ running \in [Statement -> Running \cup {Nothing}]
      /\ \A d \in Statement : running[d] # Nothing => running[d] \in Running
  BY DEF TrustInv, TrustTypeOK
<1>1. ASSUME NEW c \in Statement, NEW b \in Booking, NEW to \in Stage,
             UpdateBookingStatus(c, b, to)
      PROVE  /\ \A d \in Statement : Moves(d)
             /\ running' \in [Statement -> Running \cup {Nothing}]
  <2>1. CASE to \in {"completed", "cancelled"}
    <3> DEFINE row == [status |-> to, rating |-> 0]
    <3>1. BeginStatement(c, b, "bookings", row, "insert profile")
      BY <1>1, <2>1 DEF UpdateBookingStatus
    <3>2. row \in RowWritten /\ row.status \in Stage
      BY DEF RowWritten
    <3> HIDE DEF row
    <3>3. "bookings" \in {"bookings", "customer_reviews"} /\ "bookings" # "customer_reviews"
          /\ "insert profile" \in {"write", "insert profile"}
      OBVIOUS
    <3>4. Begins(c) /\ \A d \in Statement : Moves(d)
      BY <3>1, <3>2, <3>3, FreshIsOK
    <3>5. running' \in [Statement -> Running \cup {Nothing}]
      BY <3>1, <3>2, <3>3, FreshIsOK
    <3> QED
      BY <3>4, <3>5
  <2>2. CASE to \notin {"completed", "cancelled"}
    <3> DEFINE marked == Overtaken("bookings", CustomerOf[b])
    <3>1. /\ marked \in [Statement -> Running \cup {Nothing}]
          /\ \A d \in Statement :
                 \/ marked[d] = running[d]
                 \/ /\ StatementAt(d, "commit") /\ marked[d] # Nothing
                    /\ marked[d] = [running[d] EXCEPT !.overtaken = TRUE]
      BY OvertakenMoves
    <3>2. running' = marked
      BY <1>1, <2>2 DEF UpdateBookingStatus
    <3> HIDE DEF marked
    <3>3. ASSUME NEW d \in Statement PROVE Moves(d)
      BY <3>1, <3>2 DEF Moves, Continues, StatementAt
    <3> QED
      BY <3>1, <3>2, <3>3
  <2> QED
    BY <2>1, <2>2
<1>2. ASSUME NEW c \in Statement, NEW b \in Booking, NEW rating \in Marks,
             ValidateBookingForOwnerReview(c, b, rating)
      PROVE  /\ \A d \in Statement : Moves(d)
             /\ running' \in [Statement -> Running \cup {Nothing}]
  <2>1. [rating |-> rating, status |-> "published"] \in RowWritten \cap OwnerReview
    BY CustomerReviewsAssumption DEF RowWritten, OwnerReview
  <2> QED
    BY <1>2, <2>1, FreshIsOK DEF ValidateBookingForOwnerReview
<1>3. ASSUME NEW c \in Statement, NEW b \in Booking, RemoveOwnerReview(c, b)
      PROVE  /\ \A d \in Statement : Moves(d)
             /\ running' \in [Statement -> Running \cup {Nothing}]
  <2>1. ownerReviews[b] \in OwnerReview
    BY <1>3, MarkOfRow DEF RemoveOwnerReview, TrustInv
  <2>2. [ownerReviews[b] EXCEPT !.status = "removed"] \in RowWritten \cap OwnerReview
    BY <2>1 DEF RowWritten, OwnerReview
  <2> QED
    BY <1>3, <2>2, FreshIsOK DEF RemoveOwnerReview
<1>4. ASSUME NEW c \in Statement, Finish(c)
      PROVE  /\ \A d \in Statement : Moves(d)
             /\ running' \in [Statement -> Running \cup {Nothing}]
  BY <1>0, <1>4 DEF Finish, Moves
<1>5. ASSUME NEW c \in Statement, NEW at \in {"insert profile", "recount"},
             running[c] # Nothing, Proceed(c, at),
             \/ running[c].at = "write" /\ at = "insert profile"
             \/ InsertProfile(c) /\ at = "recount"
      PROVE  /\ \A d \in Statement : Moves(d)
             /\ running' \in [Statement -> Running \cup {Nothing}]
  <2>1. running[c] \in Running /\ [running[c] EXCEPT !.at = at] \in Running
    BY <1>0, <1>5 DEF Running
  <2>2. /\ running'[c] = [running[c] EXCEPT !.at = at]
        /\ \A d \in Statement \ {c} : running'[d] = running[d]
    BY <1>0, <1>5 DEF Proceed
  <2>3. Continues(c)
    BY <1>5, <2>1, <2>2, NothingIsNoRow DEF Continues
  <2> QED
    BY <1>0, <1>5, <2>1, <2>2, <2>3 DEF Moves, Proceed
<1>6. ASSUME NEW c \in Statement, Recount(c)
      PROVE  /\ \A d \in Statement : Moves(d)
             /\ running' \in [Statement -> Running \cup {Nothing}]
  <2> DEFINE counted == IF running[c].table = "bookings"
                        THEN CountBookings(StagesSeen(c), CustomerIn(c), NewProfile)
                        ELSE CountReviews(ReviewsSeen(c), CustomerIn(c), NewProfile)
  <2>1. counted \in Profile
    <3>1. \A b \in Booking : ReviewsSeen(c)[b] # Nothing => ReviewsSeen(c)[b].rating \in 1..5
      BY <1>6, SeenIsTyped DEF Recount, StatementAt, OwnerReview
    <3> QED
      BY <3>1, BookingsCounted, ReviewsCounted
  <2>2. running' = [running EXCEPT ![c].at = "commit", ![c].counted = counted]
    BY <1>6 DEF Recount
  <2> HIDE DEF counted
  <2>3. running[c] \in Running /\ running[c] # Nothing
    BY <1>0, <1>6 DEF Recount, StatementAt
  <2>4. /\ running'[c] = [running[c] EXCEPT !.at = "commit", !.counted = counted]
        /\ \A d \in Statement \ {c} : running'[d] = running[d]
    BY <1>0, <2>2
  <2>5. running'[c] \in Running
    BY <2>1, <2>3, <2>4 DEF Running
  <2>6. Continues(c)
    BY <1>6, <2>3, <2>5, NothingIsNoRow DEF Continues
  <2> QED
    BY <1>0, <2>2, <2>4, <2>5, <2>6 DEF Moves
<1>7. ASSUME NEW c \in Statement, CommitStatement(c)
      PROVE  /\ \A d \in Statement : Moves(d)
             /\ running' \in [Statement -> Running \cup {Nothing}]
  <2> DEFINE marked == Overtaken(running[c].table, CustomerIn(c))
  <2>1. /\ marked \in [Statement -> Running \cup {Nothing}]
        /\ \A d \in Statement :
               \/ marked[d] = running[d]
               \/ /\ StatementAt(d, "commit") /\ marked[d] # Nothing
                  /\ marked[d] = [running[d] EXCEPT !.overtaken = TRUE]
    BY OvertakenMoves
  <2>2. running' = [marked EXCEPT ![c] = Nothing]
    BY <1>7 DEF CommitStatement
  <2> HIDE DEF marked
  <2>3. running'[c] = Nothing /\ \A d \in Statement \ {c} : running'[d] = marked[d]
    BY <2>1, <2>2
  <2>4. ASSUME NEW d \in Statement, d # c PROVE Moves(d)
    BY <2>1, <2>3, <2>4 DEF Moves, Continues, StatementAt
  <2>5. Moves(c)
    BY <2>3 DEF Moves
  <2>6. running' \in [Statement -> Running \cup {Nothing}]
    BY <2>1, <2>2
  <2> QED
    BY <2>4, <2>5, <2>6
<1>8. ASSUME UNCHANGED running
      PROVE  /\ \A d \in Statement : Moves(d)
             /\ running' \in [Statement -> Running \cup {Nothing}]
  BY <1>0, <1>8 DEF Moves
<1>9. ASSUME NEW c \in Statement, RollBack(c) \/ CreateOwnerReview(c) \/ InsertProfile(c)
      PROVE  /\ \A d \in Statement : Moves(d)
             /\ running' \in [Statement -> Running \cup {Nothing}]
  BY <1>4, <1>5, <1>9 DEF RollBack, CreateOwnerReview, InsertProfile, StatementAt
<1>10. ASSUME NEW b \in Booking, Dispute(b) PROVE UNCHANGED running
  BY <1>10 DEF Dispute
<1>11. UNCHANGED trustVars => UNCHANGED running
  BY DEF trustVars
<1> QED
  BY <1>1, <1>2, <1>3, <1>6, <1>7, <1>8, <1>9, <1>10, <1>11 DEF TrustNext

\* A statement keeps its type and what it counted is sound.
LEMMA MoveIsOK ==
    ASSUME TrustInv, NEW c \in Statement, Moves(c), running'[c] # Nothing
    PROVE  RunOK(running'[c])
<1>1. running[c] # Nothing => RunOK(running[c])
  BY DEF TrustInv
<1>2. CASE running'[c] = running[c]
  BY <1>1, <1>2
<1>3. CASE Begins(c)
  BY <1>3 DEF Begins
<1>4. ASSUME running[c] # Nothing,
             NEW at \in {"insert profile", "recount"},
             running'[c] = [running[c] EXCEPT !.at = at]
      PROVE  RunOK(running'[c])
  <2>1. /\ running'[c] \in Running
        /\ running'[c].table = running[c].table /\ running'[c].writes = running[c].writes
        /\ running'[c].counted = running[c].counted
    BY <1>1, <1>4 DEF RunOK, Running
  <2> QED
    BY <1>1, <1>4, <2>1 DEF RunOK
<1>5. ASSUME running[c] # Nothing, running'[c] = [running[c] EXCEPT !.overtaken = TRUE]
      PROVE  RunOK(running'[c])
  <2>1. /\ running'[c] \in Running
        /\ running'[c].table = running[c].table /\ running'[c].writes = running[c].writes
        /\ running'[c].counted = running[c].counted
    BY <1>1, <1>5 DEF RunOK, Running
  <2> QED
    BY <1>1, <1>5, <2>1 DEF RunOK
<1>6. ASSUME Recount(c) PROVE RunOK(running'[c])
  <2> DEFINE counted == IF running[c].table = "bookings"
                        THEN CountBookings(StagesSeen(c), CustomerIn(c), NewProfile)
                        ELSE CountReviews(ReviewsSeen(c), CustomerIn(c), NewProfile)
  <2>1. running[c] # Nothing /\ RunOK(running[c])
    BY <1>1, <1>6 DEF Recount, StatementAt
  <2>2. counted \in Profile /\ Sound(counted)
    <3>1. \A b \in Booking : ReviewsSeen(c)[b] # Nothing => ReviewsSeen(c)[b].rating \in 1..5
      BY <2>1, SeenIsTyped DEF OwnerReview
    <3> QED
      BY <3>1, BookingsCounted, ReviewsCounted
  <2>3. running'[c] = [running[c] EXCEPT !.at = "commit", !.counted = counted]
    BY <1>6 DEF Recount, TrustInv, TrustTypeOK
  <2> HIDE DEF counted
  <2>4. /\ running'[c] \in Running
        /\ running'[c].table = running[c].table /\ running'[c].writes = running[c].writes
        /\ running'[c].counted = counted
    BY <2>1, <2>2, <2>3 DEF RunOK, Running
  <2> QED
    BY <2>1, <2>2, <2>4 DEF RunOK
<1>7. CASE Continues(c)
  BY <1>4, <1>5, <1>6, <1>7 DEF Continues
<1> QED
  BY <1>2, <1>3, <1>7 DEF Moves

\* What a step makes of the tables, of the profiles above all.
LEMMA TablesMove ==
    ASSUME TrustInv, [TrustNext]_trustVars
    PROVE  \/ UNCHANGED <<ownerReviews, profiles>>
              /\ stage' \in [Booking -> Stage] /\ disputes' \subseteq Booking
           \/ \E c \in Statement : CommitStatement(c)
<1>1. ASSUME NEW c \in Statement, NEW b \in Booking, NEW to \in Stage,
             UpdateBookingStatus(c, b, to)
      PROVE  /\ UNCHANGED <<ownerReviews, profiles, disputes>>
             /\ stage' \in [Booking -> Stage]
  BY <1>1 DEF UpdateBookingStatus, TrustInv, TrustTypeOK
<1>2. ASSUME NEW b \in Booking, Dispute(b)
      PROVE  UNCHANGED <<stage, ownerReviews, profiles>> /\ disputes' \subseteq Booking
  BY <1>2 DEF Dispute, TrustInv, TrustTypeOK
<1>3. ASSUME NEW c \in Statement,
             \/ \E b \in Booking, rating \in Marks : ValidateBookingForOwnerReview(c, b, rating)
             \/ \E b \in Booking : RemoveOwnerReview(c, b)
             \/ RollBack(c) \/ CreateOwnerReview(c) \/ InsertProfile(c) \/ Recount(c)
      PROVE  UNCHANGED trustTables
  BY <1>3 DEF ValidateBookingForOwnerReview, RemoveOwnerReview, RollBack, CreateOwnerReview,
              InsertProfile, Recount
<1>4. CASE UNCHANGED trustTables
  BY <1>4 DEF trustTables, TrustInv, TrustTypeOK
<1>5. UNCHANGED trustVars => UNCHANGED trustTables
  BY DEF trustVars
<1> QED
  BY <1>1, <1>2, <1>3, <1>4, <1>5 DEF TrustNext, TrustInv, TrustTypeOK

\* A commit stores a sound profile, and the row its statement wrote.
LEMMA CommitKeeps ==
    ASSUME TrustInv, NEW c \in Statement, CommitStatement(c)
    PROVE  /\ stage' \in [Booking -> Stage]
           /\ ownerReviews' \in [Booking -> OwnerReview \cup {Nothing}]
           /\ profiles' \in [Customer -> Profile \cup {Nothing}] /\ disputes' = disputes
           /\ profiles'[CustomerIn(c)] # Nothing /\ Sound(profiles'[CustomerIn(c)])
           /\ \A u \in Customer : u # CustomerIn(c) => profiles'[u] = profiles[u]
<1> DEFINE u   == CustomerIn(c)
           old == IF profiles[u] = Nothing THEN NewProfile ELSE profiles[u]
           new == Store(running[c].table, old, running[c].counted)
<1>1. running[c] # Nothing /\ RunOK(running[c]) /\ running[c].counted \in Profile
  BY DEF CommitStatement, StatementAt, TrustInv, RunOK, Running
<1>2. /\ u \in Customer
      /\ StagesSeen(c) \in [Booking -> Stage]
      /\ ReviewsSeen(c) \in [Booking -> OwnerReview \cup {Nothing}]
  BY <1>1, SeenIsTyped
<1>3. old \in Profile /\ Sound(old)
  BY <1>2, NewIsSound, SoundIsConsistent DEF TrustInv, TrustTypeOK
<1>4. new \in Profile /\ Sound(new)
  BY <1>1, <1>3, StoredIsSound DEF RunOK
<1>5. /\ stage' = StagesSeen(c) /\ ownerReviews' = ReviewsSeen(c)
      /\ profiles' = [profiles EXCEPT ![u] = new] /\ disputes' = disputes
  BY DEF CommitStatement
<1>6. profiles \in [Customer -> Profile \cup {Nothing}]
  BY DEF TrustInv, TrustTypeOK
<1> HIDE DEF new, old, u
<1>7. /\ profiles' \in [Customer -> Profile \cup {Nothing}] /\ profiles'[u] = new
      /\ \A v \in Customer : v # u => profiles'[v] = profiles[v]
  BY <1>2, <1>4, <1>5, <1>6
<1> QED
  BY <1>2, <1>4, <1>5, <1>7, NothingIsNoRow DEF u

LEMMA TrustInvInit == TrustInit => TrustInv
BY DEF TrustInit, TrustInv, TrustTypeOK, Stage, TrustIsConsistent

LEMMA TrustStep ==
    ASSUME TrustInv, [TrustNext]_trustVars
    PROVE  TrustInv'
<1>1. /\ running' \in [Statement -> Running \cup {Nothing}]
      /\ \A c \in Statement : running'[c] # Nothing => RunOK(running'[c])
  BY EachMoves, MoveIsOK
<1>2. /\ stage' \in [Booking -> Stage] /\ disputes' \subseteq Booking
      /\ ownerReviews' \in [Booking -> OwnerReview \cup {Nothing}]
      /\ profiles' \in [Customer -> Profile \cup {Nothing}]
  BY TablesMove, CommitKeeps DEF TrustInv, TrustTypeOK
<1>3. \A u \in Customer : profiles'[u] # Nothing => Sound(profiles'[u])
  BY TablesMove, CommitKeeps, SoundIsConsistent DEF TrustInv
<1>4. TrustIsConsistent'
  BY <1>3 DEF TrustIsConsistent, Sound
<1> QED
  BY <1>1, <1>2, <1>4 DEF TrustInv, TrustTypeOK

\* Rows and running statements keep their types.
THEOREM TrustTyped == TrustSpec => []TrustTypeOK
<1>1. TrustInv => TrustTypeOK
  BY DEF TrustInv
<1> QED
  BY <1>1, TrustInvInit, TrustStep, PTL DEF TrustSpec

\* However many statements count at once and whatever they have missed, the
\* numbers of a profile fit together: each trigger stores its share of them
\* from one count, and leaves the other trigger's share alone.
THEOREM ProfilesAreConsistent == TrustSpec => []TrustIsConsistent
<1>1. TrustInv => TrustIsConsistent
  BY DEF TrustInv
<1> QED
  BY <1>1, TrustInvInit, TrustStep, PTL DEF TrustSpec

-----------------------------------------------------------------------------
(* Recounts that are overtaken.                                            *)

RecountInv ==
    /\ TrustInv
    /\ \A c \in Statement : Seen(c)
    /\ OneInserts

\* Of the customer of a statement that is neither done nor overtaken, the rows
\* it counts stay as they are.
LEMMA RowsStay ==
    ASSUME TrustInv, [TrustNext]_trustVars, NEW c \in Statement,
           StatementAt(c, "commit"), running'[c] = running[c], ~running[c].overtaken,
           NEW b \in Booking, CustomerOf[b] = CustomerIn(c)
    PROVE  /\ running[c].table = "bookings" => stage'[b] = stage[b]
           /\ running[c].table = "customer_reviews" => ownerReviews'[b] = ownerReviews[b]
<1>0. running[c] # Nothing /\ running[c] \in Running /\ running[c].at = "commit"
  BY DEF StatementAt, TrustInv, TrustTypeOK
<1>1. ASSUME NEW table, NEW u, running'[c] = Overtaken(table, u)[c]
      PROVE  running[c].table # table \/ CustomerIn(c) # u
  <2> SUFFICES ASSUME running[c].table = table, CustomerIn(c) = u PROVE FALSE
    OBVIOUS
  <2>1. running'[c] = [running[c] EXCEPT !.overtaken = TRUE]
    BY <1>0, <1>1 DEF Overtaken
  <2>2. running'[c].overtaken = TRUE
    BY <1>0, <2>1 DEF Running
  <2> QED
    BY <2>2
<1>2. ASSUME NEW d \in Statement, NEW a \in Booking, NEW to \in Stage,
             UpdateBookingStatus(d, a, to)
      PROVE  /\ ownerReviews' = ownerReviews
             /\ running[c].table = "bookings" => stage'[b] = stage[b]
  <2>1. CASE to \in {"completed", "cancelled"}
    BY <1>2, <2>1 DEF UpdateBookingStatus
  <2>2. CASE to \notin {"completed", "cancelled"}
    <3>1. /\ running' = Overtaken("bookings", CustomerOf[a]) /\ ownerReviews' = ownerReviews
          /\ stage' = [stage EXCEPT ![a] = to]
      BY <1>2, <2>2 DEF UpdateBookingStatus
    <3>2. running[c].table # "bookings" \/ CustomerIn(c) # CustomerOf[a]
      BY <1>1, <3>1
    <3> QED
      BY <3>1, <3>2 DEF TrustInv, TrustTypeOK
  <2> QED
    BY <2>1, <2>2
<1>3. ASSUME NEW d \in Statement, CommitStatement(d)
      PROVE  /\ running[c].table = "bookings" => stage'[b] = stage[b]
             /\ running[c].table = "customer_reviews" => ownerReviews'[b] = ownerReviews[b]
  <2> DEFINE marked == Overtaken(running[d].table, CustomerIn(d))
  <2>1. marked \in [Statement -> Running \cup {Nothing}]
    BY OvertakenMoves
  <2>2. /\ running' = [marked EXCEPT ![d] = Nothing]
        /\ stage' = StagesSeen(d) /\ ownerReviews' = ReviewsSeen(d)
    BY <1>3 DEF CommitStatement
  <2>3. d # c /\ running'[c] = marked[c]
    <3> HIDE DEF marked
    <3> QED
      BY <1>0, <2>1, <2>2
  <2>4. running[c].table # running[d].table \/ CustomerIn(c) # CustomerIn(d)
    BY <1>1, <2>3
  <2>5. running[d].table = "bookings" => stage' = [stage EXCEPT ![running[d].booking] = running[d].writes.status]
    BY <2>2 DEF StagesSeen
  <2>6. running[d].table # "bookings" => stage' = stage
    BY <2>2 DEF StagesSeen
  <2>7. running[d].table = "customer_reviews" =>
            ownerReviews' = [ownerReviews EXCEPT ![running[d].booking] = running[d].writes]
    BY <2>2 DEF ReviewsSeen
  <2>8. running[d].table # "customer_reviews" => ownerReviews' = ownerReviews
    BY <2>2 DEF ReviewsSeen
  <2>9. CustomerIn(c) # CustomerIn(d) => b # running[d].booking
    BY DEF CustomerIn
  <2> QED
    BY <2>4, <2>5, <2>6, <2>7, <2>8, <2>9 DEF TrustInv, TrustTypeOK
<1>4. ASSUME NEW a \in Booking, Dispute(a) PROVE UNCHANGED <<stage, ownerReviews>>
  BY <1>4 DEF Dispute
<1>5. ASSUME NEW d \in Statement,
             \/ \E a \in Booking, rating \in Marks : ValidateBookingForOwnerReview(d, a, rating)
             \/ \E a \in Booking : RemoveOwnerReview(d, a)
             \/ RollBack(d) \/ CreateOwnerReview(d) \/ InsertProfile(d) \/ Recount(d)
      PROVE  UNCHANGED <<stage, ownerReviews>>
  BY <1>5 DEF ValidateBookingForOwnerReview, RemoveOwnerReview, RollBack, CreateOwnerReview,
              InsertProfile, Recount, trustTables
<1>6. UNCHANGED trustVars => UNCHANGED <<stage, ownerReviews>>
  BY DEF trustVars, trustTables
<1> QED
  BY <1>2, <1>3, <1>4, <1>5, <1>6 DEF TrustNext

\* What a recount counts is what the statement sees.
LEMMA RecountSees ==
    ASSUME TrustInv, NEW c \in Statement, Recount(c)
    PROVE  Seen(c)'
<1> DEFINE r == running[c]
           st == StagesSeen(c)
           rv == ReviewsSeen(c)
           u  == CustomerIn(c)
           counted == IF r.table = "bookings" THEN CountBookings(st, u, NewProfile)
                                              ELSE CountReviews(rv, u, NewProfile)
<1>1. r # Nothing /\ r \in Running
  BY DEF Recount, StatementAt, TrustInv, TrustTypeOK
<1>2. running'[c] = [r EXCEPT !.at = "commit", !.counted = counted]
  BY DEF Recount, TrustInv, TrustTypeOK
<1>3. UNCHANGED <<stage, ownerReviews>>
  BY DEF Recount, trustTables
<1>4. /\ running'[c].table = r.table /\ running'[c].booking = r.booking
      /\ running'[c].writes = r.writes /\ running'[c].counted = counted
  <2> HIDE DEF r, counted
  <2> QED
    BY <1>1, <1>2 DEF Running
<1>5. StagesSeen(c)' = st /\ ReviewsSeen(c)' = rv /\ CustomerIn(c)' = u
  BY <1>3, <1>4 DEF StagesSeen, ReviewsSeen, CustomerIn
<1>6. Counts(running'[c], st, rv, u)
  <2>1. CASE r.table = "bookings"
    <3>1. counted = CountBookings(st, u, NewProfile)
      BY <2>1
    <3> HIDE DEF r, st, rv, u, counted
    <3>2. /\ counted.completed_bookings = Cardinality(InStage(st, u, {"completed"}))
          /\ counted.cancelled_bookings = Cardinality(InStage(st, u, {"cancelled"}))
          /\ counted.total_bookings =
                 Cardinality(InStage(st, u, {"confirmed", "completed", "cancelled"}))
      BY <3>1 DEF CountBookings, NewProfile
    <3> QED
      BY <1>4, <2>1, <3>2 DEF Counts
  <2>2. CASE r.table # "bookings"
    <3>1. counted = CountReviews(rv, u, NewProfile)
      BY <2>2
    <3> HIDE DEF r, st, rv, u, counted
    <3>2. counted.total_owner_reviews = Cardinality(Published(rv, u))
      BY <3>1 DEF CountReviews, NewProfile
    <3> QED
      BY <1>4, <2>2, <3>2 DEF Counts
  <2> QED
    BY <2>1, <2>2
<1> HIDE DEF r, st, rv, u, counted
<1> QED
  BY <1>5, <1>6 DEF Seen, Counts

LEMMA SeenStays ==
    ASSUME TrustInv, [TrustNext]_trustVars, NEW c \in Statement, Seen(c),
           StatementAt(c, "commit"), running'[c] = running[c], ~running[c].overtaken
    PROVE  Seen(c)'
<1> DEFINE u == CustomerIn(c)
           r == running[c]
<1>1. /\ r \in Running /\ r # Nothing /\ r.table \in {"bookings", "customer_reviews"}
      /\ r.booking \in Booking
  BY DEF StatementAt, TrustInv, TrustTypeOK, Running
<1>2. Counts(r, StagesSeen(c), ReviewsSeen(c), u) /\ CustomerIn(c)' = u
  BY DEF Seen, CustomerIn
<1>3. TrustInv'
  BY TrustStep
<1>4. CASE r.table = "bookings"
  <2>1. \A b \in Booking : CustomerOf[b] = u => stage'[b] = stage[b]
    BY <1>4, RowsStay
  <2>2. \A b \in Booking : CustomerOf[b] = u => StagesSeen(c)'[b] = StagesSeen(c)[b]
    BY <1>1, <1>3, <1>4, <2>1 DEF StagesSeen, TrustInv, TrustTypeOK
  <2>3. \A S : InStage(StagesSeen(c)', u, S) = InStage(StagesSeen(c), u, S)
    BY <2>2 DEF InStage
  <2>4. Counts(r, StagesSeen(c)', ReviewsSeen(c)', u)
    BY <1>2, <1>4, <2>3 DEF Counts
  <2> QED
    BY <1>2, <2>4 DEF Seen, Counts
<1>5. CASE r.table = "customer_reviews"
  <2>1. \A b \in Booking : CustomerOf[b] = u => ownerReviews'[b] = ownerReviews[b]
    BY <1>5, RowsStay
  <2>2. \A b \in Booking : CustomerOf[b] = u => ReviewsSeen(c)'[b] = ReviewsSeen(c)[b]
    BY <1>1, <1>3, <1>5, <2>1 DEF ReviewsSeen, TrustInv, TrustTypeOK
  <2>3. Published(ReviewsSeen(c)', u) = Published(ReviewsSeen(c), u)
    BY <2>2 DEF Published
  <2>4. Counts(r, StagesSeen(c)', ReviewsSeen(c)', u)
    BY <1>2, <1>5, <2>3 DEF Counts
  <2> QED
    BY <1>2, <2>4 DEF Seen, Counts
<1> QED
  BY <1>1, <1>4, <1>5

LEMMA SeenStep ==
    ASSUME TrustInv, [TrustNext]_trustVars, NEW c \in Statement, Seen(c)
    PROVE  Seen(c)'
<1>1. Moves(c)
  BY EachMoves
<1>2. running[c] # Nothing => running[c] \in Running
  BY DEF TrustInv, TrustTypeOK
<1>3. CASE running'[c] = running[c]
  <2>1. CASE StatementAt(c, "commit") /\ ~running[c].overtaken
    BY <1>3, <2>1, SeenStays
  <2>2. CASE ~(StatementAt(c, "commit") /\ ~running[c].overtaken)
    BY <1>3, <2>2 DEF Seen, StatementAt
  <2> QED
    BY <2>1, <2>2
<1>4. CASE running'[c] = Nothing \/ Begins(c)
  BY <1>4 DEF Begins, Seen, StatementAt
<1>5. ASSUME running[c] # Nothing, NEW at \in {"insert profile", "recount"},
             running'[c] = [running[c] EXCEPT !.at = at]
      PROVE  Seen(c)'
  <2>1. running'[c].at = at
    BY <1>2, <1>5 DEF Running
  <2> QED
    BY <2>1 DEF Seen, StatementAt
<1>6. ASSUME running[c] # Nothing, running'[c] = [running[c] EXCEPT !.overtaken = TRUE]
      PROVE  Seen(c)'
  <2>1. running'[c].overtaken = TRUE
    BY <1>2, <1>6 DEF Running
  <2> QED
    BY <2>1 DEF Seen
<1>7. CASE Continues(c)
  BY <1>5, <1>6, <1>7, RecountSees DEF Continues
<1> QED
  BY <1>1, <1>3, <1>4, <1>7 DEF Moves

\* A statement comes past the insert of a profile by inserting it.
LEMMA InsertedBefore ==
    ASSUME TrustInv, [TrustNext]_trustVars, NEW u \in Customer, NEW c \in Inserted(u)'
    PROVE  \/ c \in Inserted(u)
           \/ InsertProfile(c) /\ CustomerIn(c) = u
<1>1. /\ c \in Statement /\ running'[c] # Nothing
      /\ running'[c].at \in {"recount", "commit"} /\ CustomerOf[running'[c].booking] = u
  BY DEF Inserted, CustomerIn
<1>2. running[c] # Nothing => running[c] \in Running
  BY <1>1 DEF TrustInv, TrustTypeOK
<1>3. Moves(c)
  BY <1>1, EachMoves
<1>4. CASE running'[c] = running[c]
  BY <1>1, <1>4 DEF Inserted, CustomerIn
<1>5. CASE Begins(c)
  BY <1>1, <1>5 DEF Begins
<1>6. ASSUME running[c].at = "write", running'[c] = [running[c] EXCEPT !.at = "insert profile"],
             running[c] # Nothing
      PROVE  FALSE
  BY <1>1, <1>2, <1>6 DEF Running
<1>7. ASSUME InsertProfile(c), running'[c] = [running[c] EXCEPT !.at = "recount"],
             running[c] # Nothing
      PROVE  CustomerIn(c) = u
  BY <1>1, <1>2, <1>7 DEF Running, CustomerIn
<1>8. ASSUME Recount(c), running[c] # Nothing
      PROVE  c \in Inserted(u)
  <2>1. running[c].at = "recount"
    BY <1>8 DEF Recount, StatementAt
  <2>2. running'[c].booking = running[c].booking
    <3> DEFINE counted == IF running[c].table = "bookings"
                          THEN CountBookings(StagesSeen(c), CustomerIn(c), NewProfile)
                          ELSE CountReviews(ReviewsSeen(c), CustomerIn(c), NewProfile)
    <3>1. running'[c] = [running[c] EXCEPT !.at = "commit", !.counted = counted]
      BY <1>1, <1>8 DEF Recount, TrustInv, TrustTypeOK
    <3> HIDE DEF counted
    <3> QED
      BY <1>2, <1>8, <3>1 DEF Running
  <2> QED
    BY <1>1, <1>8, <2>1, <2>2 DEF Inserted, CustomerIn
<1>9. ASSUME StatementAt(c, "commit"), running'[c] = [running[c] EXCEPT !.overtaken = TRUE],
             running[c] # Nothing
      PROVE  c \in Inserted(u)
  <2>1. running'[c].booking = running[c].booking
    BY <1>2, <1>9 DEF Running
  <2> QED
    BY <1>1, <1>9, <2>1 DEF Inserted, CustomerIn, StatementAt
<1>10. CASE Continues(c)
  BY <1>6, <1>7, <1>8, <1>9, <1>10 DEF Continues
<1> QED
  BY <1>1, <1>3, <1>4, <1>5, <1>10 DEF Moves

LEMMA OneInsertsStep ==
    ASSUME TrustInv, OneInserts, [TrustNext]_trustVars
    PROVE  OneInserts'
<1> SUFFICES ASSUME NEW u \in Customer, profiles'[u] = Nothing,
                    NEW c \in Inserted(u)', NEW d \in Inserted(u)', c # d
             PROVE  FALSE
  BY DEF OneInserts
<1>1. profiles[u] = Nothing
  BY TablesMove, CommitKeeps
<1>2. c \in Statement /\ d \in Statement
  BY DEF Inserted
<1>3. ~(c \in Inserted(u) /\ d \in Inserted(u))
  BY <1>1 DEF OneInserts
<1>4. ASSUME NEW e \in Statement, NEW f \in Statement, e # f, InsertProfile(e),
             CustomerIn(e) = u, f \in Inserted(u) \/ InsertProfile(f), f \in Inserted(u)'
      PROVE  FALSE
  <2>1. f \notin Inserted(u)
    BY <1>1, <1>4 DEF InsertProfile, ProfileFree, Inserted
  <2>2. running'[f] = running[f]
    BY <1>4 DEF InsertProfile, Proceed, TrustInv, TrustTypeOK
  <2> QED
    BY <1>4, <2>1, <2>2 DEF Inserted, CustomerIn
<1> QED
  BY <1>2, <1>3, <1>4, InsertedBefore

LEMMA RecountInvariant == TrustSpec => []RecountInv
<1>1. TrustInit => RecountInv
  BY TrustInvInit DEF TrustInit, RecountInv, Seen, StatementAt, OneInserts, Inserted
<1>2. RecountInv /\ [TrustNext]_trustVars => RecountInv'
  BY TrustStep, SeenStep, OneInsertsStep DEF RecountInv
<1> QED
  BY <1>1, <1>2, PTL DEF TrustSpec

\* A commit in a state the invariant holds of.
LEMMA CommitIsExact ==
    ASSUME RecountInv, NEW c \in Statement, CommitStatement(c), ~running[c].overtaken,
           NEW p, p = profiles'[CustomerIn(c)]
    PROVE  /\ running[c].table = "bookings" =>
                /\ p.completed_bookings = Cardinality(InStage(stage', CustomerIn(c), {"completed"}))
                /\ p.cancelled_bookings = Cardinality(InStage(stage', CustomerIn(c), {"cancelled"}))
                /\ p.total_bookings = Cardinality(
                       InStage(stage', CustomerIn(c), {"confirmed", "completed", "cancelled"}))
           /\ running[c].table # "bookings" =>
                p.total_owner_reviews = Cardinality(Published(ownerReviews', CustomerIn(c)))
<1> DEFINE u   == CustomerIn(c)
           r   == running[c]
           old == IF profiles[u] = Nothing THEN NewProfile ELSE profiles[u]
<1>1. /\ StatementAt(c, "commit") /\ r \in Running /\ r.counted \in Profile /\ u \in Customer
  BY SeenIsTyped DEF CommitStatement, StatementAt, RecountInv, TrustInv, RunOK, Running
<1>2. /\ stage' = StagesSeen(c) /\ ownerReviews' = ReviewsSeen(c)
      /\ profiles' = [profiles EXCEPT ![u] = Store(r.table, old, r.counted)]
  BY DEF CommitStatement
<1>3. Counts(r, stage', ownerReviews', u)
  BY <1>1, <1>2 DEF RecountInv, Seen
<1>4. old \in Profile
  BY <1>1, NewIsSound DEF RecountInv, TrustInv, TrustTypeOK
<1>5. p = Store(r.table, old, r.counted)
  BY <1>1, <1>2 DEF RecountInv, TrustInv, TrustTypeOK
<1> HIDE DEF u, r, old
<1>6. /\ r.table = "bookings" =>
            /\ p.completed_bookings = r.counted.completed_bookings
            /\ p.cancelled_bookings = r.counted.cancelled_bookings
            /\ p.total_bookings = r.counted.total_bookings
      /\ r.table # "bookings" => p.total_owner_reviews = r.counted.total_owner_reviews
  BY <1>1, <1>4, <1>5 DEF Store, Profile
<1> QED
  BY <1>3, <1>6 DEF Counts, u, r

\* The first to store a profile has nobody to overtake.
LEMMA FirstIsAlone ==
    ASSUME RecountInv, NEW c \in Statement, CommitStatement(c),
           profiles[CustomerIn(c)] = Nothing, NEW d \in Statement, d # c
    PROVE  running'[d] = running[d]
<1> DEFINE u      == CustomerIn(c)
           marked == Overtaken(running[c].table, u)
<1>1. u \in Customer /\ c \in Inserted(u)
  BY SeenIsTyped DEF CommitStatement, StatementAt, RecountInv, Inserted
<1>2. d \notin Inserted(u)
  BY <1>1 DEF RecountInv, OneInserts
<1>3. marked[d] = running[d]
  BY <1>2 DEF Overtaken, Inserted
<1>4. running' = [marked EXCEPT ![c] = Nothing] /\ marked \in [Statement -> Running \cup {Nothing}]
  BY OvertakenMoves DEF CommitStatement, RecountInv
<1> HIDE DEF marked
<1> QED
  BY <1>3, <1>4

\* What a trigger stores is what the tables say when it commits, unless it was
\* overtaken; and nobody is overtaken by the change that makes the profile.
THEOREM StaleProfilesWereOvertaken == TrustSpec => StaleOnlyIfOvertaken
<1> DEFINE Exact(c) ==
      LET u     == CustomerIn(c)
          p     == profiles'[u]
          In(S) == Cardinality({b \in Booking : CustomerOf[b] = u /\ stage'[b] \in S})
      IN  /\ ~running[c].overtaken =>
                 IF running[c].table = "bookings"
                 THEN /\ p.completed_bookings = In({"completed"})
                      /\ p.cancelled_bookings = In({"cancelled"})
                      /\ p.total_bookings = In({"confirmed", "completed", "cancelled"})
                 ELSE p.total_owner_reviews = Cardinality(
                          {b \in Booking : /\ CustomerOf[b] = u /\ ownerReviews'[b] # Nothing
                                           /\ ownerReviews'[b].status # "removed"})
          /\ profiles[u] = Nothing =>
                 \A d \in Statement \ {c} : running'[d] = running[d]
<1>1. ASSUME RecountInv, [TrustNext]_trustVars, NEW c \in Statement, CommitStatement(c)
      PROVE  Exact(c)
  <2> DEFINE u == CustomerIn(c)
             shown == {b \in Booking : /\ CustomerOf[b] = u /\ ownerReviews'[b] # Nothing
                                       /\ ownerReviews'[b].status # "removed"}
  <2>1. ownerReviews' \in [Booking -> OwnerReview \cup {Nothing}]
    BY <1>1, CommitKeeps DEF RecountInv
  <2>2. Published(ownerReviews', u) = shown
    BY <2>1 DEF Published, OwnerReview
  <2>3. \A S : InStage(stage', u, S) = {b \in Booking : CustomerOf[b] = u /\ stage'[b] \in S}
    BY DEF InStage
  <2>4. \A d \in Statement \ {c} : profiles[u] = Nothing => running'[d] = running[d]
    BY <1>1, FirstIsAlone
  <2>5. ~running[c].overtaken =>
            IF running[c].table = "bookings"
            THEN /\ profiles'[u].completed_bookings = Cardinality(InStage(stage', u, {"completed"}))
                 /\ profiles'[u].cancelled_bookings = Cardinality(InStage(stage', u, {"cancelled"}))
                 /\ profiles'[u].total_bookings = Cardinality(
                        InStage(stage', u, {"confirmed", "completed", "cancelled"}))
            ELSE profiles'[u].total_owner_reviews = Cardinality(Published(ownerReviews', u))
    BY <1>1, CommitIsExact
  <2> QED
    BY <2>2, <2>3, <2>4, <2>5
<1>2. RecountInv /\ [TrustNext]_trustVars => \A c \in Statement : CommitStatement(c) => Exact(c)
  BY <1>1
<1> QED
  BY <1>2, RecountInvariant, PTL DEF TrustSpec, StaleOnlyIfOvertaken
=============================================================================
