# A TLA+ model of bookmo

bookmo is the Go backend of a booking platform: customers lock a slot of a
service, book it, pay, and wait for the owner's approval; confirmed bookings can
be cancelled or moved; payments run through PayMongo; notifications are pushed
by a worker. Its state lives in PostgreSQL and Redis, every HTTP request runs in
a goroutine of its own, and nearly every query is a statement that commits by
itself. The repository has no tests. This directory models the parts of it in
which interleavings, failures and long sequences of calls decide whether it is
correct, checks the models with TLC, and proves the most important invariants
with TLAPS. Paths below are relative to `src/`.

## The system

| component | state | operations | what makes it hard |
|---|---|---|---|
| bookings (`internal/bookings`) | tables `bookings`, `booking_locks`, `reschedule_requests` | lock a slot, book, confirm payment, approve, reject, cancel, ask for a reschedule, answer it | check and write are separate statements; one transaction with row locks; locks expire; three attempts; a capacity shared by bookings and locks |
| payments (`internal/payments`) | `payment_intents`, `refunds`, `webhook_events`; the money at PayMongo | create an intent, capture, void, refund, handle a webhook | two parties without a common transaction; webhooks come late, twice, or before the row they are about |
| notifications (`internal/notifications`) | `notifications`, `device_tokens`, `notification_logs`; the Redis list `notification_jobs` | post, mark read, register a device; the worker pops jobs and pushes with retries | a consumer that may stop after it popped; devices that come and go during a delivery |
| participants (`internal/participants`) | `booking_participants` | invite, accept, decline, leave | the booking's status is read before the write; jobs pushed on the notification queue |
| reviews (`internal/reviews`) | `reviews`, `review_flags`, `review_responses`; `rating_summaries`, kept by a trigger | write, flag, respond | a trigger that adds and subtracts; flags stored, counted and acted upon in three statements |
| customer_reviews (`internal/customer_reviews`) | `customer_reviews`, `customer_review_disputes`; `customer_trust_profiles`, kept by two triggers | write, dispute | triggers that count anew from a snapshot, while other statements commit |
| availability (`internal/availability`) | `availability_rules`, `date_overrides` (read only) | compute free slots, check a conflict | interval arithmetic, a conflict check that differs from that of bookings |
| search (`internal/search`) | cached feeds in Redis | search, invalidate | a stale feed cached after an invalidation; one feed for many questions |
| profiles | `customer_profiles` | read and update single rows | - |
| server, worker processes | - | `/health`; a tick | neither starts the components yet |
| auth, owners, services, users, scheduler | - | stubs | - |
| middleware, config, db, redis | - | token check, configuration, connections | - |

The components call one another hardly at all so far: the webhook does not
confirm a booking's payment, approval does not capture, nothing completes a
booking, no job enforces a deadline. They meet in the database (payments, reviews
and participants refer to rows of `bookings`) and in the Redis list, on which
participants pushes jobs that the worker of notifications consumes. The models
take each component as its code stands, with every call that is open to its
callers allowed at any time.

What each component should get right:

- bookings: confirmed bookings never exceed a service's capacity; a moved booking
  is replaced by exactly one other, whole or not at all; at most one request
  waits per booking; attempts are counted; a rejected request stays rejected; no
  call waits forever.
- payments: the tables never claim something PayMongo has not done; a wallet is
  refunded and never voided; an event handled twice does no harm.
- notifications: at most three attempts, none after success; only by rows of
  `device_tokens` that are the user's and active; a device that works is not dropped;
  no job starves.
- participants: a completed booking is final; "booked with" is mutual, agreed, and
  never includes oneself or someone who left; nobody is told twice, or of something
  that was not stored.
- reviews: the totals and the average of a service are those of its visible reviews;
  the third flag takes effect, whoever flags at the same time.
- customer_reviews: the numbers of a profile fit together, and a stale one has
  been overtaken by a change that will count anew.
- availability: a slot is offered exactly if it could be locked.
- search: no feed survives the invalidation that should remove it; the pages that a
  feed holds whole are those the database would have given when it was read, for the
  place and radius of whoever asked first.

## The modules

`SlotLedger` is an abstract specification: holders take, release and hand over
claims on services, within capacity. It knows nothing of locks, statuses or
requests.

`BookingTables` has the three tables of bookings as functions from ids to rows,
and the queries of `repository.go`: the sum of overlapping active bookings and of
overlapping live locks, the conflict check, the pending requests of a booking.
Ids are never reused. A slot may be empty, never inverted: `CreateBooking` parses
its times without comparing them, and the expression index on
`tstzrange(start_time, end_time)` refuses inverted rows. SUM(quantity) is modelled
as the number of (row, unit) pairs, which needs no recursion.

`BookingService` has one action per call of `service.go`, run from the first
statement to the last: `LockSlot`, `CreateBooking`, `ConfirmPayment`, `Approve`,
`Reject`, `Cancel`, `RequestReschedule`, `ApproveReschedule`, `RejectReschedule`,
and `ExpireLock` for the five minutes of a lock. A call that the code refuses
changes nothing and has no action. `Careful` names the services whose customers
book exactly what they locked and whose used locks get deleted; on the others a
booking takes whatever interval and quantity its request says, as the code lets
it, and a lock may survive, as the ignored error of `DeleteLock` lets it.

`BookingRequests` takes the same calls apart: `call[c]` remembers which statement
caller `c` makes next and what it has read. Between two statements anything may
happen: other calls, expiry, and an end of the call (`Abort`), since the handlers
pass the request's context down. The transaction of `ApproveReschedule` holds the
request's row and then the booking's; its three writes become visible with the
commit, so they are one action. `UPDATE` of a row held by a transaction waits.
So does the `INSERT` of a request for such a booking, through its foreign key.
The unique index on pending requests is part of the insert.

`PaymentService` models the payment service at the same grain, with PayMongo
(`gateway`) as an external party that does or refuses what it is asked, and sends
`payment.paid` for money it has taken, any number of times.

`Notifications` models the handlers that post, the jobs that participants pushes,
the list, the rows of devices and the worker loop. `Stop` cancels the worker's
context: from then on its queries fail and it waits for nothing, but it still tries
each device that is left once; `Restart` is a kill. A device is a row, a user with a
token. External: a provider that delivers, fails, or refuses the token of an app that
was removed.

`Participants` models invitations and answers in the same way: `calls[c]` is a call
with the statement it makes next. The rows of `booking_participants` say whether
`responded_at` and `left_at` are set; jobs pushed on the notification list are
kept as what has been announced to whom. `late` is the one field no statement
reads: it notes whether the booking was completed before the call began. External:
`Complete`, which nothing in the repository does yet, and the three columns
`allows_participants`, any value of which a call may read. `BookedWith` is the
history query; its two halves, `GuestsOf` and `HostsOf`, have conditions of their own,
as in the SQL.

`Reviews` has the calls of `internal/reviews` statement by statement
(`reviewCalls[c]` is a call and the statement it makes next); the trigger of
migration 009 is part of the statement that fires it, as it updates the summary
under the summary's row lock. `restored` and `unfinished`, which no statement reads,
note the removed reviews that a flag has shown again and the reviews at which a
call to flag stopped. External: completion of bookings, and removal by a moderator.

`CustomerReviews` has the statements about one customer's bookings and reviews with
the triggers of migration 010 taken apart: the insert of the profile, which waits
for another insert of it, the count, and the wait for the profile's row, between
which other statements may commit. A statement's own writes are seen by others
only with its commit. `overtaken`, read by no statement, notes that one did.

`Availability` is a module of operators over `BookingTables`: the hours of a day,
the windows cut out of them, what bookings and locks leave of each, and the conflict
check that nothing calls. It reads the bookings and the locks of one state; the
code reads them in two queries, of which see the weaknesses below.

`Search` has the cached feed: a look into the cache, the query, the store, in steps
of their own; expiry; the deletion of nine cells one after the other. A place is a
pair of integers in thirds of a cell; `%.2f` prints "-0.00" for what is rounded to
zero from below, so a cell on a line of zero has two keys. External: what is listed
where and in which order (`Listings`, `Ranking`), and the calls of the invalidation.

`Lists` says what a loop or a query leaves of a list, by the positions it keeps: the
slots with room in `Availability`, the ranked results in `Search`. It stands for the
usual filter, which is recursive and so could not be reasoned about.

`MC*` modules only give TLC its constants. `MCBookingRecords`, `MCReputation` and
`MCDiscovery` put two components side by side that share nothing that changes, and
choose one at the start. `MCBookingMoves` starts with two bookings made. The eight `*Proofs` modules hold the theorems.

Left out, except in `Participants`: who the caller is (a caller who is not the
customer or does not own the branch gets an error and changes nothing). Left out
everywhere: columns that no guard reads,
and reads that change nothing (queues, lists, responses).

## What the runs show

| run | specification and bounds | what it shows |
|---|---|---|
| `service` | `BookingService`; two services with 2 units, one of them careful; 3 bookings, 2 locks, 2 requests; quantities 1..2; instants 0..1 | `ConfirmedWithinCapacity`, `ClaimsWithinCapacity` (careful services only), `ReplacedOnce`, `AttemptsCountRequests`, `PendingOnLiveBooking`, and `ImplementsLedger`: the confirmed bookings refine `SlotLedger` |
| `requests_one` | `BookingRequests` with one caller; 3 bookings, 2 locks, 4 requests, 4 units | `ImplementsSequential`: the statements of a call add up to the one step `BookingService` takes |
| `requests_moves` | `SettledSpec`: b1 confirmed, b2 waiting for approval or confirmed, perhaps a live lock; two callers that ask to move, approve, reject or approve b2, aborts, fairness; 4 bookings, 2 requests, 3 units | `OnePendingRequest`, `RequestMovesOnce`, `MovesAreWhole`, `RejectionIsFinal`, `EveryCallReturns` |
| `requests_approvals` | two callers that lock, book, pay, approve; 3 bookings, 2 locks, quantities 1..2 of 4 units | `ConfirmedWithinCapacity` under interleaving |
| `booking_records` | payments: two callers, two payments of one or two bookings, two refunds each; or participants: one booking, its customer and two other users, two calls at a time, aborts, the booking completed at any moment | `RecordsAreBacked`, `OnlyHoldsAreReleased`; `BookedWithMutual`, `HistoryIsAgreed`, `InvitedOnce`, `OnlyTruthIsAnnounced`, `CompletedIsClosed` |
| `notifications` | two users who share a device, stops, restarts and errors, queue of two, fairness | `AttemptsEnd`, `PushedByActiveRows`, `OnlyDeadTokensAreDropped`, `JobsAreTaken` |
| `reputation` | reviews: one service, two bookings, three users, two calls at a time that may stop; or profiles: one customer, two bookings, two statements at a time | `SummaryIsExact`, `TotalsNeverOverstate`, `ThreeFlagsDecide`, `TrustIsConsistent`, `StaleOnlyIfOvertaken` |
| `discovery` | slots: a service of each type, a day of three steps, a booking and two locks, days with and without rules and overrides; or feeds: four places in three cells around one branch, one search and one invalidation at a time | `OffersAreBookable`, `AnswersFillTheDay`, `HitsArePages`, `InvalidatedIsFresh` |

Each property has a mutant: a plausible slip in the code (no re-check, no row
lock, an error ignored, RPUSH for LPUSH, ...) under which its run finds it
violated.

### Where code and documents disagree

| run | what happens |
|---|---|
| `move_after_cancel` | request, cancel, approve: a cancelled booking becomes a confirmed one (`docs/domain-glossary.md:90`) |
| `overbooked_by_moves` | `RequestReschedule` writes back the status it has read; when its request was approved before that, the replaced booking is confirmed again. Twice, and the service is overbooked (`docs/domain-glossary.md:64,83`) |
| `stale_buckets` | a review is removed and its star bucket keeps it (`BucketsFollowStatus`): the trigger's branch for updates changes the totals only, where `docs/decisions/ADR-003-rating-summaries-trigger.md:12` has the buckets follow the status and its rebuild (line 47) leaves removed reviews out |
| `short_feeds` | a feed stored for a customer with a limit ends there (`FeedsAreComplete`), so that another customer's second page out of it is empty; the comment at `internal/search/service.go:73-74` has the entry be the "complete ranked list for this cell" |

Two more disagreements need no run. `Approve` re-checks the slot with a sum that
includes the booking itself (`internal/bookings/service.go:132-139`), so a booking
that takes more than half of its service's units can never be approved, and a
service with one unit can approve nothing: that is the theorem
`LargeBookingsNeverApproved`. And `Decline` never asks whether the booking is
completed, against `docs/decisions/ADR-008-booking-participants.md:31`: it is the
exception that `CompletedIsClosed` makes.

As long as every approval counts its own booking twice, approvals alone cannot
overbook, interleaved or not (`requests_approvals`), since a booking waiting for
approval is counted by every other approval too: that is the theorem
`InterleavedApprovalsFit`, in which bookings may also be asked to move, but not be
rejected, cancelled or moved. Each of these three can take a booking out of the
calendar that a call under way then confirms; `overbooked_by_moves` shows one of
the ways. Removing the double count the
obvious way, by counting only confirmed bookings, would break it: that is the
mutant of this run.

Other known weaknesses are in the models, or next to them, and have no property
that claims their absence.

- bookings: two callers of `LockSlot` may both lock the last unit; an `Approve`
  under way overwrites a `Reject`; two transactions that move different bookings
  lock only their own rows, and both may pass the check of the same slot
  (`internal/bookings/repository.go:262`); a call stopped between inserting a request
  and counting it leaves the attempt uncounted; a `RejectReschedule` that has read
  'pending' may mark a request rejected whose move has been made. `LockSlot` asks for
  the capacity only, whatever the `capacity_type` (`docs/domain-glossary.md:64`).
- payments: two simultaneous deliveries of an event are both handled, though the
  comment at `internal/payments/service.go:69` says they are not; a refund repeated is
  made twice; an event recorded but not handled is lost.
- notifications: the jobs of participants carry no notification id, so none of their
  attempts is logged; a job popped by a worker that stops is lost. When another user
  registers the same token, `SaveDeviceToken` (`internal/notifications/repository.go:134-147`)
  leaves the first user's row active: the phone that changed hands goes on getting the
  first user's pushes, and `PushedByActiveRows`, which speaks of rows, allows it.
- reviews: a flag shows a removed review again, and its second removal subtracts it
  twice. `GREATEST` clamps the two totals, of which `TotalsNeverOverstate` speaks,
  but not the average: after that second removal it can be 5.0 with nothing shown.
  The rebuild of ADR-003 counts published reviews only, while the trigger keeps
  flagged ones in the totals. Nothing checks the windows of 14 days. A recount of a
  profile may store a number that another statement has overtaken (migration 010).
- availability: bookings are read before locks, and a lock turned into a booking in
  between counts as neither; `step_minutes` = 0, which the schema allows, never ends
  the loop, and the model assumes at least 1 of it and of `min_duration`; the branch
  of the URL is not compared with that of the service; nothing calls `CheckConflict`.
- search: the cached feed is the first page of whoever asked first (`short_feeds`),
  under a key without radius, limit or exact place: `HitsArePages` says only what
  such a feed holds whole, and of the first customer's inquiry; nothing calls
  `InvalidateCellsNearBranch`; its cells are about 1.1 km wide, ADR-004 has geohash
  cells and a radius of 10 km. The query of `internal/search/repository.go:72,76`
  uses names of the select list inside expressions of ORDER BY, which PostgreSQL
  refuses: until that is corrected every search fails (`StopSearch`), and the other
  steps of the model say what holds then.

### Bounds, and why they are enough

Rows are interchangeable apart from their contents, so what matters is how many
take part. A capacity is exceeded by two claims that both fit alone; three
bookings let one be moved twice in a row or two be moved, and two locks compete
for what is left. Two requests are enough for a second that waits on, or races
with, the first; the limit of three attempts is approached with the four
requests of `requests_one`. Two instants give full and empty intervals, and
empty ones matter: a booking of one conflicts with nothing, not even itself, and
can be moved to a full one. Overlaps that are neither equal nor disjoint need three
instants; they are left to the theorems, which hold for any set of instants. Two
callers show every race of one statement between two others; three would only add
who comes second. Quantities of 1 and 2 on 2 or 4 units tell a sum of rows from a
count of rows. Two payments, one for each method or two of one booking, show every
confusion of rows by `GetByBookingID`. One booking with two guests is enough for the
participants, as no statement touches two bookings except the history query, for
which the theorems hold with any number.

`requests_moves` starts where calls of `BookingRequests` lead: customers lock a slot
each, book (b2 perhaps for another interval than was locked) and pay, the owner
approves b1 and perhaps b2, and one more lock may be live. From there four bookings
and two requests let two transactions be open at once, each with a replacement to
insert, so that two could wait for each other.

Two bookings of one service tell a sum from an average, let one review be removed
and restored while another is written, and bring an average to its rounding. Three
users are the number of flags that decides, and two of their calls at a time leave
none that has seen all rows. Two statements of one customer show every order of
insert, count and store; customers share no row. A day of three steps has windows
that touch its ends, that overlap a booking in part, and, with a step of two, a rest
that is not offered; bookings may reach over opening and closing time. Four places
are a branch, another in its cell that ranks differently, one in the next cell, and
one beyond the line of zero; two offerings and a limit of one give a second page.

Ids run out in an instance (a call that inserts starts only while rows are left
for it), so most runs switch deadlock checking off; `notifications` has it on.
Symmetry over ids, services and callers is used for safety only; no liveness run uses it.

### Fairness

`requests_moves` assumes strong fairness of each caller's next statement (`Fairness`): the Go
scheduler runs every goroutine and PostgreSQL grants a row lock in the order of
asking, so a statement that can run again and again does run. It assumes nothing
about clients calling, calls being stopped, or locks expiring; and nothing of
PostgreSQL's deadlock detection, which would end one of two calls that wait for each
other by an error, so that the run shows there are none to detect. `notifications`
assumes weak fairness of the worker's loop and nothing about handlers, devices or
failures; the worker may be stopped and restarted for ever and a job is still taken up, because a
restart costs a job that was already popped.

## What is proved

For all values of the constants (any services, capacities, instants and
quantities, finitely many bookings and locks), under the assumptions named in
`BookingTables`, `BookingService`, `BookingRequests`, `PaymentService`, `Notifications`,
`Participants`, `Reviews`, `CustomerReviews`, `Availability` and `Search`. They give the
constants their types and tell the marks for "no row" and "no call" from rows and
calls; `Availability` also assumes that the instants have no gaps. Calls may be any
number at a time, where nothing else is said.

`BookingServiceProofs`:

- `TypeCorrect`: `Spec => []TypeOK`.
- `ConfirmedNeverOverbook`: `Spec => []ConfirmedWithinCapacity`. The inductive
  invariant `CapacityInv` adds only that requests name existing rows. The heart is
  a lemma on one instant: the confirmed bookings that cover an instant of a slot
  are among the active bookings that overlap the slot, so a check that found
  room for a slot found room at each of its instants; the sum over a set with one
  row more is the sum plus its quantity.
- `ServiceImplementsLedger`: the refinement of `SlotLedger`, with the mapping
  `HeldClaims`. `Approve` maps to taking a claim, `Cancel` to releasing it,
  `ApproveReschedule` to a hand-over (or, for a cancelled original, to taking a
  claim), every other call to a stutter.
- `MovedBookingsReplacedOnce` and `RequestsWaitOnLiveBookings`, from `LineageInv`:
  a pending request waits alone on a booking that is confirmed or cancelled, so
  approving it finds a booking without replacement and without approved
  request.
- `LargeBookingsNeverApproved`, an action property: the check that `Approve` makes
  counts the booking itself.
- `LockHoldsTheSlot`: `Spec => []ClaimsWithinCapacity`. Here `ClaimsInv` is the
  property with types and named rows: a check counts bookings of every active
  status and live locks, so the instants of the slot have room for one more; a booking
  takes the place of a lock of the same claim; the transaction's check leaves out
  the original only.
- `AttemptsAreRequests`: `Spec => []AttemptsCountRequests`. `AttemptsInv` adds that
  the requests of a booking are finitely many, without which counting one more says
  nothing.

`BookingRequestsProofs`, for any number of callers, each statement a step:

- `RequestsTyped`, `RejectedForGood`, `RequestsWaitAlone`, `MovesNeverHalfDone` and
  `AnsweredRequestsMoveOnce`. `RequestsInv` says what each call under way has found
  and may rely on; its core is that a transaction has seen the request it holds
  waiting, that it still waits, and that no other transaction holds it. So nobody
  else answers it before the commit, and each replacement has an answered request
  of its own. That one waits alone is the unique index's doing, not that of the look
  for a pending request, which any number of calls may have passed.
- `InterleavedApprovalsFit`: `BookingsAreKept => (Spec => []ConfirmedWithinCapacity)`,
  for callers that neither reject, cancel nor move. `GrantsInv` bounds more than the
  confirmed bookings: it counts those *granted*, which are also those whose approval
  has found room and not written yet, and those that a request for a move is about to
  write back as confirmed. Every booking is active, so the sum of bookings that an
  approval reads has all granted ones in it; a booking once granted stays granted or
  waits again. That sum is of an earlier state when the approval goes on, which is why
  "granted" begins with the sum and not with the write.
- `StatementsImplementCalls`: `OneAtATime => (Spec => ImplementsSequential)`, for one
  caller whose calls are not stopped. The statement that decides a call (the insert,
  the update, the commit) maps to the call in `BookingService`, every other statement
  to a stutter. `SequenceInv` says that what the call has read is still so and that a
  check it has passed would still pass, since only locks expire meanwhile and that
  frees room. `CountedBookings` and `HeldLocks` show the tables as they will be when
  the call is done: the attempt counted with the request, the lock that was found live
  still live until it has been used (`TablesSeen`).
- `OneCallerNeverOverbooks` and `OneCallerInherits`: under the same conditions what is
  proved of `BookingService` holds of its statements, with every kind of call allowed.
  The overbooking in `overbooked_by_moves` is therefore a matter of interleaving,
  that in `move_after_cancel` is none.

`PaymentServiceProofs`:

- `PaymentsInvariant`, and from it `PaymentsTyped`, `PaymentRecordsBacked` and
  `WalletsNeverVoided`, for any number of concurrent callers. The invariant
  `PaymentInv` says for each call under way what it has already brought about at
  PayMongo (a call about to write 'voided' has released a hold, and it got there
  only with a card), and counts refunds: rows plus calls that are about to write a
  row never exceed the refunds made. Without the count, the bound on rows is not
  inductive.

`ParticipantsProofs`, for any number of users, bookings and concurrent calls:

- `ParticipantsInvariant`, and from it `ParticipantsTyped`, `HistoryIsMutual`,
  `HistoryAgreedUpon`, `InvitedAtMostOnce`, `AnnouncedIsTrue` and
  `ClosedOnceCompleted`. `ParticipantsInv` says what the next statement of each call
  may rely on (a call about to insert was not late and names someone else than the
  customer; a call about to tell the customer has stored the answer), and that at
  most one call is about to tell a user of an invitation, and only while nobody has
  told: without that, `InvitedOnce` is not inductive. That the tables only grow
  keeps the calls that do not move sound.

`NotificationsProofs`, for any users, devices and length of the list:

- `NotificationsTyped`, `AttemptsAreBounded`, `PushesUseActiveRows` and
  `WorkingDevicesStay`. `AttemptsInv` says that a notification's job is in one place
  at most, in the list or with the worker, that the worker has not attempted yet
  the devices still before it, and that for the one at hand the log is short of its
  limit and without success. Without the first part a second job could begin the
  attempts anew. A refused token is of an app no longer installed, which no step
  installs again under that token. The rows the worker has read and not yet served
  stay active, since the only row it switches off is the one it has just served: so
  a push goes by an active row however long ago that was read.

`ReviewsProofs`, for any services, bookings, users and calls:

- `ReviewsTyped`, `ThreeFlagsAreEnough`, `SummariesExact` and `TotalsAreBounded`, of
  which the last two speak of totals and average, and of totals only. The flags: whoever stores the third counts after it, so
  as long as nobody stopped a call is under way that will see three. The summaries:
  `SummaryInv` relates the totals the trigger keeps to the visible reviews, equal
  to them as long as nothing was shown again and never above them, with sums of stars
  as cardinalities of finite sets.

`CustomerReviewsProofs`, for any customers, bookings and statements at a time:

- `TrustTyped` and `ProfilesAreConsistent`. `TrustInv` adds that what a statement
  has counted is consistent in itself; the two triggers store disjoint parts of a
  profile, each from one count. That an average of n marks lies between one star and
  five is arithmetic on the stars as pairs (`MarkBounds`, `AverageInRange`).
- `StaleProfilesWereOvertaken`. `RecountInv` says that a recount not overtaken is what
  the tables, with the statement's own row, still give, since a commit on the same
  customer's rows marks it (`RowsStay`); and that of the statements about a customer
  without a profile one at most is past the insert of it, which is why the first
  commit finds no other recount.

`DiscoveryProofs`, for any services, days and bookings, and any places, branches and
number of searches:

- `OffersMatchBookings` and `AnswersAreComplete`, over the tables that `BookingService`
  fills and any hours that have their types (`[]HoursTypeOK`; nothing in the repository
  writes them, so no step of the models does). The loop over the windows of a day is
  the list of the steps that fit: its n-th window begins n - 1 steps after opening, and
  the windows kept are counted by position (`NthExists`, `NthRuns`), so that none is
  lost or repeated and the order stays. `UsedType` and `RangeCoversSlot` show that the
  rows fetched for the whole day and filtered per slot are the rows `LockSlot` would
  sum: that is why two different computations agree.
- `HitsArePagesOfTheQuery`. Its invariant is that a feed, and what a search is about to
  store, is the page its query gave at that time; a piece of a piece of the ranked
  list is a piece of the list (`PieceOfTop`), and the right one where the page ends
  within the first customer's or the list within the feed.
- `InvalidationLeavesFresh`. `InvalidationInv` says that the cells an invalidation has
  come past stay fresh, feeds and searches about to store one alike; a lemma
  (`NeighboursAreReached`) shows by arithmetic on cells that its two loops come past
  the key of every place next to the branch, off the lines of zero.

Every safety property of a passing run is the subject of a theorem, two of them for part
of the calls or callers: `ConfirmedWithinCapacity` of interleaved calls, which fails
for the others, and `ImplementsSequential`, which is a claim about one caller. Only
model-checked is liveness (`EveryCallReturns`, `JobsAreTaken`): the provers know
neither ENABLED nor fairness.

## Plan

The modules were written in this order, each with its runs and then its proofs:
`SlotLedger`, `BookingTables`, `BookingService`; `BookingRequests`; `PaymentService`;
`Notifications`; `Participants`; `Reviews` and `CustomerReviews`; `Availability`;
`Search`. What is left:

1. More theorems about interleaved calls of `BookingRequests`: which of the properties
   of `BookingService` hold with any number of callers, besides those proved.
2. When the code connects its components (a webhook that confirms a payment, an
   approval that captures, a worker that runs the jobs of deadlines), modules that
   compose those that are now apart.

## Not modelled

Profiles (single rows that their owner reads and updates, nothing that relates two
of them), the processes and the stubs (no operations yet), authentication,
configuration and connections, the keyword search, categories, ranking by distance
and text (PostgreSQL's), waiting times, windows and deadlines as clock values, and,
except in `Participants`, who the caller is.
