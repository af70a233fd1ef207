------------------------------- MODULE Search -------------------------------
(***************************************************************************)
(* internal/search: the feed of services near a place, kept in Redis for   *)
(* every cell of a grid.                                                   *)
(*                                                                         *)
(* A search looks into the cache, asks the database on a miss and stores   *)
(* what it got, in steps of its own; feeds expire; an invalidation deletes *)
(* the feeds of nine cells one after the other.  A place is a pair of      *)
(* coordinates in thirds of a cell, which avoids the ties of rounding.     *)
(*                                                                         *)
(* External: the services listed near each place and their order, which    *)
(* the query of the repository computes, changes of the listing, and the   *)
(* calls of InvalidateCellsNearBranch, which nothing in the repository     *)
(* makes yet.                                                              *)
(*                                                                         *)
(* Left out: the keyword search, which only reads the database; categories *)
(* (each has feeds of its own, and an invalidation deletes all of a cell); *)
(* the length of a feed's life.                                            *)
(***************************************************************************)
EXTENDS Integers, Sequences, Lists

CONSTANTS
    Place,
    Branch,         \* places of branches
    Offering,       \* rows of services
    Ranking,        \* what lies around a place, in the order of a feed
    Reach,          \* how much of it lies within a radius
    Listings,       \* the sets of offerings that may be listed at a time
    defaultLimit,
    maxLimit,
    Inquiry,        \* what customers ask: place, radius, limit, offset
    Searcher,       \* searches that may be under way at a time
    Missing         \* no feed, no search, no invalidation

ASSUME SearchAssumption ==
    /\ Place \subseteq Int \X Int /\ Branch \subseteq Place
    /\ Ranking \in [Place -> Seq(Offering)]
    /\ Listings # {} /\ Listings \subseteq SUBSET Offering
    /\ defaultLimit \in 1..maxLimit /\ maxLimit \in Nat
    /\ Inquiry \subseteq [place: Place, radius: DOMAIN Reach, limit: Nat, offset: Nat]
    /\ Reach \in [DOMAIN Reach -> Nat]

VARIABLES
    listing,        \* the offerings not deleted
    feeds,          \* keys to feeds, or Missing
    searches,       \* searches on their way to the database or back
    invalidation,   \* the invalidation under way, or Missing
    invalidated     \* branches whose neighbourhood has been invalidated since
                    \* the listing last changed; no statement reads this

searchVars == <<listing, feeds, searches, invalidation, invalidated>>

-----------------------------------------------------------------------------
(* Keys.                                                                   *)

\* math.Round of a coordinate over the cell's width.
Cell(x) == (x + 1) \div 3

\* "%.2f": what is rounded to zero from below is printed "-0.00".
Printed(x) == [cell |-> Cell(x), minusZero |-> x < 0 /\ Cell(x) = 0]

feedCacheKey(place) == <<Printed(place[1]), Printed(place[2])>>

Key == {feedCacheKey(p) : p \in Place}

OffsetsUpwards == <<0, 3, 6>>

\* The nine cells around a branch, in the order of the two loops.
Offsets == <<-3, 0, 3>>

CellNear(branch, i) ==
    feedCacheKey(<<branch[1] + Offsets[((i - 1) \div 3) + 1],
                   branch[2] + Offsets[((i - 1) % 3) + 1]>>)

-----------------------------------------------------------------------------
(* What the database answers.                                              *)

Least(x, y) == IF x <= y THEN x ELSE y

\* What a list has from one position to another, which may lie beyond its end.
Piece(list, from, to) == SubSeq(list, from, Least(to, Len(list)))

Limit(asked) == IF asked.limit = 0 THEN defaultLimit ELSE Least(asked.limit, maxLimit)

Ranked(asked, listed) ==
    LET around == Piece(Ranking[asked.place], 1, Reach[asked.radius])
    IN  Selected(around, {i \in DOMAIN around : around[i] \in listed})

\* LIMIT and OFFSET.
PageOf(asked, listed) ==
    Piece(Ranked(asked, listed), asked.offset + 1, asked.offset + Limit(asked))

\* A hit: the page is cut out of the feed, clamped at its end.
CachedPage(cached, asked) ==
    LET start == Least(asked.offset, Len(cached))
    IN  Piece(cached, start + 1, start + Limit(asked))

-----------------------------------------------------------------------------
SearchInit ==
    /\ listing \in Listings
    /\ feeds = [k \in Key |-> Missing]
    /\ searches = [c \in Searcher |-> Missing]
    /\ invalidation = Missing
    /\ invalidated = {}

\* A miss, or an error of the cache, which counts as one.  A hit is answered
\* with CachedPage and changes nothing.
GetFeed(c, asked) ==
    /\ searches[c] = Missing
    /\ searches' = [searches EXCEPT
           ![c] = [asked |-> asked, at |-> "query", results |-> <<>>, asOf |-> {},
                   behind |-> FALSE]]
    /\ UNCHANGED <<listing, feeds, invalidation, invalidated>>

SearchAt(c, at) == searches[c] # Missing /\ searches[c].at = at

ReturnSearch(c) == searches' = [searches EXCEPT ![c] = Missing]

AnyPage(asked) == TRUE

\* Only what starts at the top goes into the cache.
IsCached(asked) == asked.offset = 0

QueryServices(c) ==
    /\ SearchAt(c, "query")
    /\ IF IsCached(searches[c].asked)
       THEN searches' = [searches EXCEPT
                ![c].at = "set", ![c].asOf = listing,
                ![c].results = PageOf(searches[c].asked, listing)]
       ELSE ReturnSearch(c)
    /\ UNCHANGED <<listing, feeds, invalidation, invalidated>>

\* behind, which no statement reads: the cell was invalidated after the query.
SetFeed(c) ==
    /\ SearchAt(c, "set")
    /\ feeds' = [feeds EXCEPT
           ![feedCacheKey(searches[c].asked.place)] =
               [results |-> searches[c].results, asked |-> searches[c].asked,
                asOf |-> searches[c].asOf, behind |-> searches[c].behind]]
    /\ ReturnSearch(c)
    /\ UNCHANGED <<listing, invalidation, invalidated>>

\* The query fails, or SetFeed, whose error is ignored.
StopSearch(c) ==
    /\ searches[c] # Missing
    /\ ReturnSearch(c)
    /\ UNCHANGED <<listing, feeds, invalidation, invalidated>>

\* Five minutes after it was stored.
ExpireFeed(k) ==
    /\ feeds[k] # Missing
    /\ feeds' = [feeds EXCEPT ![k] = Missing]
    /\ UNCHANGED <<listing, searches, invalidation, invalidated>>

ChangeListing(listed) ==
    /\ listed # listing
    /\ listing' = listed
    /\ invalidated' = {}
    /\ invalidation' = IF invalidation = Missing THEN Missing
                       ELSE [invalidation EXCEPT !.late = TRUE]
    /\ UNCHANGED <<feeds, searches>>

\* late, which no statement reads: the listing has changed since the start.
BeginInvalidation(branch) ==
    /\ invalidation = Missing
    /\ invalidation' = [branch |-> branch, next |-> 1, late |-> FALSE]
    /\ UNCHANGED <<listing, feeds, searches, invalidated>>

\* deleteScan: finds and deletes the feeds of one cell.
DeleteScan ==
    LET key  == CellNear(invalidation.branch, invalidation.next)
        last == invalidation.next = 9
    IN  /\ invalidation # Missing
        /\ feeds' = [k \in Key |-> IF k = key THEN Missing ELSE feeds[k]]
        /\ searches' = [c \in Searcher |->
               IF SearchAt(c, "set") /\ feedCacheKey(searches[c].asked.place) = key
               THEN [searches[c] EXCEPT !.behind = TRUE] ELSE searches[c]]
        /\ invalidation' = IF last THEN Missing ELSE [invalidation EXCEPT !.next = @ + 1]
        /\ invalidated' = IF last /\ ~invalidation.late
                          THEN invalidated \cup {invalidation.branch} ELSE invalidated
        /\ UNCHANGED listing

\* An error of Redis leaves the remaining cells as they are.
StopInvalidation ==
    /\ invalidation # Missing
    /\ invalidation' = Missing
    /\ UNCHANGED <<listing, feeds, searches, invalidated>>

SearchNext ==
    \/ \E c \in Searcher :
           \/ \E asked \in Inquiry : GetFeed(c, asked)
           \/ QueryServices(c) \/ SetFeed(c) \/ StopSearch(c)
    \/ \E k \in Key : ExpireFeed(k)
    \/ \E listed \in Listings : ChangeListing(listed)
    \/ \E branch \in Branch : BeginInvalidation(branch)
    \/ DeleteScan \/ StopInvalidation

SearchSpec == SearchInit /\ [][SearchNext]_searchVars

-----------------------------------------------------------------------------
(* Properties.                                                             *)

\* What is cut out of a feed for a customer of the cell is what the database
\* would have answered, when the feed was read, to the same inquiry at the place
\* and for the radius of the customer whose search stored the feed: as long as
\* the page ends where that customer's did, or the feed ended before.  Nothing
\* is said of a longer page or a later one, which feeds cut short.
HitsArePages ==
    \A k \in Key, asked \in Inquiry :
        LET feed == feeds[k]
            same == [feed.asked EXCEPT !.limit = asked.limit, !.offset = asked.offset]
        IN  /\ feed # Missing /\ feedCacheKey(asked.place) = k
            /\ \/ asked.offset + Limit(asked) <= Limit(feed.asked)
               \/ Len(feed.results) < Limit(feed.asked)
            => CachedPage(feed.results, asked) = PageOf(same, feed.asOf)

\* service.go:73-74: a cache entry "represents the complete ranked list for this
\* cell".  It is what the query answered within its LIMIT.
FeedsAreComplete ==
    \A k \in Key : feeds[k] # Missing =>
        feeds[k].results = Ranked(feeds[k].asked, feeds[k].asOf)

Apart(x, y) == IF x >= y THEN x - y ELSE y - x

Neighbours(p, q) == \A i \in 1..2 : Apart(Cell(p[i]), Cell(q[i])) <= 1

AtZero(p) == \E i \in 1..2 : Cell(p[i]) = 0

\* Once an invalidation has gone through that began after the listing last
\* changed, no cell around the branch shows an older listing, with two
\* exceptions: a feed stored by a search that had asked the database before
\* its cell was invalidated; and the cells at latitude or longitude zero, whose
\* feeds go by two names, with "0.00" and with "-0.00", of which the invalidation
\* deletes one.
InvalidatedIsFresh ==
    \A branch \in invalidated, p \in Place :
        LET feed == feeds[feedCacheKey(p)] IN
        Neighbours(branch, p) /\ ~AtZero(p) /\ feed # Missing
            => feed.asOf = listing \/ feed.behind
=============================================================================
