---------------------------- MODULE MCDiscovery -----------------------------
(***************************************************************************)
(* What a customer is shown before booking, for TLC: the feed of services  *)
(* near a place, and the slots of a service on a day.  The two share       *)
(* nothing that changes, so an instance follows one of them, chosen at the *)
(* start.                                                                  *)
(*                                                                         *)
(* Slots are computed over the tables that BookingService fills, for a     *)
(* service of each type and a few kinds of days.  Feeds are those of three *)
(* cells, one of them at longitude zero and one with customers at two      *)
(* places, who see the services in another order.                          *)
(***************************************************************************)
EXTENDS BookingService, Availability, Search, TLC

CONSTANTS
    multi1, single1,   \* a service of each type
    near1, far1        \* offerings around a branch

VARIABLE shown

discoveryVars == <<tables, hoursTables, searchVars, shown>>

MCService      == {multi1, single1}
MCCapacity     == multi1 :> 2 @@ single1 :> 1
MCCapacityType == multi1 :> "multi" @@ single1 :> "single"
MCStepMinutes  == multi1 :> 1 @@ single1 :> 2
MCMinDuration  == multi1 :> 2 @@ single1 :> 1
MCTime         == 0..3

Rule(open, close, active) ==
    [hours |-> [open |-> open, close |-> close], is_active |-> active]

Override(open, close, closed) == [is_closed |-> closed, open |-> open, close |-> close]

\* Open all day, or for either part of it; inverted hours; closed.
WeekDays == {{}, {Rule(0, 3, FALSE)}, {Rule(0, 3, TRUE)},
             {Rule(0, 2, TRUE), Rule(1, 3, TRUE), Rule(3, 0, TRUE)}}

SpecialDays == {Null, Override(0, 2, FALSE), Override(1, 3, FALSE), Override(2, 1, FALSE),
                Override(0, 3, TRUE), Override(0, Null, FALSE), Override(Null, Null, TRUE)}

MCBranch   == {<<7, 4>>}
MCPlace    == {<<7, 4>>, <<6, 4>>, <<2, 7>>, <<4, -1>>}
MCOffering == {near1, far1}
MCRanking  == [p \in MCPlace |-> IF p \in {<<6, 4>>, <<2, 7>>} THEN <<far1, near1>> ELSE <<near1, far1>>]
MCReach    == "narrow" :> 1 @@ "wide" :> 2
MCListings == {{near1, far1}, {far1}}

Ask(place, radius, limit, offset) ==
    [place |-> place, radius |-> radius, limit |-> limit, offset |-> offset]

\* No limit given; the second half of what is allowed, and the second page; the
\* most that is allowed; a smaller radius.
MCInquiry ==
    {Ask(p, "wide", 0, 0) : p \in MCPlace} \cup {Ask(p, "wide", 3, 1) : p \in MCPlace}
        \cup {Ask(<<7, 4>>, "wide", 2, 0), Ask(<<6, 4>>, "wide", 1, 1),
              Ask(<<2, 7>>, "narrow", 2, 0)}

DiscoveryInit ==
    /\ shown \in {"feed", "slots"}
    /\ Init /\ SearchInit
    /\ IF shown = "slots"
       THEN override \in SpecialDays /\ rules \in WeekDays /\ listing = MCOffering
       ELSE override = Null /\ rules = {}

DiscoveryNext ==
    \/ shown = "slots" /\ Next /\ UNCHANGED <<hoursTables, searchVars, shown>>
    \/ shown = "feed" /\ SearchNext /\ UNCHANGED <<tables, hoursTables, shown>>

DiscoverySpec == DiscoveryInit /\ [][DiscoveryNext]_discoveryVars

Symmetry == Permutations(LockId)
=============================================================================
