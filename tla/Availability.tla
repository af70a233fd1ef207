---------------------------- MODULE Availability ----------------------------
(***************************************************************************)
(* internal/availability: the slots a branch offers for a service on one   *)
(* day, and what is left of each.                                          *)
(*                                                                         *)
(* The hours of the day come from the override of its date or, where there *)
(* is none, from a rule of its weekday; the slots are cut out of the hours *)
(* and compared with the bookings and locks of BookingTables.  Nothing     *)
(* here writes: the two tables of hours have no code that fills them, and  *)
(* the rest is operators over the tables as they are when they are read.   *)
(*                                                                         *)
(* Left out: the branch, which nothing compares with the service's, and    *)
(* the formatting of instants.                                             *)
(***************************************************************************)
EXTENDS BookingTables, Sequences, Lists

CONSTANTS
    CapacityType,   \* services.capacity_type
    StepMinutes,    \* services.step_minutes
    MinDuration     \* services.min_duration

Hours == [open: Time, close: Time]

\* A row of date_overrides for the day; either of its hours may be NULL.
DateOverride == [is_closed: BOOLEAN, open: Time \cup {Null}, close: Time \cup {Null}]

\* A row of availability_rules for the weekday.
AvailabilityRule == [hours: Hours, is_active: BOOLEAN]

\* Whatever lies between two instants is an instant.  The schema allows a step
\* or a duration of zero too: with such a step generateSlots never ends, and a
\* slot of no duration cannot be locked.
ASSUME AvailabilityAssumption ==
    /\ \A open, close \in Time : open..close \subseteq Time
    /\ CapacityType \in [Service -> {"single", "multi"}]
    /\ StepMinutes \in [Service -> Nat \ {0}]
    /\ MinDuration \in [Service -> Nat \ {0}]

VARIABLES
    override,   \* the override of the date, or Null
    rules       \* the rules of the weekday; nothing makes them unique

hoursTables == <<override, rules>>

HoursTypeOK ==
    /\ override \in DateOverride \cup {Null}
    /\ rules \subseteq AvailabilityRule

-----------------------------------------------------------------------------
(* GetSlotsForDate.                                                        *)

\* GetAvailabilityRule: LIMIT 1 without ORDER BY takes any active rule.
ActiveRules == {r.hours : r \in {x \in rules : x.is_active}}

\* An override with only one of its hours counts as closed.
OverrideHours ==
    {h \in Hours : /\ ~override.is_closed
                   /\ override.open = h.open
                   /\ override.close = h.close}

HoursOrRule ==
    IF override # Null /\ (override.is_closed \/ OverrideHours # {})
    THEN OverrideHours ELSE ActiveRules

\* Errors of the database aside, an override decides alone.  No hours: closed.
OpenHours == IF override # Null THEN OverrideHours ELSE ActiveRules

\* The loop: window k is reached if no window up to it ends after closing time.
\* Where closing is not after opening none is.
generateSlots(hours, step, duration) ==
    LET Window(k) == [start |-> hours.open + k * step,
                      end   |-> hours.open + k * step + duration]
        reached   == {k \in 0..(hours.close - hours.open) :
                         \A j \in 0..k : Window(j).end <= hours.close}
    IN  [k \in 1..Cardinality(reached) |-> Window(k - 1)]

BookingsWithin(svc, range) ==
    {b \in InStatus(ActiveStatus) : /\ bookings[b].service = svc
                                    /\ bookings[b].slot.start >= range.start
                                    /\ bookings[b].slot.end <= range.end}

\* GetActiveBookingsInRange and GetActiveLocksInRange ask what the checks of
\* internal/bookings ask, for the whole day at once.
BookingsInRange(svc, range) == ActiveOverlap(svc, range)
LocksInRange(svc, range)    == LockOverlap(svc, range)

occupiedQuantity(slot, bs, ls) ==
    Sum(bookings, {b \in bs : Overlaps(bookings[b].slot, slot)})
        + Sum(locks, {l \in ls : Overlaps(locks[l].slot, slot)})

Remaining(svc, used) ==
    IF CapacityType[svc] = "single" THEN (IF used > 0 THEN 0 ELSE 1)
    ELSE Capacity[svc] - used

Offer(svc, slot, range) ==
    [slot |-> slot,
     remaining |-> Remaining(svc, occupiedQuantity(slot, BookingsInRange(svc, range),
                                                         LocksInRange(svc, range)))]

HasRoom(offer) == offer.remaining > 0

SlotsInHours(svc, hours) ==
    LET raw    == generateSlots(hours, StepMinutes[svc], MinDuration[svc])
        range  == [start |-> raw[1].start, end |-> raw[Len(raw)].end]
        offers == [k \in DOMAIN raw |-> Offer(svc, raw[k], range)]
    IN  IF raw = <<>> THEN <<>>
        ELSE Selected(offers, {k \in DOMAIN raw : HasRoom(offers[k])})

\* The answers it may give.
GetSlotsForDate(svc) ==
    IF OpenHours = {} THEN {<<>>} ELSE {SlotsInHours(svc, h) : h \in OpenHours}

\* Nothing calls it yet.
CheckConflict(svc, slot, quantity) ==
    LET used == occupiedQuantity(slot, BookingsInRange(svc, slot), LocksInRange(svc, slot))
    IN  IF CapacityType[svc] = "single" THEN used > 0
        ELSE used + quantity > Capacity[svc]

-----------------------------------------------------------------------------
(* Properties.                                                             *)

\* What is offered and what internal/bookings accepts, computed by different
\* code from the same tables, agree.  A service of type 'multi' offers a slot
\* with r units left exactly if LockSlot would take r of them and no more, and
\* CheckConflict says so too.  A service of type 'single' offers a slot only
\* if nobody has any of it; LockSlot asks for the capacity alone, and so takes
\* it too, but refuses what is not offered only if the capacity is one.
OffersAreBookable ==
    \A svc \in Service : \A answer \in GetSlotsForDate(svc) : \A i \in DOMAIN answer :
        LET slot == answer[i].slot IN
        /\ slot.start < slot.end
        /\ \A q \in Quantity :
              LET refused == SlotConflict(svc, slot, q, {}) IN
              IF CapacityType[svc] = "multi"
              THEN /\ refused <=> q > answer[i].remaining
                   /\ refused <=> CheckConflict(svc, slot, q)
              ELSE /\ q <= answer[i].remaining /\ Capacity[svc] >= 1 => ~refused
                   /\ ~CheckConflict(svc, slot, q)
                   /\ ActiveOverlap(svc, slot) = {} /\ LockOverlap(svc, slot) = {}

\* Hours that the tables declare for the day, read as ADR-005 states it: the
\* override if there is one, and it alone.
Declares(h) ==
    IF override = Null THEN [hours |-> h, is_active |-> TRUE] \in rules
    ELSE override = [is_closed |-> FALSE, open |-> h.open, close |-> h.close]

\* The windows a customer could have within hours h: those on the grid of the
\* service, ending by closing time, that one unit could still be locked of.
FreeWindows(svc, h) ==
    {w \in Slot : /\ h.open <= w.start /\ w.end <= h.close
                  /\ (w.start - h.open) % StepMinutes[svc] = 0
                  /\ w.end - w.start = MinDuration[svc]
                  /\ IF CapacityType[svc] = "multi" THEN ~SlotConflict(svc, w, 1, {})
                     ELSE ActiveOverlap(svc, w) \cup LockOverlap(svc, w) = {}}

\* Every answer lists, in order and each once, exactly the windows that are
\* free within hours declared for the day: none is lost at either end of the
\* day or because a booking reaches over it, and none is offered while the
\* branch is closed, on a date with an override least of all.
AnswersFillTheDay ==
    \A svc \in Service : \A answer \in GetSlotsForDate(svc) :
        /\ \A i, j \in DOMAIN answer : i < j => answer[i].slot.start < answer[j].slot.start
        /\ LET offered == {answer[i].slot : i \in DOMAIN answer} IN
           \/ \E h \in Hours : Declares(h) /\ offered = FreeWindows(svc, h)
           \/ offered = {} /\ ~\E h \in Hours : Declares(h)
=============================================================================
