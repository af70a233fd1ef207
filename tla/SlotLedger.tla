----------------------------- MODULE SlotLedger -----------------------------
(***************************************************************************)
(* What a booking calendar promises, with nothing of how it is kept.       *)
(*                                                                         *)
(* A claim holds some units of one service from one instant to another.    *)
(* Holders take a claim, give it up, or hand it over to another holder for *)
(* another time in one step.  However they do it, at no instant do the     *)
(* claims on a service add up to more than its capacity: this is the       *)
(* "sum of quantities must not exceed capacity" of docs/domain-glossary.md *)
(* stated once, for the confirmed bookings of the modules that refine it.  *)
(***************************************************************************)
EXTENDS Integers, FiniteSets

CONSTANTS
    Service,      \* services with a calendar
    Capacity,     \* [Service -> Nat]: units a service offers at any instant
    Time,         \* instants
    MaxQuantity,  \* no claim holds more units than this
    Holder,       \* who may hold a claim
    NoClaim       \* what a holder without a claim holds

VARIABLE held     \* held[x]: the claim of holder x, or NoClaim

Slot  == {s \in [start: Time, end: Time] : s.start <= s.end}
Claim == [service: Service, slot: Slot, quantity: 1..MaxQuantity]

Covers(slot, t) == slot.start <= t /\ t < slot.end

\* The holders whose claims h put on service svc at instant t.
HoldersAt(h, svc, t) ==
    {x \in Holder : h[x] # NoClaim /\ h[x].service = svc /\ Covers(h[x].slot, t)}

\* Their units, one element per unit, so that counting adds quantities up.
UnitsHeld(h, S) == {u \in S \X (1..MaxQuantity) : u[2] <= h[u[1]].quantity}

WithinCapacity(h) ==
    \A svc \in Service, t \in Time :
        Cardinality(UnitsHeld(h, HoldersAt(h, svc, t))) <= Capacity[svc]

-----------------------------------------------------------------------------
Init == held = [x \in Holder |-> NoClaim]

Take(x, c) ==
    /\ held[x] = NoClaim
    /\ held' = [held EXCEPT ![x] = c]
    /\ WithinCapacity(held')

Release(x) == held' = [held EXCEPT ![x] = NoClaim]

HandOver(x, y, c) ==
    /\ held[x] # NoClaim
    /\ held[y] = NoClaim
    /\ held' = [held EXCEPT ![x] = NoClaim, ![y] = c]
    /\ WithinCapacity(held')

Next == \E x \in Holder :
    \/ Release(x)
    \/ \E c \in Claim : Take(x, c)
    \/ \E y \in Holder, c \in Claim : HandOver(x, y, c)

Spec == Init /\ [][Next]_held
=============================================================================
