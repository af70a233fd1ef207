--------------------------- MODULE MCBookingMoves ---------------------------
(***************************************************************************)
(* BookingRequests from the day two bookings of a service were made and    *)
(* paid for: from here on the calls about moves get in each other's way.   *)
(***************************************************************************)
EXTENDS MCBookingRequests

CONSTANTS s1, b1, b2   \* a service and two of its bookings

MCMoves == {"RequestReschedule", "ApproveReschedule", "RejectReschedule",
            "Approve"}

Wanted1 == [start |-> 0, end |-> 1]

\* The customer may book another interval than the one that was locked, and
\* the service lets an empty one pass: it is in nobody's way until it moves.
Elsewhere == [start |-> 0, end |-> 0]

SecondBooking ==
    {NewBooking("awaiting_approval", s1, Wanted1, 1, Null),
     NewBooking("confirmed", s1, Wanted1, 1, Null),
     NewBooking("confirmed", s1, Elsewhere, 2, Null)}

\* What customers and the owner of a service with three units have come to:
\* b1 was approved first, then perhaps b2, and then somebody locked the slot.
SettledInit ==
    /\ \E second \in SecondBooking :
           bookings = [b \in BookingId |->
               CASE b = b1 -> NewBooking("confirmed", s1, Wanted1, 1, Null)
                 [] b = b2 -> second
                 [] OTHER  -> Null]
    /\ locks \in [LockId -> {Spent, [service |-> s1, slot |-> Wanted1, quantity |-> 1]}]
    /\ requests = [r \in RequestId |-> Null]
    /\ call = [c \in Caller |-> Null]

SettledSpec == SettledInit /\ [][Next]_vars /\ Fairness
=============================================================================
