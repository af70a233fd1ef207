---------------------------- MODULE MCReputation ----------------------------
(***************************************************************************)
(* The two directions of reviews for TLC: customers review services, and   *)
(* owners review customers.  They share nothing but completed bookings,    *)
(* which either takes as given, so a behaviour of both is one of each side *)
(* by side: an instance follows one direction, chosen at the start.        *)
(***************************************************************************)
EXTENDS Reviews, CustomerReviews, TLC

CONSTANT k1   \* the customer of every booking

VARIABLE direction

MCCustomerOf == [b \in Booking |-> k1]

ReputationInit ==
    /\ ReviewsInit /\ TrustInit
    /\ direction \in {"of services", "of customers"}

ReputationNext ==
    \/ direction = "of services" /\ ReviewsNext /\ UNCHANGED <<trustVars, direction>>
    \/ direction = "of customers" /\ TrustNext /\ UNCHANGED <<reviewVars, direction>>

ReputationSpec ==
    ReputationInit /\ [][ReputationNext]_<<reviewVars, trustVars, direction>>

Symmetry == Permutations(BookingId) \cup Permutations(User) \cup Permutations(ReviewCaller)
=============================================================================
