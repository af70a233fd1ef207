-------------------------- MODULE MCBookingRecords -------------------------
(***************************************************************************)
(* What is kept on record about bookings, for TLC: their payments, and the *)
(* users tagged on them.  The two have no state in common, so an instance  *)
(* follows one of them, chosen at the start.                               *)
(***************************************************************************)
EXTENDS PaymentService, Participants, TLC

CONSTANTS u1, b1   \* a user, and the only booking whose participants matter

VARIABLE about

MCCustomer == b1 :> u1

RecordsInit ==
    /\ Init /\ ParticipantsInit
    /\ about \in {"payments", "participants"}

RecordsNext ==
    \/ about = "payments" /\ Next /\ UNCHANGED <<participantVars, about>>
    \/ about = "participants" /\ ParticipantsNext /\ UNCHANGED <<vars, about>>

RecordsSpec == RecordsInit /\ [][RecordsNext]_<<vars, participantVars, about>>

Symmetry ==
    Permutations(Caller) \cup Permutations(Booking) \cup Permutations(PaymentId)
        \cup Permutations(User \ {u1})
=============================================================================
