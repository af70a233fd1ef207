-------------------------- MODULE MCBookingRequests -------------------------
(***************************************************************************)
(* Small instances of BookingRequests for TLC: two calls at a time over a  *)
(* handful of rows, each configuration with the calls its question needs.  *)
(***************************************************************************)
EXTENDS BookingRequests, TLC

CONSTANT Units1   \* the capacity of every service

MCCapacity == [svc \in Service |-> Units1]

\* Slots are empty, or the one slot that everybody wants.
MCTime2 == 0..1

MCAllOps == AllOps

MCApprovals == {"LockSlot", "CreateBooking", "ConfirmPayment", "Approve"}

MCReschedules == MCApprovals \cup {"RequestReschedule", "ApproveReschedule"}

Symmetry ==
    Permutations(Caller) \cup Permutations(BookingId)
        \cup Permutations(LockId) \cup Permutations(RequestId)
=============================================================================
