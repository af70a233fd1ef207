-------------------------- MODULE MCBookingService --------------------------
(***************************************************************************)
(* Small instances of BookingService for TLC: rows are model values that   *)
(* may be permuted, instants are a few integers, and every service offers  *)
(* the same number of units.                                               *)
(***************************************************************************)
EXTENDS BookingService, TLC

CONSTANT Units1   \* the capacity of every service

MCCapacity == [svc \in Service |-> Units1]

\* Slots are empty, or the one slot that everybody wants.
MCTime2 == 0..1

Symmetry ==
    Permutations(BookingId) \cup Permutations(LockId) \cup Permutations(RequestId)
=============================================================================
