-------------------------------- MODULE Lists -------------------------------
(***************************************************************************)
(* The part of a list that a loop or a query keeps, in the list's order.   *)
(*                                                                         *)
(* Said of the positions that are kept and without recursion, so that it   *)
(* can be reasoned about.                                                  *)
(***************************************************************************)
EXTENDS Integers, FiniteSets

\* How many of the positions come up to k.
UpTo(positions, k) == Cardinality({j \in positions : j <= k})

\* The n-th of the positions.
Nth(positions, n) == CHOOSE k \in positions : UpTo(positions, k) = n

Selected(list, positions) ==
    [n \in 1..Cardinality(positions) |-> list[Nth(positions, n)]]
=============================================================================
