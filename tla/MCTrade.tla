------------------------------- MODULE MCTrade --------------------------------
(* Trade on the coarse scale of MCCreditPool: ten basis points to the unit. *)
(* The clock runs 1, 3, 5: before the final window of a key that expires at *)
(* 5 (window 2), inside it, and after its expiry.                           *)
EXTENDS Trade, TLC

CONSTANTS a1, k1, k2

MCProxies == {a1}
MCOneKey  == {k1}
MCTwoKeys == {k1, k2}
MCProxyOf == [k \in Keys |-> a1]
MCExpiry  == [k \in Keys |-> 5]

Steep == [base |-> 1, kink |-> 8, slope1 |-> 5, slope2 |-> 10, flash |-> 1]

Symmetry == Permutations(MCTwoKeys)
=============================================================================
