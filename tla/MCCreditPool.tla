----------------------------- MODULE MCCreditPool -----------------------------
(* CreditPool on a coarse scale: ten basis points to the unit, so that the  *)
(* 80/10/10 split is 8/1/1 and roundings happen on single coins.            *)
EXTENDS CreditPool, TLC

CONSTANTS a1, k1, k2

\* Expensive enough for interest on one coin within the clock's bound.
Steep == [base |-> 2, kink |-> 8, slope1 |-> 5, slope2 |-> 10, flash |-> 1]
Flat  == [base |-> 1, kink |-> 8, slope1 |-> 0, slope2 |-> 10, flash |-> 3]

MCKeys        == {k1, k2}
MCProxies     == {a1}
MCProxyOf     == [k \in Keys |-> a1]
MCRateConfigs == {Steep, Flat}

Symmetry == Permutations(MCKeys)
=============================================================================
