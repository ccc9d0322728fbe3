---------------------------- MODULE MCKeeperCycle -----------------------------
(* KeeperCycle on one or two keys.  The final window is one tick long; the   *)
(* clock starts at 0 and its end, the expiry and the bounds are in the cfgs.  *)
EXTENDS KeeperCycle

CONSTANTS k1, k2

MCOneKey  == {k1}
MCTwoKeys == {k1, k2}

Quiet == [asked |-> {}, sick |-> {}, covered |-> {}, hit |-> {}]

\* A key is at its trigger, liquidatable, or worth less than its debt.
DebtMarkets == {[Quiet EXCEPT !.hit = Keys], [Quiet EXCEPT !.sick = Keys, !.covered = Keys],
                [Quiet EXCEPT !.sick = Keys]}

\* Only the ask of k1 crosses its limit.
OldestMarketable == {[Quiet EXCEPT !.asked = {k1}]}

NoTerms    == {}
PlainTerms == {[expires |-> 1, leveraged |-> FALSE]}
=============================================================================
