---------------------------- MODULE MCKeeperApi ----------------------------
(* Two relays of one intent; two creations and a lookup of one new user, a
   creation of one linked before. *)
EXTENDS KeeperApi
CONSTANTS r1, r2, c1, c2, c3, c4, mint, alice, bob
MCRelays == {r1, r2}
MCCalls == {c1, c2, c3, c4}
MCCallers == MCRelays \cup MCCalls
MCIntentOf == [r \in MCRelays |-> mint]
MCExpiresAt == [i \in {mint} |-> 0]
MCUserOf == [c \in MCCalls |-> IF c = c4 THEN bob ELSE alice]
=============================================================================
