----------------------------- MODULE KeeperApi -----------------------------
(***************************************************************************)
(* The keeper process as the web app calls it: relays of trades and        *)
(* onboarding calls share an event loop, the node in use and the fate of   *)
(* the process.                                                            *)
(***************************************************************************)
EXTENDS TradeRelay, ManagerOnboarding

CONSTANT MaxRequests   \* bound: requests of both kinds that arrive

ASSUME ApiAssumption == MaxRequests \in Nat /\ Relays \cap Calls = {}

vars == <<relayVars, onboardingVars, rpcVars>>

Init == RelayInit /\ OnboardingInit /\ RpcInit

Arrived == Cardinality({r \in Relays : phase[r] # "new"} \cup {c \in Calls : stage[c] # "new"})

Restart == RelayRestart /\ OnboardingRestart /\ UNCHANGED rpcVars

Arrival ==
  /\ Arrived < MaxRequests
  /\ \/ \E r \in Relays : Arrive(r) /\ UNCHANGED onboardingVars
     \/ \E c \in Calls : CallArrives(c) /\ UNCHANGED relayVars

(* one turn of the event loop: an await of some handler has ended *)
Turn ==
  \/ \E r \in Relays : RelayStep(r) /\ UNCHANGED onboardingVars
  \/ \E c \in Calls : CallStep(c) /\ UNCHANGED relayVars

Next ==
  \/ Arrival
  \/ Turn
  \/ \E u \in Users : (Link(u) \/ IndexAccount(u)) /\ UNCHANGED relayVars
  \/ Tick /\ UNCHANGED <<relayVars, onboardingVars>>
  \/ Restart

Spec == Init /\ [][Next]_vars
(* The event loop keeps turning. *)
LiveSpec == Spec /\ WF_vars(Turn)

TypeOK == RelayTypeOK /\ OnboardingTypeOK /\ RpcTypeOK

(* Requests in flight are all answered in the end: tries are counted whatever
   node they go to, no call waits for a creation that is gone, and a creation
   that ends takes the calls that joined it along. *)
InFlight ==
  \/ \E r \in Relays : phase[r] \notin {"new", "done"}
  \/ \E c \in Calls : stage[c] \notin {"new", "done"}
EveryRequestIsAnswered == InFlight ~> ~InFlight
=============================================================================
