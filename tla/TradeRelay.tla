----------------------------- MODULE TradeRelay -----------------------------
(***************************************************************************)
(* The keeper's relay of trades a user signed (trade.service.ts,           *)
(* trade-replay.store.ts): an intent is looked up in the store of used     *)
(* intents, its signature is verified by a node, it is marked used,        *)
(* checked against the indexer, simulated and submitted.  Each of these    *)
(* is an await at which other requests run.  Mint, redeem, settle and      *)
(* recovery differ in the checks before the submission, which may refuse.  *)
(***************************************************************************)
EXTENDS RpcFailover, FiniteSets

CONSTANTS
  Relays,                \* requests of the relay endpoints
  Intents, IntentOf,     \* the intent a request carries: its intentReplayKey
  ExpiresAt,             \* expires_at_ms of an intent
  Skew, MaxTtl,          \* TRADE_CLOCK_SKEW_MS, TRADE_MAX_TTL_MS
  Sponsored              \* every submission is sponsored anew: another digest

ASSUME RelayAssumption ==
  /\ Relays \subseteq Callers
  /\ IntentOf \in [Relays -> Intents] /\ ExpiresAt \in [Intents -> Nat]
  /\ Skew \in Nat /\ MaxTtl \in Nat /\ Sponsored \in BOOLEAN

VARIABLES
  phase,      \* what a request awaits
  answer,     \* its answer: a digest, a 4xx refusal or a 5xx failure
  executed,   \* executions of its transaction on the chain
  used,       \* TradeReplayStore: intents used
  accepted    \* history: requests accepted since the process started

relayVars == <<phase, answer, executed, used, accepted>>

RelayInit ==
  /\ phase = [r \in Relays |-> "new"]
  /\ answer = [r \in Relays |-> "none"]
  /\ executed = [r \in Relays |-> 0]
  /\ used = {} /\ accepted = {}

RelayTypeOK ==
  /\ phase \in [Relays -> {"new", "verify", "own", "simulate", "submit", "done"}]
  /\ answer \in [Relays -> {"none", "digest", "refused", "failed"}]
  /\ executed \in [Relays -> Nat]
  /\ used \subseteq Intents /\ accepted \subseteq Relays

Goes(r, to) == phase' = [phase EXCEPT ![r] = to] /\ UNCHANGED answer
Answers(r, with) ==
  /\ phase' = [phase EXCEPT ![r] = "done"]
  /\ answer' = [answer EXCEPT ![r] = with]

(* isReplayed: the store forgets an intent once its time is over. *)
PrunedAtExpiry(now) == {i \in used : ExpiresAt[i] > now}
Pruned(now) == {i \in used : ExpiresAt[i] >= now}

(* assertTradeIntentExpiry *)
InTime(i, now) == ExpiresAt[i] + Skew >= now /\ ExpiresAt[i] <= now + MaxTtl + Skew

(* The store and the expiry are checked in one run of the event loop. *)
Arrive(r) ==
  /\ phase[r] = "new"
  /\ used' = Pruned(clock)
  /\ IF IntentOf[r] \in used' \/ ~InTime(IntentOf[r], clock)
     THEN Answers(r, "refused")
     ELSE Goes(r, "verify")
  /\ UNCHANGED <<executed, accepted, rpcVars>>

(* The signature was verified: the intent is used from now on. *)
Accept(r) ==
  /\ phase[r] = "verify"
  /\ used' = used \cup {IntentOf[r]}
  /\ accepted' = accepted \cup {r}
  /\ Goes(r, "own")
  /\ UNCHANGED <<executed, rpcVars>>

Reject(r) ==
  /\ phase[r] = "verify"
  /\ Answers(r, "refused")
  /\ UNCHANGED <<executed, used, accepted, rpcVars>>

(* Readiness, ownership of the account, the pause and, for a recovery, the
   custody of the manager: a check may refuse, or fail. *)
Check(r) ==
  /\ phase[r] = "own"
  /\ Goes(r, "simulate") \/ Answers(r, "refused") \/ Answers(r, "failed")
  /\ UNCHANGED <<executed, used, accepted, rpcVars>>

Simulate(r) ==
  /\ phase[r] = "simulate"
  /\ Goes(r, "submit") \/ Answers(r, "refused") \/ Answers(r, "failed")
  /\ UNCHANGED <<executed, used, accepted, rpcVars>>

(* What one more submission does: the bytes of a self-paid transaction are
   built once, and a node runs them once; a sponsored one is another
   transaction each time. *)
Executions(r) == IF Sponsored THEN executed[r] + 1 ELSE 1

SubmitAnswered(r) ==
  /\ phase[r] = "submit"
  /\ executed' = [executed EXCEPT ![r] = Executions(r)]
  /\ Answers(r, "digest")
  /\ Reached
  /\ UNCHANGED <<used, accepted>>

(* the transaction aborted or could not be built: not a transient error *)
SubmitAborted(r) ==
  /\ phase[r] = "submit"
  /\ Answers(r, "failed")
  /\ Reached
  /\ UNCHANGED <<executed, used, accepted>>

GivesUpRefused(r) == IF LastTry(r) THEN Answers(r, "refused") ELSE UNCHANGED <<phase, answer>>
GivesUp(r) == IF LastTry(r) THEN Answers(r, "failed") ELSE UNCHANGED <<phase, answer>>

SubmitLimited(r) ==
  /\ phase[r] = "submit"
  /\ RateLimited(r)
  /\ GivesUp(r)
  /\ UNCHANGED <<executed, used, accepted>>

(* the node was not reached, or its answer was lost after it ran *)
SubmitUnreachable(r) ==
  /\ phase[r] = "submit"
  /\ \/ UNCHANGED executed
     \/ executed[r] < MaxRetries /\ executed' = [executed EXCEPT ![r] = Executions(r)]
  /\ Unreachable(r)
  /\ GivesUp(r)
  /\ UNCHANGED <<used, accepted>>

RelayStep(r) ==
  \/ Accept(r) \/ Reject(r) \/ Check(r) \/ Simulate(r)
  \/ SubmitAnswered(r) \/ SubmitAborted(r) \/ SubmitLimited(r) \/ SubmitUnreachable(r)

(* A restart drops the requests in flight and the store, which is in memory. *)
RelayRestart ==
  /\ phase' = [r \in Relays |-> IF phase[r] = "new" THEN "new" ELSE "done"]
  /\ answer' = [r \in Relays |-> IF phase[r] \in {"new", "done"} THEN answer[r] ELSE "failed"]
  /\ used' = {} /\ accepted' = {}
  /\ UNCHANGED executed

(* A request is not even verified while the store of this process holds an
   accepted request of the same intent that is still in time, whatever was
   pruned in between: only requests that overlap in their verification, a
   restart or the skew after the expiry let an intent through twice. *)
ReplaysAreRefused ==
  [][\A r \in Relays :
       phase[r] = "new" /\ phase'[r] = "verify" =>
         \A q \in accepted : IntentOf[q] = IntentOf[r] => clock > ExpiresAt[IntentOf[r]]]_relayVars

(* A refusal tells the user that nothing happened, through lost answers,
   retries and restarts; a digest, that it did.  Only a failure is unsure. *)
AnswersAreTrue ==
  \A r \in Relays :
    /\ answer[r] = "refused" => executed[r] = 0
    /\ answer[r] = "digest" => executed[r] > 0
=============================================================================
