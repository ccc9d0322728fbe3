---------------------------- MODULE RpcFailover ----------------------------
(***************************************************************************)
(* How the keeper submits a transaction (SuiService.execute through        *)
(* SuiRpcFailover.invoke): a bounded number of tries, on the primary node  *)
(* or, for a rest after the primary limited its rate, on the fallback.     *)
(* An answer that is lost looks like a node that could not be reached and  *)
(* is retried.  One failover object serves every caller of the process.    *)
(***************************************************************************)
EXTENDS Integers

CONSTANTS
  Callers,       \* requests whose handler may submit a transaction
  MaxRetries,    \* tries of one call
  RestTime,      \* time on the fallback before the primary is tried again
  HasFallback,   \* a fallback url is configured
  MaxTime        \* bound: the clock

ASSUME RpcAssumption ==
  /\ MaxRetries \in Nat \ {0} /\ RestTime \in Nat /\ MaxTime \in Nat
  /\ HasFallback \in BOOLEAN

VARIABLES
  clock,
  active,          \* node in use
  fallbackUntil,   \* end of the rest of the primary
  attempt          \* failed tries of a caller's submission

rpcVars == <<clock, active, fallbackUntil, attempt>>

RpcInit ==
  /\ clock = 0
  /\ active = "primary" /\ fallbackUntil = 0
  /\ attempt = [c \in Callers |-> 0]

RpcTypeOK ==
  /\ clock \in 0..MaxTime
  /\ active \in {"primary", "fallback"} /\ fallbackUntil \in Nat
  /\ attempt \in [Callers -> 0..MaxRetries]

(* maybeSwitchBackToPrimary *)
Rested == active = "fallback" /\ clock >= fallbackUntil
Node == IF Rested THEN "primary" ELSE active

BackWhenRested ==
  /\ active' = Node
  /\ fallbackUntil' = IF Rested THEN 0 ELSE fallbackUntil

(* The try reached a node that answered, well or badly: no retry. *)
Reached == BackWhenRested /\ UNCHANGED <<clock, attempt>>

(* A rate limit of the primary moves every caller to the fallback ... *)
RateLimited(c) ==
  /\ attempt' = [attempt EXCEPT ![c] = @ + 1]
  /\ IF Node = "primary" /\ HasFallback
     THEN active' = "fallback" /\ fallbackUntil' = clock + RestTime
     ELSE BackWhenRested
  /\ UNCHANGED clock

(* ... any other transient error is retried on the same node. *)
Unreachable(c) ==
  /\ attempt' = [attempt EXCEPT ![c] = @ + 1]
  /\ BackWhenRested
  /\ UNCHANGED clock

LastTryPassed(c) == attempt[c] >= MaxRetries

(* The error of the last try is thrown. *)
LastTry(c) == attempt[c] + 1 >= MaxRetries

Tick ==
  /\ clock < MaxTime
  /\ clock' = clock + 1
  /\ UNCHANGED <<active, fallbackUntil, attempt>>
=============================================================================
