-------------------------- MODULE KeeperApiProofs --------------------------
(***************************************************************************)
(* What the keeper tells its users, for any number of requests, users,     *)
(* retries and faults: refusals and digests are true, an intent in time is *)
(* not taken twice by one process, everyone is told the same manager and a *)
(* second manager of a user takes a fault.                                 *)
(***************************************************************************)
EXTENDS KeeperApi, TLAPS

-----------------------------------------------------------------------------
(* The inductive invariant *)

(* A request that is not answered has a try left. *)
TriesLeft ==
  /\ \A r \in Relays : phase[r] # "done" => attempt[r] < MaxRetries
  /\ \A c \in Calls : stage[c] # "done" => attempt[c] < MaxRetries

(* Nothing runs before the submission, and only an answered request has an
   answer. *)
RelayInv(r) ==
  /\ executed[r] > 0 => phase[r] \in {"submit", "done"}
  /\ phase[r] # "done" => answer[r] = "none"
  /\ answer[r] = "refused" => executed[r] = 0
  /\ answer[r] = "digest" => executed[r] > 0

(* The store knows what was accepted for as long as it is in time. *)
StoreInv ==
  \A r \in accepted : IntentOf[r] \in used \/ clock > ExpiresAt[IntentOf[r]]

(* A user the keeper onboards: a creation that executes holds the user's lock
   and is the only call that may write; what is answered, linked or indexed is
   what is stored. *)
Executing == {"execute", "find", "record"}

CallInv(u, c) ==
  /\ reply[c] # None => stored[u] = reply[c]
  /\ stage[c] = "keep" => found[c] # None /\ found[c] = linked[u]
  /\ stage[c] \in Executing => lock[u] = c
  /\ lock[u] = c /\ stage[c] \in Executing \cup {"index", "keep"} => stored[u] = None
  /\ stage[c] \in {"find", "record"} => found[c] # None

UserInv(u) ==
  /\ \A c \in Calls : UserOf[c] = u => CallInv(u, c)
  /\ linked[u] # None => stored[u] = linked[u]
  /\ indexed[u] # None => indexed[u] = linked[u]

(* A manager is the one stored, the one a creation holds, or a fault's. *)
Kept(u) == stored[u] # None \/ \E c \in Calls : UserOf[c] = u /\ stage[c] \in {"find", "record"}
CountInv(u) == made[u] <= faults + (IF Kept(u) THEN 1 ELSE 0)

(* A user linked before the database was set up: as long as nothing fails, no
   call gets past the lookup. *)
LinkedInv(u) ==
  faults = 0 =>
    /\ linked[u] = 0 /\ indexed[u] = 0 /\ stored[u] \in {0, None} /\ lock[u] = Nobody
    /\ \A c \in Calls : UserOf[c] = u =>
         /\ stage[c] \in {"new", "store", "index", "keep", "done"}
         /\ stage[c] = "keep" => found[c] = 0
         /\ reply[c] \in {0, None}

OnboardingInv ==
  /\ \A u \in Users \ Onboarded : UserInv(u) /\ CountInv(u)
  /\ \A u \in Onboarded : LinkedInv(u)

ApiInv ==
  /\ TypeOK /\ TriesLeft
  /\ \A r \in Relays : RelayInv(r)
  /\ StoreInv
  /\ OnboardingInv

-----------------------------------------------------------------------------
(* Onboarding: what each step of a call keeps *)

(* Types: every manager written or answered is one that was created or linked. *)
LEMMA CallTypes ==
  ASSUME OnboardingTypeOK, NEW c \in Calls, CallStep(c)
  PROVE  OnboardingTypeOK'
<1>1. CASE ReadStore(c)
  BY <1>1, OnboardingAssumption DEF OnboardingTypeOK, ReadStore, Ends, Awaits, Joined,
    Creating, None, Nobody, Ids, chainVars
<1>2. CASE ReadIndex(c)
  BY <1>2, OnboardingAssumption DEF OnboardingTypeOK, ReadIndex, NotFound, Ends, Awaits,
    Joined, Creating, None, Nobody, Ids, chainVars
<1>3. CASE Keep(c)
  BY <1>3, OnboardingAssumption DEF OnboardingTypeOK, Keep, Ends, Joined, Creating, None,
    Nobody, Ids, chainVars
<1>4. CASE LookupFails(c)
  BY <1>4, OnboardingAssumption DEF OnboardingTypeOK, LookupFails, NotFound, Ends, Awaits,
    Joined, Creating, Fault, None, Nobody, Ids, chainVars
<1>5. CASE Authorise(c)
  BY <1>5, OnboardingAssumption DEF OnboardingTypeOK, Authorise, Awaits, None, Nobody,
    Ids, chainVars
<1>6. CASE CallRejected(c)
  BY <1>6, OnboardingAssumption DEF OnboardingTypeOK, CallRejected, Ends, Joined,
    Creating, None, Nobody, Ids, chainVars
<1>7. CASE Execute(c)
  <2> DEFINE u == UserOf[c]
  <2>1. u \in Users /\ made[u] + 1 \in 0..MaxManagers
    <3>1. u \in Users
      BY OnboardingAssumption
    <3>2. made[u] \in 0..MaxManagers /\ made[u] < MaxManagers
      BY <1>7, <3>1 DEF OnboardingTypeOK, Execute
    <3> QED
      BY <3>1, <3>2, OnboardingAssumption
  <2>2. made' = [made EXCEPT ![u] = @ + 1] /\ found' = [found EXCEPT ![c] = made[u] + 1]
    BY <1>7 DEF Execute, NewManager
  <2>3. stage' = [stage EXCEPT ![c] = "find"]
    BY <1>7 DEF Execute, Awaits
  <2>4. UNCHANGED <<reply, lock, stored, linked, indexed, faults>>
    BY <1>7 DEF Execute
  <2> HIDE DEF u
  <2> QED
    BY <2>1, <2>2, <2>3, <2>4 DEF OnboardingTypeOK, Ids
<1>8. CASE ExecuteLimited(c)
  BY <1>8, OnboardingAssumption DEF OnboardingTypeOK, ExecuteLimited, Ends, Joined,
    Creating, None, Nobody, Ids, chainVars
<1>9. CASE ExecuteUnreachable(c)
  BY <1>9, OnboardingAssumption DEF OnboardingTypeOK, ExecuteUnreachable, Ends, Joined,
    Creating, Fault, NewManager, None, Nobody, Ids, chainVars
<1>10. CASE ExecuteAborts(c)
  BY <1>10, OnboardingAssumption DEF OnboardingTypeOK, ExecuteAborts, Ends, Joined,
    Creating, None, Nobody, Ids, chainVars
<1>11. CASE Find(c)
  BY <1>11, OnboardingAssumption DEF OnboardingTypeOK, Find, Awaits, None, Nobody, Ids,
    chainVars
<1>12. CASE Record(c)
  BY <1>12, OnboardingAssumption DEF OnboardingTypeOK, Record, Ends, Joined, Creating,
    None, Nobody, Ids, chainVars
<1>13. CASE StoreFails(c)
  BY <1>13, OnboardingAssumption DEF OnboardingTypeOK, StoreFails, Ends, Joined,
    Creating, Fault, None, Nobody, Ids, chainVars
<1> QED
  BY <1>1, <1>2, <1>3, <1>4, <1>5, <1>6, <1>7, <1>8, <1>9, <1>10, <1>11, <1>12, <1>13 DEF
    CallStep

(* Of a user the keeper onboards, every step of any call keeps the lock, the
   database, the answers and the links together. *)
LEMMA CallKeepsUser ==
  ASSUME OnboardingTypeOK, NEW u \in Users \ Onboarded, UserInv(u), NEW c \in Calls, CallStep(c)
  PROVE  UserInv(u)'
<1>1. CASE ReadStore(c)
  BY <1>1, OnboardingAssumption DEF OnboardingTypeOK, UserInv, CallInv, Executing,
    ReadStore, Ends, Awaits, Joined, Creating, None, Nobody, Ids, chainVars
<1>2. CASE ReadIndex(c)
  BY <1>2, OnboardingAssumption DEF OnboardingTypeOK, UserInv, CallInv, Executing,
    ReadIndex, NotFound, Ends, Awaits, Joined, Creating, None, Nobody, Ids, chainVars
<1>3. CASE Keep(c)
  BY <1>3, OnboardingAssumption DEF OnboardingTypeOK, UserInv, CallInv, Executing, Keep,
    Ends, Joined, Creating, None, Nobody, Ids, chainVars
<1>4. CASE LookupFails(c)
  BY <1>4, OnboardingAssumption DEF OnboardingTypeOK, UserInv, CallInv, Executing,
    LookupFails, NotFound, Ends, Awaits, Joined, Creating, Fault, None, Nobody, Ids,
    chainVars
<1>5. CASE Authorise(c)
  BY <1>5, OnboardingAssumption DEF OnboardingTypeOK, UserInv, CallInv, Executing,
    Authorise, Awaits, None, Nobody, Ids, chainVars
<1>6. CASE CallRejected(c)
  BY <1>6, OnboardingAssumption DEF OnboardingTypeOK, UserInv, CallInv, Executing,
    CallRejected, Ends, Joined, Creating, None, Nobody, Ids, chainVars
<1>7. CASE Execute(c)
  BY <1>7, OnboardingAssumption DEF OnboardingTypeOK, UserInv, CallInv, Executing,
    Execute, Awaits, NewManager, None, Nobody, Ids, chainVars
<1>8. CASE ExecuteLimited(c)
  BY <1>8, OnboardingAssumption DEF OnboardingTypeOK, UserInv, CallInv, Executing,
    ExecuteLimited, Ends, Joined, Creating, None, Nobody, Ids, chainVars
<1>9. CASE ExecuteUnreachable(c)
  BY <1>9, OnboardingAssumption DEF OnboardingTypeOK, UserInv, CallInv, Executing,
    ExecuteUnreachable, Ends, Joined, Creating, Fault, NewManager, None, Nobody, Ids,
    chainVars
<1>10. CASE ExecuteAborts(c)
  BY <1>10, OnboardingAssumption DEF OnboardingTypeOK, UserInv, CallInv, Executing,
    ExecuteAborts, Ends, Joined, Creating, None, Nobody, Ids, chainVars
<1>11. CASE Find(c)
  BY <1>11, OnboardingAssumption DEF OnboardingTypeOK, UserInv, CallInv, Executing, Find,
    Awaits, None, Nobody, Ids, chainVars
<1>12. CASE Record(c)
  BY <1>12, OnboardingAssumption DEF OnboardingTypeOK, UserInv, CallInv, Executing,
    Record, Ends, Joined, Creating, None, Nobody, Ids, chainVars
<1>13. CASE StoreFails(c)
  BY <1>13, OnboardingAssumption DEF OnboardingTypeOK, UserInv, CallInv, Executing,
    StoreFails, Ends, Joined, Creating, Fault, None, Nobody, Ids, chainVars
<1> QED
  BY <1>1, <1>2, <1>3, <1>4, <1>5, <1>6, <1>7, <1>8, <1>9, <1>10, <1>11, <1>12, <1>13 DEF
    CallStep

(* A step that creates a manager holds it or is a fault; a manager that is let
   go of is a fault's. *)
LEMMA CallKeepsCount ==
  ASSUME OnboardingTypeOK, NEW u \in Users \ Onboarded, UserInv(u), CountInv(u),
         NEW c \in Calls, CallStep(c)
  PROVE  CountInv(u)'
<1>1. CASE ReadStore(c)
  BY <1>1, OnboardingAssumption DEF OnboardingTypeOK, UserInv, CallInv, CountInv, Kept,
    Executing, ReadStore, Ends, Awaits, Joined, Creating, None, Nobody, Ids, chainVars
<1>2. CASE ReadIndex(c)
  BY <1>2, OnboardingAssumption DEF OnboardingTypeOK, UserInv, CallInv, CountInv, Kept,
    Executing, ReadIndex, NotFound, Ends, Awaits, Joined, Creating, None, Nobody, Ids,
    chainVars
<1>3. CASE Keep(c)
  BY <1>3, OnboardingAssumption DEF OnboardingTypeOK, UserInv, CallInv, CountInv, Kept,
    Executing, Keep, Ends, Joined, Creating, None, Nobody, Ids, chainVars
<1>4. CASE LookupFails(c)
  BY <1>4, OnboardingAssumption DEF OnboardingTypeOK, UserInv, CallInv, CountInv, Kept,
    Executing, LookupFails, NotFound, Ends, Awaits, Joined, Creating, Fault, None, Nobody,
    Ids, chainVars
<1>5. CASE Authorise(c)
  BY <1>5, OnboardingAssumption DEF OnboardingTypeOK, UserInv, CallInv, CountInv, Kept,
    Executing, Authorise, Awaits, None, Nobody, Ids, chainVars
<1>6. CASE CallRejected(c)
  BY <1>6, OnboardingAssumption DEF OnboardingTypeOK, UserInv, CallInv, CountInv, Kept,
    Executing, CallRejected, Ends, Joined, Creating, None, Nobody, Ids, chainVars
<1>7. CASE Execute(c)
  BY <1>7, OnboardingAssumption DEF OnboardingTypeOK, UserInv, CallInv, CountInv, Kept,
    Executing, Execute, Awaits, NewManager, None, Nobody, Ids, chainVars
<1>8. CASE ExecuteLimited(c)
  BY <1>8, OnboardingAssumption DEF OnboardingTypeOK, UserInv, CallInv, CountInv, Kept,
    Executing, ExecuteLimited, Ends, Joined, Creating, None, Nobody, Ids, chainVars
<1>9. CASE ExecuteUnreachable(c)
  BY <1>9, OnboardingAssumption DEF OnboardingTypeOK, UserInv, CallInv, CountInv, Kept,
    Executing, ExecuteUnreachable, Ends, Joined, Creating, Fault, NewManager, None, Nobody,
    Ids, chainVars
<1>10. CASE ExecuteAborts(c)
  BY <1>10, OnboardingAssumption DEF OnboardingTypeOK, UserInv, CallInv, CountInv, Kept,
    Executing, ExecuteAborts, Ends, Joined, Creating, None, Nobody, Ids, chainVars
<1>11. CASE Find(c)
  BY <1>11, OnboardingAssumption DEF OnboardingTypeOK, UserInv, CallInv, CountInv, Kept,
    Executing, Find, Awaits, None, Nobody, Ids, chainVars
<1>12. CASE Record(c)
  BY <1>12, OnboardingAssumption DEF OnboardingTypeOK, UserInv, CallInv, CountInv, Kept,
    Executing, Record, Ends, Joined, Creating, None, Nobody, Ids, chainVars
<1>13. CASE StoreFails(c)
  BY <1>13, OnboardingAssumption DEF OnboardingTypeOK, UserInv, CallInv, CountInv, Kept,
    Executing, StoreFails, Ends, Joined, Creating, Fault, None, Nobody, Ids, chainVars
<1> QED
  BY <1>1, <1>2, <1>3, <1>4, <1>5, <1>6, <1>7, <1>8, <1>9, <1>10, <1>11, <1>12, <1>13 DEF
    CallStep

(* While nothing fails, a linked user is told the linked manager. *)
LEMMA CallKeepsLinked ==
  ASSUME OnboardingTypeOK, NEW u \in Onboarded, LinkedInv(u), NEW c \in Calls, CallStep(c)
  PROVE  LinkedInv(u)'
<1>1. CASE ReadStore(c)
  BY <1>1, OnboardingAssumption DEF OnboardingTypeOK, LinkedInv, ReadStore, Ends, Awaits,
    Joined, Creating, None, Nobody, Ids, chainVars
<1>2. CASE ReadIndex(c)
  BY <1>2, OnboardingAssumption DEF OnboardingTypeOK, LinkedInv, ReadIndex, NotFound,
    Ends, Awaits, Joined, Creating, None, Nobody, Ids, chainVars
<1>3. CASE Keep(c)
  BY <1>3, OnboardingAssumption DEF OnboardingTypeOK, LinkedInv, Keep, Ends, Joined,
    Creating, None, Nobody, Ids, chainVars
<1>4. CASE LookupFails(c)
  BY <1>4, OnboardingAssumption DEF OnboardingTypeOK, LinkedInv, LookupFails, NotFound,
    Ends, Awaits, Joined, Creating, Fault, None, Nobody, Ids, chainVars
<1>5. CASE Authorise(c)
  BY <1>5, OnboardingAssumption DEF OnboardingTypeOK, LinkedInv, Authorise, Awaits, None,
    Nobody, Ids, chainVars
<1>6. CASE CallRejected(c)
  BY <1>6, OnboardingAssumption DEF OnboardingTypeOK, LinkedInv, CallRejected, Ends,
    Joined, Creating, None, Nobody, Ids, chainVars
<1>7. CASE Execute(c)
  BY <1>7, OnboardingAssumption DEF OnboardingTypeOK, LinkedInv, Execute, Awaits,
    NewManager, None, Nobody, Ids, chainVars
<1>8. CASE ExecuteLimited(c)
  BY <1>8, OnboardingAssumption DEF OnboardingTypeOK, LinkedInv, ExecuteLimited, Ends,
    Joined, Creating, None, Nobody, Ids, chainVars
<1>9. CASE ExecuteUnreachable(c)
  BY <1>9, OnboardingAssumption DEF OnboardingTypeOK, LinkedInv, ExecuteUnreachable, Ends,
    Joined, Creating, Fault, NewManager, None, Nobody, Ids, chainVars
<1>10. CASE ExecuteAborts(c)
  BY <1>10, OnboardingAssumption DEF OnboardingTypeOK, LinkedInv, ExecuteAborts, Ends,
    Joined, Creating, None, Nobody, Ids, chainVars
<1>11. CASE Find(c)
  BY <1>11, OnboardingAssumption DEF OnboardingTypeOK, LinkedInv, Find, Awaits, None,
    Nobody, Ids, chainVars
<1>12. CASE Record(c)
  BY <1>12, OnboardingAssumption DEF OnboardingTypeOK, LinkedInv, Record, Ends, Joined,
    Creating, None, Nobody, Ids, chainVars
<1>13. CASE StoreFails(c)
  BY <1>13, OnboardingAssumption DEF OnboardingTypeOK, LinkedInv, StoreFails, Ends,
    Joined, Creating, Fault, None, Nobody, Ids, chainVars
<1> QED
  BY <1>1, <1>2, <1>3, <1>4, <1>5, <1>6, <1>7, <1>8, <1>9, <1>10, <1>11, <1>12, <1>13 DEF
    CallStep

(* Arrivals, links, the indexer and a restart keep what the calls keep. *)
LEMMA UserStepKeeps ==
  ASSUME OnboardingTypeOK, OnboardingInv, NEW v \in Users, Link(v) \/ IndexAccount(v)
  PROVE  OnboardingTypeOK' /\ OnboardingInv'
<1>1. CASE Link(v)
  <2>1. PICK c \in Calls :
          UserOf[c] = v /\ reply[c] # None /\ linked' = [linked EXCEPT ![v] = reply[c]]
    BY <1>1 DEF Link
  <2>2. linked[v] = None /\ UNCHANGED <<stage, found, reply, lock, stored, made, indexed, faults>>
    BY <1>1 DEF Link
  <2>3. OnboardingTypeOK'
    BY <2>1, <2>2 DEF OnboardingTypeOK
  <2>4. ASSUME NEW u \in Users \ Onboarded PROVE UserInv(u)' /\ CountInv(u)'
    BY <2>1, <2>2 DEF OnboardingTypeOK, OnboardingInv, UserInv, CallInv, CountInv, Kept
  <2>5. ASSUME NEW u \in Onboarded PROVE LinkedInv(u)'
    BY <2>1, <2>2, OnboardingAssumption DEF OnboardingTypeOK, OnboardingInv, LinkedInv, None
  <2> QED
    BY <2>3, <2>4, <2>5 DEF OnboardingInv
<1>2. CASE IndexAccount(v)
  <2>1. indexed' = [indexed EXCEPT ![v] = linked[v]]
        /\ UNCHANGED <<stage, found, reply, lock, stored, made, linked, faults>>
    BY <1>2 DEF IndexAccount
  <2>2. OnboardingTypeOK'
    BY <2>1 DEF OnboardingTypeOK
  <2>3. ASSUME NEW u \in Users \ Onboarded PROVE UserInv(u)' /\ CountInv(u)'
    BY <2>1 DEF OnboardingTypeOK, OnboardingInv, UserInv, CallInv, CountInv, Kept
  <2>4. ASSUME NEW u \in Onboarded PROVE LinkedInv(u)'
    BY <2>1, OnboardingAssumption DEF OnboardingTypeOK, OnboardingInv, LinkedInv, None
  <2> QED
    BY <2>2, <2>3, <2>4 DEF OnboardingInv
<1> QED
  BY <1>1, <1>2

LEMMA ArrivalKeeps ==
  ASSUME OnboardingTypeOK, OnboardingInv, NEW c \in Calls, CallArrives(c)
  PROVE  OnboardingTypeOK' /\ OnboardingInv'
<1>1. stage[c] = "new" /\ stage' = [stage EXCEPT ![c] = "store"]
      /\ UNCHANGED <<found, reply, lock, stored, made, linked, indexed, faults>>
  BY DEF CallArrives, Awaits, chainVars
<1>2. OnboardingTypeOK'
  BY <1>1 DEF OnboardingTypeOK
<1>3. ASSUME NEW u \in Users \ Onboarded PROVE UserInv(u)' /\ CountInv(u)'
  BY <1>1 DEF OnboardingTypeOK, OnboardingInv, UserInv, CallInv, CountInv, Kept, Executing
<1>4. ASSUME NEW u \in Onboarded PROVE LinkedInv(u)'
  BY <1>1 DEF OnboardingTypeOK, OnboardingInv, LinkedInv
<1> QED
  BY <1>2, <1>3, <1>4 DEF OnboardingInv

LEMMA RestartKeeps ==
  ASSUME OnboardingTypeOK, OnboardingInv, OnboardingRestart
  PROVE  OnboardingTypeOK' /\ OnboardingInv'
<1>1. OnboardingTypeOK'
  <2>1. faults' \in 0..MaxFaults
    BY OnboardingAssumption DEF OnboardingTypeOK, OnboardingRestart, Fault
  <2>2. stage' \in [Calls -> {"new", "done"}] /\ lock' \in [Users -> {Nobody}]
    BY DEF OnboardingRestart
  <2>3. UNCHANGED <<found, reply, stored, made, linked, indexed>>
    BY DEF OnboardingRestart, chainVars
  <2> QED
    BY <2>1, <2>2, <2>3 DEF OnboardingTypeOK
<1>2. ASSUME NEW u \in Users \ Onboarded PROVE UserInv(u)' /\ CountInv(u)'
  <2>1. UserInv(u)'
    BY OnboardingAssumption
    DEF OnboardingTypeOK, OnboardingInv, UserInv, CallInv, Executing, OnboardingRestart, Nobody, chainVars
  <2>2. CountInv(u)'
    BY DEF OnboardingTypeOK, OnboardingInv, CountInv, Kept, OnboardingRestart, Fault, chainVars
  <2> QED
    BY <2>1, <2>2
<1>3. ASSUME NEW u \in Onboarded PROVE LinkedInv(u)'
  BY DEF OnboardingTypeOK, LinkedInv, OnboardingRestart, Fault
<1> QED
  BY <1>1, <1>2, <1>3 DEF OnboardingInv

(* Steps that leave onboarding alone keep its invariant. *)
LEMMA OnboardingUntouched ==
  ASSUME OnboardingTypeOK, OnboardingInv, UNCHANGED onboardingVars
  PROVE  OnboardingTypeOK' /\ OnboardingInv'
<1>1. OnboardingTypeOK'
  BY DEF OnboardingTypeOK, onboardingVars, chainVars
<1>2. ASSUME NEW u \in Users \ Onboarded PROVE UserInv(u)' /\ CountInv(u)'
  BY DEF OnboardingInv, UserInv, CallInv, CountInv, Kept, onboardingVars, chainVars
<1>3. ASSUME NEW u \in Onboarded PROVE LinkedInv(u)'
  BY DEF OnboardingInv, LinkedInv, onboardingVars, chainVars
<1> QED
  BY <1>1, <1>2, <1>3 DEF OnboardingInv

-----------------------------------------------------------------------------
(* Tries: whoever is not answered has one left. *)

LEMMA RelayTries ==
  ASSUME TypeOK, TriesLeft, NEW r \in Relays, RelayStep(r), UNCHANGED onboardingVars
  PROVE  RpcTypeOK' /\ TriesLeft' /\ clock' = clock
<1>1. r \in Callers /\ r \notin Calls /\ attempt[r] \in 0..MaxRetries
  BY RelayAssumption, ApiAssumption DEF TypeOK, RpcTypeOK
<1>2. phase[r] # "done" /\ attempt[r] < MaxRetries
  BY DEF RelayStep, Accept, Reject, Check, Simulate, SubmitAnswered, SubmitAborted, SubmitLimited,
    SubmitUnreachable, TriesLeft
<1>3. \A q \in Relays : q # r => phase'[q] = phase[q]
  BY DEF RelayStep, Accept, Reject, Check, Simulate, SubmitAnswered, SubmitAborted, SubmitLimited,
    SubmitUnreachable, GivesUp, Goes, Answers, TypeOK, RelayTypeOK
<1>4. stage' = stage
  BY DEF onboardingVars
<1>5. CASE RateLimited(r) \/ Unreachable(r)
  <2>1. attempt' = [attempt EXCEPT ![r] = @ + 1] /\ clock' = clock
    BY <1>5 DEF RateLimited, Unreachable
  <2>2. LastTry(r) => phase'[r] = "done"
    <3>1. CASE SubmitLimited(r) \/ SubmitUnreachable(r)
      BY <3>1 DEF SubmitLimited, SubmitUnreachable, GivesUp, Answers, TypeOK, RelayTypeOK
    <3>2. CASE ~(SubmitLimited(r) \/ SubmitUnreachable(r))
      <4>1. attempt' = attempt
        BY <3>2 DEF RelayStep, Accept, Reject, Check, Simulate, SubmitAnswered, SubmitAborted, Reached,
          rpcVars
      <4> QED
        BY <1>1, <2>1, <4>1 DEF TypeOK, RpcTypeOK
    <3> QED
      BY <3>1, <3>2
  <2>3. active' \in {"primary", "fallback"} /\ fallbackUntil' \in Nat
    BY <1>5, RpcAssumption DEF RateLimited, Unreachable, BackWhenRested, Node, Rested, TypeOK, RpcTypeOK
  <2>4. attempt'[r] = attempt[r] + 1 /\ attempt'[r] \in 0..MaxRetries
    BY <1>1, <1>2, <2>1, RpcAssumption DEF TypeOK, RpcTypeOK
  <2>5. RpcTypeOK'
    BY <2>1, <2>3, <2>4 DEF TypeOK, RpcTypeOK
  <2>6. phase'[r] # "done" => attempt'[r] < MaxRetries
    BY <1>1, <2>2, <2>4, RpcAssumption DEF LastTry
  <2> QED
    BY <1>1, <1>3, <1>4, <2>1, <2>5, <2>6 DEF TriesLeft, TypeOK, RpcTypeOK
<1>6. CASE ~(RateLimited(r) \/ Unreachable(r))
  <2>1. Reached \/ UNCHANGED rpcVars
    BY <1>6 DEF RelayStep, Accept, Reject, Check, Simulate, SubmitAnswered, SubmitAborted,
      SubmitLimited, SubmitUnreachable
  <2>2. clock' = clock /\ attempt' = attempt
    BY <2>1 DEF Reached, rpcVars
  <2>3. RpcTypeOK'
    BY <2>1 DEF Reached, BackWhenRested, Node, Rested, rpcVars, TypeOK, RpcTypeOK
  <2> QED
    BY <1>2, <1>3, <1>4, <2>2, <2>3 DEF TriesLeft
<1> QED
  BY <1>5, <1>6

LEMMA CallTries ==
  ASSUME TypeOK, TriesLeft, NEW c \in Calls, CallStep(c), UNCHANGED relayVars
  PROVE  RpcTypeOK' /\ TriesLeft' /\ clock' = clock
<1>1. c \in Callers /\ c \notin Relays /\ attempt[c] \in 0..MaxRetries
  BY OnboardingAssumption, ApiAssumption DEF TypeOK, RpcTypeOK
<1>2. stage[c] # "done" /\ attempt[c] < MaxRetries
  BY DEF CallStep, ReadStore, ReadIndex, Keep, LookupFails, Authorise, CallRejected, Execute,
    ExecuteLimited, ExecuteUnreachable, ExecuteAborts, Find, Record, StoreFails, TriesLeft
<1>3. \A d \in Calls : d # c => stage'[d] = stage[d] \/ stage'[d] = "done"
  BY DEF CallStep, ReadStore, ReadIndex, Keep, LookupFails, Authorise, CallRejected, Execute,
    ExecuteLimited, ExecuteUnreachable, ExecuteAborts, Find, Record, StoreFails, NotFound, Ends,
    Awaits, TypeOK, OnboardingTypeOK
<1>4. phase' = phase
  BY DEF relayVars
<1>5. CASE RateLimited(c) \/ Unreachable(c)
  <2>1. attempt' = [attempt EXCEPT ![c] = @ + 1] /\ clock' = clock
    BY <1>5 DEF RateLimited, Unreachable
  <2>2. LastTry(c) => stage'[c] = "done"
    <3>1. CASE ExecuteLimited(c) \/ ExecuteUnreachable(c)
      BY <3>1 DEF ExecuteLimited, ExecuteUnreachable, Ends, TypeOK, OnboardingTypeOK
    <3>2. CASE ~(ExecuteLimited(c) \/ ExecuteUnreachable(c))
      <4>1. attempt' = attempt
        BY <3>2 DEF CallStep, ReadStore, ReadIndex, Keep, LookupFails, Authorise, CallRejected, Execute,
          ExecuteAborts, Find, Record, StoreFails, Reached, rpcVars
      <4> QED
        BY <1>1, <2>1, <4>1 DEF TypeOK, RpcTypeOK
    <3> QED
      BY <3>1, <3>2
  <2>3. active' \in {"primary", "fallback"} /\ fallbackUntil' \in Nat
    BY <1>5, RpcAssumption DEF RateLimited, Unreachable, BackWhenRested, Node, Rested, TypeOK, RpcTypeOK
  <2>4. attempt'[c] = attempt[c] + 1 /\ attempt'[c] \in 0..MaxRetries
    BY <1>1, <1>2, <2>1, RpcAssumption DEF TypeOK, RpcTypeOK
  <2>5. RpcTypeOK'
    BY <2>1, <2>3, <2>4 DEF TypeOK, RpcTypeOK
  <2>6. stage'[c] # "done" => attempt'[c] < MaxRetries
    BY <1>1, <2>2, <2>4, RpcAssumption DEF LastTry
  <2> QED
    BY <1>1, <1>3, <1>4, <2>1, <2>5, <2>6 DEF TriesLeft, TypeOK, RpcTypeOK
<1>6. CASE ~(RateLimited(c) \/ Unreachable(c))
  <2>1. Reached \/ UNCHANGED rpcVars
    BY <1>6 DEF CallStep, ReadStore, ReadIndex, Keep, LookupFails, Authorise, CallRejected, Execute,
      ExecuteLimited, ExecuteUnreachable, ExecuteAborts, Find, Record, StoreFails
  <2>2. clock' = clock /\ attempt' = attempt
    BY <2>1 DEF Reached, rpcVars
  <2>3. RpcTypeOK'
    BY <2>1 DEF Reached, BackWhenRested, Node, Rested, rpcVars, TypeOK, RpcTypeOK
  <2> QED
    BY <1>2, <1>3, <1>4, <2>2, <2>3 DEF TriesLeft
<1> QED
  BY <1>5, <1>6

-----------------------------------------------------------------------------
(* Relays: what each step of a request keeps *)

LEMMA RelayKeeps ==
  ASSUME RelayTypeOK, \A q \in Relays : RelayInv(q), NEW r \in Relays, Arrive(r) \/ RelayStep(r)
  PROVE  RelayTypeOK' /\ \A q \in Relays : RelayInv(q)'
<1>1. CASE Arrive(r)
  BY <1>1, RelayAssumption DEF RelayTypeOK, RelayInv, Arrive, Pruned, Goes, Answers
<1>2. CASE Accept(r)
  BY <1>2, RelayAssumption DEF RelayTypeOK, RelayInv, Accept, Goes
<1>3. CASE Reject(r)
  BY <1>3 DEF RelayTypeOK, RelayInv, Reject, Answers
<1>4. CASE Check(r)
  BY <1>4 DEF RelayTypeOK, RelayInv, Check, Goes, Answers
<1>5. CASE Simulate(r)
  BY <1>5 DEF RelayTypeOK, RelayInv, Simulate, Goes, Answers
<1>6. CASE SubmitAnswered(r)
  BY <1>6 DEF RelayTypeOK, RelayInv, SubmitAnswered, Executions, Answers
<1>7. CASE SubmitAborted(r)
  BY <1>7 DEF RelayTypeOK, RelayInv, SubmitAborted, Answers
<1>8. CASE SubmitLimited(r)
  BY <1>8 DEF RelayTypeOK, RelayInv, SubmitLimited, GivesUp, Answers
<1>9. CASE SubmitUnreachable(r)
  BY <1>9 DEF RelayTypeOK, RelayInv, SubmitUnreachable, GivesUp, Executions, Answers
<1> QED
  BY <1>1, <1>2, <1>3, <1>4, <1>5, <1>6, <1>7, <1>8, <1>9 DEF RelayStep

(* An accepted intent is in the store until pruning, and pruning waits for the
   end of its time. *)
LEMMA StoreKeeps ==
  ASSUME TypeOK, StoreInv, NEW r \in Relays, Arrive(r) \/ RelayStep(r), clock' = clock
  PROVE  StoreInv'
<1>1. \A i \in Intents : ExpiresAt[i] \in Nat
  BY RelayAssumption
<1>2. clock \in Nat
  BY RpcAssumption DEF TypeOK, RpcTypeOK
<1>3. CASE Arrive(r)
  BY <1>1, <1>2, <1>3, RelayAssumption DEF TypeOK, RelayTypeOK, StoreInv, Arrive, Pruned
<1>4. CASE Accept(r)
  BY <1>4 DEF StoreInv, Accept
<1>5. CASE RelayStep(r) /\ ~Accept(r)
  <2>1. UNCHANGED <<used, accepted>>
    BY <1>5 DEF RelayStep, Reject, Check, Simulate, SubmitAnswered, SubmitAborted, SubmitLimited,
      SubmitUnreachable
  <2> QED
    BY <2>1 DEF StoreInv
<1> QED
  BY <1>3, <1>4, <1>5

-----------------------------------------------------------------------------
(* The process *)

LEMMA ApiStarts ==
  ASSUME Init
  PROVE  ApiInv
<1> USE DEF Init, RelayInit, OnboardingInit, RpcInit
<1>1. RelayTypeOK /\ RpcTypeOK
  BY RpcAssumption DEF RelayTypeOK, RpcTypeOK
<1>2. OnboardingTypeOK
  BY OnboardingAssumption DEF OnboardingTypeOK, Ids
<1>3. TriesLeft
  BY RpcAssumption, RelayAssumption, OnboardingAssumption DEF TriesLeft
<1>4. StoreInv /\ \A r \in Relays : RelayInv(r)
  BY DEF StoreInv, RelayInv
<1>5. ASSUME NEW u \in Users \ Onboarded PROVE UserInv(u) /\ CountInv(u)
  BY <1>5, OnboardingAssumption DEF UserInv, CallInv, CountInv, Executing, None, Nobody
<1>6. ASSUME NEW u \in Onboarded PROVE LinkedInv(u)
  BY <1>6, OnboardingAssumption DEF LinkedInv
<1> QED
  BY <1>1, <1>2, <1>3, <1>4, <1>5, <1>6 DEF ApiInv, TypeOK, OnboardingInv

(* One step per kind of step of the process. *)
LEMMA ApiContinues ==
  ASSUME ApiInv, [Next]_vars
  PROVE  ApiInv'
<1> USE DEF ApiInv, TypeOK
<1>1. ASSUME NEW r \in Relays, Arrive(r), UNCHANGED onboardingVars
      PROVE  ApiInv'
  <2>1. clock' = clock /\ RpcTypeOK' /\ attempt' = attempt /\ phase[r] = "new" /\ stage' = stage
    BY <1>1 DEF Arrive, rpcVars, RpcTypeOK, onboardingVars
  <2>2. \A q \in Relays : q # r => phase'[q] = phase[q]
    BY <1>1 DEF Arrive, Goes, Answers, RelayTypeOK
  <2>3. TriesLeft'
    BY <2>1, <2>2 DEF TriesLeft
  <2> QED
    BY <1>1, <2>1, <2>3, RelayKeeps, StoreKeeps, OnboardingUntouched
<1>2. ASSUME NEW c \in Calls, CallArrives(c), UNCHANGED relayVars
      PROVE  ApiInv'
  <2>1. UNCHANGED <<clock, active, fallbackUntil, attempt>> /\ stage[c] = "new"
        /\ stage' = [stage EXCEPT ![c] = "store"]
    BY <1>2 DEF CallArrives, Awaits, rpcVars
  <2>2. TriesLeft'
    BY <1>2, <2>1 DEF TriesLeft, relayVars, OnboardingTypeOK
  <2>3. RelayTypeOK' /\ RpcTypeOK' /\ StoreInv' /\ \A q \in Relays : RelayInv(q)'
    BY <1>2, <2>1 DEF RelayTypeOK, RpcTypeOK, StoreInv, RelayInv, relayVars
  <2> QED
    BY <1>2, <2>2, <2>3, ArrivalKeeps
<1>3. ASSUME NEW r \in Relays, RelayStep(r), UNCHANGED onboardingVars
      PROVE  ApiInv'
  BY <1>3, RelayTries, RelayKeeps, StoreKeeps, OnboardingUntouched
<1>4. ASSUME NEW c \in Calls, CallStep(c), UNCHANGED relayVars
      PROVE  ApiInv'
  <2>1. RpcTypeOK' /\ TriesLeft' /\ clock' = clock
    BY <1>4, CallTries
  <2>2. RelayTypeOK' /\ StoreInv' /\ \A q \in Relays : RelayInv(q)'
    BY <1>4, <2>1 DEF RelayTypeOK, StoreInv, RelayInv, relayVars
  <2>3. OnboardingTypeOK' /\ OnboardingInv'
    BY <1>4, CallTypes, CallKeepsUser, CallKeepsCount, CallKeepsLinked DEF OnboardingInv
  <2> QED
    BY <2>1, <2>2, <2>3
<1>5. ASSUME NEW u \in Users, Link(u) \/ IndexAccount(u), UNCHANGED relayVars
      PROVE  ApiInv'
  <2>1. UNCHANGED <<clock, active, fallbackUntil, attempt, stage>>
    BY <1>5 DEF Link, IndexAccount, rpcVars
  <2>2. RelayTypeOK' /\ RpcTypeOK' /\ TriesLeft' /\ StoreInv' /\ \A q \in Relays : RelayInv(q)'
    BY <1>5, <2>1 DEF RelayTypeOK, RpcTypeOK, TriesLeft, StoreInv, RelayInv, relayVars
  <2> QED
    BY <1>5, <2>2, UserStepKeeps
<1>6. ASSUME Tick, UNCHANGED <<relayVars, onboardingVars>>
      PROVE  ApiInv'
  <2>1. clock' \in 0..MaxTime /\ clock' >= clock /\ UNCHANGED <<active, fallbackUntil, attempt>>
    BY <1>6, RpcAssumption DEF Tick, RpcTypeOK
  <2>2. RelayTypeOK' /\ RpcTypeOK' /\ \A q \in Relays : RelayInv(q)'
    BY <1>6, <2>1 DEF RelayTypeOK, RpcTypeOK, RelayInv, relayVars
  <2>3. TriesLeft'
    BY <1>6, <2>1 DEF TriesLeft, relayVars, onboardingVars
  <2>4. StoreInv'
    <3>1. \A r \in accepted : ExpiresAt[IntentOf[r]] \in Nat
      BY RelayAssumption DEF RelayTypeOK
    <3>2. clock \in Nat /\ clock' \in Nat /\ clock' >= clock
      BY <2>1, RpcAssumption DEF RpcTypeOK
    <3>3. UNCHANGED <<accepted, used>>
      BY <1>6 DEF relayVars
    <3> QED
      BY <3>1, <3>2, <3>3 DEF StoreInv
  <2> QED
    BY <1>6, <2>2, <2>3, <2>4, OnboardingUntouched
<1>7. CASE Restart
  <2>1. UNCHANGED <<clock, active, fallbackUntil, attempt>>
    BY <1>7 DEF Restart, rpcVars
  <2>2. phase' = [r \in Relays |-> IF phase[r] = "new" THEN "new" ELSE "done"]
        /\ stage' = [c \in Calls |-> IF stage[c] = "new" THEN "new" ELSE "done"]
    BY <1>7 DEF Restart, RelayRestart, OnboardingRestart
  <2>3. RpcTypeOK' /\ TriesLeft'
    BY <2>1, <2>2 DEF RpcTypeOK, TriesLeft
  <2>4. RelayTypeOK' /\ StoreInv' /\ \A q \in Relays : RelayInv(q)'
    BY <1>7 DEF Restart, RelayRestart, RelayTypeOK, StoreInv, RelayInv
  <2> QED
    BY <1>7, <2>3, <2>4, RestartKeeps DEF Restart
<1>8. CASE UNCHANGED vars
  <2>1. UNCHANGED <<relayVars, onboardingVars, rpcVars>>
    BY <1>8 DEF vars
  <2>2. RelayTypeOK' /\ RpcTypeOK' /\ TriesLeft' /\ StoreInv' /\ \A q \in Relays : RelayInv(q)'
    BY <2>1 DEF RelayTypeOK, RpcTypeOK, TriesLeft, StoreInv, RelayInv, relayVars, rpcVars, onboardingVars
  <2> QED
    BY <2>1, <2>2, OnboardingUntouched
<1> QED
  BY <1>1, <1>2, <1>3, <1>4, <1>5, <1>6, <1>7, <1>8 DEF Next, Arrival, Turn

(* The state of the keeper stays sound whatever arrives, fails or restarts. *)
THEOREM ApiIsSound == Spec => []ApiInv
<1>1. Init => ApiInv
  BY ApiStarts
<1>2. ApiInv /\ [Next]_vars => ApiInv'
  BY ApiContinues
<1> QED
  BY <1>1, <1>2, PTL DEF Spec

(* No call is retried past its tries and every amount stays in range. *)
THEOREM ApiTypes == Spec => []TypeOK
<1>1. ApiInv => TypeOK
  BY DEF ApiInv
<1> QED
  BY <1>1, ApiIsSound, PTL

(* A refused intent never ran, and an answered digest did (TradeService). *)
THEOREM RefusalsAreHonest == Spec => []AnswersAreTrue
<1>1. ApiInv => AnswersAreTrue
  BY DEF ApiInv, RelayInv, AnswersAreTrue
<1> QED
  BY <1>1, ApiIsSound, PTL

(* Whoever is told a manager of a user is told the same one (ManagerService). *)
THEOREM EveryoneIsToldTheSame == Spec => []AnswersAgree
<1>1. ApiInv => AnswersAgree
  <2> SUFFICES ASSUME ApiInv, NEW c \in Calls, NEW d \in Calls, UserOf[c] = UserOf[d],
                      reply[c] # None, reply[d] # None, UserOf[c] \in Onboarded => faults = 0
               PROVE  reply[c] = reply[d]
    BY DEF AnswersAgree
  <2>1. CASE UserOf[c] \in Onboarded
    BY <2>1 DEF ApiInv, OnboardingInv, LinkedInv
  <2>2. CASE UserOf[c] \notin Onboarded
    BY <2>2, OnboardingAssumption DEF ApiInv, OnboardingInv, UserInv, CallInv
  <2> QED
    BY <2>1, <2>2
<1> QED
  BY <1>1, ApiIsSound, PTL

(* A second manager of an address takes a lost answer, a failed write or a
   restart; concurrent calls alone never create it. *)
THEOREM SecondManagersAreFaults == Spec => []OneManagerPerAddress
<1>1. ApiInv => OneManagerPerAddress
  <2> SUFFICES ASSUME ApiInv, NEW u \in Users \ Onboarded
               PROVE  made[u] <= 1 + faults
    BY DEF OneManagerPerAddress
  <2>1. made[u] \in Nat /\ faults \in Nat
    BY OnboardingAssumption DEF ApiInv, TypeOK, OnboardingTypeOK
  <2> QED
    BY <2>1 DEF ApiInv, OnboardingInv, CountInv
<1> QED
  BY <1>1, ApiIsSound, PTL

(* The store turns a replay away for as long as it is in time
   (TradeReplayStore), pruning included. *)
THEOREM ReplaysAreTurnedAway == Spec => ReplaysAreRefused
<1>1. ASSUME ApiInv, [Next]_vars, NEW r \in Relays, phase[r] = "new", phase'[r] = "verify",
             NEW q \in accepted, IntentOf[q] = IntentOf[r]
      PROVE  clock > ExpiresAt[IntentOf[r]]
  <2>1. Arrive(r)
    <3>1. \A s \in Relays : s # r /\ (Arrive(s) \/ RelayStep(s)) => phase'[r] = phase[r]
      BY <1>1 DEF ApiInv, TypeOK, RelayTypeOK, Arrive, RelayStep, Accept, Reject, Check, Simulate,
        SubmitAnswered, SubmitAborted, SubmitLimited, SubmitUnreachable, GivesUp, Goes, Answers
    <3>2. ~RelayStep(r)
      BY <1>1 DEF RelayStep, Accept, Reject, Check, Simulate, SubmitAnswered, SubmitAborted,
        SubmitLimited, SubmitUnreachable
    <3>3. ~Restart
      BY <1>1 DEF Restart, RelayRestart
    <3>4. phase' # phase
      BY <1>1
    <3> QED
      BY <1>1, <3>1, <3>2, <3>3, <3>4 DEF Next, Arrival, Turn, vars, relayVars
  <2>2. IntentOf[r] \notin Pruned(clock)
    BY <1>1, <2>1 DEF Arrive, Answers, ApiInv, TypeOK, RelayTypeOK
  <2>3. IntentOf[r] \in used \/ clock > ExpiresAt[IntentOf[r]]
    BY <1>1 DEF ApiInv, StoreInv
  <2>4. clock \in Nat /\ ExpiresAt[IntentOf[r]] \in Nat
    BY <1>1, RelayAssumption, RpcAssumption DEF ApiInv, TypeOK, RpcTypeOK
  <2> QED
    BY <2>2, <2>3, <2>4 DEF Pruned
<1>2. ApiInv /\ [Next]_vars =>
        [\A r \in Relays :
           phase[r] = "new" /\ phase'[r] = "verify" =>
             \A q \in accepted : IntentOf[q] = IntentOf[r] => clock > ExpiresAt[IntentOf[r]]]_relayVars
  BY <1>1
<1> QED
  BY <1>2, ApiIsSound, PTL DEF Spec, ReplaysAreRefused
=============================================================================
