------------------------- MODULE ManagerOnboarding -------------------------
(***************************************************************************)
(* The keeper gives every user address a Predict manager of its own        *)
(* (manager.service.ts): a call looks the manager up in the database, then *)
(* in the indexer, and when neither knows it creates one on the chain and  *)
(* writes it down.  Calls of one address interleave at every await; a      *)
(* creation in flight is shared by the calls that find it.  The user then  *)
(* links the manager to the account, which the indexer shows later.        *)
(***************************************************************************)
EXTENDS RpcFailover

CONSTANTS
  Users,
  Calls, UserOf,       \* calls of the onboarding endpoints
  Creates,             \* those that create a manager when there is none
  Onboarded,           \* users linked before the database was set up
  MaxManagers,         \* bound: managers created for a user
  MaxFaults            \* bound: failed reads and writes, lost answers, restarts

ASSUME OnboardingAssumption ==
  /\ Calls \subseteq Callers /\ Creates \subseteq Calls
  /\ UserOf \in [Calls -> Users] /\ Onboarded \subseteq Users
  /\ MaxManagers \in Nat /\ MaxFaults \in Nat
  /\ "nobody" \notin Calls

None == -1
Nobody == "nobody"

(* The managers of a user: 1, 2, ... as the keeper creates them; 0 is one the
   account was linked to before. *)
Ids == 0..MaxManagers

VARIABLES
  stage,      \* what a call awaits
  found,      \* the manager a call has learnt of and not yet written down
  reply,      \* the manager a call answered with
  lock,       \* creationLocks: the call that creates for a user
  stored,     \* the database
  made,       \* managers the keeper created for a user
  linked,     \* the manager of a user's account on the chain
  indexed,    \* the same as the indexer knows it
  faults

chainVars == <<made, linked, indexed>>
onboardingVars == <<stage, found, reply, lock, stored, chainVars, faults>>

OnboardingInit ==
  /\ stage = [c \in Calls |-> "new"]
  /\ found = [c \in Calls |-> None] /\ reply = [c \in Calls |-> None]
  /\ lock = [u \in Users |-> Nobody]
  /\ stored = [u \in Users |-> None]
  /\ made = [u \in Users |-> 0]
  /\ linked = [u \in Users |-> IF u \in Onboarded THEN 0 ELSE None]
  /\ indexed = linked
  /\ faults = 0

OnboardingTypeOK ==
  /\ stage \in [Calls -> {"new", "store", "index", "keep", "auth", "join",
                          "execute", "find", "record", "done"}]
  /\ found \in [Calls -> Ids \cup {None}] /\ reply \in [Calls -> Ids \cup {None}]
  /\ lock \in [Users -> Calls \cup {Nobody}]
  /\ stored \in [Users -> Ids \cup {None}]
  /\ made \in [Users -> 0..MaxManagers]
  /\ linked \in [Users -> Ids \cup {None}] /\ indexed \in [Users -> Ids \cup {None}]
  /\ faults \in 0..MaxFaults

Creating(c) == lock[UserOf[c]] = c
Awaits(c, what) == stage' = [stage EXCEPT ![c] = what]
Fault == faults < MaxFaults /\ faults' = faults + 1

(* A call ends; with the creation of a user end the calls that joined it. *)
Joined(c) == {d \in Calls : stage[d] = "join" /\ UserOf[d] = UserOf[c]}
Ends(c, id) ==
  LET all == {c} \cup (IF Creating(c) THEN Joined(c) ELSE {})
  IN /\ stage' = [d \in Calls |-> IF d \in all THEN "done" ELSE stage[d]]
     /\ reply' = [d \in Calls |-> IF d \in all THEN id ELSE reply[d]]
     /\ lock' = IF Creating(c) THEN [lock EXCEPT ![UserOf[c]] = Nobody] ELSE lock

(* resolveManagerId found nothing: a lookup says so, a call that may create is
   authorised, a creation goes ahead. *)
NotFound(c) ==
  IF c \notin Creates
  THEN Ends(c, None)
  ELSE Awaits(c, IF Creating(c) THEN "execute" ELSE "auth") /\ UNCHANGED <<reply, lock>>

CallArrives(c) ==
  /\ stage[c] = "new"
  /\ Awaits(c, "store")
  /\ UNCHANGED <<found, reply, lock, stored, chainVars, faults, rpcVars>>

ReadStore(c) ==
  LET id == stored[UserOf[c]] IN
  /\ stage[c] = "store"
  /\ IF id # None THEN Ends(c, id) ELSE Awaits(c, "index") /\ UNCHANGED <<reply, lock>>
  /\ UNCHANGED <<found, stored, chainVars, faults, rpcVars>>

ReadIndex(c) ==
  LET id == indexed[UserOf[c]] IN
  /\ stage[c] = "index"
  /\ IF id # None
     THEN /\ Awaits(c, "keep")
          /\ found' = [found EXCEPT ![c] = id]
          /\ UNCHANGED <<reply, lock>>
     ELSE NotFound(c) /\ UNCHANGED found
  /\ UNCHANGED <<stored, chainVars, faults, rpcVars>>

Keep(c) ==
  LET id == found[c] IN
  /\ stage[c] = "keep"
  /\ stored' = [stored EXCEPT ![UserOf[c]] = id]
  /\ Ends(c, id)
  /\ UNCHANGED <<found, chainVars, faults, rpcVars>>

(* A failed read of the indexer, or a failed write of what it said, is caught:
   the call goes on as if the indexer knew nothing. *)
LookupFails(c) ==
  /\ stage[c] \in {"index", "keep"}
  /\ Fault
  /\ NotFound(c)
  /\ UNCHANGED <<found, stored, chainVars, rpcVars>>

AuthoriseAndExecute(c) ==
  LET u == UserOf[c] IN
  /\ stage[c] = "auth"
  /\ IF lock[u] # Nobody
     THEN Awaits(c, "join") /\ UNCHANGED lock
     ELSE Awaits(c, "execute") /\ lock' = [lock EXCEPT ![u] = c]
  /\ UNCHANGED <<found, reply, stored, chainVars, faults, rpcVars>>

AuthoriseLocksFirst(c) ==
  LET u == UserOf[c] IN
  /\ stage[c] = "auth"
  /\ Awaits(c, "join")
  /\ lock' = IF lock[u] = Nobody THEN [lock EXCEPT ![u] = c] ELSE lock
  /\ UNCHANGED <<found, reply, stored, chainVars, faults, rpcVars>>

(* Authorised: the creation in flight is joined, or this call creates and looks
   the manager up once more. *)
Authorise(c) ==
  LET u == UserOf[c] IN
  /\ stage[c] = "auth"
  /\ IF lock[u] # Nobody
     THEN Awaits(c, "join") /\ UNCHANGED lock
     ELSE Awaits(c, "store") /\ lock' = [lock EXCEPT ![u] = c]
  /\ UNCHANGED <<found, reply, stored, chainVars, faults, rpcVars>>

CallRejected(c) ==
  /\ stage[c] = "auth"
  /\ Ends(c, None)
  /\ UNCHANGED <<found, stored, chainVars, faults, rpcVars>>

NewManager(u) == made' = [made EXCEPT ![u] = @ + 1]

(* the creation is submitted and the node answers *)
Execute(c) ==
  LET u == UserOf[c] IN
  /\ stage[c] = "execute"
  /\ made[u] < MaxManagers
  /\ NewManager(u)
  /\ found' = [found EXCEPT ![c] = made[u] + 1]
  /\ Awaits(c, "find")
  /\ Reached
  /\ UNCHANGED <<reply, lock, stored, linked, indexed, faults>>

ExecuteLimited(c) ==
  /\ stage[c] = "execute"
  /\ RateLimited(c)
  /\ IF LastTry(c) THEN Ends(c, None) ELSE UNCHANGED <<stage, reply, lock>>
  /\ UNCHANGED <<found, stored, chainVars, faults>>

(* no answer: a manager that was created is nobody's, and a sponsored retry
   creates another *)
ExecuteUnreachable(c) ==
  LET u == UserOf[c] IN
  /\ stage[c] = "execute"
  /\ Unreachable(c)
  /\ \/ UNCHANGED <<made, faults>>
     \/ made[u] < MaxManagers /\ NewManager(u) /\ Fault
  /\ IF LastTry(c) THEN Ends(c, None) ELSE UNCHANGED <<stage, reply, lock>>
  /\ UNCHANGED <<found, stored, linked, indexed>>

ExecuteAborts(c) ==
  /\ stage[c] = "execute"
  /\ Ends(c, None)
  /\ Reached
  /\ UNCHANGED <<found, stored, chainVars, faults>>

Find(c) ==
  /\ stage[c] = "find"
  /\ Awaits(c, "record")
  /\ UNCHANGED <<found, reply, lock, stored, chainVars, faults, rpcVars>>

Record(c) ==
  /\ stage[c] = "record"
  /\ stored' = [stored EXCEPT ![UserOf[c]] = found[c]]
  /\ Ends(c, found[c])
  /\ UNCHANGED <<found, chainVars, faults, rpcVars>>

StoreFailsUnnoticed(c) ==
  /\ stage[c] \in {"find", "record"}
  /\ Fault
  /\ Ends(c, found[c])
  /\ UNCHANGED <<found, stored, chainVars, rpcVars>>

(* managers.get fails, or after a creation getCreatedObjectIdFromDigest or
   managers.set: an error, and the manager on the chain is forgotten *)
StoreFails(c) ==
  /\ stage[c] \in {"store", "find", "record"}
  /\ Fault
  /\ Ends(c, None)
  /\ UNCHANGED <<found, stored, chainVars, rpcVars>>

(* The user links the account to a manager the keeper answered with. *)
Link(u) ==
  /\ linked[u] = None
  /\ \E c \in Calls :
       /\ UserOf[c] = u /\ reply[c] # None
       /\ linked' = [linked EXCEPT ![u] = reply[c]]
  /\ UNCHANGED <<stage, found, reply, lock, stored, made, indexed, faults, rpcVars>>

IndexAccount(u) ==
  /\ indexed[u] # linked[u]
  /\ indexed' = [indexed EXCEPT ![u] = linked[u]]
  /\ UNCHANGED <<stage, found, reply, lock, stored, made, linked, faults, rpcVars>>

CallStep(c) ==
  \/ ReadStore(c) \/ ReadIndex(c) \/ Keep(c) \/ LookupFails(c)
  \/ Authorise(c) \/ CallRejected(c)
  \/ Execute(c) \/ ExecuteLimited(c) \/ ExecuteUnreachable(c) \/ ExecuteAborts(c)
  \/ Find(c) \/ Record(c) \/ StoreFails(c)

(* The calls in flight and the locks are lost, the database stays. *)
OnboardingRestart ==
  /\ Fault
  /\ stage' = [c \in Calls |-> IF stage[c] = "new" THEN "new" ELSE "done"]
  /\ lock' = [u \in Users |-> Nobody]
  /\ UNCHANGED <<found, reply, stored, chainVars>>

(* Whoever is told a manager of a user is told the same one, now and later,
   however calls, creations, lost answers, failed writes and restarts
   interleave.  A user linked before the database was set up is told the
   linked one as long as no read or write fails. *)
AnswersAgree ==
  \A c, d \in Calls :
    (UserOf[c] = UserOf[d] /\ reply[c] # None /\ reply[d] # None
     /\ (UserOf[c] \in Onboarded => faults = 0))
      => reply[c] = reply[d]

(* "one per address": a manager more than that takes a fault each. *)
OneManagerPerAddress == \A u \in Users \ Onboarded : made[u] <= 1 + faults
=============================================================================
