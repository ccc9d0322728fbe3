-------------------------- MODULE KeeperCycleProofs ---------------------------
(* The locks of the orchestrator, for any set of keys, cron jobs and requests *)
(* and any number of failures: no two runs ever work on one task.  Then the   *)
(* shape of the state, and with it the bounds: one order of a key, a queue    *)
(* within one job per kind and one per restart, a phase within its limit.     *)
EXTENDS KeeperCycle, FiniteSetTheorems, WellFoundedInduction, TLAPS

\* What a slot is doing, as far as the locks depend on it.
RunsWellFormed ==
    /\ run = [s \in Slots |-> run[s]]
    /\ \A s \in Busy : "kind" \in DOMAIN run[s] /\ run[s].kind \in Kinds
    /\ "worker" \in Busy => run["worker"].kind \in CronKinds

\* The inductive invariant: a job that waits is one the scheduler registers,
\* so that the run it starts has a kind the locks know.
LockInv == queue \in Seq(CronKinds) /\ RunsWellFormed /\ RunsExcludeEachOther

\* A record whose kind is a task is not the idle slot.
LEMMA BusyKind ==
    ASSUME NEW r, "kind" \in DOMAIN r, r.kind \in Kinds
    PROVE  r # Idle
  BY DEF Idle, Kinds

\* Tasks of two kinds overlap when the kinds are equal or one is "all".
LEMMA TasksOverlap ==
    ASSUME NEW a \in Kinds, NEW b \in Kinds
    PROVE  Tasks(a) \cap Tasks(b) = {} <=> (a # b /\ a # "all" /\ b # "all")
  BY DEF Tasks, Kinds

-----------------------------------------------------------------------------
(* The three ways in which runs and locks change *)

\* A slot starts a run whose kind is not locked (KeeperOrchestratorService.run).
LEMMA StartKeepsLocks ==
    ASSUME LockInv, NEW s \in Slots, NEW kind \in Kinds,
           run[s] = Idle, ~IsLocked(kind), s = "worker" => kind \in CronKinds,
           StartRun(s, kind), queue' \in Seq(CronKinds)
    PROVE  LockInv'
<1> DEFINE new == NewRun(kind)
<1>1. "kind" \in DOMAIN new /\ new.kind = kind
  BY DEF NewRun
<1>2. new # Idle
  BY <1>1, BusyKind
<1>3. run' = [t \in Slots |-> IF t = s THEN new ELSE run[t]]
  BY DEF LockInv, RunsWellFormed, StartRun
<1> HIDE DEF new
<1>4. Busy' = Busy \cup {s} /\ s \notin Busy
  BY <1>2, <1>3 DEF Busy
<1>5. \A t \in Busy : t # s /\ run'[t] = run[t]
  BY <1>3, <1>4 DEF Busy
<1>6. run'[s] = new
  BY <1>3
<1>7. RunsWellFormed'
  <2>1. \A t \in Busy' : "kind" \in DOMAIN run'[t] /\ run'[t].kind \in Kinds
    BY <1>1, <1>4, <1>5, <1>6 DEF LockInv, RunsWellFormed
  <2>2. "worker" \in Busy' => run'["worker"].kind \in CronKinds
    BY <1>1, <1>4, <1>5, <1>6 DEF LockInv, RunsWellFormed
  <2>3. run' = [t \in Slots |-> run'[t]]
    BY <1>3
  <2> QED
    BY <2>1, <2>2, <2>3 DEF RunsWellFormed
<1>8. runningKinds' = {run'[t].kind : t \in Busy'}
  BY <1>1, <1>4, <1>5, <1>6 DEF LockInv, RunsExcludeEachOther, StartRun
<1>9. ASSUME NEW t \in Busy
      PROVE  Tasks(run[t].kind) \cap Tasks(kind) = {}
  <2>1. run[t].kind \in Kinds /\ run[t].kind \in runningKinds
    BY <1>9 DEF LockInv, RunsWellFormed, RunsExcludeEachOther
  <2>2. run[t].kind # kind /\ run[t].kind # "all" /\ kind # "all"
    BY <2>1 DEF IsLocked
  <2> QED
    BY <2>1, <2>2, TasksOverlap
<1>10. \A t, u \in Busy' : t # u => Tasks(run'[t].kind) \cap Tasks(run'[u].kind) = {}
  BY <1>1, <1>4, <1>5, <1>6, <1>9 DEF LockInv, RunsExcludeEachOther
<1> QED
  BY <1>7, <1>8, <1>10 DEF LockInv, RunsExcludeEachOther

\* A run that ends takes its lock with it, and only its own.
LEMMA EndKeepsLocks ==
    ASSUME LockInv, NEW s \in Busy, queue' = queue,
           run' = [run EXCEPT ![s] = Idle], runningKinds' = runningKinds \ {run[s].kind}
    PROVE  LockInv'
<1>1. run' = [t \in Slots |-> IF t = s THEN Idle ELSE run[t]]
  BY DEF LockInv, RunsWellFormed
<1>2. Busy' = Busy \ {s}
  BY <1>1 DEF Busy
<1>3. \A t \in Busy' : t \in Busy /\ t # s /\ run'[t] = run[t]
  BY <1>1, <1>2 DEF Busy
<1>4. \A t \in Busy' : run[t].kind # run[s].kind
  <2> SUFFICES ASSUME NEW t \in Busy' PROVE run[t].kind # run[s].kind
    OBVIOUS
  <2>1. t \in Busy /\ t # s
    BY <1>3
  <2>2. run[t].kind \in Kinds /\ run[s].kind \in Kinds
    BY <2>1 DEF LockInv, RunsWellFormed
  <2>3. Tasks(run[t].kind) \cap Tasks(run[s].kind) = {}
    BY <2>1 DEF LockInv, RunsExcludeEachOther
  <2> QED
    BY <2>2, <2>3, TasksOverlap
<1>5. RunsWellFormed'
  <2>1. run' = [t \in Slots |-> run'[t]]
    BY <1>1
  <2>2. \A t \in Busy' : "kind" \in DOMAIN run'[t] /\ run'[t].kind \in Kinds
    BY <1>3 DEF LockInv, RunsWellFormed
  <2>3. "worker" \in Busy' => run'["worker"].kind \in CronKinds
    BY <1>3 DEF LockInv, RunsWellFormed
  <2> QED
    BY <2>1, <2>2, <2>3 DEF RunsWellFormed
<1>6. runningKinds' = {run'[t].kind : t \in Busy'}
  BY <1>2, <1>3, <1>4 DEF LockInv, RunsExcludeEachOther
<1>7. \A t, u \in Busy' : t # u => Tasks(run'[t].kind) \cap Tasks(run'[u].kind) = {}
  BY <1>3 DEF LockInv, RunsExcludeEachOther
<1> QED
  BY <1>5, <1>6, <1>7 DEF LockInv, RunsExcludeEachOther

\* A run that goes on keeps its kind, and with it its lock.
LEMMA StepKeepsLocks ==
    ASSUME LockInv, NEW s \in Busy, NEW r, queue' = queue,
           "kind" \in DOMAIN r, r.kind = run[s].kind,
           run' = [run EXCEPT ![s] = r], runningKinds' = runningKinds
    PROVE  LockInv'
<1>1. s \in Slots /\ run[s].kind \in Kinds /\ "kind" \in DOMAIN run[s]
  BY DEF Busy, LockInv, RunsWellFormed
<1>2. r # Idle
  BY <1>1, BusyKind
<1>3. run' = [t \in Slots |-> IF t = s THEN r ELSE run[t]]
  BY DEF LockInv, RunsWellFormed
<1>4. Busy' = Busy
  BY <1>1, <1>2, <1>3 DEF Busy
<1>5. \A t \in Busy : /\ "kind" \in DOMAIN run'[t]
                      /\ run'[t].kind = run[t].kind
  BY <1>3 DEF Busy, LockInv, RunsWellFormed
<1>6. run' = [t \in Slots |-> run'[t]]
  BY <1>3
<1>7. RunsWellFormed'
  BY <1>4, <1>5, <1>6 DEF LockInv, RunsWellFormed
<1>8. {run'[t].kind : t \in Busy'} = {run[t].kind : t \in Busy}
  BY <1>4, <1>5
<1>9. \A t, u \in Busy' : t # u => Tasks(run'[t].kind) \cap Tasks(run'[u].kind) = {}
  BY <1>4, <1>5 DEF LockInv, RunsExcludeEachOther
<1> QED
  BY <1>7, <1>8, <1>9 DEF LockInv, RunsExcludeEachOther

\* Continue is one of the two.
LEMMA ContinueKeepsLocks ==
    ASSUME LockInv, NEW s \in Busy, NEW r, queue' = queue,
           "kind" \in DOMAIN r, r.kind = run[s].kind, Continue(s, r)
    PROVE  LockInv'
<1>1. CASE r.todo = <<>>
  BY <1>1, EndKeepsLocks DEF Continue
<1>2. CASE r.todo # <<>>
  BY <1>2, StepKeepsLocks DEF Continue
<1> QED
  BY <1>1, <1>2

-----------------------------------------------------------------------------
(* Steps of a run *)

LEMMA RefreshKeepsLocks ==
    ASSUME LockInv, NEW s \in Slots, NEW paused, ReadsPause(s, paused)
    PROVE  LockInv'
<1> DEFINE r == [run[s] EXCEPT !.paused = paused, !.step = "fetch"]
<1>1. s \in Busy
  BY DEF ReadsPause, At, Busy
<1>2. "kind" \in DOMAIN run[s]
  BY <1>1 DEF LockInv, RunsWellFormed
<1>3. "kind" \in DOMAIN r /\ r.kind = run[s].kind
  BY <1>2
<1>4. run' = [run EXCEPT ![s] = r]
  BY DEF ReadsPause, LockInv, RunsWellFormed
<1> HIDE DEF r
<1> QED
  BY <1>1, <1>3, <1>4, StepKeepsLocks DEF ReadsPause

LEMMA NextPhaseKind ==
    ASSUME NEW r, "kind" \in DOMAIN r
    PROVE  "kind" \in DOMAIN NextPhase(r) /\ NextPhase(r).kind = r.kind
  BY DEF NextPhase

LEMMA NextCandidateKind ==
    ASSUME NEW r, NEW found, "kind" \in DOMAIN r
    PROVE  "kind" \in DOMAIN NextCandidate(r, found) /\ NextCandidate(r, found).kind = r.kind
  BY DEF NextCandidate

LEMMA FetchKeepsLocks ==
    ASSUME LockInv, NEW s \in Slots, Fetch(s)
    PROVE  LockInv'
<1> DEFINE r     == run[s]
           phase == Head(r.todo)
           at    == IF phase \in {"fill", "deleverage"} THEN chain.now ELSE r.at
           begun == [r EXCEPT !.at = at]
           Listed(list) == [r EXCEPT !.step = "work", !.at = at, !.list = list, !.rows = index.open]
<1>1. s \in Busy /\ "kind" \in DOMAIN r
  BY DEF Fetch, At, Busy, LockInv, RunsWellFormed
<1>2. "kind" \in DOMAIN begun /\ begun.kind = r.kind
  BY <1>1
<1>3. "kind" \in DOMAIN NextPhase(begun) /\ NextPhase(begun).kind = r.kind
  BY <1>2, NextPhaseKind
<1>4. \A list : "kind" \in DOMAIN Listed(list) /\ Listed(list).kind = r.kind
  BY <1>1
<1>5. Continue(s, NextPhase(begun)) \/ \E list : Continue(s, Listed(list))
  BY DEF Fetch
<1>6. queue' = queue
  BY DEF Fetch
<1> HIDE DEF begun, Listed
<1> QED
  BY <1>1, <1>3, <1>4, <1>5, <1>6, ContinueKeepsLocks

LEMMA SimulateKeepsLocks ==
    ASSUME LockInv, NEW s \in Slots, Simulate(s)
    PROVE  LockInv'
<1> DEFINE r           == run[s]
           dropped     == [r EXCEPT !.list = Tail(@)]
           Settled(tx) == [r EXCEPT !.step = "submit", !.tx = tx]
<1>1. s \in Busy /\ "kind" \in DOMAIN r
  BY DEF Simulate, At, Busy, LockInv, RunsWellFormed
<1>2. "kind" \in DOMAIN NextPhase(r) /\ NextPhase(r).kind = r.kind
  BY <1>1, NextPhaseKind
<1>3. "kind" \in DOMAIN dropped /\ dropped.kind = r.kind
  BY <1>1
<1>4. \A tx : "kind" \in DOMAIN Settled(tx) /\ Settled(tx).kind = r.kind
  BY <1>1
<1>5. \/ Continue(s, NextPhase(r))
      \/ Continue(s, dropped)
      \/ \E tx : Continue(s, Settled(tx))
  BY DEF Simulate
<1>6. queue' = queue
  BY DEF Simulate
<1> HIDE DEF dropped, Settled
<1> QED
  BY <1>1, <1>2, <1>3, <1>4, <1>5, <1>6, ContinueKeepsLocks

LEMMA SubmitKeepsLocks ==
    ASSUME LockInv, NEW s \in Slots, Submit(s) \/ CallFails(s)
    PROVE  LockInv'
<1> DEFINE r == run[s]
<1>1. s \in Busy /\ "kind" \in DOMAIN r
  BY DEF Submit, CallFails, At, Busy, LockInv, RunsWellFormed
<1>2. \A found : "kind" \in DOMAIN NextCandidate(r, found) /\ NextCandidate(r, found).kind = r.kind
  BY <1>1, NextCandidateKind
<1>3. Continue(s, NextCandidate(r, 0)) \/ Continue(s, NextCandidate(r, 1))
  BY DEF Submit, CallFails
<1>4. queue' = queue
  BY DEF Submit, CallFails
<1> QED
  BY <1>1, <1>2, <1>3, <1>4, ContinueKeepsLocks

LEMMA FetchFailsKeepsLocks ==
    ASSUME LockInv, NEW s \in Slots, FetchFails(s)
    PROVE  LockInv'
<1>1. s \in Busy
  BY DEF FetchFails, At, Busy
<1> QED
  BY <1>1, EndKeepsLocks DEF FetchFails, LocksAfterFailure

-----------------------------------------------------------------------------
(* Jobs, requests and restarts *)

\* A step that touches neither runs nor locks.
LEMMA IdleKeepsLocks ==
    ASSUME LockInv, queue' \in Seq(CronKinds), UNCHANGED <<runningKinds, run>>
    PROVE  LockInv'
  BY DEF LockInv, RunsWellFormed, RunsExcludeEachOther, Busy

LEMMA TakeJobKeepsLocks ==
    ASSUME LockInv, TakeJob
    PROVE  LockInv'
<1>1. Head(queue) \in CronKinds /\ queue' \in Seq(CronKinds)
  BY DEF LockInv, TakeJob
<1>2. Head(queue) \in Kinds
  BY <1>1, BoundsAssumption
<1>3. CASE IsLocked(Head(queue))
  BY <1>1, <1>3, IdleKeepsLocks DEF TakeJob
<1>4. CASE ~IsLocked(Head(queue))
  BY <1>1, <1>2, <1>4, StartKeepsLocks DEF TakeJob, Slots
<1> QED
  BY <1>3, <1>4

LEMMA RequestKeepsLocks ==
    ASSUME LockInv, NEW kind \in HttpKinds, Request(kind)
    PROVE  LockInv'
<1>1. kind \in Kinds /\ queue' \in Seq(CronKinds)
  BY BoundsAssumption DEF LockInv, Request
<1> QED
  BY <1>1, StartKeepsLocks DEF Request, Slots

LEMMA RestartKeepsLocks ==
    ASSUME LockInv, Restart
    PROVE  LockInv'
<1>1. queue' \in Seq(CronKinds)
  BY DEF Restart, LockInv, RunsWellFormed
<1>2. Busy' = {}
  BY DEF Restart, Busy
<1>3. run' = [s \in Slots |-> run'[s]] /\ runningKinds' = {}
  BY DEF Restart
<1> QED
  BY <1>1, <1>2, <1>3 DEF LockInv, RunsWellFormed, RunsExcludeEachOther

-----------------------------------------------------------------------------
LEMMA LockInit == Init => LockInv
  BY DEF Init, LockInv, RunsWellFormed, RunsExcludeEachOther, Busy

LEMMA LockNext ==
    ASSUME LockInv, [Next]_vars
    PROVE  LockInv'
<1>1. CASE UNCHANGED vars
  BY <1>1, IdleKeepsLocks DEF vars, LockInv
<1>2. CASE WorldNext
  <2>1. UNCHANGED <<queue, runningKinds, run>>
    BY <1>2 DEF WorldNext, Place, Mint, Cancel, Redeem, RepayDebt, Settle, SetTradingPaused,
                MarketMoves, Tick, IndexerCatchesUp, Elsewhere
  <2> QED
    BY <2>1, IdleKeepsLocks DEF LockInv
<1>3. ASSUME NEW kind \in CronKinds, Cron(kind) PROVE LockInv'
  BY <1>3, IdleKeepsLocks DEF Cron, Enqueued, LockInv
<1>4. ASSUME NEW s \in Slots, RunStep(s) \/ RefreshFails(s) \/ FetchFails(s) \/ CallFails(s)
      PROVE  LockInv'
  <2>1. CASE Refresh(s) \/ RefreshFails(s)
    BY <2>1, RefreshKeepsLocks DEF Refresh, RefreshFails
  <2>2. CASE Fetch(s)
    BY <2>2, FetchKeepsLocks
  <2>3. CASE Simulate(s)
    BY <2>3, SimulateKeepsLocks
  <2>4. CASE Submit(s) \/ CallFails(s)
    BY <2>4, SubmitKeepsLocks
  <2>5. CASE FetchFails(s)
    BY <2>5, FetchFailsKeepsLocks
  <2> QED
    BY <1>4, <2>1, <2>2, <2>3, <2>4, <2>5 DEF RunStep
<1> QED
  BY <1>1, <1>2, <1>3, <1>4, TakeJobKeepsLocks, RequestKeepsLocks, RestartKeepsLocks
     DEF Next, KeeperNext

\* Whatever mix of cron jobs and requests starts them, and however they fail,
\* locks are held by the runs under way and no two of them share a task
\* (KeeperOrchestratorService.isLocked).
THEOREM RunsAlwaysExcludeEachOther == Spec => []RunsExcludeEachOther
<1>1. LockInv => RunsExcludeEachOther
  BY DEF LockInv
<1>2. LockInv /\ [Next]_vars => LockInv'
  BY LockNext
<1> QED
  BY LockInit, <1>1, <1>2, PTL DEF Spec

-----------------------------------------------------------------------------
(* Filtering a sequence: an order that is cancelled leaves the others as they *)
(* were                                                                       *)

\* A set of numbers that is not empty has a least one.
LEMMA LeastNumber ==
    ASSUME NEW T, T \subseteq Nat, T # {}
    PROVE  \E n \in T : \A m \in T : n <= m
<1>1. PICK n \in T : \A m \in T : ~(<<m, n>> \in OpToRel(<, Nat))
  BY NatLessThanWellFounded, WFMin
<1>2. \A m \in T : ~(m < n)
  BY <1>1 DEF OpToRel
<1> QED
  BY <1>2

\* Positions are finitely many.
LEMMA PositionsAreFinite ==
    ASSUME NEW m \in Nat, NEW I \in SUBSET (1..m)
    PROVE  IsFiniteSet(I) /\ Cardinality(I) \in Nat
<1>1. IsFiniteSet(1..m)
  BY FS_Interval
<1>2. IsFiniteSet(I)
  BY <1>1, FS_Subset
<1> QED
  BY <1>2, FS_CardinalityType

\* The positions of a filter have ranks from 1 up, with none left out.
LEMMA EveryRankIsTaken ==
    ASSUME NEW m \in Nat, NEW I \in SUBSET (1..m), NEW n \in 1..Cardinality(I)
    PROVE  \E i \in I : Cardinality({j \in I : j <= i}) = n
<1> DEFINE UpTo(i) == {j \in I : j <= i}
           G       == {i \in Nat : n <= Cardinality(UpTo(i))}
<1>0. \A j \in I : j \in Nat /\ 1 <= j /\ j <= m
  OBVIOUS
<1>1. IsFiniteSet(I) /\ Cardinality(I) \in Nat
  BY PositionsAreFinite
<1>2. \A i \in Nat : IsFiniteSet(UpTo(i)) /\ Cardinality(UpTo(i)) \in Nat
  BY <1>1, FS_Subset, FS_CardinalityType
<1>3. m \in G
  <2>1. UpTo(m) = I
    BY <1>0
  <2> HIDE DEF UpTo
  <2> QED
    BY <1>1, <2>1
<1>4. PICK i \in G : \A k \in G : i <= k
  <2> HIDE DEF UpTo
  <2> QED
    BY <1>3, LeastNumber
<1>5. i # 0
  <2>1. \A j \in I : ~(j <= 0)
    BY <1>0
  <2>2. UpTo(0) = {}
    BY <2>1
  <2> HIDE DEF UpTo
  <2> QED
    BY <2>2, FS_EmptySet
<1>6. i - 1 \in Nat /\ Cardinality(UpTo(i - 1)) < n
  <2>1. i \in Nat /\ i - 1 \in Nat
    BY <1>5
  <2> HIDE DEF UpTo
  <2> QED
    BY <1>1, <1>2, <1>4, <2>1
<1>7. n <= Cardinality(UpTo(i))
  OBVIOUS
<1>8. i \in I
  <2> SUFFICES ASSUME i \notin I PROVE FALSE
    OBVIOUS
  <2>1. \A j \in I : j <= i <=> j <= i - 1
    BY <1>0, <1>6
  <2>2. UpTo(i) = UpTo(i - 1)
    BY <2>1
  <2> HIDE DEF UpTo
  <2> QED
    BY <1>1, <1>2, <1>6, <1>7, <2>2
<1>9. Cardinality(UpTo(i)) = Cardinality(UpTo(i - 1)) + 1
  <2>1. \A j \in I : j <= i <=> (j <= i - 1 \/ j = i)
    BY <1>0, <1>6
  <2>2. ~(i <= i - 1)
    BY <1>6
  <2>3. UpTo(i) = UpTo(i - 1) \cup {i} /\ i \notin UpTo(i - 1)
    BY <1>8, <2>1, <2>2
  <2> HIDE DEF UpTo
  <2> QED
    BY <1>2, <1>6, <2>3, FS_AddElement
<1> QED
  <2> HIDE DEF UpTo
  <2>1. Cardinality(UpTo(i)) = n
    BY <1>1, <1>2, <1>6, <1>7, <1>9
  <2> USE DEF UpTo
  <2> QED
    BY <1>8, <2>1

\* What is kept is a member of the sequence, at a place of its own.
LEMMA KeptMembers ==
    ASSUME NEW T, NEW s \in Seq(T), NEW S
    PROVE  /\ Kept(s, S) \in Seq(T)
           /\ \E place \in [DOMAIN Kept(s, S) -> DOMAIN s] :
                /\ \A i \in DOMAIN Kept(s, S) : Kept(s, S)[i] = s[place[i]] /\ s[place[i]] \in S
                /\ \A i, j \in DOMAIN Kept(s, S) : place[i] = place[j] => i = j
<1> DEFINE at     == {i \in DOMAIN s : s[i] \in S}
           Rank(i) == Cardinality({j \in at : j <= i})
           Nth(n) == CHOOSE i \in at : Rank(i) = n
           size   == Cardinality(at)
           place  == [n \in 1..size |-> Nth(n)]
<1>1. Len(s) \in Nat /\ at \in SUBSET (1..Len(s)) /\ DOMAIN s = 1..Len(s)
  OBVIOUS
<1>2. IsFiniteSet(at) /\ size \in Nat
  <2> HIDE DEF at
  <2> QED
    BY <1>1, PositionsAreFinite
<1>3. \A n \in 1..size : \E i \in at : Rank(i) = n
  <2> HIDE DEF at
  <2> QED
    BY <1>1, EveryRankIsTaken
<1>4. \A n \in 1..size : Nth(n) \in at /\ Rank(Nth(n)) = n
  <2> HIDE DEF at, Rank
  <2> QED
    BY <1>3
<1>5. Kept(s, S) = [n \in 1..size |-> s[Nth(n)]]
  BY DEF Kept
<1>6. DOMAIN Kept(s, S) = 1..size
  <2> HIDE DEF size, Nth
  <2> QED
    BY <1>5
<1>7. place \in [1..size -> DOMAIN s]
  <2>1. \A n \in 1..size : Nth(n) \in DOMAIN s
    BY <1>4
  <2> HIDE DEF size, Nth
  <2> QED
    BY <2>1
<1>8. \A n \in 1..size : place[n] = Nth(n)
  <2> HIDE DEF size, Nth
  <2> QED
    OBVIOUS
<1>9. \A n \in 1..size : Kept(s, S)[n] = s[place[n]] /\ s[place[n]] \in S
  <2>1. \A n \in 1..size : s[Nth(n)] \in S
    BY <1>4
  <2>2. \A n \in 1..size : Kept(s, S)[n] = s[Nth(n)]
    <3> HIDE DEF size, Nth
    <3> QED
      BY <1>5
  <2> HIDE DEF size, Nth, place
  <2> QED
    BY <1>8, <2>1, <2>2
<1>10. \A n, o \in 1..size : place[n] = place[o] => n = o
  <2> HIDE DEF size, Nth, place, Rank
  <2> QED
    BY <1>4, <1>8
<1>11. Kept(s, S) \in Seq(T)
  <2>1. \A i \in at : s[i] \in T
    OBVIOUS
  <2> HIDE DEF at, Nth, size
  <2>2. \A n \in 1..size : s[Nth(n)] \in T
    BY <1>4, <2>1
  <2> HIDE DEF size, Nth, place
  <2> QED
    BY <1>2, <1>5, <2>2
<1> HIDE DEF size, place, Nth
<1> QED
  BY <1>6, <1>7, <1>9, <1>10, <1>11

\* Something is kept when something is in the set.
LEMMA KeptSome ==
    ASSUME NEW T, NEW s \in Seq(T), NEW S, NEW i \in DOMAIN s, s[i] \in S
    PROVE  Kept(s, S) # <<>>
<1> DEFINE at   == {j \in DOMAIN s : s[j] \in S}
           size == Cardinality(at)
<1>1. IsFiniteSet(at) /\ size \in Nat /\ at # {}
  <2>1. Len(s) \in Nat /\ at \in SUBSET (1..Len(s)) /\ i \in at
    OBVIOUS
  <2> HIDE DEF at
  <2> QED
    BY <2>1, PositionsAreFinite
<1>2. size # 0
  BY <1>1, FS_EmptySet
<1>3. DOMAIN Kept(s, S) = 1..size
  BY DEF Kept
<1> HIDE DEF size
<1>4. 1 \in DOMAIN Kept(s, S)
  BY <1>1, <1>2, <1>3
<1> QED
  BY <1>4

-----------------------------------------------------------------------------
(* The shape of the state *)

Orders        == [key : Keys, expires : Nat, leveraged : BOOLEAN]
OnePerKey(book) == \A i, j \in DOMAIN book : book[i].key = book[j].key => i = j
RunPhases     == Outcomes \ {"write_off"}

ChainShape(c) ==
    /\ c \in [book : Seq(Orders), open : SUBSET Keys, debt : SUBSET Keys,
              settled : SUBSET Keys, paused : BOOLEAN, now : Nat]
    /\ OnePerKey(c.book)

IndexShape ==
    index \in [book : Seq(Orders), open : SUBSET Keys, debt : SUBSET Keys, paused : BOOLEAN]

\* Jobs of one kind wait twice only where a restart handed one out again.
QueueShape ==
    /\ queue \in Seq(CronKinds) /\ faults \in 0..MaxFaults
    /\ Len(queue) <= Cardinality(ToSet(queue)) + faults

\* A run submits for a candidate it has, and only below its limit; it looks at
\* a phase before it has a list.
RunShape(r) ==
    /\ r \in [kind : Kinds, step : {"refresh", "fetch", "work", "submit"}, paused : BOOLEAN,
              todo : Seq(RunPhases), list : Seq(Keys), rows : SUBSET Keys, at : Nat,
              done : 0..Limit, tx : Outcomes \cup {"none"}]
    /\ r.todo # <<>>
    /\ r.step = "submit" => r.tx # "none" /\ r.list # <<>> /\ r.done < Limit
    /\ r.step \in {"refresh", "fetch"} => r.list = <<>>

RunsShape ==
    /\ run = [s \in Slots |-> run[s]]
    /\ \A s \in Slots : run[s] = Idle \/ RunShape(run[s])

\* The inductive invariant.
ShapeInv ==
    /\ ChainShape(chain) /\ IndexShape /\ QueueShape /\ tradingPaused \in BOOLEAN
    /\ RunsShape /\ LockInv

-----------------------------------------------------------------------------
(* What a transaction makes of the chain *)

LEMMA KeptStaysOnePerKey ==
    ASSUME NEW book \in Seq(Orders), OnePerKey(book), NEW S
    PROVE  Kept(book, S) \in Seq(Orders) /\ OnePerKey(Kept(book, S))
<1> DEFINE kept == Kept(book, S)
<1>1. kept \in Seq(Orders)
  BY KeptMembers
<1>2. PICK place \in [DOMAIN kept -> DOMAIN book] :
        /\ \A i \in DOMAIN kept : kept[i] = book[place[i]]
        /\ \A i, j \in DOMAIN kept : place[i] = place[j] => i = j
  BY KeptMembers
<1> HIDE DEF kept
<1>3. ASSUME NEW i \in DOMAIN kept, NEW j \in DOMAIN kept, kept[i].key = kept[j].key
      PROVE  i = j
  <2>1. place[i] \in DOMAIN book /\ place[j] \in DOMAIN book
    BY <1>2
  <2>2. book[place[i]].key = book[place[j]].key
    BY <1>2, <1>3
  <2>3. place[i] = place[j]
    BY <2>1, <2>2 DEF OnePerKey
  <2> QED
    BY <1>2, <2>3
<1>4. OnePerKey(kept)
  BY <1>3 DEF OnePerKey
<1> QED
  BY <1>1, <1>4 DEF kept

\* An order that leaves the book leaves one order per key.
LEMMA WithoutOrderShape ==
    ASSUME ChainShape(chain), NEW k
    PROVE  WithoutOrder(k) \in Seq(Orders) /\ OnePerKey(WithoutOrder(k))
<1>1. chain.book \in Seq(Orders) /\ OnePerKey(chain.book)
  BY DEF ChainShape
<1> QED
  BY <1>1, KeptStaysOnePerKey DEF WithoutOrder

\* A chain with another book and other sets of keys is a chain.
LEMMA ChainWith ==
    ASSUME NEW c, ChainShape(c), NEW book \in Seq(Orders), OnePerKey(book),
           NEW open \in SUBSET Keys, NEW debt \in SUBSET Keys
    PROVE  ChainShape([c EXCEPT !.book = book, !.open = open, !.debt = debt])
  BY DEF ChainShape

LEMMA ClosedShape ==
    ASSUME ChainShape(chain), NEW k \in Keys
    PROVE  ChainShape(Closed(k)) /\ ChainShape(Cleared(k))
  BY DEF ChainShape, Closed, Cleared

\* Whatever a transaction of the keeper leaves behind is a chain.
LEMMA AfterShape ==
    ASSUME ChainShape(chain), NEW tx, NEW k \in Keys, NEW c \in After(tx, k)
    PROVE  ChainShape(c)
<1> DEFINE book == WithoutOrder(k)
<1>1. book \in Seq(Orders) /\ OnePerKey(book)
  BY WithoutOrderShape
<1> HIDE DEF book
<1>2. CASE tx = "fill"
  <2>1. PICK o \in OrdersOn(k) :
          c = [chain EXCEPT !.book = book, !.open = @ \cup {k},
                            !.debt = IF o.leveraged THEN @ \cup {k} ELSE @]
    BY <1>2 DEF After, book
  <2> DEFINE open == chain.open \cup {k}
             debt == IF o.leveraged THEN chain.debt \cup {k} ELSE chain.debt
  <2>2. open \in SUBSET Keys /\ debt \in SUBSET Keys
    BY DEF ChainShape
  <2>3. c = [chain EXCEPT !.book = book, !.open = open, !.debt = debt]
    BY <2>1 DEF ChainShape
  <2> HIDE DEF open, debt
  <2> QED
    BY <1>1, <2>2, <2>3, ChainWith
<1>3. CASE tx = "expire"
  <2>1. c = [chain EXCEPT !.book = book]
    BY <1>3 DEF After, book
  <2> QED
    BY <1>1, <2>1 DEF ChainShape
<1>4. CASE tx = "liquidate"
  <2>1. c = [Cleared(k) EXCEPT !.book = book]
    BY <1>4 DEF After, book
  <2> QED
    BY <1>1, <2>1, ClosedShape DEF ChainShape
<1>5. CASE tx = "deleverage"
  <2>1. c \in {Closed(k), Cleared(k), [chain EXCEPT !.debt = @ \ {k}]}
    BY <1>5 DEF After
  <2>2. ChainShape([chain EXCEPT !.debt = @ \ {k}])
    BY DEF ChainShape
  <2> QED
    BY <2>1, <2>2, ClosedShape
<1>6. CASE tx \notin {"fill", "expire", "liquidate", "deleverage"}
  <2>1. c \in {Closed(k), Cleared(k)}
    BY <1>6 DEF After
  <2> QED
    BY <2>1, ClosedShape
<1> QED
  BY <1>2, <1>3, <1>4, <1>5, <1>6

\* So is what traders, the admin and the clock leave behind.
LEMMA PlaceShape ==
    ASSUME ChainShape(chain), NEW k \in Keys, NEW o \in OrderTerms, Place(k, o)
    PROVE  ChainShape(chain')
<1> DEFINE placed == [key |-> k, expires |-> o.expires, leveraged |-> o.leveraged]
           book   == chain.book
           longer == Append(book, placed)
<1>1. placed \in Orders /\ placed.key = k
  BY BoundsAssumption DEF Orders
<1>2. book \in Seq(Orders) /\ OnePerKey(book)
  BY DEF ChainShape
<1>3. \A i \in DOMAIN book : book[i].key # k
  BY DEF Place, OrdersOn, ToSet
<1>4. chain' = [chain EXCEPT !.book = longer]
  BY DEF Place
<1> HIDE DEF placed, book
<1>5. longer \in Seq(Orders)
  BY <1>1, <1>2
<1>6. DOMAIN longer = 1..(Len(book) + 1) /\ DOMAIN book = 1..Len(book) /\ Len(book) \in Nat
  BY <1>1, <1>2
<1>7. \A i \in DOMAIN longer : longer[i] = IF i \in DOMAIN book THEN book[i] ELSE placed
  BY <1>1, <1>2, <1>6
<1>8. \A i \in DOMAIN longer : i \notin DOMAIN book => i = Len(book) + 1
  BY <1>6
<1> HIDE DEF longer
<1>9. OnePerKey(longer)
  BY <1>1, <1>2, <1>3, <1>7, <1>8 DEF OnePerKey
<1> QED
  BY <1>4, <1>5, <1>9 DEF ChainShape

LEMMA TradersShape ==
    ASSUME ChainShape(chain), NEW k \in Keys,
           \/ \E leveraged \in MintLeverages : Mint(k, leveraged)
           \/ Cancel(k) \/ Redeem(k) \/ RepayDebt(k) \/ Settle(k)
    PROVE  ChainShape(chain')
<1>1. CASE \E leveraged \in MintLeverages : Mint(k, leveraged)
  <2>1. PICK leveraged \in MintLeverages : Mint(k, leveraged)
    BY <1>1
  <2> DEFINE open == chain.open \cup {k}
             debt == IF leveraged THEN chain.debt \cup {k} ELSE chain.debt
  <2>2. open \in SUBSET Keys /\ debt \in SUBSET Keys
    BY DEF ChainShape
  <2>3. chain' = [chain EXCEPT !.open = open, !.debt = debt]
    BY <2>1 DEF Mint
  <2> HIDE DEF open, debt
  <2> QED
    BY <2>2, <2>3 DEF ChainShape
<1>2. CASE Cancel(k)
  <2> DEFINE book == WithoutOrder(k)
  <2>1. book \in Seq(Orders) /\ OnePerKey(book)
    BY WithoutOrderShape
  <2>2. chain' = [chain EXCEPT !.book = book]
    BY <1>2 DEF Cancel
  <2> HIDE DEF book
  <2> QED
    BY <2>1, <2>2 DEF ChainShape
<1>3. CASE Redeem(k)
  BY <1>3, ClosedShape DEF Redeem
<1>4. CASE RepayDebt(k)
  BY <1>4 DEF RepayDebt, ChainShape
<1>5. CASE Settle(k)
  BY <1>5 DEF Settle, ChainShape
<1> QED
  BY <1>1, <1>2, <1>3, <1>4, <1>5

-----------------------------------------------------------------------------
(* Listings, phases and runs *)

\* The keys of a listing of orders.
LEMMA NewestOrdersType ==
    ASSUME IndexShape, NEW orders
    PROVE  NewestOrders(orders) \in Seq(Keys)
<1> DEFINE newest == Reverse(index.book)
           rows   == Kept(newest, orders)
<1>1. index.book \in Seq(Orders)
  BY DEF IndexShape
<1>2. newest \in Seq(Orders)
  BY <1>1 DEF Reverse
<1> HIDE DEF newest
<1>3. rows \in Seq(Orders)
  BY <1>2, KeptMembers
<1>4. NewestOrders(orders) = [i \in DOMAIN rows |-> rows[i].key]
  BY DEF NewestOrders, newest
<1> HIDE DEF rows
<1>5. \A i \in DOMAIN rows : rows[i].key \in Keys
  <2>1. \A i \in DOMAIN rows : rows[i] \in Orders
    BY <1>3
  <2> QED
    BY <2>1 DEF Orders
<1>6. DOMAIN rows = 1..Len(rows) /\ Len(rows) \in Nat
  BY <1>3
<1> QED
  BY <1>4, <1>5, <1>6

\* The orders in which a set of keys can be listed.
LEMMA SetListings ==
    ASSUME NEW S \in SUBSET Keys, NEW list \in SetToSeqs(S)
    PROVE  list \in Seq(Keys)
<1> DEFINE size == Cardinality(S)
<1>1. size \in Nat
  BY BoundsAssumption, FS_Subset, FS_CardinalityType
<1>2. list \in [1..size -> S]
  BY DEF SetToSeqs
<1> HIDE DEF size
<1> QED
  BY <1>1, <1>2

LEMMA ListingsType ==
    ASSUME IndexShape, NEW phase \in RunPhases, NEW at, NEW list \in Listings(phase, at)
    PROVE  list \in Seq(Keys)
<1>1. index.open \in SUBSET Keys /\ index.debt \in SUBSET Keys
  BY DEF IndexShape
<1>2. CASE phase = "fill"
  <2> DEFINE keys == NewestOrders(Unexpired(at))
  <2>1. keys \in Seq(Keys)
    BY NewestOrdersType
  <2>2. list = SubSeq(keys, 1, IF Len(keys) < Lookahead THEN Len(keys) ELSE Lookahead)
    BY <1>2 DEF Listings, FillableOrders
  <2> HIDE DEF keys
  <2>3. Lookahead \in Nat
    BY BoundsAssumption
  <2> DEFINE last == IF Len(keys) < Lookahead THEN Len(keys) ELSE Lookahead
  <2>4. last \in Nat /\ last <= Len(keys)
    BY <2>1, <2>3
  <2>5. list = SubSeq(keys, 1, last)
    BY <2>2
  <2> HIDE DEF last
  <2>6. \A i \in 1..last : keys[i] \in Keys
    BY <2>1, <2>4
  <2> QED
    BY <2>1, <2>4, <2>5, <2>6
<1>3. CASE phase = "expire"
  <2>1. list = NewestOrders(ToSet(index.book) \ Unexpired(at))
    BY <1>3 DEF Listings
  <2> QED
    BY <2>1, NewestOrdersType
<1>4. CASE phase = "liquidate"
  <2>1. list \in SetToSeqs(index.debt)
    BY <1>4 DEF Listings, LiquidationCandidates
  <2> QED
    BY <1>1, <2>1, SetListings
<1> DEFINE late == IF phase = "deleverage" THEN (IF InWindow(at) THEN index.open \cap index.debt ELSE {})
                   ELSE (IF Expiry <= at THEN index.open \cap index.debt ELSE {})
<1>5. late \in SUBSET Keys
  BY <1>1
<1>6. CASE phase \in {"deleverage", "repay"}
  <2>1. list \in SetToSeqs(late)
    BY <1>6 DEF Listings
  <2> HIDE DEF late
  <2> QED
    BY <1>5, <2>1, SetListings
<1>7. CASE phase = "trigger"
  <2>1. list \in SetToSeqs(index.open)
    BY <1>7 DEF Listings
  <2> QED
    BY <1>1, <2>1, SetListings
<1> QED
  BY <1>2, <1>3, <1>4, <1>6, <1>7 DEF RunPhases, Outcomes

\* What a simulation settles on is a transaction.
LEMMA IntendedType ==
    ASSUME NEW phase \in RunPhases, NEW k, NEW rows, NEW tx \in Intended(phase, k, rows)
    PROVE  tx \in Outcomes
  BY DEF Intended, RunPhases, Outcomes

\* Every kind has phases.
LEMMA PhasesOfType ==
    ASSUME NEW kind \in Kinds
    PROVE  PhasesOf(kind) \in Seq(RunPhases) /\ PhasesOf(kind) # <<>>
<1> DEFINE mine == {phase \in Outcomes \ {"write_off"} : KindOf[phase] \in Tasks(kind)}
           all  == Phases
<1>1. all \in Seq(RunPhases)
  BY DEF Phases, RunPhases, Outcomes
<1>2. DOMAIN all = 1..6
  BY DEF Phases
<1>3. all[1] = "fill" /\ all[3] = "liquidate" /\ all[4] = "deleverage" /\ all[6] = "trigger"
  BY DEF Phases
<1>4. \/ "fill" \in mine \/ "liquidate" \in mine \/ "deleverage" \in mine \/ "trigger" \in mine
  BY DEF Outcomes, KindOf, Tasks, Kinds
<1>5. PhasesOf(kind) = Kept(all, mine)
  BY DEF PhasesOf
<1> HIDE DEF mine, all
<1>6. \E i \in DOMAIN all : all[i] \in mine
  BY <1>2, <1>3, <1>4
<1>7. Kept(all, mine) # <<>>
  BY <1>1, <1>6, KeptSome
<1>8. Kept(all, mine) \in Seq(RunPhases)
  BY <1>1, KeptMembers
<1> QED
  BY <1>5, <1>7, <1>8

LEMMA NewRunShape ==
    ASSUME NEW kind \in Kinds
    PROVE  RunShape(NewRun(kind))
<1> DEFINE phases == PhasesOf(kind)
<1>1. phases \in Seq(RunPhases) /\ phases # <<>>
  BY PhasesOfType
<1>2. 0 \in 0..Limit
  BY BoundsAssumption
<1>3. NewRun(kind) = [kind |-> kind, step |-> "refresh", paused |-> FALSE, todo |-> phases,
                      list |-> <<>>, rows |-> {}, at |-> 0, done |-> 0, tx |-> "none"]
  BY DEF NewRun
<1> HIDE DEF phases
<1>4. <<>> \in Seq(Keys)
  OBVIOUS
<1> QED
  BY <1>1, <1>2, <1>3, <1>4 DEF RunShape

\* The run in one slot changes and the other's does not.
LEMMA SlotShape ==
    ASSUME RunsShape, NEW s \in Slots, NEW r, r = Idle \/ RunShape(r),
           run' = [run EXCEPT ![s] = r]
    PROVE  RunsShape'
<1>1. run' = [t \in Slots |-> IF t = s THEN r ELSE run[t]]
  BY DEF RunsShape
<1>2. run' = [t \in Slots |-> run'[t]]
  BY <1>1
<1>3. \A t \in Slots : run'[t] = Idle \/ RunShape(run'[t])
  BY <1>1 DEF RunsShape
<1> QED
  BY <1>2, <1>3 DEF RunsShape

LEMMA ContinueShape ==
    ASSUME RunsShape, NEW s \in Slots, NEW r, r.todo # <<>> => RunShape(r), Continue(s, r)
    PROVE  RunsShape'
<1>1. CASE r.todo = <<>>
  BY <1>1, SlotShape DEF Continue
<1>2. CASE r.todo # <<>>
  BY <1>2, SlotShape DEF Continue
<1> QED
  BY <1>1, <1>2

LEMMA NextPhaseShape ==
    ASSUME NEW r, RunShape(r), NextPhase(r).todo # <<>>
    PROVE  RunShape(NextPhase(r))
<1> DEFINE rest == Tail(r.todo)
           same == rest # <<>> /\ KindOf[Head(rest)] = KindOf[Head(r.todo)]
           at   == IF same THEN r.at ELSE 0
           done == IF same /\ Head(rest) = "repay" THEN r.done ELSE 0
<1>1. rest \in Seq(RunPhases) /\ rest # <<>>
  BY DEF RunShape, NextPhase
<1>2. at \in Nat /\ done \in 0..Limit
  BY BoundsAssumption DEF RunShape
<1>3. NextPhase(r) = [r EXCEPT !.todo = rest, !.step = "fetch", !.list = <<>>, !.rows = {},
                               !.tx = "none", !.at = at, !.done = done]
  BY DEF NextPhase, RunShape
<1> HIDE DEF rest, at, done
<1>4. <<>> \in Seq(Keys)
  OBVIOUS
<1> QED
  BY <1>1, <1>2, <1>3, <1>4 DEF RunShape

LEMMA NextCandidateShape ==
    ASSUME NEW r, RunShape(r), r.list # <<>>, NEW found \in {0, 1},
           found = 1 => r.done < Limit
    PROVE  RunShape(NextCandidate(r, found))
<1> DEFINE rest == Tail(r.list)
           done == r.done + found
<1>1. rest \in Seq(Keys)
  BY DEF RunShape
<1>2. done \in 0..Limit
  BY BoundsAssumption DEF RunShape
<1>3. NextCandidate(r, found) = [r EXCEPT !.step = "work", !.list = rest, !.tx = "none", !.done = done]
  BY DEF NextCandidate, RunShape
<1> HIDE DEF rest, done
<1> QED
  BY <1>1, <1>2, <1>3 DEF RunShape

-----------------------------------------------------------------------------
(* Every step keeps the shape *)

\* A step of a run has a run to work on.
LEMMA UnderWay ==
    ASSUME RunsShape, NEW s \in Slots, run[s] # Idle
    PROVE  RunShape(run[s])
  BY DEF RunsShape

LEMMA ReadsPauseShape ==
    ASSUME RunsShape, NEW s \in Slots, NEW paused \in BOOLEAN, ReadsPause(s, paused)
    PROVE  RunsShape'
<1> DEFINE r == [run[s] EXCEPT !.paused = paused, !.step = "fetch"]
<1>1. RunShape(run[s]) /\ run[s].step = "refresh"
  BY UnderWay DEF ReadsPause, At
<1>2. RunShape(r)
  BY <1>1 DEF RunShape
<1>3. run' = [run EXCEPT ![s] = r]
  BY DEF ReadsPause, RunsShape
<1> HIDE DEF r
<1> QED
  BY <1>2, <1>3, SlotShape

LEMMA FetchShape ==
    ASSUME ChainShape(chain), IndexShape, RunsShape, NEW s \in Slots, Fetch(s)
    PROVE  RunsShape'
<1> DEFINE r     == run[s]
           phase == Head(r.todo)
           at    == IF phase \in {"fill", "deleverage"} THEN chain.now ELSE r.at
           begun == [r EXCEPT !.at = at]
           Listed(list) == [r EXCEPT !.step = "work", !.at = at, !.list = list, !.rows = index.open]
<1>1. RunShape(r) /\ r.step = "fetch"
  BY UnderWay DEF Fetch, At
<1>2. phase \in RunPhases
  BY <1>1 DEF RunShape
<1>3. at \in Nat
  BY <1>1 DEF ChainShape, RunShape
<1>4. \/ Continue(s, NextPhase(begun))
      \/ \E list \in Listings(phase, at) : Continue(s, Listed(list))
  BY DEF Fetch
<1> HIDE DEF r, phase, at
<1>5. RunShape(begun)
  BY <1>1, <1>3 DEF RunShape
<1>6. index.open \in SUBSET Keys
  BY DEF IndexShape
<1>7. ASSUME NEW list \in Seq(Keys)
      PROVE  RunShape(Listed(list))
  BY <1>1, <1>3, <1>6, <1>7 DEF RunShape
<1> HIDE DEF begun, Listed
<1>8. CASE Continue(s, NextPhase(begun))
  <2> DEFINE next == NextPhase(begun)
  <2>1. next.todo # <<>> => RunShape(next)
    BY <1>5, NextPhaseShape
  <2>2. Continue(s, next)
    BY <1>8
  <2> HIDE DEF next
  <2> QED
    BY <2>1, <2>2, ContinueShape
<1>9. ASSUME NEW list \in Listings(phase, at), Continue(s, Listed(list))
      PROVE  RunsShape'
  <2>1. list \in Seq(Keys)
    BY <1>2, ListingsType
  <2>2. RunShape(Listed(list))
    BY <1>7, <2>1
  <2> QED
    BY <1>9, <2>2, ContinueShape
<1> QED
  BY <1>4, <1>8, <1>9

LEMMA SimulateShape ==
    ASSUME RunsShape, NEW s \in Slots, Simulate(s)
    PROVE  RunsShape'
<1> DEFINE r           == run[s]
           phase       == Head(r.todo)
           dropped     == [r EXCEPT !.list = Tail(@)]
           Settled(tx) == [r EXCEPT !.step = "submit", !.tx = tx]
<1>1. RunShape(r) /\ r.step = "work"
  BY UnderWay DEF Simulate, At
<1>2. \/ Continue(s, NextPhase(r))
      \/ /\ r.list # <<>> /\ ~(r.done >= Limit)
         /\ \/ Continue(s, dropped)
            \/ \E tx \in Intended(phase, Head(r.list), r.rows) : Continue(s, Settled(tx))
  BY DEF Simulate
<1> HIDE DEF r
<1>3. phase \in RunPhases
  BY <1>1 DEF RunShape
<1> HIDE DEF phase
<1>4. CASE Continue(s, NextPhase(r))
  <2> DEFINE next == NextPhase(r)
  <2>1. next.todo # <<>> => RunShape(next)
    BY <1>1, NextPhaseShape
  <2>2. Continue(s, next)
    BY <1>4
  <2> HIDE DEF next
  <2> QED
    BY <2>1, <2>2, ContinueShape
<1>5. CASE r.list # <<>> /\ Continue(s, dropped)
  <2> DEFINE rest == Tail(r.list)
  <2>1. rest \in Seq(Keys)
    BY <1>1, <1>5 DEF RunShape
  <2>2. dropped = [r EXCEPT !.list = rest]
    BY <1>1 DEF RunShape
  <2> HIDE DEF rest, dropped
  <2>3. RunShape(dropped)
    BY <1>1, <2>1, <2>2 DEF RunShape
  <2> QED
    BY <1>5, <2>3, ContinueShape
<1>6. ASSUME r.list # <<>>, ~(r.done >= Limit),
             NEW tx \in Intended(phase, Head(r.list), r.rows), Continue(s, Settled(tx))
      PROVE  RunsShape'
  <2>1. tx \in Outcomes /\ tx # "none"
    BY <1>3, IntendedType DEF Outcomes
  <2>2. r.done < Limit
    BY <1>1, <1>6, BoundsAssumption DEF RunShape
  <2>3. RunShape(Settled(tx))
    BY <1>1, <1>6, <2>1, <2>2 DEF RunShape
  <2> HIDE DEF Settled
  <2> QED
    BY <1>6, <2>3, ContinueShape
<1> QED
  BY <1>2, <1>4, <1>5, <1>6

\* The transaction of a run acts on the chain, or its failure does not.
LEMMA SubmitShape ==
    ASSUME ChainShape(chain), RunsShape, NEW s \in Slots, Submit(s) \/ CallFails(s)
    PROVE  RunsShape' /\ ChainShape(chain')
<1> DEFINE r == run[s]
           k == Head(r.list)
<1>1. RunShape(r) /\ r.list # <<>>
  BY UnderWay DEF Submit, CallFails, At, RunShape
<1>2. k \in Keys
  BY <1>1 DEF RunShape
<1>3. chain' = chain \/ chain' \in After(r.tx, k)
  BY DEF Submit, CallFails
<1>4. Continue(s, NextCandidate(r, 0)) \/ (r.step = "submit" /\ Continue(s, NextCandidate(r, 1)))
  BY DEF Submit, CallFails, At
<1> HIDE DEF r
<1>5. ChainShape(chain')
  <2> HIDE DEF k
  <2> QED
    BY <1>2, <1>3, AfterShape
<1>6. RunShape(NextCandidate(r, 0))
  BY <1>1, NextCandidateShape
<1>7. r.step = "submit" => RunShape(NextCandidate(r, 1))
  <2>1. r.step = "submit" => r.done < Limit
    BY <1>1 DEF RunShape
  <2> QED
    BY <1>1, <2>1, NextCandidateShape
<1> QED
  BY <1>4, <1>5, <1>6, <1>7, ContinueShape

-----------------------------------------------------------------------------
(* The queue *)

LEMMA KindsAreFive == IsFiniteSet(Kinds) /\ Cardinality(Kinds) \in Nat
<1>1. IsFiniteSet({"limit_order"})
  BY FS_Singleton
<1>2. IsFiniteSet({"limit_order"} \cup {"liquidation"})
  BY <1>1, FS_AddElement
<1>3. IsFiniteSet({"limit_order"} \cup {"liquidation"} \cup {"force_close"})
  BY <1>2, FS_AddElement
<1>4. IsFiniteSet({"limit_order"} \cup {"liquidation"} \cup {"force_close"} \cup {"trigger"})
  BY <1>3, FS_AddElement
<1> DEFINE kinds == {"limit_order"} \cup {"liquidation"} \cup {"force_close"} \cup {"trigger"} \cup {"all"}
<1>5. IsFiniteSet(kinds)
  BY <1>4, FS_AddElement
<1>6. Kinds = kinds
  BY DEF Kinds
<1> HIDE DEF kinds
<1> QED
  BY <1>5, <1>6, FS_CardinalityType

\* The kinds that wait are finitely many.
LEMMA WaitingKinds ==
    ASSUME NEW jobs \in Seq(CronKinds)
    PROVE  /\ IsFiniteSet(ToSet(jobs)) /\ Cardinality(ToSet(jobs)) \in Nat
           /\ Cardinality(ToSet(jobs)) <= Cardinality(CronKinds) /\ Cardinality(CronKinds) \in Nat
<1>1. CronKinds \in SUBSET Kinds
  BY BoundsAssumption
<1>2. IsFiniteSet(CronKinds)
  BY <1>1, KindsAreFive, FS_Subset
<1>3. ToSet(jobs) \in SUBSET CronKinds
  BY DEF ToSet
<1> QED
  BY <1>2, <1>3, FS_Subset, FS_CardinalityType

LEMMA CronShape ==
    ASSUME QueueShape, NEW kind \in CronKinds, Cron(kind)
    PROVE  QueueShape'
<1>1. CASE Contains(queue, kind)
  BY <1>1 DEF Cron, Enqueued, QueueShape
<1>2. CASE ~Contains(queue, kind)
  <2> DEFINE longer == Append(queue, kind)
             before == ToSet(queue)
  <2>1. queue \in Seq(CronKinds) /\ longer \in Seq(CronKinds) /\ Len(longer) = Len(queue) + 1
    BY DEF QueueShape
  <2>2. kind \notin before
    BY <1>2, <2>1 DEF Contains, ToSet
  <2>3. ToSet(longer) = before \cup {kind}
    <3>1. DOMAIN longer = 1..(Len(queue) + 1) /\ DOMAIN queue = 1..Len(queue) /\ Len(queue) \in Nat
      BY <2>1
    <3>2. \A i \in DOMAIN longer : longer[i] = IF i \in DOMAIN queue THEN queue[i] ELSE kind
      BY <2>1, <3>1
    <3>3. \A i : i \in DOMAIN longer <=> (i \in DOMAIN queue \/ i = Len(queue) + 1)
      BY <3>1
    <3>4. Len(queue) + 1 \notin DOMAIN queue
      BY <3>1
    <3> HIDE DEF longer
    <3> QED
      BY <3>2, <3>3, <3>4 DEF ToSet
  <2>4. IsFiniteSet(before) /\ Cardinality(before) \in Nat
    BY <2>1, WaitingKinds
  <2>5. Cardinality(before \cup {kind}) = Cardinality(before) + 1
    <3> HIDE DEF before
    <3> QED
      BY <2>2, <2>4, FS_AddElement
  <2>6. queue' = longer /\ faults' = faults
    BY <1>2 DEF Cron, Enqueued
  <2>7. Len(queue) <= Cardinality(before) + faults /\ faults \in 0..MaxFaults /\ MaxFaults \in Nat
        /\ Len(queue) \in Nat
    BY <2>1, BoundsAssumption DEF QueueShape
  <2> HIDE DEF longer, before
  <2>8. Cardinality(ToSet(queue')) = Cardinality(before) + 1
    BY <2>3, <2>5, <2>6
  <2>9. Len(queue') = Len(queue) + 1 /\ queue' \in Seq(CronKinds) /\ faults' \in 0..MaxFaults
    BY <2>1, <2>6, <2>7
  <2>10. Len(queue') <= Cardinality(ToSet(queue')) + faults'
    BY <2>4, <2>6, <2>7, <2>8, <2>9
  <2> QED
    BY <2>9, <2>10 DEF QueueShape
<1> QED
  BY <1>1, <1>2

\* A job that is taken takes at most its kind with it.
LEMMA TakeJobShape ==
    ASSUME QueueShape, TakeJob
    PROVE  QueueShape'
<1> DEFINE rest   == Tail(queue)
           before == ToSet(queue)
           after  == ToSet(rest)
<1>1. queue \in Seq(CronKinds) /\ queue # <<>> /\ rest \in Seq(CronKinds)
      /\ Len(rest) = Len(queue) - 1
  BY DEF QueueShape, TakeJob
<1>2. before \subseteq after \cup {Head(queue)}
  <2>1. DOMAIN queue = 1..Len(queue) /\ Len(queue) \in Nat /\ DOMAIN rest = 1..(Len(queue) - 1)
    BY <1>1
  <2>2. \A i \in DOMAIN queue : i = 1 \/ (i - 1 \in DOMAIN rest /\ rest[i - 1] = queue[i])
    BY <1>1, <2>1
  <2>3. Head(queue) = queue[1]
    BY <1>1
  <2> HIDE DEF rest
  <2> QED
    BY <2>2, <2>3 DEF ToSet
<1>3. IsFiniteSet(after) /\ Cardinality(after) \in Nat /\ Cardinality(before) \in Nat
  BY <1>1, WaitingKinds
<1>4. queue' = rest /\ faults' = faults
  BY DEF TakeJob
<1> HIDE DEF rest, before, after
<1>5. Cardinality(before) <= Cardinality(after) + 1
  <2> DEFINE more == after \cup {Head(queue)}
  <2>1. IsFiniteSet(more) /\ Cardinality(more) <= Cardinality(after) + 1
    BY <1>3, FS_AddElement
  <2>2. before \in SUBSET more /\ Cardinality(more) \in Nat
    BY <1>2, <2>1, FS_CardinalityType
  <2> HIDE DEF more
  <2>3. Cardinality(before) <= Cardinality(more)
    BY <2>1, <2>2, FS_Subset
  <2> QED
    BY <1>3, <2>1, <2>2, <2>3
<1> QED
  BY <1>1, <1>3, <1>4, <1>5, BoundsAssumption DEF QueueShape, before, after

\* A job that is handed out again waits a second time, and is the restart's.
LEMMA RestartShape ==
    ASSUME QueueShape, LockInv, Restart
    PROVE  QueueShape'
<1>1. queue \in Seq(CronKinds) /\ faults < MaxFaults /\ faults' = faults + 1 /\ faults \in Nat
  BY BoundsAssumption DEF QueueShape, Restart, Fault
<1>2. CASE "worker" \in Busy
  <2> DEFINE kind   == run["worker"].kind
             longer == <<kind>> \o queue
  <2>1. kind \in CronKinds
    BY <1>2 DEF LockInv, RunsWellFormed
  <2>2. queue' = longer
    BY <1>2 DEF Restart
  <2> HIDE DEF kind
  <2>3. longer \in Seq(CronKinds) /\ Len(longer) = Len(queue) + 1
    BY <1>1, <2>1
  <2>4. ToSet(queue) \in SUBSET ToSet(longer)
    <3>1. \A i \in DOMAIN queue : i + 1 \in DOMAIN longer /\ longer[i + 1] = queue[i]
      BY <1>1, <2>1
    <3> HIDE DEF longer
    <3> QED
      BY <3>1 DEF ToSet
  <2> HIDE DEF longer
  <2>5. IsFiniteSet(ToSet(longer)) /\ Cardinality(ToSet(longer)) \in Nat /\ Cardinality(ToSet(queue)) \in Nat
    BY <1>1, <2>3, WaitingKinds
  <2>6. Cardinality(ToSet(queue)) <= Cardinality(ToSet(longer))
    BY <2>4, <2>5, FS_Subset
  <2> QED
    BY <1>1, <2>2, <2>3, <2>5, <2>6, BoundsAssumption DEF QueueShape
<1>3. CASE "worker" \notin Busy
  <2>1. queue' = queue
    BY <1>3 DEF Restart
  <2>2. Cardinality(ToSet(queue)) \in Nat
    BY <1>1, WaitingKinds
  <2> QED
    BY <1>1, <2>1, <2>2, BoundsAssumption DEF QueueShape
<1> QED
  BY <1>2, <1>3

\* A failure that leaves the queue alone leaves room for one more.
LEMMA FaultShape ==
    ASSUME QueueShape, queue' = queue, UNCHANGED faults \/ Fault
    PROVE  QueueShape'
<1>1. Cardinality(ToSet(queue)) \in Nat
  BY WaitingKinds DEF QueueShape
<1> QED
  BY <1>1, BoundsAssumption DEF QueueShape, Fault

-----------------------------------------------------------------------------
LEMMA ShapeInit == Init => ShapeInv
<1> SUFFICES ASSUME Init PROVE ShapeInv
  OBVIOUS
<1>1. ChainShape(chain)
  <2>1. <<>> \in Seq(Orders) /\ OnePerKey(<<>>)
    BY DEF OnePerKey
  <2> QED
    BY <2>1 DEF Init, ChainShape
<1>2. IndexShape
  BY <1>1 DEF Init, Seen, ChainShape, IndexShape
<1>3. QueueShape
  <2>1. queue = <<>> /\ faults = 0 /\ queue \in Seq(CronKinds)
    BY DEF Init
  <2>2. Cardinality(ToSet(queue)) \in Nat
    BY <2>1, WaitingKinds
  <2> QED
    BY <2>1, <2>2, BoundsAssumption DEF QueueShape
<1>4. RunsShape
  BY DEF Init, RunsShape
<1> QED
  BY <1>1, <1>2, <1>3, <1>4, LockInit DEF Init, ShapeInv

\* Steps of runs.
LEMMA RunStepShape ==
    ASSUME ShapeInv, NEW s \in Slots,
           RunStep(s) \/ RefreshFails(s) \/ FetchFails(s) \/ CallFails(s)
    PROVE  ChainShape(chain') /\ IndexShape' /\ QueueShape' /\ tradingPaused' \in BOOLEAN /\ RunsShape'
<1>1. IndexShape'
  BY DEF ShapeInv, IndexShape, RunStep, Refresh, RefreshFails, ReadsPause, Fetch, Simulate, Submit,
         CallFails, FetchFails
<1>2. queue' = queue /\ (UNCHANGED faults \/ Fault)
  BY DEF RunStep, Refresh, RefreshFails, ReadsPause, Fetch, Simulate, Submit, CallFails, FetchFails
<1>3. QueueShape'
  BY <1>2, FaultShape DEF ShapeInv
<1>4. CASE Refresh(s) \/ RefreshFails(s)
  <2>1. PICK paused \in BOOLEAN : ReadsPause(s, paused)
    BY <1>4 DEF Refresh, RefreshFails, ShapeInv, ChainShape, IndexShape
  <2>2. RunsShape'
    BY <2>1, ReadsPauseShape DEF ShapeInv
  <2> QED
    BY <1>1, <1>3, <2>1, <2>2 DEF ShapeInv, ReadsPause
<1>5. CASE Fetch(s)
  BY <1>1, <1>3, <1>5, FetchShape DEF ShapeInv, Fetch
<1>6. CASE Simulate(s)
  BY <1>1, <1>3, <1>6, SimulateShape DEF ShapeInv, Simulate
<1>7. CASE Submit(s) \/ CallFails(s)
  BY <1>1, <1>3, <1>7, SubmitShape DEF ShapeInv, Submit, CallFails
<1>8. CASE FetchFails(s)
  <2>1. RunsShape'
    BY <1>8, SlotShape DEF ShapeInv, FetchFails
  <2> QED
    BY <1>1, <1>3, <1>8, <2>1 DEF ShapeInv, FetchFails
<1> QED
  BY <1>4, <1>5, <1>6, <1>7, <1>8 DEF RunStep

\* Steps of the scheduler, the worker, an operator and a restart.
LEMMA JobShape ==
    ASSUME ShapeInv,
           \/ \E kind \in CronKinds : Cron(kind)
           \/ TakeJob
           \/ \E kind \in HttpKinds : Request(kind)
           \/ Restart
    PROVE  ChainShape(chain') /\ IndexShape' /\ QueueShape' /\ tradingPaused' \in BOOLEAN /\ RunsShape'
<1>1. chain' = chain /\ IndexShape' /\ tradingPaused' \in BOOLEAN
  BY DEF ShapeInv, IndexShape, Cron, TakeJob, Request, Restart
<1>2. ASSUME NEW kind \in CronKinds, Cron(kind) PROVE QueueShape' /\ RunsShape'
  <2>1. QueueShape'
    BY <1>2, CronShape DEF ShapeInv
  <2> QED
    BY <1>2, <2>1 DEF ShapeInv, RunsShape, Cron
<1>3. ASSUME NEW s \in Slots, NEW kind \in Kinds, StartRun(s, kind) PROVE RunsShape'
  <2> DEFINE new == NewRun(kind)
  <2>1. RunShape(new)
    BY NewRunShape
  <2>2. run' = [run EXCEPT ![s] = new]
    BY <1>3 DEF StartRun
  <2> HIDE DEF new
  <2> QED
    BY <2>1, <2>2, SlotShape DEF ShapeInv
<1>4. CASE TakeJob
  <2>1. QueueShape'
    BY <1>4, TakeJobShape DEF ShapeInv
  <2>2. Head(queue) \in Kinds
    BY <1>4, BoundsAssumption DEF ShapeInv, QueueShape, TakeJob
  <2>3. run' = run \/ StartRun("worker", Head(queue))
    BY <1>4 DEF TakeJob
  <2>4. run' = run => RunsShape'
    BY DEF ShapeInv, RunsShape
  <2> QED
    BY <1>1, <1>3, <2>1, <2>2, <2>3, <2>4 DEF ShapeInv, Slots
<1>5. ASSUME NEW kind \in HttpKinds, Request(kind) PROVE QueueShape' /\ RunsShape'
  <2>1. kind \in Kinds /\ StartRun("http", kind)
    BY <1>5, BoundsAssumption DEF Request
  <2>2. RunsShape'
    BY <1>3, <2>1 DEF Slots
  <2> QED
    BY <1>5, <2>2 DEF ShapeInv, QueueShape, Request
<1>6. CASE Restart
  <2>1. QueueShape'
    BY <1>6, RestartShape DEF ShapeInv
  <2>2. RunsShape'
    BY <1>6 DEF Restart, RunsShape
  <2> QED
    BY <1>1, <2>1, <2>2 DEF ShapeInv
<1> QED
  BY <1>1, <1>2, <1>4, <1>5, <1>6 DEF ShapeInv

\* Everybody else leaves the keeper's own state alone.
LEMMA WorldShape ==
    ASSUME ShapeInv, WorldNext
    PROVE  ChainShape(chain') /\ IndexShape' /\ QueueShape' /\ tradingPaused' \in BOOLEAN /\ RunsShape'
<1>1. UNCHANGED <<queue, tradingPaused, run, faults>>
  BY DEF WorldNext, Place, Mint, Cancel, Redeem, RepayDebt, Settle, SetTradingPaused,
         MarketMoves, Tick, IndexerCatchesUp, Elsewhere
<1>2. QueueShape' /\ tradingPaused' \in BOOLEAN /\ RunsShape'
  BY <1>1 DEF ShapeInv, QueueShape, RunsShape
<1>3. CASE UNCHANGED index
  <2>1. ASSUME NEW k \in Keys, NEW o \in OrderTerms, Place(k, o) PROVE ChainShape(chain')
    BY <2>1, PlaceShape DEF ShapeInv
  <2>2. ASSUME NEW k \in Keys,
               \/ \E leveraged \in MintLeverages : Mint(k, leveraged)
               \/ Cancel(k) \/ Redeem(k) \/ RepayDebt(k) \/ Settle(k)
        PROVE  ChainShape(chain')
    BY <2>2, TradersShape DEF ShapeInv
  <2>3. ASSUME NEW paused \in PauseChoices, SetTradingPaused(paused) PROVE ChainShape(chain')
    BY <2>3, BoundsAssumption DEF ShapeInv, ChainShape, SetTradingPaused
  <2>4. ASSUME Tick PROVE ChainShape(chain')
    BY <2>4 DEF ShapeInv, ChainShape, Tick
  <2>5. ASSUME NEW m \in Markets, MarketMoves(m) PROVE ChainShape(chain')
    BY <2>5 DEF ShapeInv, MarketMoves
  <2>6. ASSUME IndexerCatchesUp PROVE ChainShape(chain')
    BY <2>6 DEF ShapeInv, IndexerCatchesUp
  <2>7. ChainShape(chain')
    BY <2>1, <2>2, <2>3, <2>4, <2>5, <2>6 DEF WorldNext
  <2> QED
    BY <1>2, <1>3, <2>7 DEF ShapeInv, IndexShape
<1>4. CASE IndexerCatchesUp
  <2>1. IndexShape'
    BY <1>4 DEF IndexerCatchesUp, Seen, ShapeInv, ChainShape, IndexShape
  <2> QED
    BY <1>2, <1>4, <2>1 DEF ShapeInv, IndexerCatchesUp
<1>5. UNCHANGED index \/ IndexerCatchesUp
  BY DEF WorldNext, Place, Mint, Cancel, Redeem, RepayDebt, Settle, SetTradingPaused,
         MarketMoves, Tick, Elsewhere
<1> QED
  BY <1>3, <1>4, <1>5

LEMMA ShapeNext ==
    ASSUME ShapeInv, [Next]_vars
    PROVE  ShapeInv'
<1>1. LockInv'
  BY LockNext DEF ShapeInv
<1>2. CASE UNCHANGED vars
  BY <1>1, <1>2 DEF ShapeInv, vars, IndexShape, QueueShape, RunsShape
<1>3. CASE WorldNext
  BY <1>1, <1>3, WorldShape DEF ShapeInv
<1>4. CASE KeeperNext
  <2>1. ASSUME NEW s \in Slots, RunStep(s) \/ RefreshFails(s) \/ FetchFails(s) \/ CallFails(s)
        PROVE  ShapeInv'
    BY <1>1, <2>1, RunStepShape DEF ShapeInv
  <2>2. ASSUME \/ \E kind \in CronKinds : Cron(kind)
               \/ TakeJob
               \/ \E kind \in HttpKinds : Request(kind)
               \/ Restart
        PROVE  ShapeInv'
    BY <1>1, <2>2, JobShape DEF ShapeInv
  <2> QED
    BY <1>4, <2>1, <2>2 DEF KeeperNext
<1> QED
  BY <1>2, <1>3, <1>4 DEF Next

\* The book keeps one order of a key, the queue one job per kind and one per
\* failure, a phase stays within its limit, and a run never submits a
\* transaction it did not settle on, however runs, traders, failures and
\* restarts interleave (keeper-task.scheduler.ts, LimitOrderService.run).
THEOREM KeeperKeepsItsBounds == Spec => []TypeOK
<1>1. ShapeInv => TypeOK
  <2> SUFFICES ASSUME ShapeInv PROVE TypeOK
    OBVIOUS
  <2>1. /\ chain.open \cup chain.debt \cup chain.settled \subseteq Keys
        /\ \A i, j \in DOMAIN chain.book : chain.book[i].key = chain.book[j].key => i = j
    BY DEF ShapeInv, ChainShape, OnePerKey
  <2>2. runningKinds \subseteq Kinds
    BY DEF ShapeInv, LockInv, RunsWellFormed, RunsExcludeEachOther
  <2>3. ToSet(queue) \subseteq CronKinds /\ Len(queue) <= Cardinality(CronKinds) + MaxFaults
    <3>1. queue \in Seq(CronKinds) /\ Len(queue) \in Nat /\ faults \in 0..MaxFaults /\ MaxFaults \in Nat
          /\ Len(queue) <= Cardinality(ToSet(queue)) + faults
      BY BoundsAssumption DEF ShapeInv, QueueShape
    <3>2. ToSet(queue) \subseteq CronKinds
      BY <3>1 DEF ToSet
    <3> QED
      BY <3>1, <3>2, WaitingKinds
  <2>4. ASSUME NEW s \in Busy
        PROVE  /\ run[s].kind \in Kinds /\ run[s].done <= Limit
               /\ ToSet(run[s].list) \cup run[s].rows \subseteq Keys
               /\ run[s].tx \in Outcomes \cup {"none"}
               /\ run[s].step = "submit" => run[s].tx # "none"
    <3>1. RunShape(run[s])
      BY DEF Busy, ShapeInv, RunsShape
    <3> QED
      BY <3>1, BoundsAssumption DEF RunShape, ToSet
  <2> QED
    BY <2>1, <2>2, <2>3, <2>4 DEF TypeOK
<1>2. ShapeInv /\ [Next]_vars => ShapeInv'
  BY ShapeNext
<1> QED
  BY ShapeInit, <1>1, <1>2, PTL DEF Spec
=============================================================================
