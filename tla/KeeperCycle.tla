----------------------------- MODULE KeeperCycle ------------------------------
(* The keeper: cron jobs and HTTP requests start runs, a run reads the pause, *)
(* lists candidates from an indexer that lags behind the chain, and simulates *)
(* and then submits one transaction per candidate.  Runs of different kinds   *)
(* interleave with each other, with traders, the admin, the market and the    *)
(* clock; calls fail, answers get lost, the process restarts.                 *)
(*                                                                            *)
(* The chain is reduced to what decides whether a keeper transaction goes     *)
(* through: which keys have a resting order, contracts, a debt.  Amounts are  *)
(* in Trade.                                                                  *)
EXTENDS Naturals, FiniteSets, SequencesExt

CONSTANTS
    Keys,            \* (proxy, market) pairs
    Expiry, Window,  \* when the markets expire; the final window before it
    OrderTerms,      \* what a trader may ask for: [expires : time, leveraged : BOOLEAN]
    MintLeverages,   \* a subset of BOOLEAN: market mints, without and with a borrow
    Markets,         \* states of the market: sets of keys an ask, bid or health applies to
    CronKinds,       \* the kinds the scheduler registers
    HttpKinds,       \* the kinds an operator asks for
    PauseChoices,    \* what the admin sets trading_paused to
    Limit,           \* successes per phase (limitFills, liquidations, ...)
    Lookahead,       \* resting orders a run looks at; the code takes 3 * Limit
    MaxTime,         \* bound on the clock
    MaxFaults        \* bound on failed calls and restarts

Kinds    == {"limit_order", "liquidation", "force_close", "trigger", "all"}
Outcomes == {"fill", "expire", "liquidate", "write_off", "deleverage", "repay", "trigger"}

ASSUME BoundsAssumption ==
    /\ IsFiniteSet(Keys)
    /\ {Expiry, Window, MaxTime, MaxFaults} \subseteq Nat /\ {Limit, Lookahead} \subseteq Nat \ {0}
    /\ OrderTerms \subseteq [expires : Nat, leveraged : BOOLEAN]
    /\ MintLeverages \subseteq BOOLEAN /\ PauseChoices \subseteq BOOLEAN
    /\ Markets \subseteq [asked : SUBSET Keys, sick : SUBSET Keys, covered : SUBSET Keys,
                          hit : SUBSET Keys]
    /\ CronKinds \subseteq Kinds \ {"all"} /\ HttpKinds \subseteq Kinds

VARIABLES
    chain,           \* orders oldest first, keys with contracts, with a debt, settled; pause, clock
    index,           \* the chain as the indexer last saw it
    market,
    queue,           \* waiting jobs of the task queue
    runningKinds,    \* locks of the orchestrator
    tradingPaused,   \* the pause as the keeper last read it
    run,             \* what the queue's worker and an HTTP request are doing
    faults           \* failures so far

vars == <<chain, index, market, queue, runningKinds, tradingPaused, run, faults>>

Slots == {"worker", "http"}
Idle  == [kind |-> "none"]
Busy  == {s \in Slots : run[s] # Idle}

Phases   == <<"fill", "expire", "liquidate", "deleverage", "repay", "trigger">>
KindOf   == [fill |-> "limit_order", expire |-> "limit_order", liquidate |-> "liquidation",
             deleverage |-> "force_close", repay |-> "force_close", trigger |-> "trigger"]

\* The members of s that are in S, in their order.  SelectSeq says the same
\* with a recursion and an operator, which nothing could be proved of.
Kept(s, S) ==
    LET at     == {i \in DOMAIN s : s[i] \in S}
        Nth(n) == CHOOSE i \in at : Cardinality({j \in at : j <= i}) = n
    IN  [n \in 1..Cardinality(at) |-> s[Nth(n)]]

\* The tasks a run of a kind works on, and their phases.
Tasks(kind)    == IF kind = "all" THEN Kinds \ {"all"} ELSE {kind}
PhasesOf(kind) == Kept(Phases, {phase \in Outcomes \ {"write_off"} : KindOf[phase] \in Tasks(kind)})

-----------------------------------------------------------------------------
(* The chain, as far as keepers can tell *)

OrdersOn(k)      == {o \in ToSet(chain.book) : o.key = k}
WithoutOrder(k)  == Kept(chain.book, ToSet(chain.book) \ OrdersOn(k))
InWindow(t)      == Expiry - Window <= t /\ t < Expiry
Indebted(k)      == k \in chain.debt
Held(k)          == k \in chain.open

\* What each transaction of the keeper asserts.
CanFill(k) ==
    /\ k \in market.asked /\ ~chain.paused
    /\ \E o \in OrdersOn(k) : /\ chain.now <= o.expires
                              /\ chain.now < IF o.leveraged THEN Expiry - Window ELSE Expiry

CanExpire(k)     == \E o \in OrdersOn(k) : chain.now > o.expires
CanLiquidate(k)  == Held(k) /\ Indebted(k) /\ k \in market.sick \cap market.covered
CanWriteOff(k)   == ~Held(k) /\ Indebted(k) /\ Expiry <= chain.now
CanDeleverage(k) == Held(k) /\ Indebted(k) /\ InWindow(chain.now) /\ k \notin market.sick
CanRepay(k)      == Held(k) /\ Indebted(k) /\ Expiry <= chain.now /\ k \notin chain.settled
CanTrigger(k)    == Held(k) /\ k \in market.hit

\* Asked in a simulation, and again when the transaction runs.
Succeeds(tx, k) ==
    CASE tx = "fill"       -> CanFill(k)
      [] tx = "expire"     -> CanExpire(k)
      [] tx = "liquidate"  -> CanLiquidate(k)
      [] tx = "write_off"  -> CanWriteOff(k)
      [] tx = "deleverage" -> CanDeleverage(k)
      [] tx = "repay"      -> CanRepay(k)
      [] tx = "trigger"    -> CanTrigger(k)

Closed(k)  == [chain EXCEPT !.open = @ \ {k}]
Cleared(k) == [chain EXCEPT !.open = @ \ {k}, !.debt = @ \ {k}]

\* A deleveraged key that would be bought back aborts under a pause.
Fails(tx, k) == ~Succeeds(tx, k) \/ (tx = "deleverage" /\ chain.paused)

\* What it may leave behind: a payout repays the debt or only part of it, a
\* deleveraged key is bought back (a mint, which a pause stops) or not.
After(tx, k) ==
    CASE tx = "fill"       -> {[chain EXCEPT !.book = WithoutOrder(k), !.open = @ \cup {k},
                                             !.debt = IF o.leveraged THEN @ \cup {k} ELSE @]
                                 : o \in OrdersOn(k)}
      [] tx = "expire"     -> {[chain EXCEPT !.book = WithoutOrder(k)]}
      [] tx = "liquidate"  -> {[Cleared(k) EXCEPT !.book = WithoutOrder(k)]}
      [] tx = "write_off"  -> {Cleared(k)}
      [] tx = "deleverage" -> {Closed(k), Cleared(k)} \cup
                              (IF chain.paused THEN {} ELSE {[chain EXCEPT !.debt = @ \ {k}]})
      [] OTHER             -> {Closed(k), Cleared(k)}

-----------------------------------------------------------------------------
(* Listings of the indexer.  Positions come in an order that says nothing     *)
(* about them, orders come newest first.                                      *)

Unexpired(at)        == {o \in ToSet(index.book) : o.expires > at}
NewestOrders(orders) ==
    LET rows == Kept(Reverse(index.book), orders)
    IN  [i \in DOMAIN rows |-> rows[i].key]

\* Variant: the oldest orders come first.
FillableOrdersOldest(at) ==
    LET keys == Reverse(NewestOrders(Unexpired(at)))
    IN  {SubSeq(keys, 1, IF Len(keys) < Lookahead THEN Len(keys) ELSE Lookahead)}

FillableOrders(at) ==
    LET keys == NewestOrders(Unexpired(at))
    IN  {SubSeq(keys, 1, IF Len(keys) < Lookahead THEN Len(keys) ELSE Lookahead)}

\* Variant: positions without contracts are not listed.
LiquidationCandidatesOpenOnly == SetToSeqs(index.debt \cap index.open)

\* Margin is owed only where something was borrowed (MarginDebtOnlyWithBorrow).
LiquidationCandidates == SetToSeqs(index.debt)

Listings(phase, at) ==
    CASE phase = "fill"       -> FillableOrders(at)
      [] phase = "expire"     -> {NewestOrders(ToSet(index.book) \ Unexpired(at))}
      [] phase = "liquidate"  -> LiquidationCandidates
      [] phase = "deleverage" -> SetToSeqs(IF InWindow(at) THEN index.open \cap index.debt ELSE {})
      [] phase = "repay"      -> SetToSeqs(IF Expiry <= at THEN index.open \cap index.debt ELSE {})
      [] phase = "trigger"    -> SetToSeqs(index.open)

\* The transactions a run may settle on for a candidate, given the row it
\* listed and the chain at the time it looks.  A row without contracts is
\* written off; one with contracts is asked for its health, and written off
\* where the liquidation of a sick one does not go through in the simulation.
Intended(phase, k, rows) ==
    LET tries == IF phase # "liquidate" THEN {phase}
                 ELSE IF k \notin rows THEN {"write_off"}
                 ELSE IF k \notin market.sick THEN {}
                 ELSE IF CanLiquidate(k) THEN {"liquidate"} ELSE {"write_off"}
    IN  {tx \in tries : Succeeds(tx, k)}

-----------------------------------------------------------------------------
(* Runs *)

\* Variant: a request for everything does not look at the other runs.
IsLockedByKind(kind) == kind \in runningKinds

IsLocked(kind) ==
    \/ "all" \in runningKinds
    \/ kind = "all" /\ runningKinds # {}
    \/ kind \in runningKinds

NewRun(kind) == [kind |-> kind, step |-> "refresh", paused |-> FALSE, todo |-> PhasesOf(kind),
                 list |-> <<>>, rows |-> {}, at |-> 0, done |-> 0, tx |-> "none"]

StartRun(s, kind) ==
    /\ runningKinds' = runningKinds \cup {kind}
    /\ run' = [run EXCEPT ![s] = NewRun(kind)]

\* Variant: a run that throws keeps its lock.
LocksAfterFailureKept(kind) == runningKinds

LocksAfterFailure(kind) == runningKinds \ {kind}

\* Variant: a pause stops the whole limit-order task.
SkippedWithExpiry(r, phase) ==
    \/ r.paused /\ phase \in {"fill", "expire", "trigger"}
    \/ phase = "repay" /\ r.done >= Limit

\* A pause stops fills and triggers; both phases of force_close share a limit.
Skipped(r, phase) ==
    \/ r.paused /\ phase \in {"fill", "trigger"}
    \/ phase = "repay" /\ r.done >= Limit

NextPhase(r) ==
    LET rest == Tail(r.todo)
        same == rest # <<>> /\ KindOf[Head(rest)] = KindOf[Head(r.todo)]
    IN  [r EXCEPT !.todo = rest, !.step = "fetch", !.list = <<>>, !.rows = {}, !.tx = "none",
                  !.at   = IF same THEN @ ELSE 0,
                  !.done = IF same /\ Head(rest) = "repay" THEN @ ELSE 0]

\* The run goes on, or ends and frees its lock.
Continue(s, r) ==
    IF r.todo = <<>>
    THEN run' = [run EXCEPT ![s] = Idle] /\ runningKinds' = runningKinds \ {r.kind}
    ELSE run' = [run EXCEPT ![s] = r] /\ UNCHANGED runningKinds

At(s, step) == run[s] # Idle /\ run[s].step = step

\* refreshProtocolState: what the chain says is what the run goes by.
ReadsPause(s, paused) ==
    /\ At(s, "refresh")
    /\ tradingPaused' = paused
    /\ run' = [run EXCEPT ![s].paused = paused, ![s].step = "fetch"]
    /\ UNCHANGED <<chain, index, market, queue, runningKinds>>

Refresh(s) == ReadsPause(s, chain.paused) /\ UNCHANGED faults

\* A task reads the clock once, in its first phase.
Fetch(s) ==
    LET r     == run[s]
        phase == Head(r.todo)
        at    == IF phase \in {"fill", "deleverage"} THEN chain.now ELSE r.at
    IN  /\ At(s, "fetch")
        /\ IF Skipped(r, phase)
           THEN Continue(s, NextPhase([r EXCEPT !.at = at]))
           ELSE \E list \in Listings(phase, at) :
                  Continue(s, [r EXCEPT !.step = "work", !.at = at, !.list = list,
                                        !.rows = index.open])
        /\ UNCHANGED <<chain, index, market, queue, tradingPaused, faults>>

\* The next candidate is looked at and its transaction simulated.
Simulate(s) ==
    LET r == run[s] IN
    /\ At(s, "work")
    /\ IF r.list = <<>> \/ r.done >= Limit
       THEN Continue(s, NextPhase(r))
       ELSE LET choices == Intended(Head(r.todo), Head(r.list), r.rows) IN
            \/ /\ \A tx \in choices : Fails(tx, Head(r.list))
               /\ Continue(s, [r EXCEPT !.list = Tail(@)])
            \/ \E tx \in choices : Continue(s, [r EXCEPT !.step = "submit", !.tx = tx])
    /\ UNCHANGED <<chain, index, market, queue, tradingPaused, faults>>

NextCandidate(r, found) == [r EXCEPT !.step = "work", !.list = Tail(@), !.tx = "none", !.done = @ + found]

\* The transaction runs on the chain as it is by then.
Submit(s) ==
    LET r == run[s]
        k == Head(r.list)
    IN  /\ At(s, "submit")
        /\ \/ /\ Succeeds(r.tx, k) /\ chain' \in After(r.tx, k)
              /\ Continue(s, NextCandidate(r, 1))
           \/ /\ Fails(r.tx, k) /\ UNCHANGED chain
              /\ Continue(s, NextCandidate(r, 0))
        /\ UNCHANGED <<index, market, queue, tradingPaused, faults>>

RunStep(s) == Refresh(s) \/ Fetch(s) \/ Simulate(s) \/ Submit(s)

-----------------------------------------------------------------------------
(* Jobs and requests *)

\* Variant: every tick adds a job.
EnqueuedAgain(kind) == Append(queue, kind)

\* The scheduler keeps at most one job of a kind waiting.
Enqueued(kind) == IF Contains(queue, kind) THEN queue ELSE Append(queue, kind)

Cron(kind) ==
    /\ queue' = Enqueued(kind)
    /\ UNCHANGED <<chain, index, market, runningKinds, tradingPaused, run, faults>>

\* The worker takes one job at a time; a job whose kind is locked does nothing.
TakeJob ==
    /\ run["worker"] = Idle /\ queue # <<>>
    /\ queue' = Tail(queue)
    /\ IF IsLocked(Head(queue)) THEN UNCHANGED <<runningKinds, run>>
                                ELSE StartRun("worker", Head(queue))
    /\ UNCHANGED <<chain, index, market, tradingPaused, faults>>

Request(kind) ==
    /\ run["http"] = Idle /\ ~IsLocked(kind)
    /\ StartRun("http", kind)
    /\ UNCHANGED <<chain, index, market, queue, tradingPaused, faults>>

-----------------------------------------------------------------------------
(* Failures *)

Fault == faults < MaxFaults /\ faults' = faults + 1

\* The chain does not answer: the indexer's pause stands, or the last one known.
RefreshFails(s) == Fault /\ \E paused \in {tradingPaused, index.paused} : ReadsPause(s, paused)

\* A listing that cannot be fetched ends the run.
FetchFails(s) ==
    /\ At(s, "fetch") /\ ~Skipped(run[s], Head(run[s].todo)) /\ Fault
    /\ run' = [run EXCEPT ![s] = Idle]
    /\ runningKinds' = LocksAfterFailure(run[s].kind)
    /\ UNCHANGED <<chain, index, market, queue, tradingPaused>>

\* A call about one candidate fails, before or after the chain has acted on
\* it: the run goes on with the next one.
CallFails(s) ==
    LET r == run[s] IN
    /\ run[s] # Idle /\ r.list # <<>> /\ Fault
    /\ \/ UNCHANGED chain
       \/ r.step = "submit" /\ Succeeds(r.tx, Head(r.list)) /\ chain' \in After(r.tx, Head(r.list))
    /\ Continue(s, NextCandidate(r, 0))
    /\ UNCHANGED <<index, market, queue, tradingPaused>>

\* The process restarts: locks and the pause it knew are gone, the queue is
\* not, and the job it was at is handed out again.
Restart ==
    /\ Busy # {} /\ Fault
    /\ queue' = IF "worker" \in Busy THEN <<run["worker"].kind>> \o queue ELSE queue
    /\ runningKinds' = {}
    /\ tradingPaused' = FALSE
    /\ run' = [s \in Slots |-> Idle]
    /\ UNCHANGED <<chain, index, market>>

-----------------------------------------------------------------------------
(* Everybody else *)

Elsewhere == UNCHANGED <<index, market, queue, runningKinds, tradingPaused, run, faults>>

Place(k, o) ==
    /\ OrdersOn(k) = {} /\ ~chain.paused
    /\ chain.now < o.expires /\ o.expires <= Expiry
    /\ o.leveraged => o.expires < Expiry - Window
    /\ chain' = [chain EXCEPT !.book = Append(@, [key |-> k, expires |-> o.expires,
                                                  leveraged |-> o.leveraged])]
    /\ Elsewhere

Cancel(k) ==
    /\ OrdersOn(k) # {}
    /\ chain' = [chain EXCEPT !.book = WithoutOrder(k)]
    /\ Elsewhere

Mint(k, leveraged) ==
    /\ ~chain.paused
    /\ chain.now < IF leveraged THEN Expiry - Window ELSE Expiry
    /\ chain' = [chain EXCEPT !.open = @ \cup {k}, !.debt = IF leveraged THEN @ \cup {k} ELSE @]
    /\ Elsewhere

\* A trader redeems or settles a key; the payout may leave part of its debt.
Redeem(k) ==
    /\ Held(k)
    /\ chain' \in {Closed(k), Cleared(k)}
    /\ Elsewhere

RepayDebt(k) ==
    /\ Indebted(k)
    /\ chain' = [chain EXCEPT !.debt = @ \ {k}]
    /\ Elsewhere

Settle(k) ==
    /\ Expiry <= chain.now /\ k \notin chain.settled
    /\ chain' = [chain EXCEPT !.settled = @ \cup {k}]
    /\ Elsewhere

SetTradingPaused(paused) ==
    /\ chain' = [chain EXCEPT !.paused = paused]
    /\ Elsewhere

Tick ==
    /\ chain.now < MaxTime
    /\ chain' = [chain EXCEPT !.now = @ + 1]
    /\ Elsewhere

MarketMoves(m) ==
    /\ market' = m
    /\ UNCHANGED <<chain, index, queue, runningKinds, tradingPaused, run, faults>>

\* What the indexer serves: some state of the chain, older than the chain.
Seen == [book |-> chain.book, open |-> chain.open, debt |-> chain.debt, paused |-> chain.paused]

IndexerCatchesUp ==
    /\ index # Seen
    /\ index' = Seen
    /\ UNCHANGED <<chain, market, queue, runningKinds, tradingPaused, run, faults>>

-----------------------------------------------------------------------------
Init ==
    /\ chain = [book |-> <<>>, open |-> {}, debt |-> {}, settled |-> {}, paused |-> FALSE, now |-> 0]
    /\ index = Seen
    /\ market \in Markets
    /\ queue = <<>>
    /\ runningKinds = {}
    /\ tradingPaused = FALSE
    /\ run = [s \in Slots |-> Idle]
    /\ faults = 0

KeeperNext ==
    \/ \E kind \in CronKinds : Cron(kind)
    \/ TakeJob
    \/ \E kind \in HttpKinds : Request(kind)
    \/ \E s \in Slots : RunStep(s) \/ RefreshFails(s) \/ FetchFails(s) \/ CallFails(s)
    \/ Restart

WorldNext ==
    \/ \E k \in Keys : \/ \E o \in OrderTerms : Place(k, o)
                       \/ \E leveraged \in MintLeverages : Mint(k, leveraged)
                       \/ Cancel(k) \/ Redeem(k) \/ RepayDebt(k) \/ Settle(k)
    \/ \E paused \in PauseChoices : SetTradingPaused(paused)
    \/ \E m \in Markets : MarketMoves(m)
    \/ Tick
    \/ IndexerCatchesUp

Next == KeeperNext \/ WorldNext

\* The scheduler keeps ticking, the event loop serves every run, the worker
\* takes jobs and the indexer keeps up.  Traders, the admin, operators, the
\* market, the clock and failures owe nothing.
Fairness ==
    /\ \A kind \in CronKinds : WF_vars(Cron(kind))
    /\ WF_vars(TakeJob)
    /\ \A s \in Slots : WF_vars(RunStep(s))
    /\ WF_vars(IndexerCatchesUp)

Spec == Init /\ [][Next]_vars /\ Fairness

-----------------------------------------------------------------------------
(* Properties *)

\* State has its shape, a phase stays within its limit and the queue within
\* one job per kind and one per restart (keeper-task.scheduler.ts).
TypeOK ==
    /\ chain.open \cup chain.debt \cup chain.settled \subseteq Keys
    /\ \A i, j \in DOMAIN chain.book : chain.book[i].key = chain.book[j].key => i = j
    /\ runningKinds \subseteq Kinds /\ ToSet(queue) \subseteq CronKinds
    /\ Len(queue) <= Cardinality(CronKinds) + MaxFaults
    /\ \A s \in Busy : /\ run[s].kind \in Kinds /\ run[s].done <= Limit
                       /\ ToSet(run[s].list) \cup run[s].rows \subseteq Keys
                       /\ run[s].tx \in Outcomes \cup {"none"}
                       /\ run[s].step = "submit" => run[s].tx # "none"

\* Locks are held by the runs under way and by nothing else, and no task is
\* worked on by two of them at once, whichever mix of cron jobs and requests
\* started them (KeeperOrchestratorService.isLocked).
RunsExcludeEachOther ==
    /\ runningKinds = {run[s].kind : s \in Busy}
    /\ \A s, t \in Busy : s # t => Tasks(run[s].kind) \cap Tasks(run[t].kind) = {}

\* Every scheduled task is run again and again, through failures, restarts and
\* requests that take its lock ("staggered jobs do not starve each other").
EveryTaskKeepsRunning ==
    \A kind \in CronKinds : []<>(\E s \in Busy : run[s].kind \in {kind, "all"})

\* An order past its time does not keep the trader's margin reserved: the
\* keeper releases it, paused or not (LimitOrderService.run).
ExpiredOrdersAreReleased ==
    \A k \in Keys : CanExpire(k) ~> ~CanExpire(k)

\* After expiry a debt ends: it is repaid, liquidated or written off, unless
\* the market settles while the contracts are still there for their owner to
\* settle (ForceCloseService, LiquidationService).
ExpiredDebtsAreCleared ==
    \A k \in Keys : (Indebted(k) /\ Expiry <= chain.now)
                      ~> (~Indebted(k) \/ (k \in chain.settled /\ Held(k)))

\* The orders listed before the one on k: placed later, and not expired.
Ahead(k) ==
    {j \in Keys : \E m, n \in DOMAIN chain.book :
        /\ chain.book[m].key = k /\ chain.book[n].key = j /\ m < n
        /\ chain.now < chain.book[n].expires}

\* An order that can be filled from some point on, and not only in the last
\* instant of its time, is filled, as long as what is listed before it leaves
\* it among the orders a run looks at and takes none of the run's fills.
\* Behind Lookahead newer orders it may rest until it expires, whatever the
\* market says: no run gets that far (LimitOrderService.run).
MarketableOrdersAreFilled ==
    \A k \in Keys : ~<>[](/\ CanFill(k) /\ \E o \in OrdersOn(k) : chain.now < o.expires
                          /\ Cardinality(Ahead(k)) < Lookahead
                          /\ \A j \in Ahead(k) : ~CanFill(j))
=============================================================================
