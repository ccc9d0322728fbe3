# LeverX: a verification project

LeverX is a leveraged trading layer on DeepBook Predict (Sui). Traders post margin, borrow
quote from a shared lending vault and buy option contracts; keepers close, repay, liquidate and
write off positions; liquidity providers (LPs) fund the vault and bear what nobody else pays. An
indexer turns the events of the chain into tables and streams changes to the web app; the keeper
process also relays signed trades, gives users their managers and runs a trading agent for those
who turn it on. This directory holds TLA+ modules of these parts, the TLC configurations that check
them, and TLAPS proofs about the contracts, the keeper's runs, its API, the agent, the indexer and the
stream: of the properties that passing runs check, all the safety properties but one. It follows
the code in `contracts/sources`, `keeper/src`, `indexer/crates` and `app/src`; where a doc or a comment
says something else, the run that shows the difference is listed under *Disagreements*.

1. [Inventory](#1-inventory) - 2. [Modules](#2-modules-and-how-they-correspond-to-the-code) -
3. [Runs](#3-runs-and-bounds) - 4. [Proofs](#4-proofs) - 5. [Disagreements](#5-disagreements) -
6. [Limits](#6-what-is-not-modelled-and-why) - 7. [Plan](#7-plan)

## 1. Inventory

### On the chain (Move, `contracts/sources`)

Every public function is one transaction on shared objects: it runs to its end or aborts and
changes nothing. Transactions of traders, keepers, LPs, the admin and Predict interleave freely.

| Part | State | Operations | What makes it correct |
| --- | --- | --- | --- |
| `leverage_vault` | idle balance, `total_borrowed`, `total_principal_borrowed`, shares, insurance fund, accrual clock, borrow curve | supply, withdraw, accrue, borrow, repay, write off, insurance, flash loan | quote conserved; debt covers principal; a share's value is nobody else's to take; LPs pay last |
| `fee_collector` | treasury balance | 80/10/10 split of interest, flash fees and liquidation surplus; withdrawal | the split hands out exactly the revenue |
| `vault_flash` | a receipt within one transaction | borrow, repay | the loan and its fee come back or nothing happened |
| `user_proxy`, `proxy_vault` | one balance manager per trader; trading, reserved and per-key quote; per-key principal, margin, leverage, remint flag; resting orders; triggers | deposits, reserves, allocations, sweeps, borrow and repay records | the coins match the ledgers; reserves match orders; the total matches the keys |
| `ltv`, `protocol_constants` | none | leverage, health, basis points | pure arithmetic with asserted bounds |
| `trade` | none of its own | mint, resting limit orders, redeem, settle, force-deleverage (with remint), post-expiry repay, hand repay, recovery, write-off | collateral stays with debt; no loan in the final window; keepers never spend a trader's free quote |
| `liquidation` | none of its own | redeem, cancel order, check health, clear debt | clears the whole debt or aborts |
| `triggers` | in `user_proxy` | set, clear, clear when flat | anyone may redeem a key whose trigger is met |
| `protocol_registry` | pause, liquidation threshold, final window, keeper | admin setters | a pause stops the ways in and leaves the ways out |
| `predict_client` / DeepBook Predict | contracts per key, manager balance, oracle state (external) | quote, mint, redeem, settle | external |

Interaction: `trade` and `liquidation` call the vault, the collector and the proxy within one
transaction; the vault knows debts only as two totals and trusts `trade` to pass the principal of
a ledger; the ledgers record principal only and learn their interest from the vault's totals. Both
sides split a repayment by themselves, in opposite rounding - the place where they could drift
apart, and the reason for `LedgersWithinPrincipal`.

### Keeper (TypeScript, `keeper/src`)

| Part | State | What is hard |
| --- | --- | --- |
| task cycle (`tasks/`) | in-process set of running kinds; waiting jobs in Redis; cached pause, window, threshold | stale candidates, simulate-then-execute, overlapping kinds, head-of-list limits |
| trade relay (`trade/`, `auth/app-intent-auth`) | in-memory replay store | check before and write after an await; intents burnt by failed relays; restart |
| manager onboarding (`manager/`) | in-flight map, database row | crash between execution and storing; concurrent requests |
| Sui client (`sui/`) | active node, throttle, cached protocol state | resubmission after a lost answer; failover |
| trading agent (`jarvis/`) | settings row per account, job schedulers, lifecycle lock, event feed | a run saves the row it read; jobs outlive a pause; stale counts against a limit |
| notifications (`telegram/`) | queue jobs, link tokens, cooldowns | retries that resend; token consumed twice |
| gas sponsor, rate limits, JWT, health, configuration | counters, none | small |

What makes these correct: a refusal is true (nothing happened), everyone is told the same manager,
a replayed intent is turned away, every request ends; an agent runs again and again until it is turned
off, and trades only under settings its owner was told.

### Indexer (Rust, `indexer/crates`) and web app (`app/src`)

The indexer turns the events of each checkpoint into rows; a commit applies several checkpoints
at once, *by kind of row* and not in event order, and must survive reprocessing. The server
answers queries and streams changes to web sockets; the app subscribes, reconnects and renders.

| Part | State | What makes it correct |
| --- | --- | --- |
| projection (`leverx-indexer`) | cursor, event digests, `leveraged_positions`, `limit_mint_orders` | the rows show a state the chain was in, of every key it has not lost track of; re-reading changes nothing; stranded quote stays on offer |
| stream server (`leverx-server`) | active channels, cursor of the poller, a broadcast buffer and a subscription set per connection | what is polled has a reader; a row reaches the tabs that read its channel, or one knows why not |
| stream client (`app/src/context`, `lib/leverx/indexer-ws*`) | counts per channel, pending and asked channels, socket, reconnect timer | a tab asks for exactly what its hooks want |

### Hard behaviours

`PROJECT.json` lists them at their lines. The on-chain ones are: two roundings of one repayment;
one key scaled in and out at different leverages; a position that leaves through any of eight
exits while its order, triggers, margin and reserve must be cleaned up exactly once; the admin
moving the pause, the threshold and the window under open positions; expiry and settlement racing
with the keeper; and a waterfall (key, insurance, LPs) with early returns. Off the chain they are
staleness, crashes between two writes, retries, and batches applied out of order.

## 2. Modules and how they correspond to the code

A Move transaction is modelled by a *context*: a record with the fields the transaction reads and
writes, plus `ok`. Each Move function is an operator from context to context; an assertion or an
unsigned subtraction that fails sets `ok` to FALSE (`Require`). An action is a chain of operators
and a `Commit`, which is enabled only if the final context is `ok`: aborts change nothing.

| Module | Code | Content |
| --- | --- | --- |
| `Transaction` | Move semantics | `Require` |
| `ProtocolMath` | `ltv`, `protocol_constants`, the arithmetic of `leverage_vault`, `fee_collector`, `trade` | roundings, fee split, borrow curve, the two principal splits, leverage, health |
| `LeverageVault` | `leverage_vault`, `fee_collector`, `vault_flash` | operators on `t.vault`, `t.collector`, `t.paid` |
| `UserProxy` | `user_proxy`, `proxy_vault` | operators on the ledgers of proxies and keys |
| `DebtLedger` | `trade` (borrow, repay, write-off waterfall) | the operators that touch the vault and a ledger together |
| `CreditPool` | vault + collector + ledgers as a state machine | the vault seen by itself: a key may spend, be paid and pay at any time |
| `Trade` | `trade`, `liquidation`, `triggers`, registry, Predict (external), composed with all of the above | one action per entry point of traders, keepers, LPs, admin, Predict |
| `KeeperCycle` | `keeper/src/tasks`, the refresh of the protocol state, the indexer's listings (partly), a reduced chain | cron jobs, the queue's worker, HTTP requests, locks, runs phase by phase, failures and restarts |
| `KeeperApi` | the keeper process as the app calls it | composes the next three: one event loop, one failover object, one fate |
| `RpcFailover` | `sui/sui.service`, `sui-rpc-failover`, `sui-rpc-errors` | tries of a submission, primary and fallback, rate limits, lost answers |
| `TradeRelay` | `trade/`, `auth/app-intent-auth`, `sui/enoki-sponsor` | replay store, expiry, signature, checks, simulation, submission, await by await |
| `ManagerOnboarding` | `manager/` | lookup, the creation in flight, its record, linking by the user |
| `JarvisAgent` | `jarvis/` | requests of the owner, schedulers, worker, lifecycle, trades |
| `LedgerReplica` | | what a read model of the chain promises |
| `IndexProjection` | `leverx-indexer/src`, `position_hints` | the chain as its events, the projection that reads them; implements `LedgerReplica` |
| `StreamFeed` | `leverx-server` (`stream`, `ws`), the app's stream client | hooks, tabs, sockets, connections, hub, poller |
| `MCCreditPool`, `MCTrade`, `MCKeeperCycle`, `MCKeeperApi`, `MCStreamFeed` | | instances for TLC |
| `ProtocolMathProofs`, `CreditPoolProofs`, `TradeProofs`, `KeeperCycleProofs`, `KeeperApiProofs`, `JarvisAgentProofs`, `IndexProjectionProofs`, `StreamFeedProofs` | | theorems, see section 4 |

The binary and the range copy of a Move function differ only in the key's type; one operator
stands for both. Events, object ids, premium formatting and slippage are left out: a transaction
sees *some* ask and *some* bid, so every price the code would accept is covered. A resting order
keeps the highest ask it accepts, which is its limit premium with its frozen slippage.

`CreditPool` uses one purse for all the quote outside the protocol. Its `Open`, `Spend`, `Repay`,
`Sweep` and `WriteOff` over-approximate what `trade` does to the vault: any key may do them at any
time, so its properties hold for every trading policy. `Trade` restricts them to the real entry
points with their guards: pause, mint window, order expiry, final window, oracle state, health.

State of `Trade`: `chain` (the context of all shared objects: vault, collector, per-proxy
`custody`, `trading`, `reserved`, `debtTotal`, `manager`, per-key `quote`, `borrowed`, `margin`,
`leverage`, `remint`, `order`, `trigger`, `contracts`, the purse and the clock), `registry`
(`paused`, `liquidation_bps`, `window`) and `outcome` (the oracle of each key).

A few correspondences that are easy to miss:

- `RepayFromPayout` is `repay_from_payout_*` with its two flags: `settled` runs the write-off
  waterfall, `hold` keeps the surplus on the key for a remint and leaves the cleanup to the caller.
- `SyncLeverage` aborts when the posted margin is gone or the leverage leaves its bounds, exactly
  as `leverage_bps_from_margin_and_borrow` asserts.
- `TryRemint` sweeps the key to the trading account and mints from there, as
  `try_remint_unleveraged_*` does; it goes through `ExecuteMint` and so through the pause check.
- `LiquidateTx` is the keeper's whole block (`ptb-builder`): loan, redeem, liquidation, loan back.
- `SupplyUnaccrued` and `WithdrawUnaccrued` exist because `supply` and `withdraw` are public
  beside the entry points that accrue first.
- A definition whose comment starts with *Variant* is a plausible slip of the definition after it.
  No specification uses it: it documents which slip each property would notice.

### KeeperCycle

| Variable | In the code |
| --- | --- |
| `queue` | the waiting jobs of the BullMQ queue; one job per kind waits at most, as the scheduler's job ids have it |
| `runningKinds` | the set of the orchestrator |
| `run` | what the queue's one worker and one HTTP request are at: kind, step, phases left, candidates left, the rows and the clock it listed by, successes in this phase, the transaction it settled on |
| `tradingPaused` | the pause the Sui service has cached |
| `index` | orders, positions and pause as the indexer serves them: some earlier state of the chain, replaced by the present one in `IndexerCatchesUp` |
| `chain` | which keys have an order, contracts, a debt, are settled; pause and clock. Amounts are in `Trade` |
| `market` | for which keys an ask crosses the limit, health is low, the sale covers the debt, a trigger is met |
| `faults` | failures so far, bounded by `MaxFaults` |

A run is a sequence of `Refresh`, then for each phase one `Fetch` and, per candidate, one
`Simulate` and one `Submit`: these are the awaits of the code, and between any two of them every
other actor may step. A run for everything goes through the six phases in the code's order; a run
of one kind through the phases of its task. `FetchFails` is an exception that leaves the run
through `finally`; `CallFails` is a failure the loop over candidates catches, with or without the
transaction having happened; `RefreshFails` falls back on the indexer's pause or the last known
one; `Restart` loses all that is in memory and keeps the queue.

A listing of orders is cut at `Lookahead` orders, newest first (`3 * Limit` in the code; a constant of its
own, so that a run of two orders can have the cut), and a phase ends after `Limit` successes. A key of a
listing without contracts is offered for write-off; of one with contracts a sick one is liquidated, and
written off only if its liquidation fails in simulation (`Intended`).

The guards of the transactions (`CanFill`, `CanWriteOff`, ...) are those of `Trade`, reduced to
sets of keys; what depends on amounts (does a payout cover the debt?) is left open, so a
transaction may leave the key in any state its amounts allow, and a force-deleverage may abort under a
pause because its remint does (`Fails`).

### KeeperApi

Node runs handlers to their next await, so one action is one stretch between two awaits.
`phase` says what a relay awaits (signature, checks, simulation, submission), `stage` what an
onboarding call awaits; `used` is the replay store, `lock` the map of creations in flight, `stored`
the database, `made`, `linked` and `indexed` what the chain and the indexer know of managers.
Three things are easy to miss. The replay store is consulted on arrival and written only after the
signature was verified: two relays of one intent that overlap there both pass, in the model as in
the code. A creation looks the manager up once more under the lock (`Authorise` goes back to
`"store"`), which is what makes a second creation impossible without a fault. And a sponsored
transaction is another transaction on each try, while a self-paid one is the same bytes
(`Executions`). `Restart` drops handlers, replay store and locks together and keeps database and chain.

### IndexProjection and LedgerReplica

`log` is the chain: per transaction the ledger it left, the quote it left in the account's Predict manager,
and the events it emitted, in the order the contracts emit them. A key has contracts, a debt, a resting
order, and the quote its mints did not cost (`held`), which pays a residual debt, or is swept by a close that
leaves no debt or by `RecoverKeyQuote`. The manager is the account's: `RecoverSurplus` takes any part of it
and names whichever flat key it likes. Both recoveries emit `StrandedCustodyRecovered`, and the projection
treats them differently (`AfterClose`): a sweep of the key completes its custody and clears its borrow, a
recovery from the manager does neither.

The projection reads the log by `Commit(n)`: events of n transactions, sorted by kind, kinds applied in the
order of `commit()`. `ApplyKind` is the loop over the rows of one kind and `Turn` its body, which asks whether
the digest of the event is new (`Fresh`, against `seen`); of the orders only the loop over liquidations asks
(`CancelOnLiquidation`), fills and cancellations do not. `Rewind` restarts the indexer at an earlier
checkpoint.

Because a commit applies kind by kind, two transactions of one key in it may be applied the wrong way
round: a mint and a later redeem, close or liquidation, a liquidation or write-off and a later mint.
`inverted` is a history variable with the keys to which this has happened, `PartlyClosed` the keys of which
LeverX closed a part (whose sale is taken off twice), `Unsure` both: the keys the index no longer
follows. The abstract `LedgerReplica` knows nothing of rows and events: a replica shows a state of the ledger,
moves forward only, and may lose track of keys as it advances, which then stay lost. `ShowsTheLedger` is its
specification under the mapping `history` = quantities after each transaction, `position` = `seen`,
`lost` = `Unsure`, `shown` = quantities of the rows; a rewind and what is read again stutter. It says that an
inversion and a partial close are the *only* ways to lose track, for the key concerned and from then on.

### StreamFeed

A tab's `wanted` (per hook), `refs`, `asked` and `pending` are the maps of `AppStreamContext` and
`IndexerWebSocket`; `current`, `timer` and `status` its socket, reconnect timer and status. A socket has
a client side (`socket`, `inbox`) and a server side (`conn`, `subscribed`, `tracking`, `hub`); the
server shares one `active` set between all connections, and the poller has a `cursor` and the `page` it
is dispatching. A snapshot is the number of rows of its channel that it contains. A tab keeps the
handlers of an older socket, so a late `close` takes away the newer one; a subscribe answers with
snapshots first and tells the poller of the channels after (`tracking`); a slow receiver loses the oldest
messages of a buffer that all channels and the heartbeats share. All three are actions of their own or part
of one. A row of `leverx_events` has a channel and the timestamp of its checkpoint, which others may share;
the cursor is a timestamp, a page is any choice of the first rows past it (`IsPage`), and a failed query
drops the page with the cursor already past the row (`DispatchFails`). `missed` is a history of which
channels a connection lost its last snapshot of.

### JarvisAgent

`row` is the settings entity, `schedulers` the two job schedulers of the account, `waiting` its job in the
queue, `locked` the lifecycle lock, `run` and `client` what the worker and the owner's request are at, with
the copy of the row (`mine`) each carries from its read to its save. TypeORM's `save` of a whole
entity writes all columns: `Stamp` and `Welcome` write the copy back. `told` is the last answer
the owner got, `sure` whether nothing could have been racing with it; both are history. The model
decides by free choice what the language model decides; a count of positions comes from the
indexer, may be stale, and a failed one limits nothing (`Counts`). `allowed` notes for a run whether the
settings its owner knew at its start let it trade.

## 3. Runs and bounds

Scale: ten basis points to the unit (`Bps = 10`), so 80/10/10 is 8/1/1 and every division rounds on
single coins; a year of 2 or 4 milliseconds, so one tick brings interest on a debt of one coin.
The roundings, not the magnitudes, are what the properties depend on. Deadlock is not checked where
a bound or the end of all requests brings the instance to rest; it is checked in the runs of the
keeper's tasks and of the agent, whose jobs never stop.

| Run | Shows | Bounds and why they suffice |
| --- | --- | --- |
| `pool` | type, debt over principal, ledgers within principal, payability, conservation, LPs last, the value of the others' shares | two keys of one proxy (two ledgers are needed for one to gain what the other loses), 11 coins, amounts of 2 on keys and of 1 and 3 in the pool, a surplus of 10 (liquidation: insurance, collector and LPs all get some), at most 3 shares, two accruals of 2 ms, two curves; ~250 000 states |
| `trade_exits` | type, custody, conservation, margin only with borrow, keepers and free quote, collateral | one key, mints at 1x and 2x, one or two contracts, bids 0-2 against an ask of 2, remint on and off, recoveries of 1, 2 or 4 from the manager, clock 1/3/5 = before, in and after the final window, then settlement at 4 or 0; ~200 000 states |
| `trade_orders` | reserve = orders and totals = keys, no loan in the window | two keys of one proxy, resting orders that expire at 2 (filled at 1, expired at 3), triggers, windows 2 and 4, thresholds 10 and 11, whole recoveries; ~180 000 states |
| `keeper_orders` | an expired order is released, paused or not; a marketable order is filled unless newer ones keep it out of sight | two keys with plain orders of which the older one's is marketable, runs that look at one order and make one fill (so the second order is cut off, and comes into sight when the first is gone), a pause that comes and goes, one failure or restart; ~200 000 states |
| `keeper_debts` | locks and runs agree, tasks never overlap, no task starves, after expiry a debt ends | one key, liquidation and force-close jobs against requests for everything, trigger, liquidatable and underwater markets, one failure; clock before, in and after the final window; ~170 000 states |
| `index` | the rows implement `LedgerReplica`, orders shown open rest, stranded quote stays on offer, replay changes nothing | one key (rows of different keys never meet; the theorems have any number), two contracts, four transactions (a mint with surplus, an external redeem, a sweep of the key and a recovery fit, also a mint, a close, a reopening and a liquidation), commits of one or two of them, one order expiry, one rewind to any checkpoint; ~800 000 states |
| `stream` | nobody asks for what nobody wants; a row reaches the tab, or one of the named exceptions has happened | one tab with two hooks, of which one wants one channel and the other two, two sockets (a reconnection, or one too many), two rows, of one timestamp or two, a page and a buffer of one (so that a page cuts between rows and another channel or a heartbeat displaces a snapshot), two changes of mind, one failed query; ~330 000 states. Several tabs meet only in the shared `active` set and in the hub, where two sockets of one tab meet as well |
| `keeper_api` | answers are true and agree, one manager per address, replays are refused, every request is answered | two relays of one intent; two creations and a lookup of a new user and a creation of a linked one, of which three arrive; two tries, one fallback, one tick past the expiry, one fault anywhere |
| `jarvis` | answers hold, an enabled agent is scheduled and keeps running, it does not trade against settings its owner knows | two positions, a limit of one (so that the second is one too many), one action per phase, one failed await or restart; 1.1 million states |
| `trade_settlement`, `index_partial`, `jarvis_paused` | see section 5 | the smallest instance that has the case |

Properties, each with the code it is about, are commented at the end of its module.
Two are worth pointing out. `LedgersWithinPrincipal` is an inequality because the code's two
roundings make it one: the vault forgets principal more slowly than the ledgers do. It is what
keeps `record_repay` and `apply_repayment` from aborting; it is not an equality, as two partial
repayments can leave the vault a coin of debt that no ledger records. `KeepersNeverSpendTradingQuote`
is about a remint: it takes the key's quote to the trading account and mints from there, and must never mint for more than it brought.

Fairness: none is assumed on the chain, where nothing happens by itself, nor of the owner, the
traders, the market or of failures. In `KeeperCycle` weak fairness is assumed of

- `Cron(kind)` for every kind the scheduler registers: a cron job ticks for as long as the process lives;
- `TakeJob`: the queue hands its head to an idle worker;
- `RunStep(slot)`: the event loop resumes a run whose call has returned. A call that never returns is
  excluded by it; the tasks set no timeout of their own, so this is an assumption about the clients
  they use;
- `IndexerCatchesUp`: the indexer does not stop for good.

Traders, the admin, operators, the market, the clock and failures owe nothing. Failures are
bounded by `MaxFaults`: a liveness property says that a run of bad luck that ends does no lasting harm.
`EveryTaskKeepsRunning` needs no strong fairness: a job that finds its kind locked is dropped,
but the next tick queues another, and the requests that take the lock end.
`MarketableOrdersAreFilled` says that an order that stays marketable is filled; it excludes by `<>[]`
the order whose market comes and goes, and the last instant before the expiry; and the orders that are listed
behind `Lookahead` others, or behind one that can be filled itself and takes the run's one fill.

In `KeeperApi`, `WF(Turn)`: some handler whose await has ended goes on. It is the event loop and no
more: nothing says which handler, and it suffices because tries are counted and nobody waits for a
creation that is gone. In `StreamFeed`, `WF(Poll)` and `WF(Serve(s))`: the poller's loop and the loop of
each connection are tokio tasks that run as long as the process does. Sockets owe nothing:
`UpdatesReachTabs` gives up when a connection closes. Its other exceptions are what the code can lose: a failed
query, a row that shares its timestamp, a snapshot displaced by another channel or a heartbeat. Each
is needed: without any one of them TLC finds the tab that never shows the row. What remains is
that nothing else loses a row the poller has still to read: not a snapshot displaced by a newer one of its own
channel, not a page that is cut, not a message of the client handled between two broadcasts.

In `JarvisAgent`, `WF(Fire("regular"))` and `WF(RunStep)`: the queue's clock and its worker go on; the
owner's requests owe nothing, and failures are bounded.

## 4. Proofs

`CreditPoolProofs` proves, for every finite set of keys, every scale, every borrow curve with natural
parameters and every set of amounts, from `ScaleAssumption`, `ShareAssumption`,
`ProxyAssumption` and `PoolAssumption` (all checked by TLC on the instances):

| Theorem | Statement |
| --- | --- |
| `BooksBalance` | `Spec => []Books`, the inductive invariant |
| `PoolTypes` | `Spec => []TypeOK` |
| `PrincipalIsCovered` | `Spec => []DebtCoversPrincipal` |
| `LedgersAreBacked` | `Spec => []LedgersWithinPrincipal` |
| `DebtsArePayable` | `Spec => []EveryDebtIsPayable` |
| `QuoteIsConserved` | `Spec => []QuoteConserved` |
| `SharesKeepTheirValue` | `Spec => OtherSharesKeepTheirValue` |
| `NobodyInheritsTheVault` | a vault without shares is worth nothing |
| `KeyAndFundPayFirst` | `Spec => LPsAreLastToPay` |

The argument. `Books` says that the context the next transaction starts from is `Sound` (typed;
the vault's debt covers its principal and dies with it; the ledgers' sum is within that principal)
and that what the protocol holds plus the purse is the quote in circulation. None of the
properties is inductive alone: payability needs the ledgers to be backed, backing needs the vault's
principal to fall by no more than the ledger's, and that needs the debt of a ledger to be at least
its principal, which is `DebtCoversPrincipal`.

The proof follows the code. `Step(t, u, d)` says that a call leads from `t` to a sound `u` holding
`d` more quote. Each operator has a lemma of this form (`StepBorrowFlash`, `StepRepayKey`,
`StepTakeInsurance`, ...), steps compose (`StepTrans`), and an action is the step of its chain
followed by `CommitKeepsBooks`. An aborted context only has to keep its type, because it is never
committed. A repayment in between passes through contexts that are not sound by themselves (the vault
has taken its principal off, the ledger not yet); `RepayVaultFacts` and `RecordRepayFacts` state
what holds there, and `StepRepayKey` joins them.

The two action properties need more than `Books`. For the value of the shares the rounding is only half:
the first deposit of an empty vault gets its shares one to one, and had anything been left in the vault,
the depositor would take it and the next withdrawal could be worth less than its shares. `Owned` says that
nothing is left (`NobodyInheritsTheVault`), which holds because the last share withdrawn takes the whole
value and can only do so when nothing is lent. For a write-off, the argument follows the waterfall:
what the key and the fund pay lowers the debt and the principal by as much and leaves what
others own alone; a debt that remains after the key has none of its quote, and one that remains
after the fund means that the fund is empty.

`TradeProofs` proves the same kind of thing about the whole of `Trade`, for every finite set of proxies
and keys, every scale, curve, expiry, price and amount, any choices of the admin and any interleaving:

| Theorem | Statement |
| --- | --- |
| `BooksAreKept` | `Spec => []Kept(chain)`, the inductive invariant |
| `LedgersKeepTheirTypes` | `Spec => []TypeOK` |
| `CoinsHaveOwners` | `Spec => []CustodyMatchesLedgers` |
| `TotalsFollowTheKeys` | `Spec => []TotalsMatchKeys` |
| `NoQuoteIsLost` | `Spec => []QuoteConserved` |
| `MarginGoesWithTheDebt` | `Spec => []MarginDebtOnlyWithBorrow` |
| `DebtsAreBacked` | the keys' principal within the vault's, and that within the vault's debt |
| `FinalWindowHasNoBorrow` | `Spec => NoBorrowInFinalWindow` |
| `IndebtedKeysKeepTheirQuote` | `Spec => CollateralStaysWithDebt` |
| `FreeQuoteIsTheTraders` | `Spec => KeepersNeverSpendTradingQuote` |

It assumes what the modules state of their constants. Two assumptions came out of the proof.
`MarginAssumption` says that the smallest margin borrows something at the smallest leverage above 1x.
`protocol_constants.move` has it by its numbers (`MIN_MARGIN_QUOTE` is ten times `BPS`); with a
margin of a few coins a mint at 1.01x would borrow nothing, keep its margin as a debt of the key, and
`MarginDebtOnlyWithBorrow` would be false. `OrderAssumption` says that an order is not the mark of
an empty slot.

The argument. `Kept` joins what is separately not inductive: the types; coins, reserves and debt totals
as sums over the keys of each proxy (`Custodied`, `OrdersReserved`, `Totalled`); the vault's side
(`Covered`, `Backed`, without which a write-off could abort half way or the payment of a surplus
underflow); all the quote there is; and `MarginBacked`. An action is a chain of up to a dozen operators,
so the proof speaks of operators: `Step(t, u, k, d)` says that a call on key `k` leads from `t` to a `u`
that, unless it aborted, balances its books, holds `d` more quote and touched no other key. On top of it
`Tame` (the key's debt does not grow, margin stays with a debt, quote stays with a debt), `KeepsFree`
(what the proxies have free and reserved does not fall), their conjunction `Calm`, and `Pays` (a payment
into the debt). Each is transitive, each operator has its lemma, and the flows are their composition:
`RepayFromPayout` with its two flags, the write-off waterfall, the remint, the keeper's block of a
liquidation. A mint is the one step that is not calm: it is what `NoBorrowInFinalWindow` and
`CollateralStaysWithDebt` allow, and its lemmas say under which guards. Some operators pass through
contexts whose books do not balance (the order gone, its reserve not yet released); the lemmas treat
such a pair as one step. Of a context that aborted nothing is known but its fields.

`ProtocolMathProofs` has the arithmetic, nonlinear and with two roundings: floor and ceiling
bounds, `FeeSplitExact`, a debt that is at least its principal and at most the vault's, and
`VaultPrincipalIn <= LedgerPrincipalIn`. It also derives what is needed of sums over the keys
from the definition of the community modules' fold by taking a smallest counterexample, as
induction over an operator is out of the prover's reach.

`KeeperCycleProofs` proves `RunsAlwaysExcludeEachOther`, `Spec => []RunsExcludeEachOther`, for any
set of keys, cron kinds and requests and any number of failures, from `BoundsAssumption`. The
property is not inductive alone: the inductive invariant `LockInv` adds that the jobs that wait,
and the run of the worker that a restart puts back among them, are kinds the scheduler registers
(so the run that starts from one has a kind the locks know), and that a busy slot has a kind at
all. Every step of the keeper is one of three changes, each with a lemma: a slot starts a run
whose kind is not locked (`StartKeepsLocks`), a run ends and takes its lock with it
(`EndKeepsLocks`), or it goes on and keeps its kind (`StepKeepsLocks`).

Its second theorem is `KeeperKeepsItsBounds`, `Spec => []TypeOK`. `ShapeInv` adds three things that
`TypeOK` needs and does not say. A job is added only where none of its kind waits, so the jobs in the
queue are at most the kinds in it and the failures so far: a restart is what puts a second job of a kind
there (`QueueShape`). A run that is about to submit is still below its limit and has a candidate, and one
that has not fetched yet has no list (`RunShape`): without the former a success could pass the limit,
without the latter a failure before the listing would drop a candidate of nothing. And a cancelled, filled
or expired order leaves the others as they were: `KeptMembers` shows that a filtered sequence has what
it keeps at places of their own, from `EveryRankIsTaken` (the least position with `n` kept ones up to it
is itself kept), which a least number proves without induction over the sequence. `Keys` is finite by
`BoundsAssumption`, as a listing of an infinite set is no sequence.

`KeeperApiProofs` proves, for any requests, intents, users, clocks and numbers of retries and faults,
from the assumptions of the four modules, `ApiTypes`, `RefusalsAreHonest` (`AnswersAreTrue`),
`EveryoneIsToldTheSame` (`AnswersAgree`), `SecondManagersAreFaults` (`OneManagerPerAddress`) and
`ReplaysAreTurnedAway` (`ReplaysAreRefused`, an action property). The inductive invariant `ApiInv`
(`ApiIsSound`) has a part per concern. A relay that is not yet submitting has executed nothing; the
last try ends a submission, so an answer is only refused before the first. The store holds what was
accepted, unless its time is over. For a user the keeper onboards, a call that creates holds the
user's lock, and while it is between lock and record the database is empty: this is why what is
answered, linked and indexed is always what is stored. Managers are counted against faults: one is
stored or in a creator's hands, each further one took a fault. The lemmas treat one step of one
call: `CallKeepsUser` says that it keeps the facts about any user, `CallKeepsCount` the count.

`JarvisAgentProofs` proves, for any limits, positions, actions and faults, from `AgentAssumption`,
`AgentTypes`, `AnswersStand` (`AcknowledgedSettingsHold`), `EnabledAgentsAreScheduled`
(`EnabledMeansScheduled`) and `SettingsBindTheRun` (`NoTradeAgainstSettings`). The danger is that a run
saves the row it read. `AgentInv` (`AgentIsSound`) says what makes it harmless: while a run holds an
old row (`OldRowIsKnown`), no answer that is sure exists or is on its way, because the save that made
the row old saw the run coming. The other half, `JobFollowsRow`, follows the job along the request:
after `enable` has registered, the answer may promise a job; after `disable` began to remove it, none
is promised until an answer has read the row again.

`IndexProjectionProofs` proves about the indexer, from `IndexAssumption`,

| Theorem | Statement | For |
| --- | --- | --- |
| `IndexInvariant` | `Spec => []IndexInv`, the inductive invariant | any constants |
| `IndexKeepsItsTypes` | `Spec => []TypeOK` | any constants |
| `OpenOrdersRest` | `Spec => []OrdersShownOpenRest` | any constants |
| `ReplayIsIdempotent` | `Spec => ReplayChangesNothing` | any constants |
| `RowsMirrorKeys` | `Spec => []Mirrored`: a key the index still follows has its quantity in its row | any constants |
| `RowsShowTheLedger` | `Spec => ShowsTheLedger`, the refinement | any constants |

The argument. A commit is five loops over a sequence of events. `Loops` shows that a loop is a recursion
that exists and is unique (by a least counterexample again), `LoopStays` that what every turn keeps the loop
keeps, `LoopParts` that a loop over two parts is one loop after the other. `IndexInv` knows the chain as its
log: every transaction is one of a single key whose events carry that key and its number, and
`OrderFollows` says that an order that is gone left an event that ends it, or was swept by a liquidation.
From this an order shown open rests: the row was open before, or placed by a transaction of this batch that
is new (`Recorded`: what was read has its row, so nothing is placed twice), and nothing in the rest of
the batch ended it, or the row would not be open. It is the direction that must not fail: a fill that
is read again may end the row of a newer order with the same expiry, and the invariant does not say otherwise.

For the positions, `Mirrors(row, at)` relates a row to what its key holds: the same quantity, open exactly
while there is something to close. `Passes` is one loop on the events of one transaction, from the key as one
intermediate state to the next, `Carries` the five of them in the order of `commit()`. Each operation of the
chain has a lemma (`CloseRuns`, `LiquidateRuns`, `ForceDeleverageRuns`, ...) that its events carry the row
where the operation took the key, although the code applies them by kind: a redeem and its close take the
quantity twice and the floor at zero absorbs it (unless the close is partial), a remint follows the
close, a write-off marks what is flat already.

A commit of several transactions is then taken apart one transaction at a time. `AppliedInTurn` is the step:
for the row of one key, five loops over the events of `first \o second` are the five loops over `first`
followed by the five over `second`, provided that no kind of `second` that feeds the row comes before
a kind of `first` that does (`Apart`). That is what `Inverts` denies and `inverted` records, so for a key
outside `Unsure` the row follows its key through the first m transactions of a commit for every m
(`FollowsFor`, `FollowsOneMore`; a least m at which it did not would be a contradiction). Transactions of
other keys and those on record already leave the row alone (`QuietBatch`). `LedgerReplica` is implemented
step by step: a transaction extends the history, a commit of a new transaction advances and may lose the keys
it inverts or finds partly closed, a commit of an old one, a restart and a settlement stutter.

The theorems say nothing of a key in `Unsure`. After a partial close its row is wrong (`index_partial`). After an
inversion it may be: of a mint and a later redeem in one commit the redeem is applied first and
the row keeps the contracts. `NoLostCustody` is model-checked only: it relates one manager to the
sums of all rows of an account over the whole history.

`StreamFeedProofs` proves, for any tabs, hooks, channels, sockets and rows, from `StreamAssumption`,
`StreamKeepsItsBounds` (`TypeOK`) and `NobodyIsAskedFor` (`NothingAskedForNobody`). `StreamInv`
(`StreamInvariant`) is that property with the types. A tab's count changes by the difference of two
sets of channels while the property counts hooks: `Recount` says that both change alike, hook by hook, and
so a count never underflows. That a polled channel has a reader hangs on the moment between the answer to
a subscribe and the poller's being told: what is told then (`tracking`) stays within `subscribed`, because a
connection handles no other message, and does not close, before it has told.

Only model-checked: the liveness properties, and `NoLostCustody`.
Out of the prover's reach and left to TLC: liveness and `ENABLED`, recursion over data in general.

## 5. Disagreements

Each is a run of kind *violation*; the trace TLC prints is the example.

- **Settlement aborts** (`trade_settlement`): after a 1x mint on an indebted key the posted margin is
  gone, and a settlement whose payout is below the debt aborts while recomputing leverage.
- **A partial redeem counts twice** (`index_partial`): a redeem of a part emits `PositionRedeemed` and
  `LeveragedPositionClosed`, and the projection takes the quantity off the row for each of them. The
  whole-position redeems of `index` hide it behind the floor at zero.
- **A pause that is undone** (`jarvis_paused`): the owner is told that the agent stops until it is
  turned on again; a run that read the settings before the pause saves them after it, and the agent
  is on.

Met while modelling and described here without a run of their own:

- 10 000 bps is said to mean no vault borrow; a 1x mint on an indebted key says 10 000 and owes.
- Maintenance is said to be exempt from a pause; the remint inside a force-deleverage is a mint, is
  not exempt, and aborts all of it.
- README.md:69 says the keeper fills an order when it is marketable. The indexer lists open orders newest
  first (`routes.rs:221`) and a run looks at the first `3 * limitFills` (`limit-order.service.ts:56`):
  a marketable order behind that many newer ones that are not is not looked at before they are gone, which may
  be after its own expiry. `MarketableOrdersAreFilled` excepts exactly that order: without the exception
  `keeper_orders` would be violated, with it the run shows that nothing else keeps an order from its fill.
- A debt repaid by hand reaches open rows only (`handlers.rs:905`): a row an external redeem closed
  goes on showing its debt.
- The active channels of the stream are shared and not counted (`stream.rs:146`): the first connection that
  leaves a channel ends its polling for the others, until somebody subscribes again.
- After a reconnection a tab subscribes what is pending, not what it had (`indexer-ws.ts:105`), while its
  open status turns polling off: it shows what it showed before until a hook remounts.

- The broadcast buffer of a connection is shared by all channels and a receiver that lagged skips what it lost
  (`ws.rs:79`), and the poller's cursor is a timestamp that is past a row before it is dispatched
  (`stream.rs:333`): a snapshot displaced by another channel, the second of two rows of one checkpoint
  behind the end of a page, and the rest of a timestamp after a failed query are never pushed. Nor is a
  row the poller reads between the answer to a subscribe and `track_channels` (`ws.rs:117`): the snapshot is
  from before it, and the active set of its page does not have the channel yet.
- A commit of several checkpoints is applied by kind (`handlers.rs:367`): a mint and a later close, redeem or
  liquidation of one key in it, or a liquidation or write-off and a later mint, leave a row that no
  history would have left. Of a close and a later mint the quantity is right, but the patch of the debt that
  belongs to the close is applied after the mint.
- A sweep of a key's own quote is added to what was recovered of external redeems (`projections.rs:437`,
  `position_hints.rs:28`) and marks its custody complete: after it, as much of the quote in the
  manager may no longer be offered. `executeRecoverStrandedCustody` of the web app (`transactions.ts:529`)
  submits the sweep first, and if the user or the keeper stops there the rest may be out of sight.
  `NoLostCustody` bounds what is hidden by what was swept.
- The limit on positions is compared with a count from the indexer, which may be stale, and a failed count
  limits nothing (`jarvis.service.ts:543`): a run with several actions may open more than the limit.

Those of the stream are behaviours of `StreamFeed`; `UpdatesReachTabs` speaks of channels that are on record
and polled, names each loss as an exception, and says what such a channel owes otherwise.

## 6. What is not modelled and why

- Premium and slippage arithmetic: a transaction accepts some ask or bid; the arithmetic only
  narrows it. Overflow of `u64`: products are taken in `u128` by the code, amounts are far below.
- Who may call: executors act for their owner; the trader's actions are what either may do.
- `total_collected`, events, abort codes, deployment, the LP coin's metadata.
- LP withdrawals and fee withdrawals in `Trade` (they are in `CreditPool`, where they interleave
  with every kind of debt).
- In `KeeperCycle`: amounts; how a key's readiness depends on prices (the market is any of the given
  states); the order in which positions are listed (any order; orders are listed newest first); more than
  one HTTP request at a time; hung calls; two keeper processes at once.
- In `KeeperApi`: rate limits per client, the throttle between calls, backoff lengths; the contents of
  a trade (the four endpoints differ in the checks that may refuse). A check is a free choice. The run has one
  call of the linked user, so that two such calls agree is shown by `EveryoneIsToldTheSame`, for any calls.
- In `IndexProjection`: tables that are inserts by key (markets, trades, accounts, snapshots, settings,
  triggers, executors, points) and the columns that only report profit. A contract pays 0 or 1
  and a repayment by hand is of 1. `ShowsTheLedger` and `NoLostCustody` say nothing of a key after a commit
  inverted two of its transactions or LeverX closed it in part; the debt a row shows is not compared with
  the chain (a patch reaches open rows only, see section 5).
- In `StreamFeed`: the agent's own stream, invalidation of derived queries; the listings behind a snapshot
  (a snapshot has all rows of its channel). The run has one tab.
- In `JarvisAgent`: one account and one request at a time; what the language model is told and why it
  decides; leverage, size and slippage; the event feed and its unread count; retries of a job. The limit on
  positions is in the model, and passed there as in the code; no property is about it.
- Left out for now: notifications (`telegram/`: three attempts of a job that sends several messages, link
  tokens, cooldowns). They read protocol state and change none.
- Left out for good: rate-limit counters and token verification (a choice of the relay), the gas
  endpoints (two pass-through calls), configuration and health, schema and migrations, rendering and
  wallet integration of the web app, containers and scripts: they keep no state that a property here could
  speak of. By lines the web app's components are most of the repository.

## 7. Plan

In order of importance:

1. `NoLostCustody` for any keys: the manager of an account against the sums of what its rows were paid
   and recovered, as an invariant over the log.
2. The debt a row shows, against the ledger, for keys whose rows stay open.
3. `Notifications`, with the attempts of a job and the consumption of a link token.
