--------------------------- MODULE IndexProjection ---------------------------
(***************************************************************************)
(* The indexer (crates/leverx-indexer) reads the events of LeverX and of   *)
(* DeepBook Predict checkpoint by checkpoint, sorts those of a batch by    *)
(* kind and applies the kinds in a fixed order in one database             *)
(* transaction.  This module runs the chain side (what each operation on a *)
(* market key changes and which events it emits, in which order) against   *)
(* the projection into leveraged_positions and limit_mint_orders, with     *)
(* batches of several transactions and with an indexer that is restarted   *)
(* at an earlier checkpoint.  One account; amounts are whole contracts,    *)
(* each paying 0 or 1 quote when redeemed.                                 *)
(***************************************************************************)
EXTENDS Integers, Sequences, FiniteSets, SequencesExt

CONSTANTS
  Keys,           \* market keys of the account
  OrderExpiries,  \* order_expires_ms values a limit order may carry, without 0
  MaxQty,         \* contracts a key may hold
  MaxTxs,         \* bound: transactions the chain runs
  MaxBatch,       \* transactions one commit may take in
  MaxReplays      \* bound: restarts at an earlier checkpoint

ASSUME IndexAssumption ==
  /\ MaxQty \in Nat \ {0} /\ MaxTxs \in Nat /\ MaxBatch \in Nat \ {0} /\ MaxReplays \in Nat
  /\ 0 \notin OrderExpiries

VARIABLES
  log,        \* transactions run: their events, the ledger and the quote they left
              \* in the account's PredictManager
  settlement, \* what a contract of the key pays out: Live until its oracle settles
  cursor,     \* transactions the running indexer has committed
  seen,       \* transactions whose event digests are in leverx_events
  positions,  \* leveraged_positions, one row per key
  orders,     \* limit_mint_orders, a set of rows per key
  replays,    \* restarts so far
  inverted    \* history: keys of which a commit applied two transactions the
              \* wrong way round, because it applies kind by kind

chainVars == <<log, settlement>>
indexVars == <<cursor, seen, positions, orders, replays, inverted>>
vars == <<chainVars, indexVars>>

Larger(a, b) == IF a > b THEN a ELSE b
Smaller(a, b) == IF a < b THEN a ELSE b

Live == 2
Settled(k) == settlement[k] # Live

-----------------------------------------------------------------------------
(* The chain: what a key holds (contracts, debt, the quote its mints did not
   cost, a resting order), what external redeems left in the manager, and the
   events of each operation. *)

EmptyKey == [qty |-> 0, debt |-> 0, held |-> 0, order |-> 0]
GenesisLedger == [k \in Keys |-> EmptyKey]
LedgerAt(n) == IF n = 0 THEN GenesisLedger ELSE log[n].ledger
ManagerAt(n) == IF n = 0 THEN 0 ELSE log[n].manager
Ledger == LedgerAt(Len(log))
Manager == ManagerAt(Len(log))

Event(type, k) ==
  [type |-> type, key |-> k, tx |-> Len(log) + 1, qty |-> 0, payout |-> 0, borrow |-> 0,
   settled |-> FALSE, had |-> FALSE, sweep |-> FALSE, expires |-> 0]

BadDebtWrittenOff(k) == [Event("BadDebtWrittenOff", k) EXCEPT !.settled = TRUE, !.had = TRUE]

(* Run a transaction that leaves key k as `after` and the manager with
   `manager`, and emits `events`. *)
EmitMoving(k, after, manager, events) ==
  /\ Len(log) < MaxTxs
  /\ log' = Append(log, [ledger |-> [Ledger EXCEPT ![k] = after], manager |-> manager,
                         events |-> events])
  /\ UNCHANGED <<settlement, indexVars>>
Emit(k, after, events) == EmitMoving(k, after, Manager, events)

Opened(k, q, b) == [Event("LeveragedPositionOpened", k) EXCEPT !.qty = q, !.borrow = b]
Redeemed(k, q, paid) ==
  [Event("PositionRedeemed", k) EXCEPT !.qty = q, !.payout = paid, !.settled = Settled(k)]
KeyBorrow(k, b) == [Event("KeyBorrowUpdated", k) EXCEPT !.borrow = b]

(* mint with leverage: q contracts, b of them on borrowed quote; the margin and
   the borrow may exceed the cost by `surplus`, which stays on the key *)
Mint(k, q, b, surplus) ==
  LET at == Ledger[k] IN
  /\ ~Settled(k)
  /\ at.qty + q <= MaxQty
  /\ Emit(k, [at EXCEPT !.qty = @ + q, !.debt = @ + b, !.held = @ + surplus], <<Opened(k, q, b)>>)

(* repay_from_payout: the payout clears debt first; a settled key then has
   its residual debt covered or written off, and only a write-off that reached
   the pool leaves an event. *)
CloseEvents(k, q, paid, residual, writtenOff) ==
  <<Redeemed(k, q, paid),
    [Event("LeveragedPositionClosed", k) EXCEPT
       !.qty = q, !.payout = paid, !.borrow = residual,
       !.settled = Settled(k)]>>
  \o (IF writtenOff THEN <<BadDebtWrittenOff(k)>> ELSE << >>)
  \o (IF paid > 0 THEN <<KeyBorrow(k, IF Settled(k) THEN 0 ELSE residual)>> ELSE << >>)

(* A redeem before the oracle settled (also the keeper's repayment after the
   expiry) or a settlement after it, of q contracts.  A residual debt is paid
   by the key's own quote first; a key without debt keeps no quote. *)
Close(k, q, price, writtenOff) ==
  LET at == Ledger[k]
      paid == q * price
      residual == Larger(at.debt - paid, 0)
      owed == IF Settled(k) THEN 0 ELSE residual
  IN /\ q <= at.qty
     /\ Settled(k) => price = settlement[k]
     /\ writtenOff => (Settled(k) /\ residual > at.held)
     /\ Emit(k, [at EXCEPT !.qty = @ - q, !.debt = owed, !.held = IF owed = 0 THEN 0 ELSE @],
             CloseEvents(k, q, paid, residual, writtenOff))

(* force_deleverage_*_at_expiry: a healthy key is redeemed and its debt repaid;
   what is left may buy `again` contracts without leverage, the rest is swept. *)
ForceDeleverage(k, price, again) ==
  LET at == Ledger[k]
      paid == at.qty * price
  IN /\ ~Settled(k)
     /\ at.qty > 0 /\ at.debt > 0
     /\ paid >= at.debt
     /\ again <= at.held + paid - at.debt
     /\ Emit(k, [at EXCEPT !.qty = again, !.debt = 0, !.held = 0],
             CloseEvents(k, at.qty, paid, 0, FALSE)
             \o (IF again > 0 THEN <<Opened(k, again, 0)>> ELSE << >>))

(* flash_liquidate_*_with_redeem_permissionless: redeem what is left, clear the
   debt, cancel the resting order (no event of its own) *)
Liquidate(k, price) ==
  LET at == Ledger[k] IN
  /\ at.debt > 0
  /\ Settled(k) => price = settlement[k]
  /\ Emit(k, [at EXCEPT !.qty = 0, !.debt = 0, !.held = 0, !.order = 0],
          (IF at.qty > 0 THEN <<Redeemed(k, at.qty, at.qty * price)>> ELSE << >>)
          \o <<[Event("PositionLiquidated", k) EXCEPT !.had = at.qty > 0]>>)

(* predict::redeem_permissionless by a bot: the proceeds stay in the manager *)
ExternalRedeem(k, q) ==
  LET at == Ledger[k]
      paid == q * settlement[k]
  IN /\ Settled(k)
     /\ q <= at.qty
     /\ EmitMoving(k, [at EXCEPT !.qty = @ - q], Manager + paid, <<Redeemed(k, q, paid)>>)

(* recover_manager_surplus_to_trading_*: any part of what the account's manager
   holds, credited to whichever flat key the caller names *)
RecoverSurplus(k, amount) ==
  /\ Ledger[k].qty = 0
  /\ 0 < amount /\ amount <= Manager
  /\ EmitMoving(k, Ledger[k], Manager - amount,
                <<[Event("StrandedCustodyRecovered", k) EXCEPT !.payout = amount]>>)

(* recover_flat_*_key_quote: the quote a flat key without debt still holds *)
RecoverKeyQuote(k) ==
  LET at == Ledger[k] IN
  /\ at.qty = 0 /\ at.debt = 0 /\ at.held > 0
  /\ Emit(k, [at EXCEPT !.held = 0],
          <<[Event("StrandedCustodyRecovered", k) EXCEPT !.payout = at.held, !.sweep = TRUE]>>)

(* repay_debt_for_* and deleverage_*_account_balance *)
Repay(k) ==
  LET at == Ledger[k] IN
  /\ at.debt > 0
  /\ Emit(k, [at EXCEPT !.debt = @ - 1], <<KeyBorrow(k, at.debt - 1)>>)

(* write_off_flat_*_borrow_permissionless: nothing is emitted when custody and
   insurance cover the debt *)
WriteOffFlat(k, writtenOff) ==
  LET at == Ledger[k] IN
  /\ at.debt > 0 /\ at.qty = 0
  /\ writtenOff => at.debt > at.held
  /\ Emit(k, [at EXCEPT !.debt = 0, !.held = Larger(@ - at.debt, 0)],
          IF writtenOff THEN <<BadDebtWrittenOff(k)>> ELSE << >>)

PlaceOrder(k, x) ==
  /\ Ledger[k].order = 0 /\ ~Settled(k)
  /\ Emit(k, [Ledger[k] EXCEPT !.order = x], <<[Event("LimitMintOrderPlaced", k) EXCEPT !.expires = x]>>)

CancelOrder(k) ==
  /\ Ledger[k].order # 0
  /\ Emit(k, [Ledger[k] EXCEPT !.order = 0],
          <<[Event("LimitMintOrderCancelled", k) EXCEPT !.expires = Ledger[k].order]>>)

ExecuteOrder(k) ==
  LET at == Ledger[k] IN
  /\ at.order # 0 /\ ~Settled(k)
  /\ at.qty < MaxQty
  /\ Emit(k, [at EXCEPT !.order = 0, !.qty = @ + 1, !.debt = @ + 1],
          <<Opened(k, 1, 1), [Event("LimitMintOrderExecuted", k) EXCEPT !.expires = at.order]>>)

(* The oracle of the key's market settles at `price` per contract. *)
MarketSettles(k, price) ==
  /\ ~Settled(k)
  /\ settlement' = [settlement EXCEPT ![k] = price]
  /\ UNCHANGED <<log, indexVars>>

-----------------------------------------------------------------------------
(* The projection: one operator per event kind, row in, row out. *)

NoRow ==
  [status |-> "none", qty |-> 0, borrow |-> 0, source |-> "none", custody |-> FALSE,
   ext |-> 0, recovered |-> 0]

(* predict_redeem_closes: the external redeem found in DeepBook Predict *)
AfterRedeemForgetsPayout(row, e) ==
  LET left == Larger(row.qty - e.qty, 0) IN
  IF row.status # "open" THEN row
  ELSE [row EXCEPT !.qty = left, !.status = IF left = 0 THEN "closed" ELSE "open",
                   !.source = IF left = 0 THEN "predict_external" ELSE @,
                   !.custody = @ /\ left > 0]
AfterRedeem(row, e) ==
  LET left == Larger(row.qty - e.qty, 0)
      gone == left = 0
  IN IF row.status = "open" \/ (row.status \in {"closed", "settled"} /\ ~row.custody)
     THEN [row EXCEPT
             !.qty = left,
             !.status = IF gone THEN (IF e.settled THEN "settled" ELSE "closed") ELSE "open",
             !.source = IF gone THEN "predict_external" ELSE @,
             !.custody = @ /\ ~gone,
             !.ext = @ + e.payout]
     ELSE row

(* position_closes: what LeverX itself closed, recovered or wrote off.  A
   recovery is of the key's own quote (sweep) or of the manager's. *)
CloseSource(e) ==
  CASE e.type = "StrandedCustodyRecovered" ->
         IF e.sweep THEN "stranded_recovery" ELSE "manager_surplus_recovery"
    [] e.type = "BadDebtWrittenOff" -> "bad_debt_writeoff"
    [] OTHER -> IF e.settled THEN "leverx_settle" ELSE "leverx_redeem"

AfterCloseUnclamped(row, e) ==
  [row EXCEPT !.qty = @ - e.qty, !.source = CloseSource(e),
              !.status = IF @ = "none" THEN @ ELSE "closed"]
AfterClose(row, e) ==
  LET left == Larger(row.qty - e.qty, 0)
      recovery == e.type = "StrandedCustodyRecovered"
      fromManager == recovery /\ ~e.sweep
      after == IF left = 0 THEN (IF e.settled THEN "settled" ELSE "closed") ELSE "open"
  IN IF row.status = "none" THEN row
     ELSE [row EXCEPT
             !.qty = left,
             !.borrow = IF fromManager THEN @ ELSE e.borrow,
             !.status = IF e.qty > 0 THEN after ELSE @,
             !.source = CloseSource(e),
             !.custody = ~fromManager,
             !.recovered = IF recovery THEN @ + e.payout ELSE @]

(* positions_open: a mint adds to an open row and replaces a closed one *)
AfterOpen(row, e) ==
  LET carried == IF row.status = "open" THEN row ELSE [row EXCEPT !.qty = 0, !.borrow = 0]
  IN IF e.qty = 0 THEN row
     ELSE [carried EXCEPT !.qty = @ + e.qty, !.borrow = @ + e.borrow, !.status = "open"]

(* key_borrow_patches: only rows that are still open take the new debt *)
AfterKeyBorrow(row, e) == IF row.status = "open" THEN [row EXCEPT !.borrow = e.borrow] ELSE row

(* liquidation_positions *)
AfterLiquidation(row, e) ==
  IF row.status = "none" THEN row
  ELSE [row EXCEPT
          !.status = "liquidated", !.qty = 0, !.borrow = 0, !.source = "liquidation",
          !.custody = ~(row.source = "predict_external" \/ (row.ext > 0 /\ ~e.had))]

(* apply_event and apply_predict_event: which kinds of rows an event feeds *)
KindsOf(e) ==
  CASE e.type = "LimitMintOrderPlaced" -> {"limit_placed"}
    [] e.type = "LimitMintOrderExecuted" -> {"limit_executed"}
    [] e.type = "LimitMintOrderCancelled" -> {"limit_cancelled"}
    [] e.type = "PositionRedeemed" -> {"predict_redeem_closes"}
    [] e.type \in {"LeveragedPositionClosed", "StrandedCustodyRecovered"} -> {"position_closes"}
    [] e.type = "LeveragedPositionOpened" -> {"positions_open"}
    [] e.type = "KeyBorrowUpdated" -> {"key_borrow_patches"}
    [] e.type = "BadDebtWrittenOff" -> {"position_closes", "key_borrow_patches", "liquidation_positions"}
    [] e.type = "PositionLiquidated" -> {"liquidation_positions"}

Apply(kind, row, e) ==
  CASE kind = "predict_redeem_closes" -> AfterRedeem(row, e)
    [] kind = "position_closes" -> AfterClose(row, e)
    [] kind = "positions_open" -> AfterOpen(row, e)
    [] kind = "key_borrow_patches" -> AfterKeyBorrow(row, e)
    [] kind = "liquidation_positions" -> AfterLiquidation(row, e)

(* fresh_event_digests: the digest of e was not in leverx_events, which had
   those of the first `stored` transactions *)
Fresh(e, stored) == e.tx > stored

(* One turn of the loop over the rows of a kind *)
BorrowPatchUnchecked(table, kind, e, stored) ==
  IF kind \in KindsOf(e) /\ (Fresh(e, stored) \/ kind = "key_borrow_patches")
  THEN [table EXCEPT ![e.key] = Apply(kind, @, e)] ELSE table
Turn(table, kind, e, stored) ==
  IF kind \in KindsOf(e) /\ Fresh(e, stored)
  THEN [table EXCEPT ![e.key] = Apply(kind, @, e)] ELSE table

(* The rows of one kind, in the order of their events *)
ApplyKind(table, kind, events, stored) ==
  LET after[n \in 0..Len(events)] ==
        IF n = 0 THEN table ELSE Turn(after[n - 1], kind, events[n], stored)
  IN after[Len(events)]

(* commit() applies the kinds in this order. *)
OpensFirst(table, events, stored) ==
  LET opened == ApplyKind(table, "positions_open", events, stored)
      redeemed == ApplyKind(opened, "predict_redeem_closes", events, stored)
      closed == ApplyKind(redeemed, "position_closes", events, stored)
      patched == ApplyKind(closed, "key_borrow_patches", events, stored)
  IN ApplyKind(patched, "liquidation_positions", events, stored)
ApplyPositions(table, events, stored) ==
  LET redeemed == ApplyKind(table, "predict_redeem_closes", events, stored)
      closed == ApplyKind(redeemed, "position_closes", events, stored)
      opened == ApplyKind(closed, "positions_open", events, stored)
      patched == ApplyKind(opened, "key_borrow_patches", events, stored)
  IN ApplyKind(patched, "liquidation_positions", events, stored)

(* Limit orders: the digest of the placement is the primary key; fills and
   cancellations find the open row by account, key and expiry, and are not
   checked against fresh_event_digests.  A liquidation, which is, cancels what is
   open. *)
OfKind(kind, k, events) == {e \in ToSet(events) : e.key = k /\ kind \in KindsOf(e)}

Placed(k, rows, events) ==
  {[tx |-> e.tx, expires |-> e.expires, status |-> "open"] :
     e \in {f \in OfKind("limit_placed", k, events) : \A o \in rows : o.tx # f.tx}}

Ended(kind, k, o, events) == \E e \in OfKind(kind, k, events) : e.expires = o.expires

LiquidationKeepsOrders(k, events, stored) == FALSE
CancelOnLiquidation(k, events, stored) ==
  \E e \in OfKind("liquidation_positions", k, events) : Fresh(e, stored)

AfterOrders(k, o, events, stored) ==
  IF o.status # "open" THEN o
  ELSE IF Ended("limit_executed", k, o, events) THEN [o EXCEPT !.status = "executed"]
  ELSE IF Ended("limit_cancelled", k, o, events) \/ CancelOnLiquidation(k, events, stored)
       THEN [o EXCEPT !.status = "cancelled"]
  ELSE o

ApplyOrders(table, events, stored) ==
  [k \in Keys |-> {AfterOrders(k, o, events, stored) :
                     o \in table[k] \cup Placed(k, table[k], events)}]

-----------------------------------------------------------------------------
(* commit() of the next n transactions, in one database transaction *)
BatchOf(n) == FlattenSeq([i \in 1..n |-> log[cursor + i].events])

(* Of transactions i < j in one commit, something of j is applied to the row of
   key k before something of i. *)
CommitOrder == <<"predict_redeem_closes", "position_closes", "positions_open",
                 "key_borrow_patches", "liquidation_positions">>
Feeds(k, i, kind) == \E e \in ToSet(log[i].events) : e.key = k /\ kind \in KindsOf(e)
Inverts(k, i, j) ==
  \E late, early \in 1..Len(CommitOrder) :
    /\ early < late
    /\ Feeds(k, i, CommitOrder[late]) /\ Feeds(k, j, CommitOrder[early])

Commit(n) ==
  /\ cursor + n <= Len(log)
  /\ LET batch == BatchOf(n)
     IN /\ positions' = ApplyPositions(positions, batch, seen)
        /\ orders' = ApplyOrders(orders, batch, seen)
  /\ cursor' = cursor + n
  /\ seen' = Larger(seen, cursor + n)
  /\ inverted' = inverted \cup {k \in Keys : \E i, j \in seen + 1 .. cursor + n :
                                             i < j /\ Inverts(k, i, j)}
  /\ UNCHANGED <<chainVars, replays>>

(* The indexer is restarted at checkpoint c and reads it again. *)
Rewind(c) ==
  /\ replays < MaxReplays
  /\ c < cursor
  /\ cursor' = c
  /\ replays' = replays + 1
  /\ UNCHANGED <<chainVars, seen, positions, orders, inverted>>

-----------------------------------------------------------------------------
Quantities == 1..MaxQty
Prices == {0, 1}

Init ==
  /\ log = << >>
  /\ settlement = [k \in Keys |-> Live]
  /\ cursor = 0
  /\ seen = 0
  /\ positions = [k \in Keys |-> NoRow]
  /\ orders = [k \in Keys |-> {}]
  /\ replays = 0
  /\ inverted = {}

Chain(k) ==
  \/ \E q \in Quantities, b, surplus \in {0, 1} : Mint(k, q, b, surplus)
  \/ \E q \in Quantities, price \in Prices, writtenOff \in BOOLEAN : Close(k, q, price, writtenOff)
  \/ \E price \in Prices, again \in 0..MaxQty : ForceDeleverage(k, price, again)
  \/ \E price \in Prices : Liquidate(k, price)
  \/ \E q \in Quantities : ExternalRedeem(k, q)
  \/ \E amount \in 1..Manager : RecoverSurplus(k, amount)
  \/ RecoverKeyQuote(k)
  \/ Repay(k)
  \/ \E writtenOff \in BOOLEAN : WriteOffFlat(k, writtenOff)
  \/ \E x \in OrderExpiries : PlaceOrder(k, x)
  \/ CancelOrder(k)
  \/ ExecuteOrder(k)
  \/ \E price \in Prices : MarketSettles(k, price)

Next ==
  \/ \E k \in Keys : Chain(k)
  \/ \E n \in 1..MaxBatch : Commit(n)
  \/ \E c \in 0..MaxTxs : Rewind(c)

Spec == Init /\ [][Next]_vars

-----------------------------------------------------------------------------
(* compute_position_action_hints: what the portfolio offers for a row *)
NeedsCustodyRecovery(row) ==
  ~row.custody /\ row.source \in {"predict_external", "manager_surplus_recovery"}
ExternalPayoutUnrecovered(row) == row.ext > 0 /\ row.recovered < row.ext

RecommendedActions(row) ==
  {a \in {"close", "repay_debt", "recover_custody"} :
     \/ a = "close" /\ row.status = "open" /\ row.qty > 0
     \/ a = "repay_debt" /\ row.borrow > 0
     \/ a = "recover_custody" /\ (NeedsCustodyRecovery(row) \/ ExternalPayoutUnrecovered(row))}

-----------------------------------------------------------------------------
RowType ==
  [status : {"none", "open", "closed", "settled", "liquidated"}, qty : Nat, borrow : Nat,
   source : {"none", "predict_external", "leverx_settle", "leverx_redeem",
             "manager_surplus_recovery", "stranded_recovery", "bad_debt_writeoff", "liquidation"},
   custody : BOOLEAN, ext : Nat, recovered : Nat]

TypeOK ==
  /\ settlement \in [Keys -> Prices \cup {Live}]
  /\ cursor \in 0..Len(log) /\ seen \in cursor..Len(log)
  /\ positions \in [Keys -> RowType]
  /\ inverted \subseteq Keys
  /\ \A k \in Keys : Ledger[k].qty \in 0..MaxQty
  /\ \A k \in Keys : \A o \in orders[k] :
       /\ o.tx \in 1..seen /\ o.expires \in OrderExpiries
       /\ o.status \in {"open", "executed", "cancelled"}

(* The keys the index no longer follows: those a commit applied the wrong way
   round, and those LeverX closed in part, whose sale is taken off twice
   (RedeemsCountOnce). *)
PartlyClosed(n) ==
  {k \in Keys : \E i \in 1..n : \E e \in ToSet(log[i].events) :
     e.type = "LeveragedPositionClosed" /\ e.key = k /\ e.qty < LedgerAt(i - 1)[k].qty}
Unsure == inverted \cup PartlyClosed(seen)

(* For every key no commit has applied the wrong way round and LeverX has not
   closed in part, the index shows at every moment the contracts the chain held
   after the last transaction it has read: whatever other transactions of the
   key a commit takes in together, whatever it takes in of other keys, and
   however often a checkpoint is read. *)
Unknown == -1
Replica == INSTANCE LedgerReplica WITH
  history <- [i \in 1..Len(log) |-> [k \in Keys |-> log[i].ledger[k].qty]],
  position <- seen,
  lost <- Unsure,
  shown <- [k \in Keys |-> IF k \in Unsure THEN Unknown ELSE positions[k].qty],
  Genesis <- [k \in Keys |-> 0],
  Unknown <- Unknown
ShowsTheLedger == Replica!Spec

(* Quote that external redeems left in the account's manager is offered for
   recovery on some row, whatever closes, liquidations, write-offs, mints and
   partial recoveries followed, up to the total of the keys' own quote swept so
   far: the index counts a sweep as recovered manager quote and so hides that
   much of it, never more.  Accounts with a key the index no longer follows are
   left out. *)
KeyQuoteSwept(n) ==
  MapThenSumSet(LAMBDA e : e.payout,
                {e \in UNION {ToSet(log[i].events) : i \in 1..n} : e.sweep})
RecoveryOffered == \E k \in Keys : "recover_custody" \in RecommendedActions(positions[k])
NoLostCustody ==
  Unsure = {} /\ ~RecoveryOffered => ManagerAt(seen) <= KeyQuoteSwept(seen)

(* Reading a checkpoint again changes no position. *)
ReplayChangesNothing ==
  [][cursor' > cursor /\ cursor' <= seen => positions' = positions]_vars

(* An order the index shows as open rests on the chain: fills, cancellations
   and the silent cancellation by a liquidation all reach its row. *)
OrdersShownOpenRest ==
  \A k \in Keys : \A o \in orders[k] :
    o.status = "open" => LedgerAt(seen)[k].order = o.expires

(* Each redeem takes its contracts off the row once: the PositionRedeemed of a
   LeverX redeem and its LeveragedPositionClosed are one sale. *)
RedeemsCountOnce == \A k \in Keys : positions[k].qty = LedgerAt(seen)[k].qty
=============================================================================
