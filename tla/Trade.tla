-------------------------------- MODULE Trade ---------------------------------
(***************************************************************************)
(* trade.move, liquidation.move and triggers.move over the vault and the   *)
(* user proxies: mints, resting limit orders, redeems, settlement, the     *)
(* keeper's force-deleverage, post-expiry repayment, liquidation and       *)
(* write-off, interleaved with traders, LPs, the admin and the clock.      *)
(*                                                                         *)
(* Every action is one transaction on the shared objects (variable chain,  *)
(* a context as in LeverageVault and UserProxy).  A keeper's programmable  *)
(* transaction block is one transaction too.                               *)
(*                                                                         *)
(* DeepBook Predict is external: a key's contracts are counted, and each   *)
(* transaction sees some ask and some bid premium per contract.  Once the  *)
(* oracle settles a key, its contracts pay Unit or nothing.                *)
(***************************************************************************)
EXTENDS DebtLedger, Functions

CONSTANTS Expiry,          \* expiry of each key
          Unit,            \* what a won contract pays
          Asks, Bids,      \* premiums a live market may quote
          Rate,            \* the vault's borrow curve
          MinMargin, MaxMargin,   \* margin bounds of a mint
          FlashBufferBps,  \* what a liquidation borrows beyond the debt
          TotalQuote,      \* quote in circulation
          Deposits,        \* bound: amounts LPs and traders move
          Margins, Leverages, Quantities, OrderExpiries, Keeps,  \* bounds: what traders ask for
          Repayments,      \* bound: amounts repaid by hand
          TopUps,          \* own quote a keeper adds to a liquidation
          Recoveries,      \* bound: amounts a keeper recovers from a manager
          TriggerPremiums, \* take-profit and stop-loss premiums traders set
          LiquidationChoices, WindowChoices,  \* what the admin may configure
          Ticks, MaxTime, MaxShares, MaxCustody, MaxContracts  \* bounds

ASSUME TradeAssumption ==
    /\ Expiry \in [Keys -> Nat \ {0}]
    /\ Unit \in Nat /\ Asks \subseteq Nat /\ Bids \subseteq Nat
    /\ Rate \in RateType
    /\ MinMargin \in Nat \ {0} /\ MaxMargin \in Nat
    /\ FlashBufferBps \in Nat /\ TotalQuote \in Nat
    /\ LiquidationChoices \subseteq Nat
    /\ Ticks \subseteq Nat \ {0}
    /\ \A bound \in {Deposits, Margins, Leverages, Quantities, OrderExpiries, Repayments,
                     TopUps, Recoveries, TriggerPremiums} : bound \subseteq Nat
    /\ Keeps \subseteq BOOLEAN
    /\ IsFiniteSet(Proxies)

\* MIN_MARGIN_QUOTE (100,000) is ten times BPS: even the smallest margin
\* borrows something at the smallest leverage above 1x.
ASSUME MarginAssumption ==
    \A lev \in Leverages : IsLeveraged(lev) => PositionFromMargin(MinMargin, lev) > MinMargin

\* A resting order, and none of them is the mark of an empty slot.
OrderType == [margin: Nat, lev: Leverages, qty: Nat, maxAsk: Nat, expires: Nat, keep: BOOLEAN]

ASSUME OrderAssumption == NoOrder \notin OrderType

VARIABLES chain,     \* the shared objects, as a context
          registry,  \* the LeverxRegistry: paused, liquidation_bps, window
          outcome    \* each key's market: "open", "won" or "lost"

vars == <<chain, registry, outcome>>

\* The transaction takes effect: the sender keeps what it was paid.
Commit(t) ==
    /\ t.ok
    /\ chain' = [t EXCEPT !.purse = @ + t.paid, !.paid = 0]
    /\ UNCHANGED <<registry, outcome>>

\* Quote entering from and leaving to the world outside the protocol.
PayIn(t, amount)  == Require(t, amount <= t.purse, [t EXCEPT !.purse = @ - amount])
PayOut(t, amount) == [t EXCEPT !.purse = @ + amount]

Init ==
    /\ chain =
         [vault |-> EmptyVault(Rate), collector |-> 0, paid |-> 0, now |-> 1, ok |-> TRUE,
          purse     |-> TotalQuote,
          custody   |-> [a \in Proxies |-> 0], trading  |-> [a \in Proxies |-> 0],
          reserved  |-> [a \in Proxies |-> 0], debtTotal |-> [a \in Proxies |-> 0],
          manager   |-> [a \in Proxies |-> 0],
          quote     |-> [k \in Keys |-> 0], borrowed |-> [k \in Keys |-> 0],
          margin    |-> [k \in Keys |-> 0], leverage |-> [k \in Keys |-> Bps],
          remint    |-> [k \in Keys |-> TRUE],
          order     |-> [k \in Keys |-> NoOrder], trigger |-> [k \in Keys |-> NoTrigger],
          contracts |-> [k \in Keys |-> 0]]
    /\ registry \in [paused : {FALSE}, liquidation_bps : LiquidationChoices,
                     window : WindowChoices]
    /\ outcome = [k \in Keys |-> "open"]

-----------------------------------------------------------------------------
(* DeepBook Predict: what a key's contracts cost and pay *)

Live(k)      == outcome[k] = "open"
Mintable(k)  == Live(k) /\ chain.now < Expiry[k]
BidsFor(k)   == CASE outcome[k] = "open" -> Bids
                  [] outcome[k] = "won"  -> {Unit}
                  [] OTHER               -> {0}

\* Buying pays Predict from the key; a redeem pays the manager.
BuyContracts(t, k, qty, cost) ==
    [PayOut(t, cost) EXCEPT !.contracts[k] = @ + qty]

RedeemContracts(t, k, qty, payout) ==
    Require(PayIn(t, payout), 0 < qty /\ qty <= t.contracts[k],
            [PayIn(t, payout) EXCEPT !.contracts[k] = @ - qty,
                                     !.manager[ProxyOf[k]] = @ + payout])

TakeFromManager(t, k, amount) ==
    Require(t, amount <= t.manager[ProxyOf[k]],
            [t EXCEPT !.manager[ProxyOf[k]] = @ - amount])

ClearTriggersIfFlat(t, k) ==
    [t EXCEPT !.trigger[k] = IF t.contracts[k] > 0 THEN @ ELSE NoTrigger]

-----------------------------------------------------------------------------
(* Minting *)

\* Variant: leverage may still be opened in the final window.
PlanLeverageAnyTime(t, k, margin, lev) ==
    Require(t, /\ ~registry.paused
               /\ MinMargin <= margin /\ margin <= MaxMargin
               /\ LeverageInBounds(lev)
               /\ margin <= t.trading[ProxyOf[k]], t)

InMintWindow(t, k, lev) == IsLeveraged(lev) => t.now < Expiry[k] - registry.window

PlanLeverage(t, k, margin, lev) ==
    Require(t, /\ ~registry.paused
               /\ MinMargin <= margin /\ margin <= MaxMargin
               /\ LeverageInBounds(lev)
               /\ InMintWindow(t, k, lev)
               /\ margin <= t.trading[ProxyOf[k]], t)

CollateralLiquidatable(t, k, payout) ==
    IsLiquidatable(t.quote[k] + payout,
                   HealthDebt(KeyDebt(t, k), t.margin[k], t.leverage[k]),
                   registry.liquidation_bps)

\* A mint: margin and borrow meet on the key and pay for the contracts; what
\* they do not cost stays on the key.  A leveraged key must be born healthy.
ExecuteMint(t, k, margin, lev, qty, cost, keep, payout) ==
    LET borrow  == PositionFromMargin(margin, lev) - margin
        planned == PlanLeverage(t, k, margin, lev)
        funded  == WithdrawFromKey(ExecuteBorrow(AllocateMargin(planned, k, margin), k, borrow),
                                   k, cost)
        levered == SetLeverage(BuyContracts(funded, k, qty, cost), k, lev)
        posted  == IF IsLeveraged(lev) THEN AddMarginDebt(Accrue(levered), k, margin)
                   ELSE levered
    IN  Require(posted,
                /\ 0 < cost /\ cost <= margin + borrow
                /\ IsLeveraged(lev) => ~CollateralLiquidatable(posted, k, payout),
                SetRemint(posted, k, keep))

-----------------------------------------------------------------------------
(* Repaying from a payout *)

\* Leverage follows the debt; the code asserts that it is defined.
SyncLeverage(t, k) ==
    Require(t, LeverageDefined(t.margin[k], t.borrowed[k]),
            SetLeverage(t, k, LeverageOf(t.margin[k], t.borrowed[k])))

WriteOffKey(t, k) == ClearMarginDebt(WriteOffResidual(t, k), k)

\* Variant: the key is emptied whether or not it still owes.
FinalizeIndebted(t, k) ==
    [ResetToUnleveraged(t, k) EXCEPT !.trading[ProxyOf[k]] = @ + t.quote[k], !.quote[k] = 0]

Finalize(t, k) ==
    IF t.borrowed[k] > 0 THEN t
    ELSE SweepFreeQuote(ClearMarginDebt(ResetToUnleveraged(t, k), k), k)

\* Variant: the whole payout is credited beside the repayment.
ApplyPayoutCreditAll(t, k, payout, hold) ==
    LET repay == IF payout >= KeyDebt(t, k) THEN KeyDebt(t, k) ELSE payout
        taken == TakeFromManager(t, k, payout)
        paid  == IF repay > 0 /\ t.borrowed[k] > 0
                 THEN SyncLeverage(RepayKey(taken, k, repay), k) ELSE taken
    IN  IF hold THEN CreditKey(paid, k, payout) ELSE CreditTrading(paid, ProxyOf[k], payout)

\* A payout pays the key's debt first; the surplus goes to the trading
\* account, or stays on the key for a remint.
ApplyPayout(t, k, payout, hold) ==
    LET repay == IF payout >= KeyDebt(t, k) THEN KeyDebt(t, k) ELSE payout
        taken == TakeFromManager(t, k, payout)
        paid  == IF repay > 0 /\ t.borrowed[k] > 0
                 THEN SyncLeverage(RepayKey(taken, k, repay), k) ELSE taken
    IN  IF hold THEN CreditKey(paid, k, payout - repay)
                ELSE CreditTrading(paid, ProxyOf[k], payout - repay)

RepayFromPayout(t, k, payout, settled, hold) ==
    LET accrued == Accrue(t)
        applied == IF payout = 0 THEN accrued ELSE ApplyPayout(accrued, k, payout, hold)
        cleared == IF settled THEN WriteOffKey(applied, k) ELSE applied
    IN  IF hold THEN cleared ELSE Finalize(ClearTriggersIfFlat(cleared, k), k)

-----------------------------------------------------------------------------
(* The keeper's transactions *)

SettleTx(t, k, qty, bid) ==
    RepayFromPayout(RedeemContracts(Require(t, ~Live(k), t), k, qty, bid * qty),
                    k, bid * qty, TRUE, FALSE)

\* Variant: the number of contracts is rounded up.
TryRemintRoundedUp(t, k, ask, bid) ==
    LET held == t.quote[k]
        qty  == IF ask = 0 THEN 0 ELSE CeilDiv(held, ask)
    IN  IF t.borrowed[k] > 0 \/ held < MinMargin \/ qty = 0 THEN t
        ELSE ExecuteMint(SweepFreeQuote(t, k), k, ask * qty, Bps, qty, ask * qty,
                         t.remint[k], bid * qty)

\* As many 1x contracts as the key's quote affords, funded through the
\* trading account like any other mint.
TryRemint(t, k, ask, bid) ==
    LET held == t.quote[k]
        qty  == IF ask = 0 THEN 0 ELSE held \div ask
    IN  IF t.borrowed[k] > 0 \/ held < MinMargin \/ qty = 0 THEN t
        ELSE ExecuteMint(SweepFreeQuote(t, k), k, ask * qty, Bps, qty, ask * qty,
                         t.remint[k], bid * qty)

ForceDeleverageTx(t, k, qty, bid, ask) ==
    LET accrued  == Accrue(t)
        allowed  == Require(accrued,
                            /\ Expiry[k] - registry.window <= t.now /\ t.now < Expiry[k]
                            /\ Live(k)
                            /\ t.borrowed[k] > 0
                            /\ ~CollateralLiquidatable(accrued, k, bid * qty),
                            accrued)
        redeemed == RedeemContracts(allowed, k, qty, bid * qty)
        repaid   == RepayFromPayout(redeemed, k, bid * qty, FALSE, t.remint[k])
    IN  IF t.remint[k]
        THEN ClearTriggersIfFlat(Finalize(TryRemint(repaid, k, ask, bid), k), k)
        ELSE repaid

ForceRepayTx(t, k, qty, bid) ==
    RepayFromPayout(RedeemContracts(Require(t, Expiry[k] <= t.now /\ Live(k) /\ t.borrowed[k] > 0,
                                            t),
                                    k, qty, bid * qty),
                    k, bid * qty, FALSE, FALSE)

QuoteLiquidationFlashBorrow(t, k) ==
    IF t.borrowed[k] = 0 THEN 1
    ELSE LET debt == KeyDebt(Accrue(t), k) IN debt + MulBps(debt, FlashBufferBps)

\* The health check of a liquidation, on the quote the key holds.
AssertLiquidatable(t, k) ==
    Require(t, /\ HealthDebt(KeyDebt(t, k), t.margin[k], t.leverage[k]) > 0
               /\ CollateralLiquidatable(t, k, 0), t)

\* The coin takes the whole quote of the key and clears the debt.
ClearDebt(t, k, payment) ==
    LET merged == WithdrawFromKey(t, k, t.quote[k])
        repaid == IF KeyDebt(t, k) = 0 THEN merged ELSE RepayKey(merged, k, KeyDebt(t, k))
    IN  Require(t, KeyDebt(t, k) <= payment,
                ResetToUnleveraged(ClearMarginDebt(repaid, k), k))

\* One block of the keeper: flash loan, redeem onto the key, cancel its order,
\* check its health, clear its debt, repay the loan with what is left of the
\* coin (topUp is the keeper's own part of it).
LiquidateTx(t, k, qty, bid, topUp) ==
    LET loan     == QuoteLiquidationFlashBorrow(t, k)
        lent     == BorrowFlash(PayIn(t, topUp), loan)
        redeemed == IF qty = 0 THEN lent
                    ELSE CreditKey(TakeFromManager(RedeemContracts(lent, k, qty, bid * qty),
                                                   k, bid * qty),
                                   k, bid * qty)
        checked  == AssertLiquidatable(CancelForLiquidation(redeemed, k), k)
        payment  == loan + topUp + checked.quote[k]
        cleared  == ClearDebt(checked, k, payment)
        closed   == IF qty = 0 THEN cleared ELSE ClearTriggersIfFlat(cleared, k)
    IN  RepayFlash(closed, loan, FlashFee(t.vault, loan), payment - KeyDebt(checked, k))

-----------------------------------------------------------------------------
(* Traders: the owner, or an executor acting for it *)

Deposit(a, amount) ==
    /\ chain.custody[a] + amount <= MaxCustody
    /\ Commit(DepositQuote(PayIn(chain, amount), a, amount))

WithdrawQuote(a, amount) ==
    /\ amount > 0
    /\ Commit(PayOut(TakeTrading(chain, a, amount), amount))

\* A market or an immediate limit mint: its price bound is the trader's.
Mint(k, margin, lev, qty, ask, bid, keep) ==
    /\ Mintable(k) /\ chain.contracts[k] + qty <= MaxContracts
    /\ Commit(ExecuteMint(chain, k, margin, lev, qty, ask * qty, keep, bid * qty))

\* The limit premium and its frozen slippage make the order's highest ask.
PlaceLimitOrder(k, margin, lev, qty, maxAsk, expires, keep) ==
    /\ Mintable(k) /\ ~registry.paused
    /\ 0 < qty /\ 0 < margin /\ LeverageInBounds(lev)
    /\ InMintWindow(chain, k, lev)
    /\ IsLeveraged(lev) => expires < Expiry[k] - registry.window
    /\ chain.now < expires /\ expires <= Expiry[k]
    /\ Commit(PlaceOrder(chain, k, [margin |-> margin, lev |-> lev, qty |-> qty,
                                    maxAsk |-> maxAsk, expires |-> expires, keep |-> keep]))

CancelLimitOrder(k) == Commit(ReleaseOrder(chain, k))

Redeem(k, qty, bid) ==
    Commit(RepayFromPayout(RedeemContracts(chain, k, qty, bid * qty), k, bid * qty, FALSE, FALSE))

\* What a hand payment of amount, already taken from its source, does.
RepayByHand(t, k, amount) ==
    LET repay == IF amount > KeyDebt(t, k) THEN KeyDebt(t, k) ELSE amount
        paid  == IF t.borrowed[k] = 0 THEN t ELSE RepayKey(t, k, repay)
    IN  Require(SyncLeverage(CreditTrading(paid, ProxyOf[k], amount - repay), k), amount > 0,
                SyncLeverage(CreditTrading(paid, ProxyOf[k], amount - repay), k))

RepayDebtFor(k, amount) ==
    Commit(RepayByHand(Accrue(TakeTrading(chain, ProxyOf[k], amount)), k, amount))

DeleverageAccountBalance(k, amount) ==
    /\ chain.custody[ProxyOf[k]] + amount <= MaxCustody
    /\ Commit(RepayByHand(Accrue(PayIn(chain, amount)), k, amount))

RecoverFlatKeyQuote(k) ==
    /\ chain.contracts[k] = 0 /\ chain.borrowed[k] = 0 /\ chain.quote[k] > 0
    /\ Commit(Finalize(ClearTriggersIfFlat(chain, k), k))

SetAutomatedTriggers(k, tp, sl) == Commit(SetTriggers(chain, k, tp, sl))

ClearAutomatedTriggers(k) == Commit(ClearTriggers(chain, k))

SetRemintAfterDeleverage(k, keep) ==
    chain.remint[k] # keep /\ Commit(SetRemint(chain, k, keep))

-----------------------------------------------------------------------------
(* Keepers, or anyone *)

\* Anyone may close a key whose trigger is met.
RedeemByTrigger(k, qty, bid) == TriggerMet(chain, k, bid) /\ Redeem(k, qty, bid)

FillLimitOrder(k, ask, bid) ==
    LET o == chain.order[k]
    IN  /\ o # NoOrder /\ Mintable(k) /\ ~registry.paused
        /\ chain.contracts[k] + o.qty <= MaxContracts
        /\ chain.now <= o.expires
        /\ ask <= o.maxAsk
        /\ Commit(ExecuteMint(ReleaseOrder(chain, k), k, o.margin, o.lev, o.qty, ask * o.qty,
                              o.keep, bid * o.qty))

ExpireLimitOrder(k) ==
    /\ chain.order[k] # NoOrder
    /\ chain.now > chain.order[k].expires
    /\ Commit(ReleaseOrder(chain, k))

\* By the trader, or by the keeper without its authority.
SettleExpiredPosition(k, qty) == \E bid \in BidsFor(k) : Commit(SettleTx(chain, k, qty, bid))

ForceDeleverageAtExpiry(k, qty, bid, ask) == Commit(ForceDeleverageTx(chain, k, qty, bid, ask))

ForceRepayPostExpiry(k, qty, bid) == Commit(ForceRepayTx(chain, k, qty, bid))

FlashLiquidate(k, qty, bid, topUp) == Commit(LiquidateTx(chain, k, qty, bid, topUp))

WriteOffFlatBorrow(k) ==
    /\ chain.borrowed[k] > 0 /\ chain.contracts[k] = 0
    /\ ~Live(k) \/ Expiry[k] <= chain.now
    /\ Commit(WriteOffKey(chain, k))

RecoverManagerSurplus(k, amount) ==
    /\ chain.contracts[k] = 0 /\ amount > 0
    /\ Commit(CreditTrading(TakeFromManager(chain, k, amount), ProxyOf[k], amount))

SynchronizeProxyAccounting == Commit(Accrue(chain))

-----------------------------------------------------------------------------
(* LPs, the admin, the clock and Predict *)

DepositLiquidity(amount) ==
    LET t == Supply(Accrue(PayIn(chain, amount)), amount)
    IN  t.vault.total_shares <= MaxShares /\ Commit(t)

SetTradingPaused(paused) ==
    /\ registry.paused # paused
    /\ registry' = [registry EXCEPT !.paused = paused]
    /\ UNCHANGED <<chain, outcome>>

SetLiquidationBps(bps) ==
    /\ registry.liquidation_bps # bps
    /\ registry' = [registry EXCEPT !.liquidation_bps = bps]
    /\ UNCHANGED <<chain, outcome>>

SetFinalWindowMs(window) ==
    /\ registry.window # window
    /\ registry' = [registry EXCEPT !.window = window]
    /\ UNCHANGED <<chain, outcome>>

Tick(d) == /\ chain.now + d <= MaxTime
           /\ chain' = [chain EXCEPT !.now = @ + d]
           /\ UNCHANGED <<registry, outcome>>

OracleSettles(k, result) ==
    /\ Live(k) /\ Expiry[k] <= chain.now
    /\ outcome' = [outcome EXCEPT ![k] = result]
    /\ UNCHANGED <<chain, registry>>

\* Anyone may redeem a settled position on Predict itself: the payout waits
\* in the manager and LeverX is not told.
RedeemOutside(k) ==
    /\ ~Live(k) /\ chain.contracts[k] > 0
    /\ \E bid \in BidsFor(k) :
         Commit(RedeemContracts(chain, k, chain.contracts[k], bid * chain.contracts[k]))

TraderNext ==
    \/ \E a \in Proxies, d \in Deposits : Deposit(a, d) \/ WithdrawQuote(a, d)
    \/ \E k \in Keys :
         \/ \E m \in Margins, lev \in Leverages, qty \in Quantities, keep \in Keeps :
              \/ \E ask \in Asks, bid \in Bids :
                   bid <= ask /\ Mint(k, m, lev, qty, ask, bid, keep)
              \/ \E ask \in Asks, e \in OrderExpiries :
                   PlaceLimitOrder(k, m, lev, qty, ask, e, keep)
         \/ CancelLimitOrder(k)
         \/ \E qty \in Quantities, bid \in BidsFor(k) : Redeem(k, qty, bid)
         \/ \E amount \in Repayments : \/ RepayDebtFor(k, amount)
                                       \/ DeleverageAccountBalance(k, amount)
         \/ RecoverFlatKeyQuote(k)
         \/ \E tp, sl \in TriggerPremiums : SetAutomatedTriggers(k, tp, sl)
         \/ ClearAutomatedTriggers(k)
         \/ \E keep \in Keeps : SetRemintAfterDeleverage(k, keep)

KeeperNext ==
    \E k \in Keys :
        \/ \E ask \in Asks, bid \in Bids : bid <= ask /\ FillLimitOrder(k, ask, bid)
        \/ ExpireLimitOrder(k)
        \/ \E qty \in Quantities :
             \/ SettleExpiredPosition(k, qty)
             \/ \E bid \in BidsFor(k) :
                  \/ RedeemByTrigger(k, qty, bid)
                  \/ ForceRepayPostExpiry(k, qty, bid)
                  \/ \E ask \in Asks : bid <= ask /\ ForceDeleverageAtExpiry(k, qty, bid, ask)
                  \/ \E topUp \in TopUps : FlashLiquidate(k, qty, bid, topUp)
        \/ \E topUp \in TopUps : FlashLiquidate(k, 0, 0, topUp)
        \/ WriteOffFlatBorrow(k)
        \/ \E amount \in Recoveries : RecoverManagerSurplus(k, amount)

WorldNext ==
    \/ SynchronizeProxyAccounting
    \/ \E d \in Deposits : DepositLiquidity(d)
    \/ \E paused \in BOOLEAN : SetTradingPaused(paused)
    \/ \E bps \in LiquidationChoices : SetLiquidationBps(bps)
    \/ \E w \in WindowChoices : SetFinalWindowMs(w)
    \/ \E d \in Ticks : Tick(d)
    \/ \E k \in Keys : \/ \E r \in {"won", "lost"} : OracleSettles(k, r)
                       \/ RedeemOutside(k)

Next == TraderNext \/ KeeperNext \/ WorldNext

Spec == Init /\ [][Next]_vars

-----------------------------------------------------------------------------
(* Properties *)

Sum(f, S) == SumFunctionOnSet(f, S)
KeysOf(a) == {k \in Keys : ProxyOf[k] = a}

\* Every amount is unsigned and every ledger has its type.
TypeOK ==
    /\ chain.vault \in VaultType
    /\ chain.collector \in Nat /\ chain.purse \in Nat /\ chain.now \in Nat
    /\ chain.paid = 0 /\ chain.ok
    /\ {chain.custody, chain.trading, chain.reserved, chain.debtTotal, chain.manager}
         \subseteq [Proxies -> Nat]
    /\ {chain.quote, chain.borrowed, chain.margin, chain.contracts} \subseteq [Keys -> Nat]
    /\ \A k \in Keys : LeverageInBounds(chain.leverage[k])
    /\ chain.remint \in [Keys -> BOOLEAN]

\* The balance manager holds exactly what the ledgers say: no path leaves
\* coins without an owner or an owner without coins.
CustodyMatchesLedgers ==
    \A a \in Proxies :
        chain.custody[a] = chain.trading[a] + chain.reserved[a] + Sum(chain.quote, KeysOf(a))

\* The margin behind each key's resting order.
RestingMargin(orders) == [k \in Keys |-> IF orders[k] = NoOrder THEN 0 ELSE orders[k].margin]

\* What is reserved is the margin of the resting orders, no more and no less.
ReserveMatchesOrders ==
    \A a \in Proxies : chain.reserved[a] = Sum(RestingMargin(chain.order), KeysOf(a))

\* The proxy's borrowed_quote is the sum over its keys.
DebtTotalsMatch ==
    \A a \in Proxies : chain.debtTotal[a] = Sum(chain.borrowed, KeysOf(a))

\* What a proxy keeps for all its keys agrees with what the keys keep for
\* themselves, whether orders are filled, cancelled, expired or swept away by a
\* liquidation, and by whichever path a debt is repaid or written off.
TotalsMatchKeys == ReserveMatchesOrders /\ DebtTotalsMatch

\* No path mints or loses quote.
QuoteConserved ==
    chain.purse + chain.collector + chain.vault.balance + chain.vault.insurance_fund
      + Sum(chain.custody, Proxies) + Sum(chain.manager, Proxies) = TotalQuote

\* effective_health_debt falls back on the posted margin when there is no
\* vault debt: a key that repaid its borrow, by whichever of the many paths,
\* must have lost its posted margin or it could be liquidated for no debt.
MarginDebtOnlyWithBorrow ==
    \A k \in Keys : chain.margin[k] > 0 => chain.borrowed[k] > 0 /\ IsLeveraged(chain.leverage[k])

\* The vault never lends in the final window before expiry, whatever was
\* placed before it and however the admin has moved it since.
NoBorrowInFinalWindow ==
    [][\A k \in Keys : chain'.borrowed[k] > chain.borrowed[k]
                         => chain.now < Expiry[k] - registry.window]_vars

\* A keeper may close, repay, liquidate and write off a key, but the trader's
\* free and reserved quote only grows by it: only the trader's own requests
\* (a withdrawal, a repayment, a mint or an order of its own) use it.
KeepersNeverSpendTradingQuote ==
    [][\A a \in Proxies :
         chain'.trading[a] + chain'.reserved[a] < chain.trading[a] + chain.reserved[a]
           => \/ TraderNext
              \/ \E k \in KeysOf(a) : chain.order[k] # NoOrder /\ chain'.order[k] = NoOrder
                                      /\ chain'.contracts[k] > chain.contracts[k]]_vars

\* The quote a key holds backs its debt: a key that still owes afterwards
\* loses quote only by minting with it.
CollateralStaysWithDebt ==
    [][\A k \in Keys : chain'.borrowed[k] > 0 /\ chain'.quote[k] < chain.quote[k]
                         => chain'.contracts[k] > chain.contracts[k]]_vars

-----------------------------------------------------------------------------
(* What the source says of a position and the code does not keep           *)

\* A settled position can be redeemed and its payout repays the debt.  After
\* a 1x mint cleared the margin, the leverage of a partly repaid debt is no
\* longer defined and the whole settlement aborts.
SettlementsGoThrough ==
    \A k \in Keys : ~Live(k) /\ chain.contracts[k] > 0
        => \A bid \in BidsFor(k) : SettleTx(chain, k, chain.contracts[k], bid).ok
=============================================================================
