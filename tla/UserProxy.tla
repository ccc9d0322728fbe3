------------------------------ MODULE UserProxy -------------------------------
(***************************************************************************)
(* user_proxy.move: a trader's on-chain account.  One balance manager      *)
(* holds all its coins; ledgers say whose they are.  Per proxy, a context  *)
(* t (see Transaction) has                                                 *)
(*                                                                         *)
(*   custody    coins in the balance manager                               *)
(*   trading    spendable trading-account quote                            *)
(*   reserved   trading-account quote behind resting limit orders          *)
(*   debtTotal  UserProxy.borrowed_quote, the sum over its keys            *)
(*                                                                         *)
(* and, per position key, quote, borrowed, margin, leverage and remint     *)
(* (the fields of PositionLedger), order (the resting limit mint order)    *)
(* and trigger (take-profit and stop-loss premiums, 0 when unset).         *)
(*                                                                         *)
(* The functions come in two copies, for binary and range keys, that       *)
(* differ only in the key's type: one operator models both.                *)
(***************************************************************************)
EXTENDS ProtocolMath, Transaction, FiniteSets

CONSTANTS Proxies,    \* user proxies
          Keys,       \* position keys, of all proxies
          ProxyOf,    \* the proxy of each key
          NoOrder,    \* no resting order on a key
          NoTrigger   \* no trigger on a key

ASSUME ProxyAssumption == /\ ProxyOf \in [Keys -> Proxies]
                          /\ IsFiniteSet(Keys)

-----------------------------------------------------------------------------
(* Coins and ledgers *)

DepositQuote(t, a, amount) ==
    Require(t, amount > 0,
            [t EXCEPT !.custody[a] = @ + amount, !.trading[a] = @ + amount])

CreditTrading(t, a, amount) ==
    [t EXCEPT !.custody[a] = @ + amount, !.trading[a] = @ + amount]

CreditKey(t, k, amount) ==
    [t EXCEPT !.custody[ProxyOf[k]] = @ + amount, !.quote[k] = @ + amount]

\* Variant: nothing is asked before the subtraction.
TakeTradingUnchecked(t, a, amount) ==
    [t EXCEPT !.custody[a] = @ - amount, !.trading[a] = @ - amount]

TakeTrading(t, a, amount) ==
    Require(t, amount <= t.trading[a] /\ amount <= t.custody[a],
            [t EXCEPT !.custody[a] = @ - amount, !.trading[a] = @ - amount])

WithdrawFromKey(t, k, amount) ==
    Require(t, amount <= t.quote[k] /\ amount <= t.custody[ProxyOf[k]],
            [t EXCEPT !.custody[ProxyOf[k]] = @ - amount, !.quote[k] = @ - amount])

\* Moves between ledgers leave the coins where they are.
AllocateMargin(t, k, amount) ==
    Require(t, amount <= t.trading[ProxyOf[k]],
            [t EXCEPT !.trading[ProxyOf[k]] = @ - amount, !.quote[k] = @ + amount])

\* Variant: the quote arrives without leaving the key.
SweepFreeQuoteTwice(t, k) ==
    IF t.borrowed[k] > 0 THEN t
    ELSE [t EXCEPT !.trading[ProxyOf[k]] = @ + t.quote[k]]

SweepFreeQuote(t, k) ==
    IF t.borrowed[k] > 0 THEN t
    ELSE [t EXCEPT !.trading[ProxyOf[k]] = @ + t.quote[k], !.quote[k] = 0]

Reserve(t, a, amount) ==
    Require(t, amount <= t.trading[a],
            [t EXCEPT !.trading[a] = @ - amount, !.reserved[a] = @ + amount])

Release(t, a, amount) ==
    Require(t, amount <= t.reserved[a],
            [t EXCEPT !.reserved[a] = @ - amount, !.trading[a] = @ + amount])

-----------------------------------------------------------------------------
(* Debt, margin and leverage *)

RecordBorrow(t, k, amount) ==
    [t EXCEPT !.borrowed[k] = @ + amount, !.debtTotal[ProxyOf[k]] = @ + amount]

\* The proxy's total is an unsigned subtraction.
RecordRepay(t, k, amount) ==
    Require(t, amount <= t.borrowed[k] /\ amount <= t.debtTotal[ProxyOf[k]],
            [t EXCEPT !.borrowed[k] = @ - amount, !.debtTotal[ProxyOf[k]] = @ - amount])

AddMarginDebt(t, k, amount) == [t EXCEPT !.margin[k] = @ + amount]

ClearMarginDebt(t, k) == [t EXCEPT !.margin[k] = 0]

\* Variant: going back to 1x leaves the posted margin.
SetLeverageOnly(t, k, lev) == [t EXCEPT !.leverage[k] = lev]

SetLeverage(t, k, lev) ==
    [t EXCEPT !.leverage[k] = lev, !.margin[k] = IF IsLeveraged(lev) THEN @ ELSE 0]

ResetToUnleveraged(t, k) == SetLeverage(t, k, Bps)

SetRemint(t, k, choice) == [t EXCEPT !.remint[k] = choice]

-----------------------------------------------------------------------------
(* Resting limit orders: at most one per key, its margin reserved *)

PlaceOrder(t, k, o) ==
    Reserve(Require(t, t.order[k] = NoOrder, [t EXCEPT !.order[k] = o]),
            ProxyOf[k], o.margin)

\* Variant: the order goes, its margin stays reserved.
ReleaseOrderKeepReserve(t, k) ==
    Require(t, t.order[k] # NoOrder, [t EXCEPT !.order[k] = NoOrder])

\* Taking an order off the key and its margin out of the reserve: a fill, a
\* cancellation or an expiry.
ReleaseOrder(t, k) ==
    Require(t, t.order[k] # NoOrder,
            Release([t EXCEPT !.order[k] = NoOrder], ProxyOf[k], t.order[k].margin))

CancelForLiquidation(t, k) == IF t.order[k] = NoOrder THEN t ELSE ReleaseOrder(t, k)

-----------------------------------------------------------------------------
(* Triggers *)

SetTriggers(t, k, tp, sl) == [t EXCEPT !.trigger[k] = [tp |-> tp, sl |-> sl]]

ClearTriggers(t, k) ==
    Require(t, t.trigger[k] # NoTrigger, [t EXCEPT !.trigger[k] = NoTrigger])

TriggerMet(t, k, bid) ==
    /\ t.trigger[k] # NoTrigger
    /\ \/ t.trigger[k].tp > 0 /\ bid >= t.trigger[k].tp
       \/ t.trigger[k].sl > 0 /\ bid <= t.trigger[k].sl
=============================================================================
