---------------------------- MODULE LeverageVault -----------------------------
(***************************************************************************)
(* leverage_vault.move and fee_collector.move as operators on a            *)
(* transaction context t (see Transaction), of which they use              *)
(*                                                                         *)
(*   vault      the shared LeverageVault object                            *)
(*   collector  the balance of the shared FeeCollector                     *)
(*   paid       quote sent to the sender (the keeper's share) so far       *)
(***************************************************************************)
EXTENDS ProtocolMath, Transaction

RateType == [base: Nat, kink: 0..Bps, slope1: Nat, slope2: Nat, flash: 0..Bps]

VaultType == [balance: Nat, total_borrowed: Nat, total_principal_borrowed: Nat,
              total_shares: Nat, insurance_fund: Nat, last_accrue_ms: Nat,
              rate: RateType]

EmptyVault(cfg) ==
    [balance |-> 0, total_borrowed |-> 0, total_principal_borrowed |-> 0,
     total_shares |-> 0, insurance_fund |-> 0, last_accrue_ms |-> 0, rate |-> cfg]

Nav(v) == v.balance + v.total_borrowed + v.insurance_fund

Utilization(v) == IF Nav(v) = 0 THEN 0 ELSE (v.total_borrowed * Bps) \div Nav(v)

CurrentBorrowRate(v) == BorrowRateAt(v.rate, Utilization(v))

VaultDebtOf(v, p) ==
    DebtWithInterest(p, v.total_borrowed, v.total_principal_borrowed)

OutstandingInterest(v) ==
    IF v.total_borrowed > v.total_principal_borrowed
    THEN v.total_borrowed - v.total_principal_borrowed ELSE 0

-----------------------------------------------------------------------------
(* Interest *)

\* The first call only starts the clock; the clock moves even when the
\* interest rounds to zero.
AccruedVault(v, now) ==
    LET elapsed  == now - v.last_accrue_ms
        interest == InterestFor(v.total_borrowed, CurrentBorrowRate(v), elapsed)
    IN  IF v.last_accrue_ms = 0 \/ elapsed = 0 \/ v.total_borrowed = 0
        THEN [v EXCEPT !.last_accrue_ms = now]
        ELSE [v EXCEPT !.total_borrowed = @ + interest, !.last_accrue_ms = now]

Accrue(t) == [t EXCEPT !.vault = AccruedVault(@, t.now)]

-----------------------------------------------------------------------------
(* LP shares *)

\* Variant: shares rounded up.
SharesForRoundedUp(v, amount) ==
    IF v.total_shares = 0 THEN amount
    ELSE IF Nav(v) = 0 THEN 0 ELSE CeilDiv(amount * v.total_shares, Nav(v))

SharesFor(v, amount) ==
    IF v.total_shares = 0 THEN amount
    ELSE IF Nav(v) = 0 THEN 0 ELSE (amount * v.total_shares) \div Nav(v)

QuoteFor(v, shares) == (shares * Nav(v)) \div v.total_shares

Supply(t, amount) ==
    LET shares == SharesFor(t.vault, amount)
    IN  Require(t, amount > 0 /\ shares > 0,
                [t EXCEPT !.vault.balance = @ + amount, !.vault.total_shares = @ + shares])

\* Variant: the idle balance is not checked.
WithdrawUnchecked(t, shares) ==
    Require(t, 0 < shares /\ shares <= t.vault.total_shares,
            [t EXCEPT !.vault.balance = @ - QuoteFor(t.vault, shares),
                      !.vault.total_shares = @ - shares])

Withdraw(t, shares) ==
    LET amount == QuoteFor(t.vault, shares)
    IN  Require(t, /\ 0 < shares /\ shares <= t.vault.total_shares
                   /\ amount <= t.vault.balance,
                [t EXCEPT !.vault.balance = @ - amount, !.vault.total_shares = @ - shares])

-----------------------------------------------------------------------------
(* Borrowing *)

Borrow(t0, amount) ==
    LET t == Accrue(t0)
    IN  Require(t, amount > 0 /\ amount <= t.vault.balance,
                [t EXCEPT !.vault.balance = @ - amount,
                          !.vault.total_borrowed = @ + amount,
                          !.vault.total_principal_borrowed = @ + amount])

-----------------------------------------------------------------------------
(* Revenue: 80% to the LPs, 10% to the treasury, 10% to the sender *)

DistributeProtocolFee(t, total) ==
    LET split == FeeSplit(total)
    IN  [t EXCEPT !.vault.balance = @ + split.vault,
                  !.collector = @ + split.collector,
                  !.paid = @ + split.keeper]

\* A liquidation surplus feeds the insurance fund instead of the LPs.
DistributeLiquidationSurplus(t, total) ==
    LET split == FeeSplit(total)
    IN  [t EXCEPT !.vault.insurance_fund = @ + split.vault,
                  !.collector = @ + split.collector,
                  !.paid = @ + split.keeper]

CollectorWithdraw(t, amount) ==
    Require(t, amount > 0 /\ amount <= t.collector,
            [t EXCEPT !.collector = @ - amount, !.paid = @ + amount])

-----------------------------------------------------------------------------
(* Repaying and writing off *)

\* Both subtractions are unsigned: an underflow aborts the transaction.
ApplyRepayment(t, repay, principal) ==
    Require(t, /\ repay <= t.vault.total_borrowed
               /\ principal <= t.vault.total_principal_borrowed,
            [t EXCEPT !.vault.total_borrowed = @ - repay,
                      !.vault.total_principal_borrowed = @ - principal])

\* A payment against one ledger: interest (an unsigned subtraction too) is
\* shared out, principal and any excess return to the idle balance.
RepayVaultForLedger(t0, p, payment) ==
    LET t         == Accrue(t0)
        debt      == VaultDebtOf(t.vault, p)
        repay     == IF payment >= debt THEN debt ELSE payment
        principal == VaultPrincipalIn(p, repay, debt)
        interest  == repay - principal
        shared    == DistributeProtocolFee(ApplyRepayment(t, repay, principal), interest)
    IN  Require(t, payment > 0 /\ principal <= repay,
                [shared EXCEPT !.vault.balance = @ + (payment - interest)])

\* A debt nobody will pay: the debt goes, no coin comes back.
WriteOffDebtForLedger(t, p, amount) ==
    IF amount = 0 \/ p = 0 THEN t
    ELSE ApplyRepayment(t, amount, VaultPrincipalIn(p, amount, VaultDebtOf(t.vault, p)))

TakeInsurance(t, amount) ==
    Require(t, amount > 0 /\ amount <= t.vault.insurance_fund,
            [t EXCEPT !.vault.insurance_fund = @ - amount])

-----------------------------------------------------------------------------
(* Flash loans: borrow and repay are the two ends of one transaction, tied  *)
(* by a receipt that cannot be stored.                                      *)

BorrowFlash(t0, amount) ==
    LET t == Accrue(t0)
    IN  Require(t, amount > 0 /\ amount <= t.vault.balance,
                [t EXCEPT !.vault.balance = @ - amount])

FlashFee(v, amount) == (amount * v.rate.flash) \div Bps

RepayFlash(t0, amount, fee, payment) ==
    LET t   == [Accrue(t0) EXCEPT !.vault.balance = @ + amount]
        fed == DistributeProtocolFee(t, fee)
    IN  Require(t, payment >= amount + fee,
                DistributeLiquidationSurplus(fed, payment - amount - fee))
=============================================================================
