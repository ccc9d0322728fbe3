------------------------------ MODULE CreditPool ------------------------------
(***************************************************************************)
(* The LeverageVault, the FeeCollector and the debt ledgers of the         *)
(* position keys that borrow from the vault, as a state machine.  Every    *)
(* action is one transaction; the quote outside the protocol (traders,     *)
(* LPs, keepers, DeepBook Predict) is one purse.                           *)
(*                                                                         *)
(* What the keys buy and when their owners may act is the business of      *)
(* module Trade; here a key may spend its quote, receive a payout and pay  *)
(* a debt at any moment, which is all the vault can know.                  *)
(***************************************************************************)
EXTENDS DebtLedger, Functions

CONSTANTS TotalQuote,    \* quote in circulation
          KeyAmounts,    \* bound: what a key's transaction may move
          PoolAmounts,   \* bound: what an LP, a flash loan or the admin may move
          Surpluses,     \* bound: what may be left of a flash loan's repayment
          RateConfigs,   \* borrow curves the admin may set
          InitialRate,   \* the curve the vault is created with
          Ticks,         \* how far the clock may move in one step
          MaxTime,       \* bound on the clock
          MaxShares      \* bound on the LP shares ever outstanding

ASSUME PoolAssumption ==
    /\ TotalQuote \in Nat /\ MaxTime \in Nat /\ MaxShares \in Nat
    /\ KeyAmounts \subseteq Nat /\ PoolAmounts \subseteq Nat /\ Surpluses \subseteq Nat
    /\ Ticks \subseteq Nat \ {0}
    /\ RateConfigs \subseteq RateType
    /\ InitialRate \in RateConfigs

VARIABLES vault,      \* the LeverageVault object
          collector,  \* balance of the FeeCollector
          borrowed,   \* principal recorded by each key's ledger
          debtTotal,  \* principal recorded by each proxy
          quote,      \* quote held by each key
          custody,    \* coins each proxy holds for its keys
          purse,      \* quote outside the protocol
          now         \* the clock

vars == <<vault, collector, borrowed, debtTotal, quote, custody, purse, now>>

\* The context a transaction starts from, and its commit: payIn is the quote
\* it takes from the purse, payOut the quote it hands back besides t.paid.
Context == [vault |-> vault, collector |-> collector, paid |-> 0, now |-> now,
            ok |-> TRUE, borrowed |-> borrowed, debtTotal |-> debtTotal,
            quote |-> quote, custody |-> custody]

Commit(t, payIn, payOut) ==
    /\ payIn <= purse
    /\ t.ok
    /\ vault' = t.vault
    /\ collector' = t.collector
    /\ borrowed' = t.borrowed
    /\ debtTotal' = t.debtTotal
    /\ quote' = t.quote
    /\ custody' = t.custody
    /\ purse' = purse - payIn + payOut + t.paid
    /\ now' = now

Init == /\ vault = EmptyVault(InitialRate)
        /\ collector = 0
        /\ borrowed = [k \in Keys |-> 0]
        /\ debtTotal = [a \in Proxies |-> 0]
        /\ quote = [k \in Keys |-> 0]
        /\ custody = [a \in Proxies |-> 0]
        /\ purse = TotalQuote
        /\ now = 1

Tick(d) == /\ now + d <= MaxTime
           /\ now' = now + d
           /\ UNCHANGED <<vault, collector, borrowed, debtTotal, quote, custody, purse>>

-----------------------------------------------------------------------------
(* Anyone *)

AccrueInterest == Commit(Accrue(Context), 0, 0)

-----------------------------------------------------------------------------
(* Liquidity providers.  supply and withdraw are public beside the entry    *)
(* points that accrue first.                                                *)

DepositLiquidity(amount) ==
    LET t == Supply(Accrue(Context), amount)
    IN  t.vault.total_shares <= MaxShares /\ Commit(t, amount, 0)

SupplyUnaccrued(amount) ==
    LET t == Supply(Context, amount)
    IN  t.vault.total_shares <= MaxShares /\ Commit(t, amount, 0)

WithdrawLiquidity(shares) ==
    /\ shares <= vault.total_shares
    /\ Commit(Withdraw(Accrue(Context), shares), 0, QuoteFor(Accrue(Context).vault, shares))

WithdrawUnaccrued(shares) ==
    /\ shares <= vault.total_shares
    /\ Commit(Withdraw(Context, shares), 0, QuoteFor(vault, shares))

-----------------------------------------------------------------------------
(* Position keys *)

\* A leveraged mint: margin and borrow meet on the key.
Open(k, margin, borrow) ==
    Commit(ExecuteBorrow(CreditKey(Context, k, margin), k, borrow), margin, 0)

\* The key's quote buys contracts.
Spend(k, amount) ==
    Commit(WithdrawFromKey(Context, k, amount), 0, amount)

\* A payment (a payout, the trading account, an external coin) into the key's
\* debt; what exceeds the debt stays with the payer.
Repay(k, payment) ==
    LET t     == Accrue(Context)
        repay == IF payment >= KeyDebt(t, k) THEN KeyDebt(t, k) ELSE payment
    IN  /\ borrowed[k] > 0
        /\ Commit(RepayKey(t, k, repay), payment, payment - repay)

\* The end of a key: what its quote, the insurance fund and the LPs can bear.
WriteOff(k) ==
    /\ borrowed[k] > 0
    /\ Commit(WriteOffResidual(Context, k), 0, 0)

\* An unindebted key returns its quote to the trading account.
Sweep(k) ==
    /\ borrowed[k] = 0 /\ quote[k] > 0
    /\ Commit(WithdrawFromKey(Context, k, quote[k]), 0, quote[k])

-----------------------------------------------------------------------------
(* Keepers and the admin *)

\* A flash loan that is repaid with a surplus, in one transaction.
FlashLoan(amount, surplus) ==
    LET t    == BorrowFlash(Context, amount)
        fee  == FlashFee(vault, amount)
        done == RepayFlash(t, amount, fee, amount + fee + surplus)
    IN  t.ok /\ Commit(done, fee + surplus, 0)

SetBorrowRateParams(cfg) ==
    /\ cfg # vault.rate
    /\ Commit([Context EXCEPT !.vault.rate = cfg], 0, 0)

WithdrawFeeCollector(amount) == Commit(CollectorWithdraw(Context, amount), 0, 0)

Next ==
    \/ \E d \in Ticks : Tick(d)
    \/ AccrueInterest
    \/ \E a \in PoolAmounts : \/ DepositLiquidity(a)
                              \/ SupplyUnaccrued(a)
                              \/ WithdrawLiquidity(a)
                              \/ WithdrawUnaccrued(a)
                              \/ WithdrawFeeCollector(a)
                              \/ \E surplus \in Surpluses : FlashLoan(a, surplus)
    \/ \E k \in Keys : \/ \E margin, borrow \in KeyAmounts : Open(k, margin, borrow)
                       \/ \E a \in KeyAmounts : Spend(k, a) \/ Repay(k, a)
                       \/ WriteOff(k)
                       \/ Sweep(k)
    \/ \E cfg \in RateConfigs : SetBorrowRateParams(cfg)

Spec == Init /\ [][Next]_vars

-----------------------------------------------------------------------------
(* Properties *)

\* Every field has its type; all amounts are unsigned.
TypeOK == /\ vault \in VaultType
          /\ vault.rate \in RateConfigs
          /\ collector \in Nat
          /\ borrowed \in [Keys -> Nat]
          /\ debtTotal \in [Proxies -> Nat]
          /\ quote \in [Keys -> Nat]
          /\ custody \in [Proxies -> Nat]
          /\ purse \in Nat
          /\ now \in Nat

\* The vault's debt covers its principal and dies with it: although a partial
\* repayment is split by rounding, total_borrowed never falls below
\* total_principal_borrowed, and no interest is left once the principal is
\* gone.  apply_repayment subtracts from both and relies on it.
DebtCoversPrincipal ==
    /\ vault.total_principal_borrowed <= vault.total_borrowed
    /\ vault.total_principal_borrowed = 0 => vault.total_borrowed = 0

\* The ledgers round a partial repayment up, the vault rounds it down: the
\* vault may remember more principal than the ledgers, never less.
LedgersWithinPrincipal ==
    SumFunction(borrowed) <= vault.total_principal_borrowed

\* No key can be charged more than the vault is owed, so neither a full
\* repayment nor a write-off can abort on an unsigned subtraction.
EveryDebtIsPayable ==
    \A k \in Keys : /\ borrowed[k] <= vault.total_principal_borrowed
                    /\ KeyDebt(Context, k) <= vault.total_borrowed

\* Quote is neither minted nor lost by a split, a rounding or an early return.
QuoteConserved ==
    purse + collector + vault.balance + vault.insurance_fund + SumFunction(quote)
        = TotalQuote

\* A deposit or a withdrawal of one LP never takes value from the shares of
\* the others: the quote per share does not fall when shares are minted or
\* burned, whatever interest accrued on the way.
OtherSharesKeepTheirValue ==
    [][vault'.total_shares # vault.total_shares =>
         Nav(vault') * vault.total_shares >= Nav(vault) * vault'.total_shares]_vars

\* Before a residual debt is socialised, the defaulting key's own quote and
\* then the whole insurance fund are used up: when a write-off lowers what the
\* vault holds and is owed by more than the fees it hands out, nothing is left
\* on the key nor in the fund.
LPsAreLastToPay ==
    [][\A k \in Keys :
         /\ borrowed[k] > 0 /\ borrowed'[k] = 0 /\ WriteOff(k)
         /\ vault'.balance + vault'.total_borrowed + collector' + purse'
              < vault.balance + AccruedVault(vault, now).total_borrowed + collector + purse
         => quote'[k] = 0 /\ vault'.insurance_fund = 0]_vars
=============================================================================
