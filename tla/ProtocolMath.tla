----------------------------- MODULE ProtocolMath -----------------------------
(***************************************************************************)
(* The integer arithmetic of the LeverX contracts: basis points, the       *)
(* 80/10/10 revenue split, the kinked borrow curve, the split of a debt    *)
(* between principal and interest, leverage and health.  Every division    *)
(* rounds the way the Move code rounds it.                                 *)
(*                                                                         *)
(* The scale of a basis point and the length of a year are parameters: TLC *)
(* uses a coarse scale so that roundings show up in small numbers.         *)
(***************************************************************************)
EXTENDS Integers

CONSTANTS Bps,                \* the denominator of basis-point arithmetic
          YearMs,             \* milliseconds in a year
          VaultShareBps,      \* LP share of protocol revenue
          CollectorShareBps,  \* treasury share of protocol revenue
          MaxLeverage         \* largest leverage multiple

ASSUME ScaleAssumption == /\ Bps \in Nat \ {0}
                          /\ YearMs \in Nat \ {0}
                          /\ MaxLeverage \in Nat \ {0}

\* protocol_constants.move: the three revenue shares sum to BPS.
ASSUME ShareAssumption == /\ VaultShareBps \in Nat
                          /\ CollectorShareBps \in Nat
                          /\ VaultShareBps + CollectorShareBps <= Bps

-----------------------------------------------------------------------------
(* Rounding *)

\* std::u128::divide_and_round_up.
CeilDiv(a, b) == IF a % b = 0 THEN a \div b ELSE a \div b + 1

MulBps(amount, bps) == (amount * bps) \div Bps

\* Variant: three rounded shares, which lose what the roundings leave.
FeeSplitAllRounded(total) ==
    [vault |-> MulBps(total, VaultShareBps), collector |-> MulBps(total, CollectorShareBps),
     keeper |-> MulBps(total, Bps - VaultShareBps - CollectorShareBps)]

\* distribute_protocol_fee: the keeper takes what the two floors leave.
FeeSplit(total) ==
    LET vaultAmt     == MulBps(total, VaultShareBps)
        collectorAmt == MulBps(total, CollectorShareBps)
    IN  [vault |-> vaultAmt, collector |-> collectorAmt,
         keeper |-> total - vaultAmt - collectorAmt]

-----------------------------------------------------------------------------
(* Borrow curve and interest *)

\* Kinked APR, in basis points, at a utilization.
BorrowRateAt(cfg, util) ==
    IF util <= cfg.kink
    THEN cfg.base + (cfg.slope1 * util) \div Bps
    ELSE cfg.base + (cfg.slope1 * cfg.kink) \div Bps
                  + (cfg.slope2 * (util - cfg.kink)) \div Bps

\* Interest on a debt over a time span, rounded down.
InterestFor(debt, rate, elapsed) == (debt * rate * elapsed) \div (Bps * YearMs)

-----------------------------------------------------------------------------
(* Debt of one ledger, and the two ways its repayment is split *)

\* Variant: rounding up by always adding one.
DebtWithInterestPlusOne(p, totalDebt, totalPrincipal) ==
    CASE p = 0                            -> 0
      [] p # 0 /\ totalPrincipal = 0      -> p
      [] OTHER                            -> (p * totalDebt) \div totalPrincipal + 1

\* A ledger's principal with its share of the vault-wide interest, rounded up.
DebtWithInterest(p, totalDebt, totalPrincipal) ==
    CASE p = 0                            -> 0
      [] p # 0 /\ totalPrincipal = 0      -> p
      [] OTHER                            -> CeilDiv(p * totalDebt, totalPrincipal)

\* Variant: the vault rounds the principal up as the ledger does.
VaultPrincipalInRoundedUp(p, repay, debt) ==
    IF repay = 0 \/ p = 0 \/ debt = 0 THEN 0
    ELSE IF repay >= debt THEN p ELSE CeilDiv(repay * p, debt)

\* The vault takes the principal in a partial payment rounded down.
VaultPrincipalIn(p, repay, debt) ==
    IF repay = 0 \/ p = 0 \/ debt = 0 THEN 0
    ELSE IF repay >= debt THEN p ELSE (repay * p) \div debt

\* Variant: the ledger counts a payment against interest first.
LedgerPrincipalInInterestFirst(p, repay, debt) ==
    CASE repay >= debt                         -> p
      [] repay < debt /\ repay > debt - p      -> repay - (debt - p)
      [] OTHER                                 -> 0

\* The position ledger takes it rounded up.
LedgerPrincipalIn(p, repay, debt) ==
    IF repay >= debt THEN p ELSE CeilDiv(repay * p, debt)

-----------------------------------------------------------------------------
(* Leverage and health (ltv.move) *)

PositionFromMargin(margin, leverage) == MulBps(margin, leverage)

LeverageInBounds(leverage) == Bps <= leverage /\ leverage <= MaxLeverage * Bps

\* Leverage of a margin and a borrow; LeverageDefined is what the code asserts.
LeverageOf(margin, borrowed) ==
    IF borrowed = 0 THEN Bps ELSE ((margin + borrowed) * Bps) \div margin

LeverageDefined(margin, borrowed) ==
    borrowed = 0 \/ (margin > 0 /\ LeverageInBounds(LeverageOf(margin, borrowed)))

IsLeveraged(leverage) == leverage > Bps

HealthDebt(vaultDebt, marginDebt, leverage) ==
    CASE ~IsLeveraged(leverage)                  -> 0
      [] IsLeveraged(leverage) /\ vaultDebt > 0  -> vaultDebt
      [] OTHER                                   -> marginDebt

Health(quote, debt) == IF debt = 0 THEN Bps * 10 ELSE (quote * Bps) \div debt

IsLiquidatable(quote, debt, liquidationBps) ==
    debt # 0 /\ Health(quote, debt) < liquidationBps
=============================================================================
