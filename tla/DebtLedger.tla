------------------------------ MODULE DebtLedger ------------------------------
(***************************************************************************)
(* The debt of the position keys: what trade.move does to the vault and to *)
(* a key's ledger in one step.  A context t is one of LeverageVault and of *)
(* UserProxy.                                                              *)
(*                                                                         *)
(* The functions of trade.move come in two copies, for binary and range    *)
(* keys, that differ only in the key's type: one operator models both.     *)
(***************************************************************************)
EXTENDS LeverageVault, UserProxy

KeyDebt(t, k) == VaultDebtOf(t.vault, t.borrowed[k])

\* execute_borrow: the coin lands on the key, whose ledger records it.
ExecuteBorrow(t, k, amount) ==
    IF amount = 0 THEN t
    ELSE RecordBorrow(CreditKey(Borrow(t, amount), k, amount), k, amount)

\* A payment into a key's debt, at most the debt: the vault is repaid and the
\* ledger gives up the principal the payment covers, rounded up.
RepayKey(t, k, payment) ==
    RecordRepay(RepayVaultForLedger(t, t.borrowed[k], payment), k,
                LedgerPrincipalIn(t.borrowed[k], payment, KeyDebt(t, k)))

\* First the quote left on the key ...
CoverFromKey(t, k) ==
    LET cover == IF t.quote[k] >= KeyDebt(t, k) THEN KeyDebt(t, k) ELSE t.quote[k]
    IN  IF cover = 0 \/ t.borrowed[k] = 0 THEN t
        ELSE RepayKey(WithdrawFromKey(t, k, cover), k, cover)

\* ... then the insurance fund ...
CoverFromInsurance(t, k) ==
    LET fund  == t.vault.insurance_fund
        cover == IF fund >= KeyDebt(t, k) THEN KeyDebt(t, k) ELSE fund
    IN  IF cover = 0 \/ t.borrowed[k] = 0 THEN t
        ELSE RepayKey(TakeInsurance(t, cover), k, cover)

\* ... and the LPs lose the rest.
SocializeRest(t, k) ==
    IF t.borrowed[k] = 0 THEN t
    ELSE RecordRepay(WriteOffDebtForLedger(t, t.borrowed[k], KeyDebt(t, k)), k,
                     t.borrowed[k])

\* Variant: the fund is asked after the LPs have already paid.
WriteOffResidualLPsFirst(t, k) ==
    IF t.borrowed[k] = 0 THEN t
    ELSE CoverFromInsurance(SocializeRest(CoverFromKey(Accrue(t), k), k), k)

WriteOffResidual(t, k) ==
    IF t.borrowed[k] = 0 THEN t
    ELSE SocializeRest(CoverFromInsurance(CoverFromKey(Accrue(t), k), k), k)
=============================================================================
