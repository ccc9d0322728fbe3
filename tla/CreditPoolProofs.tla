--------------------------- MODULE CreditPoolProofs ----------------------------
(***************************************************************************)
(* The credit pool keeps its books, for every set of keys, every scale and *)
(* every amount (BooksBalance and the theorems after it), no LP takes from *)
(* another (SharesKeepTheirValue), and LPs are the last to pay for a debt  *)
(* (KeyAndFundPayFirst).                                                   *)
(*                                                                         *)
(* A transaction is a chain of operators on a context; each operator gets  *)
(* a lemma that says it leads from a sound context to a sound one and by   *)
(* how much it changes the quote the context holds.                        *)
(***************************************************************************)
EXTENDS CreditPool, ProtocolMathProofs

PoolVaults == [balance: Nat, total_borrowed: Nat, total_principal_borrowed: Nat,
               total_shares: Nat, insurance_fund: Nat, last_accrue_ms: Nat,
               rate: RateConfigs]

Contexts == [vault: PoolVaults, collector: Nat, paid: Nat, now: Nat, ok: BOOLEAN,
             borrowed: [Keys -> Nat], debtTotal: [Proxies -> Nat],
             quote: [Keys -> Nat], custody: [Proxies -> Nat]]

Typed(t) == t \in Contexts /\ t.vault.last_accrue_ms <= t.now

\* The vault's debt covers its principal, and its principal the ledgers'.
Covered(v) == /\ v.total_principal_borrowed <= v.total_borrowed
              /\ v.total_principal_borrowed = 0 => v.total_borrowed = 0
Backed(t)  == SumFunctionOnSet(t.borrowed, Keys) <= t.vault.total_principal_borrowed

\* A context has its type; unless the transaction aborted, its books balance.
Sound(t) == Typed(t) /\ (t.ok => Covered(t.vault) /\ Backed(t))

\* All the quote in a context.
Held(t) == t.vault.balance + t.vault.insurance_fund + t.collector + t.paid
             + SumFunctionOnSet(t.quote, Keys)

Accrued(t) == t.vault.last_accrue_ms = t.now

\* A call leads from t to a sound u that holds d more quote.
Step(t, u, d) == /\ Sound(u)
                 /\ u.now = t.now
                 /\ Accrued(t) => Accrued(u)
                 /\ u.ok => t.ok /\ Held(u) = Held(t) + d

-----------------------------------------------------------------------------

\* Interest keeps the type of the vault and only ever adds to the debt.
LEMMA AccruedVaultType ==
    ASSUME NEW v \in PoolVaults, NEW n \in Nat, v.last_accrue_ms <= n
    PROVE  /\ AccruedVault(v, n) \in PoolVaults
           /\ AccruedVault(v, n).last_accrue_ms = n
           /\ AccruedVault(v, n).total_borrowed >= v.total_borrowed
           /\ v.total_borrowed = 0 => AccruedVault(v, n).total_borrowed = 0
           /\ n = v.last_accrue_ms => AccruedVault(v, n).total_borrowed = v.total_borrowed
           /\ AccruedVault(v, n).balance = v.balance
           /\ AccruedVault(v, n).insurance_fund = v.insurance_fund
           /\ AccruedVault(v, n).total_principal_borrowed = v.total_principal_borrowed
           /\ AccruedVault(v, n).total_shares = v.total_shares
<1> DEFINE interest == InterestFor(v.total_borrowed, CurrentBorrowRate(v), n - v.last_accrue_ms)
<1>1. interest \in Nat
  <2>1. v.rate \in RateType
    BY PoolAssumption DEF PoolVaults
  <2>2. Nav(v) \in Nat
    BY DEF Nav, PoolVaults
  <2>3. Utilization(v) \in Nat
    <3>1. v.total_borrowed * Bps \in Nat
      BY MulNat, ScaleAssumption DEF PoolVaults
    <3> QED
      BY <2>2, <3>1, DivBounds DEF Utilization
  <2>4. CurrentBorrowRate(v) \in Nat
    BY <2>1, <2>3, BorrowRateNat, ScaleAssumption DEF CurrentBorrowRate, RateType
  <2>5. v.total_borrowed \in Nat /\ n - v.last_accrue_ms \in Nat
    BY DEF PoolVaults
  <2> QED
    BY <2>4, <2>5, InterestForNat
<1> HIDE DEF interest
<1>2. AccruedVault(v, n) =
        IF v.last_accrue_ms = 0 \/ n - v.last_accrue_ms = 0 \/ v.total_borrowed = 0
        THEN [v EXCEPT !.last_accrue_ms = n]
        ELSE [v EXCEPT !.total_borrowed = v.total_borrowed + interest, !.last_accrue_ms = n]
  BY DEF AccruedVault, interest
<1>3. CASE v.last_accrue_ms = 0 \/ n - v.last_accrue_ms = 0 \/ v.total_borrowed = 0
  <2>1. AccruedVault(v, n) = [v EXCEPT !.last_accrue_ms = n]
    BY <1>2, <1>3
  <2> QED
    BY <2>1 DEF PoolVaults
<1>4. CASE ~(v.last_accrue_ms = 0 \/ n - v.last_accrue_ms = 0 \/ v.total_borrowed = 0)
  <2>1. AccruedVault(v, n) =
          [v EXCEPT !.total_borrowed = v.total_borrowed + interest, !.last_accrue_ms = n]
    BY <1>2, <1>4
  <2>2. v.total_borrowed \in Nat /\ v.last_accrue_ms \in Nat /\ n # v.last_accrue_ms
    BY <1>4 DEF PoolVaults
  <2>3. AccruedVault(v, n) \in PoolVaults
    <3>1. v.total_borrowed + interest \in Nat
      BY <1>1, <2>2
    <3>2. ASSUME NEW d \in Nat
          PROVE  [v EXCEPT !.total_borrowed = d, !.last_accrue_ms = n] \in PoolVaults
      BY DEF PoolVaults
    <3> QED
      BY <2>1, <3>1, <3>2
  <2> QED
    BY <1>1, <1>4, <2>1, <2>2, <2>3 DEF PoolVaults
<1> QED
  BY <1>3, <1>4

-----------------------------------------------------------------------------
(* Calls in general *)

\* What a context holds is an amount.
LEMMA HeldNat == ASSUME NEW t, Typed(t) PROVE Held(t) \in Nat
<1>1. SumFunctionOnSet(t.quote, Keys) \in Nat
  BY SumNat, ProxyAssumption DEF Typed, Contexts
<1>2. /\ t.vault.balance \in Nat /\ t.vault.insurance_fund \in Nat
      /\ t.collector \in Nat /\ t.paid \in Nat
  BY DEF Typed, Contexts, PoolVaults
<1> QED
  BY <1>1, <1>2 DEF Held

\* Sound steps compose.
LEMMA StepTrans ==
    ASSUME NEW t, Sound(t), NEW u, NEW w, NEW d \in Int, NEW e \in Int,
           Step(t, u, d), Step(u, w, e)
    PROVE  Step(t, w, d + e)
<1>1. Held(t) \in Nat
  BY HeldNat DEF Sound
<1> QED
  BY <1>1 DEF Step

\* A call that does nothing is a sound step.
LEMMA StepSame == ASSUME NEW t, Sound(t) PROVE Step(t, t, 0)
<1>1. Held(t) \in Nat
  BY HeldNat DEF Sound
<1> QED
  BY <1>1 DEF Step

\* An aborted transaction keeps its type.
LEMMA AbortStep ==
    ASSUME NEW t, Sound(t), NEW d
    PROVE  Step(t, [t EXCEPT !.ok = FALSE], d)
BY DEF Step, Sound, Typed, Contexts, Accrued

\* An assertion in front of a sound step leaves it sound.
LEMMA StepRequire ==
    ASSUME NEW t, Sound(t), NEW cond, NEW after, NEW d, t.ok /\ cond => Step(t, after, d)
    PROVE  Step(t, Require(t, cond, after), d)
BY AbortStep DEF Require

-----------------------------------------------------------------------------
(* Interest                                                                *)

\* Accruing interest is a sound step that moves no quote.
LEMMA StepAccrue ==
    ASSUME NEW t, Sound(t)
    PROVE  /\ Step(t, Accrue(t), 0)
           /\ Accrued(Accrue(t))
           /\ Accrue(t).ok = t.ok
           /\ Accrue(t).borrowed = t.borrowed
           /\ Accrue(t).vault = AccruedVault(t.vault, t.now)
<1> DEFINE u == Accrue(t)
           v == AccruedVault(t.vault, t.now)
<1>1. u = [t EXCEPT !.vault = v]
  BY DEF Accrue
<1>2. /\ t \in Contexts /\ t.vault \in PoolVaults /\ t.now \in Nat
      /\ t.vault.last_accrue_ms <= t.now
  BY DEF Sound, Typed, Contexts
<1>3. /\ v \in PoolVaults
      /\ v.last_accrue_ms = t.now
      /\ v.total_borrowed >= t.vault.total_borrowed
      /\ t.vault.total_borrowed = 0 => v.total_borrowed = 0
      /\ v.balance = t.vault.balance
      /\ v.insurance_fund = t.vault.insurance_fund
      /\ v.total_principal_borrowed = t.vault.total_principal_borrowed
  BY <1>2, AccruedVaultType
<1> HIDE DEF v
<1>4. /\ u \in Contexts /\ u.vault = v /\ u.now = t.now /\ u.ok = t.ok
      /\ u.borrowed = t.borrowed /\ u.collector = t.collector
      /\ u.paid = t.paid /\ u.quote = t.quote
  BY <1>1, <1>2, <1>3 DEF Contexts
<1> HIDE DEF u
<1>5. Typed(u) /\ Accrued(u)
  BY <1>2, <1>3, <1>4 DEF Typed, Accrued
<1>6. u.ok => Covered(u.vault) /\ Backed(u)
  <2>1. /\ v.total_borrowed \in Nat /\ t.vault.total_borrowed \in Nat
        /\ t.vault.total_principal_borrowed \in Nat
    BY <1>2, <1>3 DEF PoolVaults
  <2> QED
    BY <1>3, <1>4, <2>1 DEF Sound, Covered, Backed
<1>7. Held(u) = Held(t) + 0
  <2>1. Held(t) \in Nat
    BY HeldNat DEF Sound
  <2> QED
    BY <1>3, <1>4, <2>1 DEF Held
<1> QED
  BY <1>4, <1>5, <1>6, <1>7 DEF Step, Sound, u, v

\* Within a transaction interest accrues once.
LEMMA AccrueOnce ==
    ASSUME NEW t, Typed(t), Accrued(t)
    PROVE  /\ Accrue(t).vault.total_borrowed = t.vault.total_borrowed
           /\ Accrue(t).vault.total_principal_borrowed = t.vault.total_principal_borrowed
<1>1. /\ t \in Contexts /\ t.vault \in PoolVaults /\ t.now \in Nat
      /\ t.vault.last_accrue_ms <= t.now /\ t.now = t.vault.last_accrue_ms
  BY DEF Typed, Contexts, Accrued
<1>2. Accrue(t).vault = AccruedVault(t.vault, t.now)
  BY <1>1 DEF Accrue, Contexts
<1> QED
  BY <1>1, <1>2, AccruedVaultType

-----------------------------------------------------------------------------
(* Key ledgers                                                             *)

\* Sound but for its ledgers, which may grow by d within the principal.
SoundBut(t, d) ==
    /\ Typed(t)
    /\ t.ok => /\ Covered(t.vault)
               /\ SumFunctionOnSet(t.borrowed, Keys) + d <= t.vault.total_principal_borrowed

\* Crediting a key adds the amount to what is held, and to nothing else.
LEMMA CreditKeyFacts ==
    ASSUME NEW t, Typed(t), NEW k \in Keys, NEW amount \in Nat
    PROVE  LET u == CreditKey(t, k, amount)
           IN  /\ Typed(u)
               /\ u.vault = t.vault /\ u.borrowed = t.borrowed
               /\ u.now = t.now /\ u.ok = t.ok
               /\ Held(u) = Held(t) + amount
<1> DEFINE u == CreditKey(t, k, amount)
<1>1. /\ t \in Contexts /\ ProxyOf[k] \in Proxies
      /\ t.quote \in [Keys -> Nat] /\ t.custody \in [Proxies -> Nat]
      /\ t.quote[k] \in Nat /\ t.custody[ProxyOf[k]] \in Nat
  BY ProxyAssumption DEF Typed, Contexts
<1>2. u = [t EXCEPT !.custody = [t.custody EXCEPT ![ProxyOf[k]] = t.custody[ProxyOf[k]] + amount],
                    !.quote = [t.quote EXCEPT ![k] = t.quote[k] + amount]]
  BY <1>1 DEF CreditKey, Contexts
<1> HIDE DEF u
<1>3. /\ [t.custody EXCEPT ![ProxyOf[k]] = t.custody[ProxyOf[k]] + amount] \in [Proxies -> Nat]
      /\ [t.quote EXCEPT ![k] = t.quote[k] + amount] \in [Keys -> Nat]
  BY <1>1
<1>4. /\ u \in Contexts /\ u.vault = t.vault /\ u.borrowed = t.borrowed /\ u.now = t.now
      /\ u.ok = t.ok /\ u.collector = t.collector /\ u.paid = t.paid
      /\ u.quote = [t.quote EXCEPT ![k] = t.quote[k] + amount]
  BY <1>1, <1>2, <1>3 DEF Contexts
<1>5. Held(u) = Held(t) + amount
  <2>1. /\ u.quote \in [Keys -> Nat] /\ u.quote[k] = t.quote[k] + amount
        /\ \A i \in Keys \ {k} : u.quote[i] = t.quote[i]
    BY <1>1, <1>3, <1>4
  <2>2. SumFunctionOnSet(u.quote, Keys) = SumFunctionOnSet(t.quote, Keys) - t.quote[k] + u.quote[k]
    BY <1>1, <2>1, SumChange, ProxyAssumption
  <2>3. /\ SumFunctionOnSet(t.quote, Keys) \in Nat
        /\ t.vault.balance \in Nat /\ t.vault.insurance_fund \in Nat
        /\ t.collector \in Nat /\ t.paid \in Nat
    BY <1>1, SumNat, ProxyAssumption DEF Contexts, PoolVaults
  <2> QED
    BY <1>1, <1>4, <2>1, <2>2, <2>3 DEF Held
<1> QED
  BY <1>4, <1>5 DEF Typed, u

\* Taking quote off a key takes as much from what is held.
LEMMA StepWithdrawFromKey ==
    ASSUME NEW t, Sound(t), NEW k \in Keys, NEW amount \in Nat
    PROVE  /\ Step(t, WithdrawFromKey(t, k, amount), 0 - amount)
           /\ WithdrawFromKey(t, k, amount).borrowed = t.borrowed
           /\ WithdrawFromKey(t, k, amount).vault = t.vault
<1> DEFINE u == [t EXCEPT !.custody[ProxyOf[k]] = @ - amount, !.quote[k] = @ - amount]
<1>1. /\ t \in Contexts /\ ProxyOf[k] \in Proxies
      /\ t.quote \in [Keys -> Nat] /\ t.custody \in [Proxies -> Nat]
      /\ t.quote[k] \in Nat /\ t.custody[ProxyOf[k]] \in Nat
  BY ProxyAssumption DEF Sound, Typed, Contexts
<1>2. u = [t EXCEPT !.custody = [t.custody EXCEPT ![ProxyOf[k]] = t.custody[ProxyOf[k]] - amount],
                    !.quote = [t.quote EXCEPT ![k] = t.quote[k] - amount]]
  BY <1>1 DEF Contexts
<1> HIDE DEF u
<1>3. ASSUME amount <= t.quote[k] /\ amount <= t.custody[ProxyOf[k]]
      PROVE  Step(t, u, 0 - amount)
  <2>1. /\ [t.custody EXCEPT ![ProxyOf[k]] = t.custody[ProxyOf[k]] - amount] \in [Proxies -> Nat]
        /\ [t.quote EXCEPT ![k] = t.quote[k] - amount] \in [Keys -> Nat]
    BY <1>1, <1>3
  <2>2. /\ u \in Contexts /\ u.vault = t.vault /\ u.borrowed = t.borrowed /\ u.now = t.now
        /\ u.ok = t.ok /\ u.collector = t.collector /\ u.paid = t.paid
        /\ u.quote = [t.quote EXCEPT ![k] = t.quote[k] - amount]
    BY <1>1, <1>2, <2>1 DEF Contexts
  <2>3. /\ u.quote \in [Keys -> Nat] /\ u.quote[k] = t.quote[k] - amount
        /\ \A i \in Keys \ {k} : u.quote[i] = t.quote[i]
    BY <1>1, <2>1, <2>2
  <2>4. SumFunctionOnSet(u.quote, Keys) = SumFunctionOnSet(t.quote, Keys) - t.quote[k] + u.quote[k]
    BY <1>1, <2>3, SumChange, ProxyAssumption
  <2>5. /\ SumFunctionOnSet(t.quote, Keys) \in Nat
        /\ t.vault.balance \in Nat /\ t.vault.insurance_fund \in Nat
        /\ t.collector \in Nat /\ t.paid \in Nat
    BY <1>1, SumNat, ProxyAssumption DEF Contexts, PoolVaults
  <2>6. Held(u) = Held(t) + (0 - amount)
    BY <1>1, <2>2, <2>3, <2>4, <2>5 DEF Held
  <2> QED
    BY <2>2, <2>6 DEF Step, Sound, Typed, Backed, Accrued
<1>4. WithdrawFromKey(t, k, amount) =
        Require(t, amount <= t.quote[k] /\ amount <= t.custody[ProxyOf[k]], u)
  BY DEF WithdrawFromKey, u
<1>5. Step(t, WithdrawFromKey(t, k, amount), 0 - amount)
  BY <1>3, <1>4, StepRequire
<1>6. u.borrowed = t.borrowed /\ u.vault = t.vault
  BY <1>1, <1>2 DEF Contexts
<1>7. [t EXCEPT !.ok = FALSE].borrowed = t.borrowed /\ [t EXCEPT !.ok = FALSE].vault = t.vault
  BY <1>1 DEF Contexts
<1> QED
  BY <1>4, <1>5, <1>6, <1>7 DEF Require

\* A key's ledger takes up the slack that was left for it.
LEMMA RecordBorrowFacts ==
    ASSUME NEW k \in Keys, NEW amount \in Nat, NEW t, SoundBut(t, amount)
    PROVE  LET u == RecordBorrow(t, k, amount)
           IN  /\ Sound(u)
               /\ u.now = t.now /\ u.ok = t.ok /\ u.vault = t.vault
               /\ Held(u) = Held(t)
<1> DEFINE u == RecordBorrow(t, k, amount)
<1>1. /\ t \in Contexts /\ ProxyOf[k] \in Proxies
      /\ t.borrowed \in [Keys -> Nat] /\ t.debtTotal \in [Proxies -> Nat]
      /\ t.borrowed[k] \in Nat /\ t.debtTotal[ProxyOf[k]] \in Nat
  BY ProxyAssumption DEF SoundBut, Typed, Contexts
<1>2. u = [t EXCEPT !.borrowed = [t.borrowed EXCEPT ![k] = t.borrowed[k] + amount],
                    !.debtTotal = [t.debtTotal EXCEPT ![ProxyOf[k]] = t.debtTotal[ProxyOf[k]] + amount]]
  BY <1>1 DEF RecordBorrow, Contexts
<1> HIDE DEF u
<1>3. /\ [t.debtTotal EXCEPT ![ProxyOf[k]] = t.debtTotal[ProxyOf[k]] + amount] \in [Proxies -> Nat]
      /\ [t.borrowed EXCEPT ![k] = t.borrowed[k] + amount] \in [Keys -> Nat]
  BY <1>1
<1>4. /\ u \in Contexts /\ u.vault = t.vault /\ u.quote = t.quote /\ u.now = t.now
      /\ u.ok = t.ok /\ u.collector = t.collector /\ u.paid = t.paid
      /\ u.borrowed = [t.borrowed EXCEPT ![k] = t.borrowed[k] + amount]
  BY <1>1, <1>2, <1>3 DEF Contexts
<1>5. SumFunctionOnSet(u.borrowed, Keys) = SumFunctionOnSet(t.borrowed, Keys) + amount
  <2>1. /\ u.borrowed \in [Keys -> Nat] /\ u.borrowed[k] = t.borrowed[k] + amount
        /\ \A i \in Keys \ {k} : u.borrowed[i] = t.borrowed[i]
    BY <1>1, <1>3, <1>4
  <2>2. SumFunctionOnSet(u.borrowed, Keys)
          = SumFunctionOnSet(t.borrowed, Keys) - t.borrowed[k] + u.borrowed[k]
    BY <1>1, <2>1, SumChange, ProxyAssumption
  <2>3. SumFunctionOnSet(t.borrowed, Keys) \in Nat
    BY <1>1, SumNat, ProxyAssumption
  <2> QED
    BY <1>1, <2>1, <2>2, <2>3
<1>6. Held(u) = Held(t)
  BY <1>4 DEF Held
<1> QED
  BY <1>4, <1>5, <1>6 DEF Sound, SoundBut, Typed, Backed, u

\* Giving up principal: at least as much as the vault was relieved of.
LEMMA RecordRepayFacts ==
    ASSUME NEW k \in Keys, NEW amount \in Nat, NEW t, SoundBut(t, 0 - amount)
    PROVE  LET u == RecordRepay(t, k, amount)
           IN  /\ Sound(u)
               /\ u.now = t.now /\ u.vault = t.vault
               /\ u.ok => t.ok /\ Held(u) = Held(t)
<1> DEFINE u == [t EXCEPT !.borrowed[k] = @ - amount, !.debtTotal[ProxyOf[k]] = @ - amount]
           cond == amount <= t.borrowed[k] /\ amount <= t.debtTotal[ProxyOf[k]]
<1>1. /\ t \in Contexts /\ ProxyOf[k] \in Proxies
      /\ t.borrowed \in [Keys -> Nat] /\ t.debtTotal \in [Proxies -> Nat]
      /\ t.borrowed[k] \in Nat /\ t.debtTotal[ProxyOf[k]] \in Nat
  BY ProxyAssumption DEF SoundBut, Typed, Contexts
<1>2. u = [t EXCEPT !.borrowed = [t.borrowed EXCEPT ![k] = t.borrowed[k] - amount],
                    !.debtTotal = [t.debtTotal EXCEPT ![ProxyOf[k]] = t.debtTotal[ProxyOf[k]] - amount]]
  BY <1>1 DEF Contexts
<1>3. RecordRepay(t, k, amount) = IF t.ok /\ cond THEN u ELSE [t EXCEPT !.ok = FALSE]
  BY DEF RecordRepay, Require
<1> HIDE DEF u
<1>4. CASE t.ok /\ cond
  <2>1. /\ [t.debtTotal EXCEPT ![ProxyOf[k]] = t.debtTotal[ProxyOf[k]] - amount] \in [Proxies -> Nat]
        /\ [t.borrowed EXCEPT ![k] = t.borrowed[k] - amount] \in [Keys -> Nat]
    BY <1>1, <1>4
  <2>2. /\ u \in Contexts /\ u.vault = t.vault /\ u.quote = t.quote /\ u.now = t.now
        /\ u.ok = t.ok /\ u.collector = t.collector /\ u.paid = t.paid
        /\ u.borrowed = [t.borrowed EXCEPT ![k] = t.borrowed[k] - amount]
    BY <1>1, <1>2, <2>1 DEF Contexts
  <2>3. SumFunctionOnSet(u.borrowed, Keys) = SumFunctionOnSet(t.borrowed, Keys) + (0 - amount)
    <3>1. /\ u.borrowed \in [Keys -> Nat] /\ u.borrowed[k] = t.borrowed[k] - amount
          /\ \A i \in Keys \ {k} : u.borrowed[i] = t.borrowed[i]
      BY <1>1, <2>1, <2>2
    <3>2. SumFunctionOnSet(u.borrowed, Keys)
            = SumFunctionOnSet(t.borrowed, Keys) - t.borrowed[k] + u.borrowed[k]
      BY <1>1, <3>1, SumChange, ProxyAssumption
    <3>3. SumFunctionOnSet(t.borrowed, Keys) \in Nat
      BY <1>1, SumNat, ProxyAssumption
    <3> QED
      BY <1>1, <3>1, <3>2, <3>3
  <2>4. Held(u) = Held(t)
    BY <2>2 DEF Held
  <2> QED
    BY <1>3, <1>4, <2>2, <2>3, <2>4 DEF Sound, SoundBut, Typed, Backed
<1>5. CASE ~(t.ok /\ cond)
  <2>1. RecordRepay(t, k, amount) = [t EXCEPT !.ok = FALSE]
    BY <1>3, <1>5
  <2> QED
    BY <1>1, <2>1 DEF Sound, SoundBut, Typed, Contexts
<1> QED
  BY <1>4, <1>5

-----------------------------------------------------------------------------
(* Borrowing                                                               *)

\* A loan leaves the idle balance and is owed from then on, in principal
\* too.
LEMMA BorrowFacts ==
    ASSUME NEW t, Sound(t), NEW amount \in Nat
    PROVE  LET u == Borrow(t, amount)
           IN  /\ SoundBut(u, amount)
               /\ u.now = t.now /\ Accrued(u)
               /\ u.ok => t.ok /\ Held(u) = Held(t) - amount
<1> DEFINE w == Accrue(t)
           u == [w EXCEPT !.vault.balance = @ - amount,
                          !.vault.total_borrowed = @ + amount,
                          !.vault.total_principal_borrowed = @ + amount]
<1>1. Sound(w) /\ w.now = t.now /\ w.ok = t.ok /\ Accrued(w) /\ (t.ok => Held(w) = Held(t) + 0)
  BY StepAccrue DEF Step
<1>2. Borrow(t, amount) =
        IF w.ok /\ amount > 0 /\ amount <= w.vault.balance THEN u ELSE [w EXCEPT !.ok = FALSE]
  BY DEF Borrow, Require
<1> HIDE DEF w
<1>3. /\ w \in Contexts /\ w.vault \in PoolVaults
      /\ w.vault.balance \in Nat /\ w.vault.total_borrowed \in Nat
      /\ w.vault.total_principal_borrowed \in Nat
  BY <1>1 DEF Sound, Typed, Contexts, PoolVaults
<1>4. CASE w.ok /\ amount > 0 /\ amount <= w.vault.balance
  <2> DEFINE v == [w.vault EXCEPT
                     !.balance = w.vault.balance - amount,
                     !.total_borrowed = w.vault.total_borrowed + amount,
                     !.total_principal_borrowed = w.vault.total_principal_borrowed + amount]
  <2>1. u = [w EXCEPT !.vault = v]
    BY <1>3 DEF Contexts, PoolVaults
  <2>2. /\ v \in PoolVaults
        /\ v.balance = w.vault.balance - amount
        /\ v.total_borrowed = w.vault.total_borrowed + amount
        /\ v.total_principal_borrowed = w.vault.total_principal_borrowed + amount
        /\ v.insurance_fund = w.vault.insurance_fund
        /\ v.last_accrue_ms = w.vault.last_accrue_ms
    <3>1. ASSUME NEW b \in Nat, NEW d \in Nat, NEW q \in Nat
          PROVE  [w.vault EXCEPT !.balance = b, !.total_borrowed = d,
                                 !.total_principal_borrowed = q] \in PoolVaults
      BY <1>3 DEF PoolVaults
    <3>2. /\ w.vault.balance - amount \in Nat
          /\ w.vault.total_borrowed + amount \in Nat
          /\ w.vault.total_principal_borrowed + amount \in Nat
      BY <1>3, <1>4
    <3>3. v \in PoolVaults
      BY <3>1, <3>2
    <3> QED
      BY <1>3, <3>3 DEF PoolVaults
  <2> HIDE DEF v, u
  <2>3. /\ u \in Contexts /\ u.vault = v /\ u.borrowed = w.borrowed /\ u.quote = w.quote
        /\ u.now = w.now /\ u.ok = w.ok /\ u.collector = w.collector /\ u.paid = w.paid
    BY <1>3, <2>1, <2>2 DEF Contexts
  <2>4. SoundBut(u, amount) /\ Accrued(u)
    <3>1. SumFunctionOnSet(w.borrowed, Keys) \in Nat
      BY <1>3, SumNat, ProxyAssumption DEF Contexts
    <3> QED
      BY <1>1, <1>3, <1>4, <2>2, <2>3, <3>1 DEF Sound, SoundBut, Typed, Covered, Backed, Accrued
  <2>5. Held(u) = Held(w) - amount
    <3>1. /\ SumFunctionOnSet(w.quote, Keys) \in Nat
          /\ w.vault.insurance_fund \in Nat /\ w.collector \in Nat /\ w.paid \in Nat
      BY <1>3, SumNat, ProxyAssumption DEF Contexts, PoolVaults
    <3> QED
      BY <1>3, <2>2, <2>3, <3>1 DEF Held
  <2>6. Held(w) = Held(t)
    <3>1. Held(t) \in Nat
      BY HeldNat DEF Sound
    <3> QED
      BY <1>1, <1>4, <3>1
  <2> QED
    BY <1>1, <1>2, <1>4, <2>3, <2>4, <2>5, <2>6
<1>5. CASE ~(w.ok /\ amount > 0 /\ amount <= w.vault.balance)
  <2>1. Borrow(t, amount) = [w EXCEPT !.ok = FALSE]
    BY <1>2, <1>5
  <2> QED
    BY <1>1, <1>3, <2>1 DEF Sound, SoundBut, Typed, Contexts, Accrued
<1> QED
  BY <1>4, <1>5

\* What the vault lends arrives on the key.
LEMMA StepExecuteBorrow ==
    ASSUME NEW t, Sound(t), NEW k \in Keys, NEW amount \in Nat
    PROVE  Step(t, ExecuteBorrow(t, k, amount), 0)
<1>1. CASE amount = 0
  BY <1>1, StepSame DEF ExecuteBorrow
<1>2. CASE amount # 0
  <2> DEFINE b == Borrow(t, amount)
             c == CreditKey(b, k, amount)
             u == RecordBorrow(c, k, amount)
  <2>1. ExecuteBorrow(t, k, amount) = u
    BY <1>2 DEF ExecuteBorrow
  <2>2. /\ SoundBut(b, amount) /\ b.now = t.now /\ Accrued(b)
        /\ b.ok => t.ok /\ Held(b) = Held(t) - amount
    BY BorrowFacts
  <2> HIDE DEF b
  <2>3. /\ Typed(c) /\ c.vault = b.vault /\ c.borrowed = b.borrowed
        /\ c.now = b.now /\ c.ok = b.ok /\ Held(c) = Held(b) + amount
    BY <2>2, CreditKeyFacts DEF SoundBut
  <2> HIDE DEF c
  <2>4. SoundBut(c, amount)
    BY <2>2, <2>3 DEF SoundBut
  <2>5. /\ Sound(u) /\ u.now = c.now /\ u.ok = c.ok /\ u.vault = c.vault
        /\ Held(u) = Held(c)
    BY <2>4, RecordBorrowFacts
  <2>6. Held(t) \in Nat
    BY HeldNat DEF Sound
  <2> QED
    BY <2>1, <2>2, <2>3, <2>5, <2>6 DEF Step, Accrued
<1> QED
  BY <1>1, <1>2

-----------------------------------------------------------------------------
(* Revenue, repayments and write-offs                                      *)

\* What a call that only moves quote leaves alone.
SameDebts(t, u) == /\ u.now = t.now /\ u.ok = t.ok
                   /\ u.borrowed = t.borrowed
                   /\ u.vault.total_borrowed = t.vault.total_borrowed
                   /\ u.vault.total_principal_borrowed = t.vault.total_principal_borrowed
                   /\ u.vault.last_accrue_ms = t.vault.last_accrue_ms

\* Quote moves between the vault's two funds, the collector and the sender;
\* debts, shares and ledgers stay.
Move(t, b, f, c, q) ==
    [t EXCEPT !.vault = [t.vault EXCEPT !.balance = b, !.insurance_fund = f],
              !.collector = c, !.paid = q]

\* What it adds to the quote held.
Gain(t, b, f, c, q) ==
    (b - t.vault.balance) + (f - t.vault.insurance_fund) + (c - t.collector) + (q - t.paid)

\* A call that only moves quote keeps the type and the debts of a context.
LEMMA MoveFacts ==
    ASSUME NEW t, Typed(t), NEW b \in Nat, NEW f \in Nat, NEW c \in Nat, NEW q \in Nat
    PROVE  LET u == Move(t, b, f, c, q)
           IN  /\ Typed(u) /\ SameDebts(t, u)
               /\ u.vault.balance = b
               /\ Held(u) = Held(t) + (b - t.vault.balance) + (f - t.vault.insurance_fund)
                              + (c - t.collector) + (q - t.paid)
<1> DEFINE u == Move(t, b, f, c, q)
           v == [t.vault EXCEPT !.balance = b, !.insurance_fund = f]
<1>1. /\ t \in Contexts /\ t.vault \in PoolVaults /\ t.vault.last_accrue_ms <= t.now
      /\ t.vault.balance \in Nat /\ t.vault.insurance_fund \in Nat
      /\ t.collector \in Nat /\ t.paid \in Nat
  BY DEF Typed, Contexts, PoolVaults
<1>2. /\ v \in PoolVaults /\ v.balance = b /\ v.insurance_fund = f
      /\ v.total_borrowed = t.vault.total_borrowed
      /\ v.total_principal_borrowed = t.vault.total_principal_borrowed
      /\ v.last_accrue_ms = t.vault.last_accrue_ms
  BY <1>1 DEF PoolVaults
<1> HIDE DEF v, u
<1>3. /\ u \in Contexts /\ u.vault = v /\ u.now = t.now /\ u.ok = t.ok
      /\ u.borrowed = t.borrowed /\ u.quote = t.quote /\ u.collector = c /\ u.paid = q
  <2>1. u = [t EXCEPT !.vault = v, !.collector = c, !.paid = q]
    BY DEF u, v, Move
  <2> QED
    BY <1>1, <1>2, <2>1 DEF Contexts
<1>4. SumFunctionOnSet(t.quote, Keys) \in Nat
  BY <1>1, SumNat, ProxyAssumption DEF Contexts
<1>5. Held(u) = Held(t) + (b - t.vault.balance) + (f - t.vault.insurance_fund)
                  + (c - t.collector) + (q - t.paid)
  BY <1>1, <1>2, <1>3, <1>4 DEF Held
<1> QED
  BY <1>1, <1>2, <1>3, <1>5 DEF Typed, SameDebts, u

\* What such a call changes of the quote held.
LEMMA MoveBy ==
    ASSUME NEW t, Typed(t), NEW b \in Nat, NEW f \in Nat, NEW c \in Nat, NEW q \in Nat
    PROVE  /\ Typed(Move(t, b, f, c, q)) /\ SameDebts(t, Move(t, b, f, c, q))
           /\ Held(Move(t, b, f, c, q)) = Held(t) + Gain(t, b, f, c, q)
<1>1. /\ t.vault.balance \in Nat /\ t.vault.insurance_fund \in Nat
      /\ t.collector \in Nat /\ t.paid \in Nat /\ Held(t) \in Nat
  BY HeldNat DEF Typed, Contexts, PoolVaults
<1> DEFINE u == Move(t, b, f, c, q)
<1> HIDE DEF u
<1>2. Typed(u) /\ SameDebts(t, u)
  BY MoveFacts DEF u
<1>3. Held(u) = Held(t) + (b - t.vault.balance) + (f - t.vault.insurance_fund)
                  + (c - t.collector) + (q - t.paid)
  BY MoveFacts DEF u
<1> QED
  BY <1>1, <1>2, <1>3 DEF u, Gain

\* Both splits of a revenue hand out exactly that revenue.
LEMMA DistributeFacts ==
    ASSUME NEW t, Typed(t), NEW total \in Nat
    PROVE  /\ LET u == DistributeProtocolFee(t, total)
              IN  Typed(u) /\ SameDebts(t, u) /\ Held(u) = Held(t) + total
           /\ LET u == DistributeLiquidationSurplus(t, total)
              IN  Typed(u) /\ SameDebts(t, u) /\ Held(u) = Held(t) + total
<1> DEFINE split == FeeSplit(total)
<1>1. /\ split.vault \in Nat /\ split.collector \in Nat /\ split.keeper \in Nat
      /\ split.vault + split.collector + split.keeper = total
  BY FeeSplitExact
<1>2. /\ t \in Contexts /\ t.vault \in PoolVaults
      /\ t.vault.balance \in Nat /\ t.vault.insurance_fund \in Nat
      /\ t.collector \in Nat /\ t.paid \in Nat
  BY DEF Typed, Contexts, PoolVaults
<1> HIDE DEF split
<1>3. LET u == DistributeProtocolFee(t, total)
      IN  Typed(u) /\ SameDebts(t, u) /\ Held(u) = Held(t) + total
  <2> DEFINE u == DistributeProtocolFee(t, total)
             b == t.vault.balance + split.vault
             f == t.vault.insurance_fund
             c == t.collector + split.collector
             q == t.paid + split.keeper
  <2>1. u = Move(t, b, f, c, q)
    BY <1>2 DEF DistributeProtocolFee, Move, split, Contexts, PoolVaults
  <2>2. /\ b \in Nat /\ f \in Nat /\ c \in Nat /\ q \in Nat
        /\ Gain(t, b, f, c, q) = total
    BY <1>1, <1>2 DEF Gain
  <2> HIDE DEF u, b, f, c, q
  <2>3. Typed(u) /\ SameDebts(t, u) /\ Held(u) = Held(t) + Gain(t, b, f, c, q)
    BY <2>1, <2>2, MoveBy
  <2> QED
    BY <2>2, <2>3 DEF u
<1>4. LET u == DistributeLiquidationSurplus(t, total)
      IN  Typed(u) /\ SameDebts(t, u) /\ Held(u) = Held(t) + total
  <2> DEFINE u == DistributeLiquidationSurplus(t, total)
             b == t.vault.balance
             f == t.vault.insurance_fund + split.vault
             c == t.collector + split.collector
             q == t.paid + split.keeper
  <2>1. u = Move(t, b, f, c, q)
    BY <1>2 DEF DistributeLiquidationSurplus, Move, split, Contexts, PoolVaults
  <2>2. /\ b \in Nat /\ f \in Nat /\ c \in Nat /\ q \in Nat
        /\ Gain(t, b, f, c, q) = total
    BY <1>1, <1>2 DEF Gain
  <2> HIDE DEF u, b, f, c, q
  <2>3. Typed(u) /\ SameDebts(t, u) /\ Held(u) = Held(t) + Gain(t, b, f, c, q)
    BY <2>1, <2>2, MoveBy
  <2> QED
    BY <2>2, <2>3 DEF u
<1> QED
  BY <1>3, <1>4

\* A repayment that is covered takes the debt and its principal down
\* together.
LEMMA ApplyRepaymentFacts ==
    ASSUME NEW t, Typed(t), NEW repay \in Nat, NEW principal \in Nat
    PROVE  LET u == ApplyRepayment(t, repay, principal)
           IN  /\ Typed(u) /\ u.now = t.now /\ u.borrowed = t.borrowed
               /\ u.vault.last_accrue_ms = t.vault.last_accrue_ms
               /\ Held(u) = Held(t)
               /\ u.ok => /\ t.ok
                          /\ repay <= t.vault.total_borrowed
                          /\ principal <= t.vault.total_principal_borrowed
                          /\ u.vault.total_borrowed = t.vault.total_borrowed - repay
                          /\ u.vault.total_principal_borrowed
                               = t.vault.total_principal_borrowed - principal
<1> DEFINE cond == /\ repay <= t.vault.total_borrowed
                   /\ principal <= t.vault.total_principal_borrowed
           v == [t.vault EXCEPT
                   !.total_borrowed = t.vault.total_borrowed - repay,
                   !.total_principal_borrowed = t.vault.total_principal_borrowed - principal]
           u == ApplyRepayment(t, repay, principal)
<1>1. /\ t \in Contexts /\ t.vault \in PoolVaults /\ t.vault.last_accrue_ms <= t.now
      /\ t.vault.total_borrowed \in Nat /\ t.vault.total_principal_borrowed \in Nat
  BY DEF Typed, Contexts, PoolVaults
<1>2. u = IF t.ok /\ cond THEN [t EXCEPT !.vault = v] ELSE [t EXCEPT !.ok = FALSE]
  BY <1>1 DEF ApplyRepayment, Require, Contexts, PoolVaults
<1> HIDE DEF u
<1>3. CASE t.ok /\ cond
  <2>1. /\ v \in PoolVaults
        /\ v.balance = t.vault.balance /\ v.insurance_fund = t.vault.insurance_fund
        /\ v.last_accrue_ms = t.vault.last_accrue_ms
        /\ v.total_borrowed = t.vault.total_borrowed - repay
        /\ v.total_principal_borrowed = t.vault.total_principal_borrowed - principal
    <3>1. ASSUME NEW d \in Nat, NEW p \in Nat
          PROVE  [t.vault EXCEPT !.total_borrowed = d, !.total_principal_borrowed = p] \in PoolVaults
      BY <1>1 DEF PoolVaults
    <3>2. /\ t.vault.total_borrowed - repay \in Nat
          /\ t.vault.total_principal_borrowed - principal \in Nat
      BY <1>1, <1>3
    <3> QED
      BY <1>1, <3>1, <3>2 DEF PoolVaults
  <2> HIDE DEF v
  <2>2. /\ u \in Contexts /\ u.vault = v /\ u.now = t.now /\ u.ok = t.ok
        /\ u.borrowed = t.borrowed /\ u.quote = t.quote /\ u.collector = t.collector
        /\ u.paid = t.paid
    BY <1>1, <1>2, <1>3, <2>1 DEF Contexts
  <2> QED
    BY <1>1, <1>3, <2>1, <2>2 DEF Typed, Held, u
<1>4. CASE ~(t.ok /\ cond)
  <2>1. u = [t EXCEPT !.ok = FALSE]
    BY <1>2, <1>4
  <2>2. /\ u \in Contexts /\ u.vault = t.vault /\ u.now = t.now /\ u.ok = FALSE
        /\ u.borrowed = t.borrowed /\ u.quote = t.quote /\ u.collector = t.collector
        /\ u.paid = t.paid
    BY <1>1, <2>1 DEF Contexts
  <2> QED
    BY <1>1, <2>2 DEF Typed, Held, u
<1> QED
  BY <1>3, <1>4

\* The vault's side of a payment against a ledger of principal p.
LEMMA RepayVaultFacts ==
    ASSUME NEW t, Sound(t), Accrued(t), NEW p \in Nat, NEW payment \in Nat,
           t.ok => p <= t.vault.total_principal_borrowed,
           payment <= VaultDebtOf(t.vault, p)
    PROVE  LET u == RepayVaultForLedger(t, p, payment)
           IN  /\ Typed(u) /\ Accrued(u)
               /\ u.now = t.now /\ u.borrowed = t.borrowed
               /\ u.ok => /\ t.ok /\ payment > 0 /\ Covered(u.vault)
                          /\ u.vault.total_principal_borrowed = t.vault.total_principal_borrowed
                               - VaultPrincipalIn(p, payment, VaultDebtOf(t.vault, p))
                          /\ Held(u) = Held(t) + payment
<1> DEFINE w    == Accrue(t)
           debt == VaultDebtOf(t.vault, p)
           v    == VaultPrincipalIn(p, payment, debt)
           paid == ApplyRepayment(w, payment, v)
           shared == DistributeProtocolFee(paid, payment - v)
           last == [shared EXCEPT !.vault.balance = @ + (payment - (payment - v))]
           u    == RepayVaultForLedger(t, p, payment)
<1>1. /\ Sound(w) /\ w.now = t.now /\ w.ok = t.ok /\ Accrued(w) /\ w.borrowed = t.borrowed
      /\ w.vault.total_borrowed = t.vault.total_borrowed
      /\ w.vault.total_principal_borrowed = t.vault.total_principal_borrowed
      /\ w.ok => Held(w) = Held(t) + 0
  BY StepAccrue, AccrueOnce DEF Step, Sound
<1>2. /\ t.vault.total_borrowed \in Nat /\ t.vault.total_principal_borrowed \in Nat
      /\ Held(t) \in Nat /\ Held(w) \in Nat
  BY <1>1, HeldNat DEF Sound, Typed, Contexts, PoolVaults
<1>3. debt \in Nat /\ v \in Nat
  BY <1>2, DebtNat, SplitNat DEF VaultDebtOf
<1>4. VaultDebtOf(w.vault, p) = debt
  BY <1>1 DEF VaultDebtOf
<1>5. u = Require(w, payment > 0 /\ v <= payment, last)
  <2>1. (IF payment >= debt THEN debt ELSE payment) = payment
    BY <1>3
  <2> HIDE DEF debt
  <2> QED
    BY <1>4, <2>1 DEF RepayVaultForLedger
<1> HIDE DEF u, w, debt, v, last, shared, paid
<1>6. CASE w.ok /\ payment > 0 /\ v <= payment
  <2>1. u = last
    BY <1>5, <1>6 DEF Require
  <2>2. /\ Typed(paid) /\ paid.now = w.now /\ paid.borrowed = w.borrowed
        /\ paid.vault.last_accrue_ms = w.vault.last_accrue_ms
        /\ Held(paid) = Held(w)
        /\ paid.ok => /\ payment <= w.vault.total_borrowed
                      /\ v <= w.vault.total_principal_borrowed
                      /\ paid.vault.total_borrowed = w.vault.total_borrowed - payment
                      /\ paid.vault.total_principal_borrowed
                           = w.vault.total_principal_borrowed - v
    <3>1. Typed(w) /\ payment \in Nat /\ v \in Nat
      BY <1>1, <1>3 DEF Sound
    <3> QED
      BY <3>1, ApplyRepaymentFacts DEF paid
  <2>3. /\ Typed(shared) /\ SameDebts(paid, shared)
        /\ Held(shared) = Held(paid) + (payment - v)
    <3>1. payment - v \in Nat
      BY <1>3, <1>6
    <3> QED
      BY <2>2, <3>1, DistributeFacts DEF shared
  <2>4. /\ shared \in Contexts /\ shared.vault \in PoolVaults
        /\ shared.vault.balance \in Nat /\ shared.vault.insurance_fund \in Nat
        /\ shared.collector \in Nat /\ shared.paid \in Nat
    BY <2>3 DEF Typed, Contexts, PoolVaults
  <2> DEFINE b == shared.vault.balance + (payment - (payment - v))
             f == shared.vault.insurance_fund
             c == shared.collector
             q == shared.paid
  <2>5. last = Move(shared, b, f, c, q)
    BY <2>4 DEF Move, Contexts, PoolVaults, last
  <2>6. /\ b \in Nat /\ f \in Nat /\ c \in Nat /\ q \in Nat
        /\ Gain(shared, b, f, c, q) = v
    BY <1>3, <2>4 DEF Gain
  <2> HIDE DEF b, f, c, q
  <2>7. Typed(last) /\ SameDebts(shared, last) /\ Held(last) = Held(shared) + v
    <3>1. Typed(shared) /\ b \in Nat /\ f \in Nat /\ c \in Nat /\ q \in Nat
      BY <2>3, <2>6
    <3> QED
      BY <2>5, <2>6, <3>1, MoveBy
  <2>8. Held(last) = Held(t) + payment
    BY <1>1, <1>2, <1>3, <1>6, <2>2, <2>3, <2>4, <2>6, <2>7
  <2>9. last.ok => Covered(last.vault)
    <3> SUFFICES ASSUME last.ok PROVE Covered(last.vault)
      OBVIOUS
    <3>1. paid.ok
      BY <2>3, <2>7 DEF SameDebts
    <3>2. /\ last.vault.total_borrowed = t.vault.total_borrowed - payment
          /\ last.vault.total_principal_borrowed = t.vault.total_principal_borrowed - v
      BY <1>1, <2>2, <2>3, <2>7, <3>1 DEF SameDebts
    <3>3. /\ t.vault.total_principal_borrowed <= t.vault.total_borrowed
          /\ t.vault.total_principal_borrowed = 0 => t.vault.total_borrowed = 0
          /\ p <= t.vault.total_principal_borrowed
      BY <1>1, <1>6 DEF Sound, Covered
    <3>4. /\ payment - v <= t.vault.total_borrowed - t.vault.total_principal_borrowed
          /\ t.vault.total_principal_borrowed - v = 0 => t.vault.total_borrowed - payment = 0
      <4> DEFINE D == t.vault.total_borrowed
                 P == t.vault.total_principal_borrowed
      <4>1. D \in Nat /\ P \in Nat /\ p <= P /\ P <= D /\ (P = 0 => D = 0)
        BY <1>2, <3>3
      <4>2. debt = DebtWithInterest(p, D, P) /\ v = VaultPrincipalIn(p, payment, debt)
        BY DEF debt, v, VaultDebtOf
      <4>3. payment <= DebtWithInterest(p, D, P)
        BY <4>2 DEF debt
      <4> HIDE DEF D, P
      <4>4. payment - v <= D - P /\ (P - v = 0 => D - payment = 0)
        BY <4>1, <4>2, <4>3, VaultSplitKeepsCover
      <4> QED
        BY <4>4 DEF D, P
    <3> QED
      BY <1>2, <1>3, <3>2, <3>4 DEF Covered
  <2> QED
    BY <1>1, <1>2, <1>3, <1>6, <2>1, <2>2, <2>3, <2>7, <2>8, <2>9 DEF SameDebts, Accrued, u, v, debt
<1>7. CASE ~(w.ok /\ payment > 0 /\ v <= payment)
  <2>1. u = [w EXCEPT !.ok = FALSE]
    BY <1>5, <1>7 DEF Require
  <2>2. /\ u \in Contexts /\ u.vault = w.vault /\ u.now = w.now /\ u.ok = FALSE
        /\ u.borrowed = w.borrowed
    BY <1>1, <2>1 DEF Sound, Typed, Contexts
  <2> QED
    BY <1>1, <2>2 DEF Sound, Typed, Accrued, u
<1> QED
  BY <1>6, <1>7

\* What the books say of a single key.
LEMMA KeyDebtFacts ==
    ASSUME NEW t, Sound(t), NEW k \in Keys
    PROVE  /\ t.borrowed[k] \in Nat /\ KeyDebt(t, k) \in Nat
           /\ KeyDebt(t, k) = VaultDebtOf(t.vault, t.borrowed[k])
           /\ t.borrowed[k] = 0 => KeyDebt(t, k) = 0
           /\ t.ok => /\ t.borrowed[k] <= t.vault.total_principal_borrowed
                      /\ t.borrowed[k] <= KeyDebt(t, k)
                      /\ KeyDebt(t, k) <= t.vault.total_borrowed
<1> DEFINE p == t.borrowed[k]
           D == t.vault.total_borrowed
           P == t.vault.total_principal_borrowed
<1>1. /\ t.borrowed \in [Keys -> Nat] /\ p \in Nat /\ D \in Nat /\ P \in Nat
  BY DEF Sound, Typed, Contexts, PoolVaults
<1>2. KeyDebt(t, k) = DebtWithInterest(p, D, P)
  BY DEF KeyDebt, VaultDebtOf
<1>3. SumFunctionOnSet(t.borrowed, Keys) \in Nat
  BY <1>1, SumNat, ProxyAssumption
<1>4. t.ok => p <= P /\ P <= D
  BY <1>1, <1>3, SumBound, ProxyAssumption DEF Sound, Covered, Backed
<1>5. KeyDebt(t, k) = VaultDebtOf(t.vault, t.borrowed[k])
  BY DEF KeyDebt
<1>6. p = 0 => KeyDebt(t, k) = 0
  BY <1>2 DEF DebtWithInterest
<1> HIDE DEF p, D, P
<1>7. DebtWithInterest(p, D, P) \in Nat
  BY <1>1, DebtNat
<1>8. t.ok => p <= DebtWithInterest(p, D, P) /\ DebtWithInterest(p, D, P) <= D
  BY <1>1, <1>4, DebtCoversLedger, DebtWithinVault
<1> QED
  BY <1>1, <1>2, <1>4, <1>5, <1>6, <1>7, <1>8 DEF p, D, P

\* The vault gives up no more principal than the ledger does.
LEMMA StepRepayKey ==
    ASSUME NEW t, Sound(t), Accrued(t), NEW k \in Keys, NEW payment \in Nat,
           payment <= KeyDebt(t, k)
    PROVE  Step(t, RepayKey(t, k, payment), payment)
<1> DEFINE p    == t.borrowed[k]
           debt == KeyDebt(t, k)
           v    == VaultPrincipalIn(p, payment, debt)
           l    == LedgerPrincipalIn(p, payment, debt)
           r    == RepayVaultForLedger(t, p, payment)
           u    == RepayKey(t, k, payment)
<1>1. /\ p \in Nat /\ debt \in Nat /\ debt = VaultDebtOf(t.vault, p)
      /\ p = 0 => debt = 0
      /\ t.ok => p <= t.vault.total_principal_borrowed
  BY KeyDebtFacts
<1>2. v \in Nat /\ l \in Nat
  BY <1>1, SplitNat
<1>3. u = RecordRepay(r, k, l)
  BY DEF RepayKey
<1>4. /\ t.vault.total_principal_borrowed \in Nat
      /\ SumFunctionOnSet(t.borrowed, Keys) \in Nat /\ Held(t) \in Nat
  BY SumNat, ProxyAssumption, HeldNat DEF Sound, Typed, Contexts, PoolVaults
<1> HIDE DEF debt, p
<1>5. /\ Typed(r) /\ Accrued(r) /\ r.now = t.now /\ r.borrowed = t.borrowed
      /\ r.ok => /\ t.ok /\ payment > 0 /\ Covered(r.vault)
                 /\ r.vault.total_principal_borrowed = t.vault.total_principal_borrowed - v
                 /\ Held(r) = Held(t) + payment
  BY <1>1, RepayVaultFacts DEF debt
<1> HIDE DEF r, u, v, l
<1>6. SoundBut(r, 0 - l)
  <2> SUFFICES ASSUME r.ok
               PROVE  SumFunctionOnSet(r.borrowed, Keys) + (0 - l)
                        <= r.vault.total_principal_borrowed
    BY <1>5 DEF SoundBut
  <2>1. p > 0 /\ payment <= debt
    BY <1>1, <1>5 DEF debt
  <2>2. v <= l
    BY <1>1, <2>1, SplitBounds DEF v, l
  <2>3. SumFunctionOnSet(t.borrowed, Keys) <= t.vault.total_principal_borrowed
    BY <1>5 DEF Sound, Backed
  <2> QED
    BY <1>2, <1>4, <1>5, <2>2, <2>3
<1>7. Sound(u) /\ u.now = r.now /\ u.vault = r.vault /\ (u.ok => r.ok /\ Held(u) = Held(r))
  BY <1>2, <1>3, <1>6, RecordRepayFacts
<1> QED
  BY <1>5, <1>7 DEF Step, Accrued, u

\* The key's own quote covers what it can: a sound step that loses no
\* quote.
LEMMA StepCoverFromKey ==
    ASSUME NEW t, Sound(t), Accrued(t), NEW k \in Keys
    PROVE  Step(t, CoverFromKey(t, k), 0)
<1> DEFINE cover == IF t.quote[k] >= KeyDebt(t, k) THEN KeyDebt(t, k) ELSE t.quote[k]
           w == WithdrawFromKey(t, k, cover)
<1>1. CoverFromKey(t, k) =
        IF cover = 0 \/ t.borrowed[k] = 0 THEN t ELSE RepayKey(w, k, cover)
  BY DEF CoverFromKey
<1>2. cover \in Nat /\ cover <= KeyDebt(t, k)
  <2>1. t.quote[k] \in Nat
    BY DEF Sound, Typed, Contexts
  <2> QED
    BY <2>1, KeyDebtFacts
<1> HIDE DEF cover
<1>3. Step(t, w, 0 - cover) /\ w.borrowed = t.borrowed /\ w.vault = t.vault
  BY <1>2, StepWithdrawFromKey
<1> HIDE DEF w
<1>4. Sound(w) /\ Accrued(w) /\ KeyDebt(w, k) = KeyDebt(t, k)
  BY <1>3 DEF Step, KeyDebt
<1>5. Step(w, RepayKey(w, k, cover), cover)
  BY <1>2, <1>4, StepRepayKey
<1>6. Step(t, RepayKey(w, k, cover), (0 - cover) + cover)
  BY <1>2, <1>3, <1>5, StepTrans
<1>7. (0 - cover) + cover = 0
  BY <1>2
<1> QED
  BY <1>1, <1>6, <1>7, StepSame

\* Cover taken from the insurance fund leaves what is held.
LEMMA StepTakeInsurance ==
    ASSUME NEW t, Sound(t), NEW amount \in Nat
    PROVE  /\ Step(t, TakeInsurance(t, amount), 0 - amount)
           /\ TakeInsurance(t, amount).borrowed = t.borrowed
           /\ TakeInsurance(t, amount).vault.total_borrowed = t.vault.total_borrowed
           /\ TakeInsurance(t, amount).vault.total_principal_borrowed
                = t.vault.total_principal_borrowed
<1> DEFINE cond == amount > 0 /\ amount <= t.vault.insurance_fund
           f == t.vault.insurance_fund - amount
           u == Move(t, t.vault.balance, f, t.collector, t.paid)
<1>1. /\ t \in Contexts /\ t.vault \in PoolVaults /\ Typed(t)
      /\ t.vault.balance \in Nat /\ t.vault.insurance_fund \in Nat
      /\ t.collector \in Nat /\ t.paid \in Nat
  BY DEF Sound, Typed, Contexts, PoolVaults
<1>2. TakeInsurance(t, amount) = IF t.ok /\ cond THEN u ELSE [t EXCEPT !.ok = FALSE]
  BY <1>1 DEF TakeInsurance, Require, Move, Contexts, PoolVaults
<1>3. CASE t.ok /\ cond
  <2> DEFINE b == t.vault.balance
             c == t.collector
             q == t.paid
  <2>1. /\ f \in Nat /\ b \in Nat /\ c \in Nat /\ q \in Nat
        /\ Gain(t, b, f, c, q) = 0 - amount
    BY <1>1, <1>3 DEF Gain
  <2>2. u = Move(t, b, f, c, q)
    OBVIOUS
  <2> HIDE DEF b, c, q, f, u
  <2>3. Typed(u) /\ SameDebts(t, u) /\ Held(u) = Held(t) + (0 - amount)
    BY <1>1, <2>1, <2>2, MoveBy
  <2>4. Step(t, u, 0 - amount)
    BY <2>3 DEF SameDebts, Step, Sound, Accrued, Covered, Backed
  <2> QED
    BY <1>2, <1>3, <2>3, <2>4 DEF SameDebts
<1>4. CASE ~(t.ok /\ cond)
  <2>1. TakeInsurance(t, amount) = [t EXCEPT !.ok = FALSE]
    BY <1>2, <1>4
  <2>2. [t EXCEPT !.ok = FALSE].borrowed = t.borrowed /\ [t EXCEPT !.ok = FALSE].vault = t.vault
    BY <1>1 DEF Contexts
  <2> QED
    BY <2>1, <2>2, AbortStep
<1> QED
  BY <1>3, <1>4

\* The insurance fund covers what it can and loses no quote by it.
LEMMA StepCoverFromInsurance ==
    ASSUME NEW t, Sound(t), Accrued(t), NEW k \in Keys
    PROVE  Step(t, CoverFromInsurance(t, k), 0)
<1> DEFINE fund  == t.vault.insurance_fund
           cover == IF fund >= KeyDebt(t, k) THEN KeyDebt(t, k) ELSE fund
           w == TakeInsurance(t, cover)
<1>1. CoverFromInsurance(t, k) =
        IF cover = 0 \/ t.borrowed[k] = 0 THEN t ELSE RepayKey(w, k, cover)
  BY DEF CoverFromInsurance
<1>2. cover \in Nat /\ cover <= KeyDebt(t, k)
  <2>1. fund \in Nat
    BY DEF Sound, Typed, Contexts, PoolVaults
  <2> QED
    BY <2>1, KeyDebtFacts
<1> HIDE DEF cover
<1>3. /\ Step(t, w, 0 - cover) /\ w.borrowed = t.borrowed
      /\ w.vault.total_borrowed = t.vault.total_borrowed
      /\ w.vault.total_principal_borrowed = t.vault.total_principal_borrowed
  BY <1>2, StepTakeInsurance
<1> HIDE DEF w
<1>4. Sound(w) /\ Accrued(w) /\ KeyDebt(w, k) = KeyDebt(t, k)
  BY <1>3 DEF Step, KeyDebt, VaultDebtOf
<1>5. Step(w, RepayKey(w, k, cover), cover)
  BY <1>2, <1>4, StepRepayKey
<1>6. Step(t, RepayKey(w, k, cover), (0 - cover) + cover)
  BY <1>2, <1>3, <1>5, StepTrans
<1>7. (0 - cover) + cover = 0
  BY <1>2
<1> QED
  BY <1>1, <1>6, <1>7, StepSame

\* The rest of a debt leaves the vault with exactly the principal the ledger
\* gives up.
LEMMA StepSocializeRest ==
    ASSUME NEW t, Sound(t), Accrued(t), NEW k \in Keys
    PROVE  Step(t, SocializeRest(t, k), 0)
<1> DEFINE p    == t.borrowed[k]
           debt == KeyDebt(t, k)
           v    == VaultPrincipalIn(p, debt, debt)
           r    == WriteOffDebtForLedger(t, p, debt)
           u    == RecordRepay(r, k, p)
<1>1. /\ p \in Nat /\ debt \in Nat /\ debt = VaultDebtOf(t.vault, p)
      /\ t.ok => /\ p <= t.vault.total_principal_borrowed /\ p <= debt
  BY KeyDebtFacts
<1>2. /\ t.vault.total_borrowed \in Nat /\ t.vault.total_principal_borrowed \in Nat
      /\ SumFunctionOnSet(t.borrowed, Keys) \in Nat /\ Held(t) \in Nat /\ Typed(t)
  BY SumNat, ProxyAssumption, HeldNat DEF Sound, Typed, Contexts, PoolVaults
<1>3. CASE p = 0
  BY <1>3, StepSame DEF SocializeRest
<1>4. CASE p # 0
  <2>1. SocializeRest(t, k) = u
    BY <1>4 DEF SocializeRest
  <2>2. r = IF debt = 0 THEN t ELSE ApplyRepayment(t, debt, v)
    BY <1>1, <1>4 DEF WriteOffDebtForLedger
  <2>3. v = IF debt = 0 THEN 0 ELSE p
    BY <1>1, <1>4 DEF VaultPrincipalIn
  <2> HIDE DEF r, u, v, debt, p
  <2>4. /\ Typed(r) /\ r.now = t.now /\ r.borrowed = t.borrowed /\ Accrued(r)
        /\ Held(r) = Held(t)
        /\ r.ok => /\ t.ok /\ debt # 0
                   /\ r.vault.total_borrowed = t.vault.total_borrowed - debt
                   /\ r.vault.total_principal_borrowed = t.vault.total_principal_borrowed - p
    <3>1. CASE debt = 0
      BY <1>1, <1>2, <1>4, <2>2, <3>1
    <3>2. CASE debt # 0
      <4> DEFINE z == ApplyRepayment(t, debt, p)
      <4>1. r = z
        BY <2>2, <2>3, <3>2
      <4>2. /\ Typed(z) /\ z.now = t.now /\ z.borrowed = t.borrowed
            /\ z.vault.last_accrue_ms = t.vault.last_accrue_ms /\ Held(z) = Held(t)
            /\ z.ok => /\ t.ok
                       /\ z.vault.total_borrowed = t.vault.total_borrowed - debt
                       /\ z.vault.total_principal_borrowed
                            = t.vault.total_principal_borrowed - p
        <5>1. debt \in Nat /\ p \in Nat /\ Typed(t)
          BY <1>1, <1>2
        <5> QED
          BY <5>1, ApplyRepaymentFacts
      <4> HIDE DEF z
      <4> QED
        BY <3>2, <4>1, <4>2 DEF Accrued
    <3> QED
      BY <3>1, <3>2
  <2>5. r.ok => Covered(r.vault)
    <3> SUFFICES ASSUME r.ok PROVE Covered(r.vault)
      OBVIOUS
    <3> DEFINE D == t.vault.total_borrowed
               P == t.vault.total_principal_borrowed
    <3>1. /\ D \in Nat /\ P \in Nat /\ p <= P /\ P <= D /\ (P = 0 => D = 0)
      BY <1>1, <1>2, <2>4 DEF Sound, Covered
    <3>2. debt = DebtWithInterest(p, D, P)
      BY <1>1 DEF VaultDebtOf
    <3>3. r.vault.total_borrowed = D - debt /\ r.vault.total_principal_borrowed = P - p
      BY <2>4
    <3> HIDE DEF D, P
    <3>4. debt <= DebtWithInterest(p, D, P)
      BY <1>1, <3>2
    <3>5. debt - v <= D - P /\ (P - v = 0 => D - debt = 0)
      BY <1>1, <3>1, <3>2, <3>4, VaultSplitKeepsCover DEF v
    <3>6. v = p
      BY <2>3, <2>4
    <3> QED
      BY <1>1, <3>1, <3>3, <3>5, <3>6 DEF Covered
  <2>6. SoundBut(r, 0 - p)
    <3>1. t.ok => SumFunctionOnSet(t.borrowed, Keys) <= t.vault.total_principal_borrowed
      BY DEF Sound, Backed
    <3> QED
      BY <1>1, <1>2, <2>4, <2>5, <3>1 DEF SoundBut
  <2>7. Sound(u) /\ u.now = r.now /\ u.vault = r.vault /\ (u.ok => r.ok /\ Held(u) = Held(r))
    BY <1>1, <2>6, RecordRepayFacts DEF u
  <2> QED
    BY <1>2, <2>1, <2>4, <2>7 DEF Step, Accrued
<1> QED
  BY <1>3, <1>4

\* A whole write-off is a sound step that loses no quote.
LEMMA StepWriteOffResidual ==
    ASSUME NEW t, Sound(t), NEW k \in Keys
    PROVE  Step(t, WriteOffResidual(t, k), 0)
<1> DEFINE a == Accrue(t)
           b == CoverFromKey(a, k)
           c == CoverFromInsurance(b, k)
           d == SocializeRest(c, k)
<1>1. WriteOffResidual(t, k) = IF t.borrowed[k] = 0 THEN t ELSE d
  BY DEF WriteOffResidual
<1>2. Step(t, a, 0) /\ Accrued(a)
  BY StepAccrue
<1>3. Sound(a)
  BY <1>2 DEF Step
<1> HIDE DEF a
<1>4. Step(a, b, 0) /\ Sound(b) /\ Accrued(b)
  BY <1>2, <1>3, StepCoverFromKey DEF Step
<1> HIDE DEF b
<1>5. Step(b, c, 0) /\ Sound(c) /\ Accrued(c)
  BY <1>4, StepCoverFromInsurance DEF Step
<1> HIDE DEF c
<1>6. Step(c, d, 0)
  BY <1>5, StepSocializeRest
<1> HIDE DEF d
<1>7. Step(t, b, 0 + 0)
  BY <1>2, <1>4, StepTrans
<1>8. Step(t, c, (0 + 0) + 0)
  BY <1>5, <1>7, StepTrans
<1>9. Step(t, d, ((0 + 0) + 0) + 0)
  BY <1>6, <1>8, StepTrans
<1> QED
  BY <1>1, <1>9, StepSame

-----------------------------------------------------------------------------
(* Liquidity providers, flash loans and the treasury                       *)

\* A call that only moves quote keeps a context sound.
LEMMA StepMove ==
    ASSUME NEW t, Sound(t), NEW u, Typed(u), SameDebts(t, u), NEW d, Held(u) = Held(t) + d
    PROVE  Step(t, u, d)
BY DEF SameDebts, Step, Sound, Accrued, Covered, Backed

\* A deposit adds its amount to what is held.
LEMMA StepSupply ==
    ASSUME NEW t, Sound(t), NEW amount \in Nat
    PROVE  Step(t, Supply(t, amount), amount)
<1> DEFINE shares == SharesFor(t.vault, amount)
           v == [t.vault EXCEPT !.balance = t.vault.balance + amount,
                                !.total_shares = t.vault.total_shares + shares]
           u == [t EXCEPT !.vault = v]
<1>1. /\ t \in Contexts /\ t.vault \in PoolVaults /\ Typed(t)
      /\ t.vault.balance \in Nat /\ t.vault.total_shares \in Nat
      /\ t.vault.insurance_fund \in Nat
  BY DEF Sound, Typed, Contexts, PoolVaults
<1>2. shares \in Nat
  <2>1. Nav(t.vault) \in Nat
    BY <1>1 DEF Nav, PoolVaults
  <2>2. amount * t.vault.total_shares \in Nat
    BY <1>1, MulNat
  <2>3. CASE t.vault.total_shares # 0 /\ Nav(t.vault) # 0
    BY <2>1, <2>2, <2>3, DivBounds DEF SharesFor
  <2> QED
    BY <2>3 DEF SharesFor
<1>3. Supply(t, amount) = Require(t, amount > 0 /\ shares > 0, u)
  BY <1>1 DEF Supply, Contexts, PoolVaults
<1> HIDE DEF shares
<1>4. /\ v \in PoolVaults
      /\ v.balance = t.vault.balance + amount
      /\ v.insurance_fund = t.vault.insurance_fund
      /\ v.total_borrowed = t.vault.total_borrowed
      /\ v.total_principal_borrowed = t.vault.total_principal_borrowed
      /\ v.last_accrue_ms = t.vault.last_accrue_ms
  <2>1. ASSUME NEW b \in Nat, NEW s \in Nat
        PROVE  [t.vault EXCEPT !.balance = b, !.total_shares = s] \in PoolVaults
    BY <1>1 DEF PoolVaults
  <2>2. t.vault.balance + amount \in Nat /\ t.vault.total_shares + shares \in Nat
    BY <1>1, <1>2
  <2> QED
    BY <1>1, <2>1, <2>2 DEF PoolVaults
<1> HIDE DEF v
<1>5. /\ u \in Contexts /\ u.vault = v /\ u.now = t.now /\ u.ok = t.ok
      /\ u.borrowed = t.borrowed /\ u.quote = t.quote /\ u.collector = t.collector
      /\ u.paid = t.paid
  BY <1>1, <1>4 DEF Contexts
<1> HIDE DEF u
<1>6. Typed(u) /\ SameDebts(t, u)
  BY <1>1, <1>4, <1>5 DEF Typed, SameDebts
<1>7. Held(u) = Held(t) + amount
  <2>1. /\ SumFunctionOnSet(t.quote, Keys) \in Nat
        /\ t.collector \in Nat /\ t.paid \in Nat
    BY <1>1, SumNat, ProxyAssumption DEF Contexts
  <2> QED
    BY <1>1, <1>4, <1>5, <2>1 DEF Held
<1> QED
  BY <1>3, <1>6, <1>7, StepMove, StepRequire

\* A withdrawal takes the quote of its shares from what is held.
LEMMA StepWithdraw ==
    ASSUME NEW t, Sound(t), NEW shares \in Nat
    PROVE  /\ Step(t, Withdraw(t, shares), 0 - QuoteFor(t.vault, shares))
           /\ Withdraw(t, shares).ok => QuoteFor(t.vault, shares) \in Nat
<1> DEFINE amount == QuoteFor(t.vault, shares)
           cond == 0 < shares /\ shares <= t.vault.total_shares /\ amount <= t.vault.balance
           v == [t.vault EXCEPT !.balance = t.vault.balance - amount,
                                !.total_shares = t.vault.total_shares - shares]
           u == [t EXCEPT !.vault = v]
<1>1. /\ t \in Contexts /\ t.vault \in PoolVaults /\ Typed(t)
      /\ t.vault.balance \in Nat /\ t.vault.total_shares \in Nat
      /\ t.vault.insurance_fund \in Nat
  BY DEF Sound, Typed, Contexts, PoolVaults
<1>2. ASSUME cond PROVE amount \in Nat
  <2>1. Nav(t.vault) \in Nat
    BY <1>1 DEF Nav, PoolVaults
  <2>2. shares * Nav(t.vault) \in Nat
    BY <2>1, MulNat
  <2>3. t.vault.total_shares \in Nat \ {0}
    BY <1>1, <1>2
  <2> QED
    BY <2>2, <2>3, DivBounds DEF QuoteFor
<1>3. Withdraw(t, shares) = Require(t, cond, u)
  BY <1>1 DEF Withdraw, Contexts, PoolVaults
<1> HIDE DEF amount
<1>4. ASSUME t.ok /\ cond PROVE Step(t, u, 0 - amount)
  <2>1. /\ v \in PoolVaults
        /\ v.balance = t.vault.balance - amount
        /\ v.insurance_fund = t.vault.insurance_fund
        /\ v.total_borrowed = t.vault.total_borrowed
        /\ v.total_principal_borrowed = t.vault.total_principal_borrowed
        /\ v.last_accrue_ms = t.vault.last_accrue_ms
    <3>1. ASSUME NEW b \in Nat, NEW s \in Nat
          PROVE  [t.vault EXCEPT !.balance = b, !.total_shares = s] \in PoolVaults
      BY <1>1 DEF PoolVaults
    <3>2. t.vault.balance - amount \in Nat /\ t.vault.total_shares - shares \in Nat
      BY <1>1, <1>2, <1>4
    <3> QED
      BY <1>1, <3>1, <3>2 DEF PoolVaults
  <2> HIDE DEF v
  <2>2. /\ u \in Contexts /\ u.vault = v /\ u.now = t.now /\ u.ok = t.ok
        /\ u.borrowed = t.borrowed /\ u.quote = t.quote /\ u.collector = t.collector
        /\ u.paid = t.paid
    BY <1>1, <2>1 DEF Contexts
  <2> HIDE DEF u
  <2>3. Typed(u) /\ SameDebts(t, u)
    BY <1>1, <2>1, <2>2 DEF Typed, SameDebts
  <2>4. Held(u) = Held(t) + (0 - amount)
    <3>1. /\ SumFunctionOnSet(t.quote, Keys) \in Nat
          /\ t.collector \in Nat /\ t.paid \in Nat
      BY <1>1, SumNat, ProxyAssumption DEF Contexts
    <3> QED
      BY <1>1, <1>2, <1>4, <2>1, <2>2, <3>1 DEF Held
  <2> QED
    BY <2>3, <2>4, StepMove
<1> HIDE DEF u, cond
<1>5. Step(t, Withdraw(t, shares), 0 - amount)
  BY <1>3, <1>4, StepRequire
<1>6. Withdraw(t, shares).ok => cond
  <2>1. [t EXCEPT !.ok = FALSE].ok = FALSE
    BY <1>1 DEF Contexts
  <2> QED
    BY <1>3, <2>1 DEF Require
<1> QED
  BY <1>2, <1>5, <1>6 DEF amount

\* The admin's withdrawal of fees is paid to the sender.
LEMMA StepCollectorWithdraw ==
    ASSUME NEW t, Sound(t), NEW amount \in Nat
    PROVE  Step(t, CollectorWithdraw(t, amount), 0)
<1> DEFINE cond == amount > 0 /\ amount <= t.collector
           b == t.vault.balance
           f == t.vault.insurance_fund
           c == t.collector - amount
           q == t.paid + amount
           u == Move(t, b, f, c, q)
<1>1. /\ t \in Contexts /\ t.vault \in PoolVaults /\ Typed(t)
      /\ b \in Nat /\ f \in Nat /\ t.collector \in Nat /\ t.paid \in Nat
  BY DEF Sound, Typed, Contexts, PoolVaults
<1>2. CollectorWithdraw(t, amount) = Require(t, cond, u)
  BY <1>1 DEF CollectorWithdraw, Move, Contexts, PoolVaults
<1>3. ASSUME cond PROVE Step(t, u, 0)
  <2>1. /\ b \in Nat /\ f \in Nat /\ c \in Nat /\ q \in Nat
        /\ Gain(t, b, f, c, q) = 0
    BY <1>1, <1>3 DEF Gain
  <2>2. u = Move(t, b, f, c, q)
    OBVIOUS
  <2> HIDE DEF b, f, c, q, u
  <2>3. Typed(u) /\ SameDebts(t, u) /\ Held(u) = Held(t) + 0
    BY <1>1, <2>1, <2>2, MoveBy
  <2> QED
    BY <2>3, StepMove
<1> QED
  BY <1>2, <1>3, StepRequire

\* A flash loan takes its amount from what is held.
LEMMA StepBorrowFlash ==
    ASSUME NEW t, Sound(t), NEW amount \in Nat
    PROVE  Step(t, BorrowFlash(t, amount), 0 - amount)
<1> DEFINE w == Accrue(t)
           cond == amount > 0 /\ amount <= w.vault.balance
           b == w.vault.balance - amount
           f == w.vault.insurance_fund
           c == w.collector
           q == w.paid
           u == Move(w, b, f, c, q)
<1>1. Step(t, w, 0) /\ Sound(w)
  BY StepAccrue DEF Step
<1>2. BorrowFlash(t, amount) = Require(w, cond, [w EXCEPT !.vault.balance = @ - amount])
  BY DEF BorrowFlash
<1> HIDE DEF w
<1>3. /\ w \in Contexts /\ w.vault \in PoolVaults /\ Typed(w)
      /\ w.vault.balance \in Nat /\ f \in Nat /\ c \in Nat /\ q \in Nat
  BY <1>1 DEF Sound, Typed, Contexts, PoolVaults
<1>4. BorrowFlash(t, amount) = Require(w, cond, u)
  BY <1>2, <1>3 DEF Move, Contexts, PoolVaults
<1>5. ASSUME cond PROVE Step(w, u, 0 - amount)
  <2>1. /\ b \in Nat /\ f \in Nat /\ c \in Nat /\ q \in Nat
        /\ Gain(w, b, f, c, q) = 0 - amount
    BY <1>3, <1>5 DEF Gain
  <2>2. u = Move(w, b, f, c, q)
    OBVIOUS
  <2> HIDE DEF b, f, c, q, u
  <2>3. Typed(u) /\ SameDebts(w, u) /\ Held(u) = Held(w) + (0 - amount)
    BY <1>3, <2>1, <2>2, MoveBy
  <2> QED
    BY <1>1, <2>3, StepMove
<1> HIDE DEF u, cond
<1>6. Step(w, BorrowFlash(t, amount), 0 - amount)
  BY <1>1, <1>4, <1>5, StepRequire
<1>7. Step(t, BorrowFlash(t, amount), 0 + (0 - amount))
  BY <1>1, <1>6, StepTrans
<1>8. 0 + (0 - amount) = 0 - amount
  OBVIOUS
<1> QED
  BY <1>7, <1>8

\* Repaying a flash loan returns the amount, the fee and the surplus.
LEMMA StepRepayFlash ==
    ASSUME NEW t, Sound(t), NEW amount \in Nat, NEW fee \in Nat, NEW payment \in Nat
    PROVE  Step(t, RepayFlash(t, amount, fee, payment), payment)
<1> DEFINE w == Accrue(t)
           b == w.vault.balance + amount
           f == w.vault.insurance_fund
           c == w.collector
           q == w.paid
           u == Move(w, b, f, c, q)
           fed == DistributeProtocolFee(u, fee)
           done == DistributeLiquidationSurplus(fed, payment - amount - fee)
           back == [w EXCEPT !.vault.balance = @ + amount]
<1>1. Step(t, w, 0) /\ Sound(w)
  BY StepAccrue DEF Step
<1>2. RepayFlash(t, amount, fee, payment) =
        Require(back, payment >= amount + fee,
                DistributeLiquidationSurplus(DistributeProtocolFee(back, fee),
                                             payment - amount - fee))
  BY DEF RepayFlash
<1> HIDE DEF w
<1>3. /\ w \in Contexts /\ w.vault \in PoolVaults /\ Typed(w)
      /\ w.vault.balance \in Nat /\ f \in Nat /\ c \in Nat /\ q \in Nat
  BY <1>1 DEF Sound, Typed, Contexts, PoolVaults
<1>4. back = u
  BY <1>3 DEF Move, Contexts, PoolVaults
<1>5. Typed(u) /\ SameDebts(w, u) /\ Held(u) = Held(w) + amount /\ Step(w, u, amount)
  <2>1. /\ b \in Nat /\ f \in Nat /\ c \in Nat /\ q \in Nat
        /\ Gain(w, b, f, c, q) = amount
    BY <1>3 DEF Gain
  <2>2. u = Move(w, b, f, c, q)
    OBVIOUS
  <2> HIDE DEF b, f, c, q, u
  <2>3. Typed(u) /\ SameDebts(w, u) /\ Held(u) = Held(w) + amount
    BY <1>3, <2>1, <2>2, MoveBy
  <2> QED
    BY <1>1, <2>3, StepMove
<1> HIDE DEF back, u
<1>6. RepayFlash(t, amount, fee, payment) = Require(u, payment >= amount + fee, done)
  BY <1>2, <1>4
<1>7. Sound(u)
  BY <1>5 DEF Step
<1>8. ASSUME payment >= amount + fee PROVE Step(u, done, payment - amount)
  <2>1. Typed(fed) /\ SameDebts(u, fed) /\ Held(fed) = Held(u) + fee
    BY <1>5, DistributeFacts
  <2> HIDE DEF fed
  <2>2. payment - amount - fee \in Nat
    BY <1>8
  <2>3. Typed(done) /\ SameDebts(fed, done) /\ Held(done) = Held(fed) + (payment - amount - fee)
    BY <2>1, <2>2, DistributeFacts
  <2> HIDE DEF done
  <2>4. Step(u, fed, fee) /\ Sound(fed)
    BY <1>7, <2>1, StepMove DEF Step
  <2>5. Step(fed, done, payment - amount - fee)
    BY <2>3, <2>4, StepMove
  <2>6. Step(u, done, fee + (payment - amount - fee))
    BY <1>7, <2>2, <2>4, <2>5, StepTrans
  <2>7. fee + (payment - amount - fee) = payment - amount
    OBVIOUS
  <2> QED
    BY <2>6, <2>7
<1> HIDE DEF done
<1>9. Step(u, RepayFlash(t, amount, fee, payment), payment - amount)
  BY <1>6, <1>7, <1>8, StepRequire
<1>10. Step(t, u, 0 + amount)
  BY <1>1, <1>5, StepTrans
<1>11. Step(t, RepayFlash(t, amount, fee, payment), (0 + amount) + (payment - amount))
  <2>1. 0 + amount \in Int /\ payment - amount \in Int
    OBVIOUS
  <2> QED
    BY <1>9, <1>10, <2>1, StepTrans
<1>12. (0 + amount) + (payment - amount) = payment
  OBVIOUS
<1> QED
  BY <1>11, <1>12

-----------------------------------------------------------------------------
(* The states of the pool                                                  *)

\* Between transactions the books balance and hold, with the purse, all the
\* quote there is.
Books == /\ Sound(Context)
         /\ purse \in Nat
         /\ Held(Context) + purse = TotalQuote

\* The context that the next transaction starts from.
After(t) == [vault |-> t.vault, collector |-> t.collector, paid |-> 0, now |-> now,
             ok |-> TRUE, borrowed |-> t.borrowed, debtTotal |-> t.debtTotal,
             quote |-> t.quote, custody |-> t.custody]

\* A transaction that commits: it may have taken payIn from the purse and
\* returned payOut besides what it paid the sender.
LEMMA CommitKeepsBooks ==
    ASSUME Books, NEW t, NEW payIn \in Nat, NEW payOut \in Nat,
           Step(Context, t, payIn - payOut), Commit(t, payIn, payOut)
    PROVE  Books'
<1>1. Context.now = now /\ Context.paid = 0 /\ Context.ok
  BY DEF Context
<1>2. /\ t.ok /\ Sound(t) /\ t.now = now
      /\ Held(t) = Held(Context) + (payIn - payOut)
  BY <1>1 DEF Commit, Step
<1>3. /\ t \in Contexts /\ t.paid \in Nat /\ t.vault.last_accrue_ms <= now
      /\ Covered(t.vault) /\ Backed(t)
  BY <1>2 DEF Sound, Typed, Contexts
<1>4. /\ Held(t) \in Nat /\ Held(Context) \in Nat
  BY <1>2, HeldNat DEF Sound, Books
<1>5. After(t) \in Contexts
  <2>1. now \in Nat
    BY DEF Books, Sound, Typed, Contexts, Context
  <2> QED
    BY <1>3, <2>1 DEF After, Contexts
<1>6. Sound(After(t))
  BY <1>3, <1>5 DEF After, Sound, Typed, Backed
<1>7. Held(After(t)) + (purse - payIn + payOut + t.paid) = TotalQuote
  <2>1. /\ SumFunctionOnSet(t.quote, Keys) \in Nat
        /\ t.vault.balance \in Nat /\ t.vault.insurance_fund \in Nat /\ t.collector \in Nat
    BY <1>3, SumNat, ProxyAssumption DEF Contexts, PoolVaults
  <2>2. Held(After(t)) = Held(t) - t.paid
    BY <1>3, <2>1 DEF After, Held
  <2>3. Held(Context) + purse = TotalQuote /\ purse \in Nat
    BY DEF Books
  <2> QED
    BY <1>2, <1>3, <1>4, <2>2, <2>3
<1>8. purse - payIn + payOut + t.paid \in Nat
  BY <1>3 DEF Commit, Books
<1> QED
  BY <1>6, <1>7, <1>8 DEF Commit, Books, Context, After, Sound, Typed, Contexts, Held,
                          Covered, Backed

\* The books of an empty vault balance.
LEMMA InitBooks == Init => Books
<1> SUFFICES ASSUME Init PROVE Books
  OBVIOUS
<1> DEFINE c == Context
           none == [k \in Keys |-> 0]
<1>1. EmptyVault(InitialRate) \in PoolVaults
  BY PoolAssumption DEF EmptyVault, PoolVaults
<1>2. /\ c \in Contexts /\ c.vault = EmptyVault(InitialRate) /\ c.now = 1
      /\ c.borrowed = none /\ c.quote = none /\ c.collector = 0 /\ c.paid = 0
  BY <1>1 DEF Init, Context, Contexts
<1>3. SumFunctionOnSet(none, Keys) = 0
  BY SumZero, ProxyAssumption
<1> HIDE DEF c, none
<1>4. Sound(c)
  BY <1>2, <1>3 DEF Sound, Typed, Covered, Backed, EmptyVault
<1>5. Held(c) = 0
  BY <1>2, <1>3 DEF Held, EmptyVault
<1>6. TotalQuote \in Nat /\ purse = TotalQuote
  BY PoolAssumption DEF Init
<1> QED
  BY <1>4, <1>5, <1>6 DEF Books, c

\* The clock disturbs nothing.
LEMMA TickKeepsBooks ==
    ASSUME Books, NEW d \in Ticks, Tick(d)
    PROVE  Books'
<1>1. /\ Context \in Contexts /\ vault.last_accrue_ms <= now /\ now \in Nat
      /\ vault \in PoolVaults
  BY DEF Books, Sound, Typed, Contexts, Context
<1>2. d \in Nat
  BY PoolAssumption
<1>3. /\ vault' = vault /\ collector' = collector /\ borrowed' = borrowed
      /\ debtTotal' = debtTotal /\ quote' = quote /\ custody' = custody
      /\ purse' = purse /\ now' = now + d
  BY DEF Tick
<1>4. Typed(Context)'
  BY <1>1, <1>2, <1>3 DEF Typed, Context, Contexts, PoolVaults
<1> QED
  BY <1>3, <1>4 DEF Books, Sound, Covered, Backed, Held, Context

\* The actions, one at a time.
LEMMA LiquidityKeepsBooks ==
    ASSUME Books, NEW a \in PoolAmounts,
           \/ DepositLiquidity(a) \/ SupplyUnaccrued(a)
           \/ WithdrawLiquidity(a) \/ WithdrawUnaccrued(a)
    PROVE  Books'
<1>1. a \in Nat /\ Sound(Context) /\ Context.vault = vault
  BY PoolAssumption DEF Books, Context
<1> DEFINE w == Accrue(Context)
<1>2. Step(Context, w, 0) /\ Sound(w)
  BY <1>1, StepAccrue DEF Step
<1> HIDE DEF w
<1>3. CASE DepositLiquidity(a)
  <2>1. Step(w, Supply(w, a), a)
    BY <1>1, <1>2, StepSupply
  <2>2. Step(Context, Supply(w, a), 0 + a)
    BY <1>1, <1>2, <2>1, StepTrans
  <2>3. 0 + a = a - 0 /\ 0 \in Nat
    BY <1>1
  <2>4. Commit(Supply(w, a), a, 0)
    BY <1>3 DEF DepositLiquidity, w
  <2> QED
    BY <1>1, <2>2, <2>3, <2>4, CommitKeepsBooks
<1>4. CASE SupplyUnaccrued(a)
  <2>1. Step(Context, Supply(Context, a), a - 0)
    BY <1>1, StepSupply
  <2>2. Commit(Supply(Context, a), a, 0)
    BY <1>4 DEF SupplyUnaccrued
  <2> QED
    BY <1>1, <2>1, <2>2, CommitKeepsBooks
<1>5. CASE WithdrawLiquidity(a)
  <2> DEFINE u == Withdraw(w, a)
             out == QuoteFor(w.vault, a)
  <2>1. Commit(u, 0, out)
    BY <1>5 DEF WithdrawLiquidity, w
  <2>2. Step(w, u, 0 - out) /\ (u.ok => out \in Nat)
    BY <1>1, <1>2, StepWithdraw
  <2>3. out \in Nat
    BY <2>1, <2>2 DEF Commit
  <2> HIDE DEF u, out
  <2>4. Step(Context, u, 0 + (0 - out))
    BY <1>1, <1>2, <2>2, <2>3, StepTrans
  <2>5. 0 + (0 - out) = 0 - out /\ 0 \in Nat
    BY <2>3
  <2> QED
    BY <2>1, <2>3, <2>4, <2>5, CommitKeepsBooks
<1>6. CASE WithdrawUnaccrued(a)
  <2> DEFINE u == Withdraw(Context, a)
             out == QuoteFor(Context.vault, a)
  <2>1. Commit(u, 0, out)
    BY <1>1, <1>6 DEF WithdrawUnaccrued
  <2>2. Step(Context, u, 0 - out) /\ (u.ok => out \in Nat)
    BY <1>1, StepWithdraw
  <2>3. out \in Nat
    BY <2>1, <2>2 DEF Commit
  <2> HIDE DEF u, out
  <2> QED
    BY <2>1, <2>2, <2>3, CommitKeepsBooks
<1> QED
  BY <1>3, <1>4, <1>5, <1>6

\* Flash loans, new rates and fee withdrawals keep the books.
LEMMA AdministrationKeepsBooks ==
    ASSUME Books,
           \/ AccrueInterest
           \/ \E a \in PoolAmounts : \/ WithdrawFeeCollector(a)
                                     \/ \E surplus \in Surpluses : FlashLoan(a, surplus)
           \/ \E cfg \in RateConfigs : SetBorrowRateParams(cfg)
    PROVE  Books'
<1>1. Sound(Context) /\ Context.vault = vault /\ vault \in PoolVaults /\ Context \in Contexts
  BY DEF Books, Context, Sound, Typed, Contexts
<1>2. CASE AccrueInterest
  <2>1. Step(Context, Accrue(Context), 0 - 0)
    BY <1>1, StepAccrue
  <2> QED
    BY <1>2, <2>1, CommitKeepsBooks DEF AccrueInterest
<1>3. ASSUME NEW a \in PoolAmounts, WithdrawFeeCollector(a) PROVE Books'
  <2>1. Step(Context, CollectorWithdraw(Context, a), 0 - 0)
    BY <1>1, StepCollectorWithdraw, PoolAssumption
  <2> QED
    BY <1>3, <2>1, CommitKeepsBooks DEF WithdrawFeeCollector
<1>4. ASSUME NEW a \in PoolAmounts, NEW surplus \in Surpluses, FlashLoan(a, surplus)
      PROVE  Books'
  <2> DEFINE t    == BorrowFlash(Context, a)
             fee  == FlashFee(vault, a)
             done == RepayFlash(t, a, fee, a + fee + surplus)
  <2>1. Commit(done, fee + surplus, 0)
    BY <1>4 DEF FlashLoan
  <2>2. a \in Nat /\ surplus \in Nat
    BY PoolAssumption
  <2>3. fee \in Nat
    <3>1. vault.rate.flash \in Nat
      BY <1>1, PoolAssumption DEF PoolVaults, RateType
    <3>2. a * vault.rate.flash \in Nat
      BY <2>2, <3>1, MulNat
    <3> QED
      BY <3>2, DivBounds, ScaleAssumption DEF FlashFee
  <2> HIDE DEF fee
  <2>4. Step(Context, t, 0 - a) /\ Sound(t)
    BY <1>1, <2>2, StepBorrowFlash DEF Step
  <2> HIDE DEF t
  <2>5. Step(t, done, a + fee + surplus)
    BY <2>2, <2>3, <2>4, StepRepayFlash
  <2> HIDE DEF done
  <2>6. Step(Context, done, (0 - a) + (a + fee + surplus))
    BY <1>1, <2>2, <2>3, <2>4, <2>5, StepTrans
  <2>7. (0 - a) + (a + fee + surplus) = (fee + surplus) - 0 /\ fee + surplus \in Nat /\ 0 \in Nat
    BY <2>2, <2>3
  <2> QED
    BY <2>1, <2>6, <2>7, CommitKeepsBooks
<1>5. ASSUME NEW cfg \in RateConfigs, SetBorrowRateParams(cfg) PROVE Books'
  <2> DEFINE v == [vault EXCEPT !.rate = cfg]
             u == [Context EXCEPT !.vault.rate = cfg]
  <2>1. u = [Context EXCEPT !.vault = v]
    BY <1>1 DEF Context
  <2>2. /\ v \in PoolVaults /\ v.balance = vault.balance
        /\ v.insurance_fund = vault.insurance_fund
        /\ v.total_borrowed = vault.total_borrowed
        /\ v.total_principal_borrowed = vault.total_principal_borrowed
        /\ v.last_accrue_ms = vault.last_accrue_ms
    BY <1>1 DEF PoolVaults
  <2>3. Commit(u, 0, 0)
    BY <1>5 DEF SetBorrowRateParams
  <2> DEFINE c == Context
  <2> HIDE DEF v, u, c
  <2>4. /\ u \in Contexts /\ u.vault = v /\ u.now = c.now /\ u.ok = c.ok
        /\ u.borrowed = c.borrowed /\ u.quote = c.quote
        /\ u.collector = c.collector /\ u.paid = c.paid /\ c.vault = vault
    BY <1>1, <2>1, <2>2 DEF Contexts, c
  <2>5. Typed(u) /\ SameDebts(c, u)
    BY <1>1, <2>2, <2>4 DEF Typed, SameDebts, Sound, c
  <2>6. Held(u) = Held(c) + 0
    <3>1. Held(c) \in Nat
      BY <1>1, HeldNat DEF Sound, c
    <3> QED
      BY <2>2, <2>4, <3>1 DEF Held
  <2>7. Step(c, u, 0 - 0)
    BY <1>1, <2>5, <2>6, StepMove DEF c
  <2> QED
    BY <2>3, <2>7, CommitKeepsBooks DEF c
<1> QED
  BY <1>2, <1>3, <1>4, <1>5

\* Whatever a key does keeps the books.
LEMMA KeysKeepBooks ==
    ASSUME Books, NEW k \in Keys,
           \/ \E margin, borrow \in KeyAmounts : Open(k, margin, borrow)
           \/ \E a \in KeyAmounts : Spend(k, a) \/ Repay(k, a)
           \/ WriteOff(k)
           \/ Sweep(k)
    PROVE  Books'
<1>1. /\ Sound(Context) /\ quote[k] \in Nat
      /\ KeyAmounts \subseteq Nat
  BY PoolAssumption DEF Books, Context, Sound, Typed, Contexts
<1>2. ASSUME NEW amount \in Nat, Commit(WithdrawFromKey(Context, k, amount), 0, amount)
      PROVE  Books'
  <2>1. Step(Context, WithdrawFromKey(Context, k, amount), 0 - amount)
    BY <1>1, StepWithdrawFromKey
  <2> QED
    BY <1>2, <2>1, CommitKeepsBooks
<1>3. ASSUME NEW margin \in KeyAmounts, NEW borrow \in KeyAmounts, Open(k, margin, borrow)
      PROVE  Books'
  <2> DEFINE c == CreditKey(Context, k, margin)
             u == ExecuteBorrow(c, k, borrow)
  <2>1. Commit(u, margin, 0)
    BY <1>3 DEF Open
  <2>2. margin \in Nat /\ borrow \in Nat
    BY <1>1
  <2>3. /\ Typed(c) /\ c.vault = Context.vault /\ c.borrowed = Context.borrowed
        /\ c.now = Context.now /\ c.ok = Context.ok
        /\ Held(c) = Held(Context) + margin
    BY <1>1, <2>2, CreditKeyFacts DEF Sound
  <2> HIDE DEF c
  <2>4. Step(Context, c, margin) /\ Sound(c)
    BY <1>1, <2>3 DEF Step, Sound, Backed, Accrued
  <2>5. Step(c, u, 0)
    BY <2>2, <2>4, StepExecuteBorrow
  <2> HIDE DEF u
  <2>6. Step(Context, u, margin + 0)
    BY <1>1, <2>2, <2>4, <2>5, StepTrans
  <2>7. margin + 0 = margin - 0
    BY <2>2
  <2> QED
    BY <2>1, <2>2, <2>6, <2>7, CommitKeepsBooks
<1>4. ASSUME NEW a \in KeyAmounts, Spend(k, a) PROVE Books'
  BY <1>1, <1>2, <1>4 DEF Spend
<1>5. ASSUME NEW a \in KeyAmounts, Repay(k, a) PROVE Books'
  <2> DEFINE t     == Accrue(Context)
             repay == IF a >= KeyDebt(t, k) THEN KeyDebt(t, k) ELSE a
             u     == RepayKey(t, k, repay)
  <2>1. Commit(u, a, a - repay)
    BY <1>5 DEF Repay
  <2>2. Step(Context, t, 0) /\ Accrued(t) /\ Sound(t)
    BY <1>1, StepAccrue DEF Step
  <2> HIDE DEF t
  <2>3. /\ a \in Nat /\ repay \in Nat /\ repay <= KeyDebt(t, k) /\ a - repay \in Nat
    BY <1>1, <2>2, KeyDebtFacts
  <2> HIDE DEF repay
  <2>4. Step(t, u, repay)
    BY <2>2, <2>3, StepRepayKey
  <2> HIDE DEF u
  <2>5. Step(Context, u, 0 + repay)
    BY <1>1, <2>2, <2>3, <2>4, StepTrans
  <2>6. 0 + repay = a - (a - repay)
    BY <2>3
  <2> QED
    BY <2>1, <2>3, <2>5, <2>6, CommitKeepsBooks
<1>6. CASE WriteOff(k)
  <2>1. Step(Context, WriteOffResidual(Context, k), 0 - 0)
    BY <1>1, StepWriteOffResidual
  <2> QED
    BY <1>6, <2>1, CommitKeepsBooks DEF WriteOff
<1>7. CASE Sweep(k)
  BY <1>1, <1>2, <1>7 DEF Sweep
<1> QED
  BY <1>3, <1>4, <1>5, <1>6, <1>7

\* The invariant is inductive.
LEMMA NextKeepsBooks == Books /\ [Next]_vars => Books'
<1> SUFFICES ASSUME Books, [Next]_vars PROVE Books'
  OBVIOUS
<1>1. CASE UNCHANGED vars
  BY <1>1 DEF vars, Books, Sound, Typed, Contexts, Covered, Backed, Held, Context
<1>2. ASSUME NEW d \in Ticks, Tick(d) PROVE Books'
  BY <1>2, TickKeepsBooks
<1>3. ASSUME NEW a \in PoolAmounts,
             \/ DepositLiquidity(a) \/ SupplyUnaccrued(a)
             \/ WithdrawLiquidity(a) \/ WithdrawUnaccrued(a)
      PROVE  Books'
  BY <1>3, LiquidityKeepsBooks
<1>4. CASE \/ AccrueInterest
           \/ \E a \in PoolAmounts : \/ WithdrawFeeCollector(a)
                                     \/ \E surplus \in Surpluses : FlashLoan(a, surplus)
           \/ \E cfg \in RateConfigs : SetBorrowRateParams(cfg)
  BY <1>4, AdministrationKeepsBooks
<1>5. ASSUME NEW k \in Keys,
             \/ \E margin, borrow \in KeyAmounts : Open(k, margin, borrow)
             \/ \E a \in KeyAmounts : Spend(k, a) \/ Repay(k, a)
             \/ WriteOff(k)
             \/ Sweep(k)
      PROVE  Books'
  BY <1>5, KeysKeepBooks
<1> QED
  BY <1>1, <1>2, <1>3, <1>4, <1>5 DEF Next

-----------------------------------------------------------------------------
(* What follows from the books                                             *)

\* The invariant the theorems rest on: a repayment, a write-off, a flash loan
\* or an LP's deposit ends with the books in balance.
THEOREM BooksBalance == Spec => []Books
<1>1. Init => Books
  BY InitBooks
<1>2. Books /\ [Next]_vars => Books'
  BY NextKeepsBooks
<1> QED
  BY <1>1, <1>2, PTL DEF Spec

\* The state of the pool has its types for every scale, rate and amount: no
\* unsigned subtraction of the Move code can go below zero.
THEOREM PoolTypes == Spec => []TypeOK
<1>1. Books => TypeOK
  BY PoolAssumption DEF Books, Sound, Typed, Contexts, Context, PoolVaults, VaultType, TypeOK
<1> QED
  BY <1>1, BooksBalance, PTL

\* total_borrowed covers total_principal_borrowed and dies with it, whatever
\* the partial repayments round away.
THEOREM PrincipalIsCovered == Spec => []DebtCoversPrincipal
<1>1. Books => DebtCoversPrincipal
  BY DEF Books, Sound, Covered, Context, DebtCoversPrincipal
<1> QED
  BY <1>1, BooksBalance, PTL

\* The ledgers of any number of keys never record more principal together
\* than the vault does.
THEOREM LedgersAreBacked == Spec => []LedgersWithinPrincipal
<1>1. Books => LedgersWithinPrincipal
  <2> SUFFICES ASSUME Books PROVE LedgersWithinPrincipal
    OBVIOUS
  <2>1. DOMAIN borrowed = Keys
    BY DEF Books, Sound, Typed, Contexts, Context
  <2> QED
    BY <2>1 DEF Books, Sound, Backed, Context, LedgersWithinPrincipal, SumFunction
<1> QED
  BY <1>1, BooksBalance, PTL

\* No key owes more than the vault is owed: apply_repayment cannot abort on a
\* full repayment or on a write-off.
THEOREM DebtsArePayable == Spec => []EveryDebtIsPayable
<1>1. Books => EveryDebtIsPayable
  <2> SUFFICES ASSUME Books, NEW k \in Keys
               PROVE  /\ borrowed[k] <= vault.total_principal_borrowed
                      /\ KeyDebt(Context, k) <= vault.total_borrowed
    BY DEF EveryDebtIsPayable
  <2>1. Sound(Context) /\ Context.ok /\ Context.vault = vault /\ Context.borrowed = borrowed
    BY DEF Books, Context
  <2> QED
    BY <2>1, KeyDebtFacts
<1> QED
  BY <1>1, BooksBalance, PTL

\* Quote is neither minted nor lost.
THEOREM QuoteIsConserved == Spec => []QuoteConserved
<1>1. Books => QuoteConserved
  <2> SUFFICES ASSUME Books PROVE QuoteConserved
    OBVIOUS
  <2> DEFINE all == SumFunctionOnSet(quote, Keys)
  <2>1. /\ quote \in [Keys -> Nat] /\ vault.balance \in Nat /\ vault.insurance_fund \in Nat
        /\ collector \in Nat /\ purse \in Nat
    BY DEF Books, Sound, Typed, Contexts, Context, PoolVaults
  <2>2. all \in Nat /\ SumFunction(quote) = all
    BY <2>1, SumNat, ProxyAssumption DEF SumFunction
  <2>3. vault.balance + vault.insurance_fund + collector + 0 + all + purse = TotalQuote
    BY DEF Books, Held, Context
  <2> HIDE DEF all
  <2> QED
    BY <2>1, <2>2, <2>3 DEF QuoteConserved
<1> QED
  BY <1>1, BooksBalance, PTL

-----------------------------------------------------------------------------
(* Shares                                                                  *)

HasShares(t) == "vault" \in DOMAIN t /\ "total_shares" \in DOMAIN t.vault

\* A call that mints and burns no shares.
KeepsShares(t, u) ==
    HasShares(t) => HasShares(u) /\ u.vault.total_shares = t.vault.total_shares

\* Such calls compose.
LEMMA SharesTrans ==
    ASSUME NEW t, NEW u, NEW w, KeepsShares(t, u), KeepsShares(u, w)
    PROVE  KeepsShares(t, w)
BY DEF KeepsShares

\* Neither an assertion nor doing nothing touches the shares.
LEMMA SharesRequire ==
    ASSUME NEW t, NEW cond, NEW after, KeepsShares(t, after)
    PROVE  KeepsShares(t, Require(t, cond, after)) /\ KeepsShares(t, t)
BY DEF KeepsShares, HasShares, Require

\* Interest leaves the shares.
LEMMA SharesAccrue == ASSUME NEW t PROVE KeepsShares(t, Accrue(t))
BY DEF KeepsShares, HasShares, Accrue, AccruedVault

\* So do the two splits of a revenue.
LEMMA SharesDistribute ==
    ASSUME NEW t, NEW total
    PROVE  /\ KeepsShares(t, DistributeProtocolFee(t, total))
           /\ KeepsShares(t, DistributeLiquidationSurplus(t, total))
BY DEF KeepsShares, HasShares, DistributeProtocolFee, DistributeLiquidationSurplus

\* So does a change of the idle balance.
LEMMA SharesBalance ==
    ASSUME NEW t, NEW b
    PROVE  KeepsShares(t, [t EXCEPT !.vault.balance = b])
BY DEF KeepsShares, HasShares

\* So does a loan or a repayment of the vault's own books.
LEMMA SharesVault ==
    ASSUME NEW t, NEW amount, NEW principal
    PROVE  /\ KeepsShares(t, Borrow(t, amount))
           /\ KeepsShares(t, BorrowFlash(t, amount))
           /\ KeepsShares(t, ApplyRepayment(t, amount, principal))
           /\ KeepsShares(t, TakeInsurance(t, amount))
           /\ KeepsShares(t, CollectorWithdraw(t, amount))
<1> DEFINE a == Accrue(t)
<1>1. KeepsShares(t, a)
  BY SharesAccrue
<1>2. KeepsShares(t, Borrow(t, amount))
  <2> DEFINE cond == amount > 0 /\ amount <= a.vault.balance
             u == [a EXCEPT !.vault.balance = @ - amount,
                            !.vault.total_borrowed = @ + amount,
                            !.vault.total_principal_borrowed = @ + amount]
  <2>1. Borrow(t, amount) = Require(a, cond, u)
    BY DEF Borrow
  <2> HIDE DEF a, cond
  <2>2. KeepsShares(a, u)
    BY DEF KeepsShares, HasShares
  <2> HIDE DEF u
  <2> QED
    BY <1>1, <2>1, <2>2, SharesRequire, SharesTrans
<1>3. KeepsShares(t, BorrowFlash(t, amount))
  <2> DEFINE cond == amount > 0 /\ amount <= a.vault.balance
             u == [a EXCEPT !.vault.balance = @ - amount]
  <2>1. BorrowFlash(t, amount) = Require(a, cond, u)
    BY DEF BorrowFlash
  <2> HIDE DEF a, cond
  <2>2. KeepsShares(a, u)
    BY DEF KeepsShares, HasShares
  <2> HIDE DEF u
  <2> QED
    BY <1>1, <2>1, <2>2, SharesRequire, SharesTrans
<1>4. KeepsShares(t, ApplyRepayment(t, amount, principal))
  BY DEF KeepsShares, HasShares, ApplyRepayment, Require
<1>5. KeepsShares(t, TakeInsurance(t, amount)) /\ KeepsShares(t, CollectorWithdraw(t, amount))
  BY DEF KeepsShares, HasShares, TakeInsurance, CollectorWithdraw, Require
<1> QED
  BY <1>2, <1>3, <1>4, <1>5

\* So does everything that happens to a ledger.
LEMMA SharesLedger ==
    ASSUME NEW t, NEW k, NEW amount
    PROVE  /\ KeepsShares(t, CreditKey(t, k, amount))
           /\ KeepsShares(t, WithdrawFromKey(t, k, amount))
           /\ KeepsShares(t, RecordBorrow(t, k, amount))
           /\ KeepsShares(t, RecordRepay(t, k, amount))
BY DEF KeepsShares, HasShares, CreditKey, WithdrawFromKey, RecordBorrow, RecordRepay, Require

\* So do the two ends of a repayment: the vault's ...
LEMMA SharesRepayVault ==
    ASSUME NEW t, NEW p, NEW payment
    PROVE  KeepsShares(t, RepayVaultForLedger(t, p, payment))
<1> DEFINE a         == Accrue(t)
           debt      == VaultDebtOf(a.vault, p)
           repay     == IF payment >= debt THEN debt ELSE payment
           principal == VaultPrincipalIn(p, repay, debt)
           paid      == ApplyRepayment(a, repay, principal)
           shared    == DistributeProtocolFee(paid, repay - principal)
           cond      == payment > 0 /\ principal <= repay
           last      == [shared EXCEPT !.vault.balance = @ + (payment - (repay - principal))]
<1>1. RepayVaultForLedger(t, p, payment) = Require(a, cond, last)
  BY DEF RepayVaultForLedger
<1>2. KeepsShares(t, a)
  BY SharesAccrue
<1> HIDE DEF a, debt, cond
<1>3. KeepsShares(a, paid)
  BY SharesVault
<1> HIDE DEF paid
<1>4. KeepsShares(paid, shared)
  BY SharesDistribute
<1> HIDE DEF shared
<1>5. KeepsShares(shared, last)
  BY DEF KeepsShares, HasShares
<1> HIDE DEF last
<1>6. KeepsShares(a, last)
  BY <1>3, <1>4, <1>5, SharesTrans
<1> QED
  BY <1>1, <1>2, <1>6, SharesRequire, SharesTrans

\* ... and a flash loan's.
LEMMA SharesRepayFlash ==
    ASSUME NEW t, NEW amount, NEW fee, NEW payment
    PROVE  KeepsShares(t, RepayFlash(t, amount, fee, payment))
<1> DEFINE a    == Accrue(t)
           w    == [a EXCEPT !.vault.balance = @ + amount]
           fed  == DistributeProtocolFee(w, fee)
           last == DistributeLiquidationSurplus(fed, payment - amount - fee)
           cond == payment >= amount + fee
<1>1. RepayFlash(t, amount, fee, payment) = Require(w, cond, last)
  BY DEF RepayFlash
<1>2. KeepsShares(t, a)
  BY SharesAccrue
<1> HIDE DEF a, cond
<1>3. KeepsShares(a, w)
  BY DEF KeepsShares, HasShares
<1> HIDE DEF w
<1>4. KeepsShares(w, fed)
  BY SharesDistribute
<1> HIDE DEF fed
<1>5. KeepsShares(fed, last)
  BY SharesDistribute
<1> HIDE DEF last
<1>6. KeepsShares(w, last)
  BY <1>4, <1>5, SharesTrans
<1> QED
  BY <1>1, <1>2, <1>3, <1>6, SharesRequire, SharesTrans

\* So do the flows of a key's debt.
LEMMA SharesDebt ==
    ASSUME NEW t, NEW k, NEW payment
    PROVE  /\ KeepsShares(t, RepayKey(t, k, payment))
           /\ KeepsShares(t, ExecuteBorrow(t, k, payment))
           /\ KeepsShares(t, SocializeRest(t, k))
<1>1. KeepsShares(t, RepayKey(t, k, payment))
  BY SharesRepayVault, SharesLedger, SharesTrans DEF RepayKey
<1>2. KeepsShares(t, t)
  BY DEF KeepsShares
<1>3. KeepsShares(t, ExecuteBorrow(t, k, payment))
  <2> DEFINE b == Borrow(t, payment)
             c == CreditKey(b, k, payment)
  <2>1. ExecuteBorrow(t, k, payment) = IF payment = 0 THEN t ELSE RecordBorrow(c, k, payment)
    BY DEF ExecuteBorrow
  <2>2. KeepsShares(t, b)
    BY SharesVault
  <2> HIDE DEF b
  <2>3. KeepsShares(b, c)
    BY SharesLedger
  <2> HIDE DEF c
  <2> QED
    BY <1>2, <2>1, <2>2, <2>3, SharesLedger, SharesTrans
<1>4. KeepsShares(t, SocializeRest(t, k))
  <2> DEFINE w == WriteOffDebtForLedger(t, t.borrowed[k], KeyDebt(t, k))
  <2>1. SocializeRest(t, k) = IF t.borrowed[k] = 0 THEN t ELSE RecordRepay(w, k, t.borrowed[k])
    BY DEF SocializeRest
  <2>2. KeepsShares(t, w)
    BY <1>2, SharesVault DEF WriteOffDebtForLedger
  <2> HIDE DEF w
  <2> QED
    BY <1>2, <2>1, <2>2, SharesLedger, SharesTrans
<1> QED
  BY <1>1, <1>3, <1>4

\* So does a write-off.
LEMMA SharesWriteOff ==
    ASSUME NEW t, NEW k PROVE KeepsShares(t, WriteOffResidual(t, k))
<1> DEFINE a == Accrue(t)
           b == CoverFromKey(a, k)
           c == CoverFromInsurance(b, k)
           d == SocializeRest(c, k)
<1>1. WriteOffResidual(t, k) = IF t.borrowed[k] = 0 THEN t ELSE d
  BY DEF WriteOffResidual
<1>2. KeepsShares(t, a) /\ KeepsShares(t, t)
  BY SharesAccrue DEF KeepsShares
<1> HIDE DEF a
<1>3. KeepsShares(a, b)
  <2> DEFINE cover == IF a.quote[k] >= KeyDebt(a, k) THEN KeyDebt(a, k) ELSE a.quote[k]
             w == WithdrawFromKey(a, k, cover)
  <2>1. b = IF cover = 0 \/ a.borrowed[k] = 0 THEN a ELSE RepayKey(w, k, cover)
    BY DEF CoverFromKey
  <2> HIDE DEF b, cover
  <2>2. KeepsShares(a, w)
    BY SharesLedger
  <2> HIDE DEF w
  <2>3. KeepsShares(w, RepayKey(w, k, cover))
    BY SharesDebt
  <2>4. KeepsShares(a, a)
    BY DEF KeepsShares
  <2> QED
    BY <2>1, <2>2, <2>3, <2>4, SharesTrans
<1> HIDE DEF b
<1>4. KeepsShares(b, c)
  <2> DEFINE fund  == b.vault.insurance_fund
             cover == IF fund >= KeyDebt(b, k) THEN KeyDebt(b, k) ELSE fund
             w == TakeInsurance(b, cover)
  <2>1. c = IF cover = 0 \/ b.borrowed[k] = 0 THEN b ELSE RepayKey(w, k, cover)
    BY DEF CoverFromInsurance
  <2> HIDE DEF c, cover
  <2>2. KeepsShares(b, w)
    BY SharesVault
  <2> HIDE DEF w
  <2>3. KeepsShares(w, RepayKey(w, k, cover))
    BY SharesDebt
  <2>4. KeepsShares(b, b)
    BY DEF KeepsShares
  <2> QED
    BY <2>1, <2>2, <2>3, <2>4, SharesTrans
<1> HIDE DEF c
<1>5. KeepsShares(c, d)
  BY SharesDebt
<1> HIDE DEF d
<1> QED
  BY <1>1, <1>2, <1>3, <1>4, <1>5, SharesTrans

-----------------------------------------------------------------------------
(* The value of a share                                                    *)

\* Shares minted for an amount, rounded down, leave the others their value.
LEMMA MintKeepsValue ==
    ASSUME NEW n \in Nat, NEW N \in Nat, NEW S \in Nat, NEW a \in Nat, NEW s \in Nat,
           n <= N, N * s <= a * S
    PROVE  (N + a) * S >= n * (S + s)
<1>1. (N + a) * S = N * S + a * S /\ N * (S + s) = N * S + N * s
  OBVIOUS
<1>2. n * (S + s) <= N * (S + s)
  <2>1. (S + s) * n <= (S + s) * N
    BY MulMono
  <2> QED
    BY <2>1
<1>3. /\ N * S \in Nat /\ a * S \in Nat /\ N * s \in Nat /\ n * (S + s) \in Nat
  BY MulNat
<1> QED
  BY <1>1, <1>2, <1>3

\* Shares burned for an amount, rounded down, do so too.
LEMMA BurnKeepsValue ==
    ASSUME NEW n \in Nat, NEW N \in Nat, NEW S \in Nat, NEW a \in Nat, NEW s \in Nat,
           n <= N, s <= S, S * a <= s * N
    PROVE  (N - a) * S >= n * (S - s)
<1>1. (N - a) * S = N * S - S * a /\ N * (S - s) = N * S - s * N
  OBVIOUS
<1>2. n * (S - s) <= N * (S - s)
  <2>1. S - s \in Nat
    OBVIOUS
  <2>2. (S - s) * n <= (S - s) * N
    BY <2>1, MulMono
  <2> QED
    BY <2>2
<1>3. /\ N * S \in Nat /\ S * a \in Nat /\ s * N \in Nat
      /\ n * (S - s) \in Int
  BY MulNat
<1> QED
  BY <1>1, <1>2, <1>3

\* A deposit into a vault that was worth at least n.
LEMMA SupplyKeepsValue ==
    ASSUME NEW t, Sound(t), NEW amount \in Nat, NEW n \in Nat, n <= Nav(t.vault),
           t.vault.total_shares = 0 => n = 0,
           Supply(t, amount).ok
    PROVE  LET v == Supply(t, amount).vault
           IN  /\ Nav(v) * t.vault.total_shares >= n * v.total_shares
               /\ v.total_shares > 0
<1> DEFINE shares == SharesFor(t.vault, amount)
           u == [t EXCEPT !.vault.balance = @ + amount, !.vault.total_shares = @ + shares]
           v == u.vault
           S == t.vault.total_shares
           N == Nav(t.vault)
<1>1. /\ t \in Contexts /\ t.vault \in PoolVaults /\ S \in Nat /\ N \in Nat
      /\ t.vault.balance \in Nat /\ t.vault.insurance_fund \in Nat
      /\ t.vault.total_borrowed \in Nat
  BY DEF Sound, Typed, Contexts, PoolVaults, Nav
<1>2. /\ Supply(t, amount) = Require(t, amount > 0 /\ shares > 0, u)
      /\ [t EXCEPT !.ok = FALSE].ok = FALSE
  BY <1>1 DEF Supply, Contexts
<1> HIDE DEF shares, u
<1>3. Supply(t, amount) = u /\ amount > 0 /\ shares > 0
  BY <1>2 DEF Require
<1>4. /\ v.total_shares = S + shares /\ v.balance = t.vault.balance + amount
      /\ v.insurance_fund = t.vault.insurance_fund
      /\ v.total_borrowed = t.vault.total_borrowed
  BY <1>1 DEF u, Contexts, PoolVaults
<1>5. Nav(v) = N + amount
  BY <1>1, <1>4 DEF Nav
<1> HIDE DEF v
<1>6. CASE S = 0
  <2>1. shares = amount
    BY <1>6 DEF shares, SharesFor
  <2>2. n * v.total_shares = 0 /\ Nav(v) * S = 0
    BY <1>1, <1>4, <1>5, <1>6, <2>1
  <2> QED
    BY <1>1, <1>3, <1>4, <1>6, <2>1, <2>2 DEF v
<1>7. CASE S # 0
  <2>1. shares = IF N = 0 THEN 0 ELSE (amount * S) \div N
    BY <1>7 DEF shares, SharesFor
  <2>2. N # 0
    BY <1>3, <2>1
  <2> HIDE DEF S, N
  <2>3. amount * S \in Nat
    BY <1>1, MulNat
  <2>4. shares \in Nat /\ N * shares <= amount * S
    BY <1>1, <2>1, <2>2, <2>3, DivBounds
  <2>5. n <= N
    BY DEF N
  <2>6. (N + amount) * S >= n * (S + shares)
    BY <1>1, <2>4, <2>5, MintKeepsValue
  <2> QED
    BY <1>1, <1>3, <1>4, <1>5, <1>7, <2>4, <2>6 DEF v, S, N
<1> QED
  BY <1>6, <1>7

\* A withdrawal from a vault that was worth at least n; the last shares take
\* all that it is worth.
LEMMA WithdrawKeepsValue ==
    ASSUME NEW t, Sound(t), NEW shares \in Nat, NEW n \in Nat, n <= Nav(t.vault),
           Withdraw(t, shares).ok
    PROVE  LET v == Withdraw(t, shares).vault
           IN  /\ Nav(v) * t.vault.total_shares >= n * v.total_shares
               /\ v.total_shares = 0 => Nav(v) = 0
<1> DEFINE amount == QuoteFor(t.vault, shares)
           cond == 0 < shares /\ shares <= t.vault.total_shares /\ amount <= t.vault.balance
           u == [t EXCEPT !.vault.balance = @ - amount, !.vault.total_shares = @ - shares]
           v == u.vault
           S == t.vault.total_shares
           N == Nav(t.vault)
<1>1. /\ t \in Contexts /\ t.vault \in PoolVaults /\ S \in Nat /\ N \in Nat
      /\ t.vault.balance \in Nat /\ t.vault.insurance_fund \in Nat
      /\ t.vault.total_borrowed \in Nat
      /\ N = t.vault.balance + t.vault.total_borrowed + t.vault.insurance_fund
  BY DEF Sound, Typed, Contexts, PoolVaults, Nav
<1>2. /\ Withdraw(t, shares) = Require(t, cond, u)
      /\ [t EXCEPT !.ok = FALSE].ok = FALSE
  BY <1>1 DEF Withdraw, Contexts
<1> HIDE DEF amount, u
<1>3. Withdraw(t, shares) = u /\ cond
  BY <1>2 DEF Require
<1>4. /\ v.total_shares = S - shares /\ v.balance = t.vault.balance - amount
      /\ v.insurance_fund = t.vault.insurance_fund
      /\ v.total_borrowed = t.vault.total_borrowed
  BY <1>1 DEF u, Contexts, PoolVaults
<1>5. amount = (shares * N) \div S /\ S \in Nat \ {0} /\ shares <= S /\ amount <= t.vault.balance
  BY <1>1, <1>3 DEF amount, QuoteFor
<1> HIDE DEF S, N, v
<1>6. shares * N \in Nat
  BY <1>1, MulNat
<1>7. amount \in Nat /\ S * amount <= shares * N /\ shares * N < S * amount + S
  BY <1>5, <1>6, DivBounds
<1>8. Nav(v) = N - amount
  BY <1>1, <1>4, <1>5, <1>7 DEF Nav
<1>9. (N - amount) * S >= n * (S - shares)
  <2>1. n <= N
    BY DEF N
  <2> QED
    BY <1>1, <1>5, <1>7, <2>1, BurnKeepsValue
<1>10. ASSUME S = shares PROVE amount = N
  <2>1. S * N < S * (amount + 1)
    <3>1. S * (amount + 1) = S * amount + S
      BY <1>5, <1>7
    <3> QED
      BY <1>7, <1>10, <3>1
  <2>2. N < amount + 1
    BY <1>1, <1>5, <1>7, <2>1, CancelMul
  <2>3. amount <= N
    BY <1>1, <1>5, <1>7
  <2> QED
    BY <1>1, <1>7, <2>2, <2>3
<1>11. ASSUME v.total_shares = 0 PROVE Nav(v) = 0
  <2>1. S - shares = 0 /\ S \in Nat /\ N \in Nat
    BY <1>1, <1>4, <1>11
  <2>2. S = shares
    BY <2>1
  <2>3. amount = N
    BY <2>2, <1>10
  <2> QED
    BY <2>1, <2>3, <1>8
<1>12. Nav(v) * S >= n * v.total_shares
  BY <1>4, <1>8, <1>9
<1>13. Withdraw(t, shares).vault = v
  BY <1>3 DEF v
<1> QED
  BY <1>11, <1>12, <1>13 DEF S

\* A vault without shares is worth nothing, so nobody can be given what is
\* left in it.
Owned == vault.total_shares = 0 => Nav(vault) = 0

\* What OtherSharesKeepTheirValue says of one step.
ValueKept ==
    vault'.total_shares # vault.total_shares =>
        Nav(vault') * vault.total_shares >= Nav(vault) * vault'.total_shares

\* Liquidity providers come and go without a loss to the others.
LEMMA LiquidityKeepsValue ==
    ASSUME Books, Owned, NEW a \in PoolAmounts,
           \/ DepositLiquidity(a) \/ SupplyUnaccrued(a)
           \/ WithdrawLiquidity(a) \/ WithdrawUnaccrued(a)
    PROVE  ValueKept /\ Owned'
<1> DEFINE w == Accrue(Context)
           n == Nav(vault)
           S == vault.total_shares
<1>1. /\ a \in Nat /\ Sound(Context) /\ Context.vault = vault
      /\ Context.now = now
  BY PoolAssumption DEF Books, Context
<1>2. Sound(w) /\ w.vault = AccruedVault(vault, now)
  BY <1>1, StepAccrue DEF Step
<1>3. vault \in PoolVaults /\ now \in Nat /\ vault.last_accrue_ms <= now
  BY <1>1 DEF Sound, Typed, Contexts
<1>4. /\ n \in Nat /\ S \in Nat /\ n <= Nav(w.vault) /\ w.vault.total_shares = S
      /\ S = 0 => n = 0
  <2>1. AccruedVault(vault, now).total_borrowed \in Nat
    BY <1>3, AccruedVaultType DEF PoolVaults
  <2> QED
    BY <1>2, <1>3, <2>1, AccruedVaultType DEF Nav, PoolVaults, Owned
<1> HIDE DEF w, n, S
<1>5. ASSUME NEW t, Sound(t), n <= Nav(t.vault), t.vault.total_shares = S,
             NEW i, NEW o, Commit(Supply(t, a), i, o)
      PROVE  ValueKept /\ Owned'
  <2>1. Supply(t, a).ok /\ vault' = Supply(t, a).vault
    BY <1>5 DEF Commit
  <2>2. /\ Nav(vault') * t.vault.total_shares >= n * vault'.total_shares
        /\ vault'.total_shares > 0
    BY <1>1, <1>4, <1>5, <2>1, SupplyKeepsValue
  <2> QED
    BY <1>5, <2>2 DEF ValueKept, Owned, n, S
<1>6. ASSUME NEW t, Sound(t), n <= Nav(t.vault), t.vault.total_shares = S,
             NEW i, NEW o, Commit(Withdraw(t, a), i, o)
      PROVE  ValueKept /\ Owned'
  <2>1. Withdraw(t, a).ok /\ vault' = Withdraw(t, a).vault
    BY <1>6 DEF Commit
  <2>2. /\ Nav(vault') * t.vault.total_shares >= n * vault'.total_shares
        /\ vault'.total_shares = 0 => Nav(vault') = 0
    BY <1>1, <1>4, <1>6, <2>1, WithdrawKeepsValue
  <2> QED
    BY <1>6, <2>2 DEF ValueKept, Owned, n, S
<1>7. n <= Nav(Context.vault) /\ Context.vault.total_shares = S
  BY <1>1, <1>4 DEF n, S
<1>8. CASE DepositLiquidity(a)
  BY <1>2, <1>4, <1>5, <1>8 DEF DepositLiquidity, w
<1>9. CASE SupplyUnaccrued(a)
  BY <1>1, <1>5, <1>7, <1>9 DEF SupplyUnaccrued
<1>10. CASE WithdrawLiquidity(a)
  BY <1>2, <1>4, <1>6, <1>10 DEF WithdrawLiquidity, w
<1>11. CASE WithdrawUnaccrued(a)
  BY <1>1, <1>6, <1>7, <1>11 DEF WithdrawUnaccrued
<1> QED
  BY <1>8, <1>9, <1>10, <1>11

\* A transaction that mints and burns none: the vault keeps its shares, and
\* if it has none, its worth.
LEMMA CommitKeepsShares ==
    ASSUME Books, Owned, NEW t, KeepsShares(Context, t), NEW i, NEW o, Commit(t, i, o),
           vault.total_shares = 0 => Nav(t.vault) = 0
    PROVE  ValueKept /\ Owned'
<1>1. HasShares(Context) /\ Context.vault = vault
  BY DEF Books, Sound, Typed, Contexts, PoolVaults, Context, HasShares
<1>2. vault' = t.vault /\ vault'.total_shares = vault.total_shares
  BY <1>1 DEF Commit, KeepsShares
<1> QED
  BY <1>2 DEF ValueKept, Owned

\* A vault that is worth nothing lends nothing and is owed nothing.
LEMMA NothingToShare ==
    ASSUME Books, Nav(vault) = 0
    PROVE  /\ vault.balance = 0 /\ vault.insurance_fund = 0 /\ vault.total_borrowed = 0
           /\ \A k \in Keys : borrowed[k] = 0
           /\ Accrue(Context).vault.balance = 0
           /\ Nav(Accrue(Context).vault) = 0
<1>1. /\ Sound(Context) /\ Context.vault = vault /\ Context.now = now /\ Context.ok
      /\ Context.borrowed = borrowed
  BY DEF Books, Context
<1>2. vault \in PoolVaults /\ now \in Nat /\ vault.last_accrue_ms <= now
  BY <1>1 DEF Sound, Typed, Contexts
<1>3. vault.balance = 0 /\ vault.insurance_fund = 0 /\ vault.total_borrowed = 0
  BY <1>2 DEF Nav, PoolVaults
<1>4. ASSUME NEW k \in Keys PROVE borrowed[k] = 0
  <2>1. /\ borrowed[k] \in Nat /\ borrowed[k] <= KeyDebt(Context, k)
        /\ KeyDebt(Context, k) <= vault.total_borrowed /\ KeyDebt(Context, k) \in Nat
    BY <1>1, KeyDebtFacts
  <2> QED
    BY <1>3, <2>1
<1>5. /\ Accrue(Context).vault = AccruedVault(vault, now)
  BY <1>1, StepAccrue
<1>6. /\ AccruedVault(vault, now).balance = 0 /\ AccruedVault(vault, now).total_borrowed = 0
      /\ AccruedVault(vault, now).insurance_fund = 0
  BY <1>2, <1>3, AccruedVaultType
<1> QED
  BY <1>3, <1>4, <1>5, <1>6 DEF Nav

\* A loan takes something from the idle balance.
LEMMA LoansNeedBalance ==
    ASSUME Books, Nav(vault) = 0, NEW t, Sound(t), t.vault = vault, t.now = now,
           NEW amount \in Nat
    PROVE  ~Borrow(t, amount).ok /\ ~BorrowFlash(t, amount).ok
<1> DEFINE a == Accrue(t)
<1>1. /\ Sound(a) /\ a.vault = AccruedVault(vault, now)
  BY StepAccrue DEF Step
<1>2. a.vault.balance = 0
  <2>1. Accrue(Context).vault = AccruedVault(vault, now)
    BY StepAccrue DEF Books, Context
  <2> QED
    BY <1>1, <2>1, NothingToShare
<1>3. "ok" \in DOMAIN a
  BY <1>1 DEF Sound, Typed, Contexts
<1> DEFINE lent == [a EXCEPT !.vault.balance = @ - amount,
                             !.vault.total_borrowed = @ + amount,
                             !.vault.total_principal_borrowed = @ + amount]
           flashed == [a EXCEPT !.vault.balance = @ - amount]
           cond == amount > 0 /\ amount <= a.vault.balance
<1>4. Borrow(t, amount) = Require(a, cond, lent) /\ BorrowFlash(t, amount) = Require(a, cond, flashed)
  BY DEF Borrow, BorrowFlash
<1>5. ~cond
  BY <1>2
<1> HIDE DEF a, cond, lent, flashed
<1> QED
  BY <1>3, <1>4, <1>5 DEF Require

\* Keys, flash loans and the treasury leave the shares alone.
LEMMA OthersKeepValue ==
    ASSUME Books, Owned,
           \/ AccrueInterest
           \/ \E a \in PoolAmounts : \/ WithdrawFeeCollector(a)
                                     \/ \E surplus \in Surpluses : FlashLoan(a, surplus)
           \/ \E cfg \in RateConfigs : SetBorrowRateParams(cfg)
           \/ \E k \in Keys : \/ \E margin, borrow \in KeyAmounts : Open(k, margin, borrow)
                              \/ \E a \in KeyAmounts : Spend(k, a) \/ Repay(k, a)
                              \/ WriteOff(k)
                              \/ Sweep(k)
    PROVE  ValueKept /\ Owned'
<1>1. /\ Sound(Context) /\ Context.vault = vault /\ Context.now = now /\ Context.ok
      /\ Context.borrowed = borrowed /\ Context \in Contexts
      /\ PoolAmounts \subseteq Nat /\ KeyAmounts \subseteq Nat
  BY PoolAssumption DEF Books, Context, Sound, Typed
<1>2. vault.total_shares = 0 => Nav(vault) = 0
  BY DEF Owned
<1>3. KeepsShares(Context, Accrue(Context))
  BY SharesAccrue
<1>4. CASE AccrueInterest
  BY <1>2, <1>3, <1>4, NothingToShare, CommitKeepsShares DEF AccrueInterest
<1>5. ASSUME NEW a \in PoolAmounts, WithdrawFeeCollector(a) PROVE ValueKept /\ Owned'
  <2> DEFINE u == CollectorWithdraw(Context, a)
  <2>1. KeepsShares(Context, u) /\ Commit(u, 0, 0)
    BY <1>5, SharesVault DEF WithdrawFeeCollector
  <2>2. u.vault = vault
    BY <1>1 DEF CollectorWithdraw, Require, Contexts
  <2> HIDE DEF u
  <2> QED
    BY <1>2, <2>1, <2>2, CommitKeepsShares
<1>6. ASSUME NEW a \in PoolAmounts, NEW surplus \in Surpluses, FlashLoan(a, surplus)
      PROVE  ValueKept /\ Owned'
  <2> DEFINE t == BorrowFlash(Context, a)
             u == RepayFlash(t, a, FlashFee(vault, a), a + FlashFee(vault, a) + surplus)
  <2>1. t.ok /\ \E i : Commit(u, i, 0)
    BY <1>6 DEF FlashLoan
  <2>2. KeepsShares(Context, t)
    BY SharesVault
  <2>3. Nav(vault) # 0
    BY <1>1, <1>6, <2>1, LoansNeedBalance
  <2> HIDE DEF t
  <2>4. KeepsShares(t, u)
    BY SharesRepayFlash
  <2> HIDE DEF u
  <2> QED
    BY <1>2, <2>1, <2>2, <2>3, <2>4, SharesTrans, CommitKeepsShares
<1>7. ASSUME NEW cfg \in RateConfigs, SetBorrowRateParams(cfg) PROVE ValueKept /\ Owned'
  <2> DEFINE u == [Context EXCEPT !.vault.rate = cfg]
  <2>1. Commit(u, 0, 0)
    BY <1>7 DEF SetBorrowRateParams
  <2>2. KeepsShares(Context, u)
    BY DEF KeepsShares, HasShares
  <2>3. Nav(u.vault) = Nav(vault)
    BY <1>1 DEF Nav, Sound, Typed, Contexts, PoolVaults
  <2> HIDE DEF u
  <2> QED
    BY <1>2, <2>1, <2>2, <2>3, CommitKeepsShares
<1>8. ASSUME NEW k \in Keys, NEW margin \in KeyAmounts, NEW borrow \in KeyAmounts,
             Open(k, margin, borrow)
      PROVE  ValueKept /\ Owned'
  <2> DEFINE c == CreditKey(Context, k, margin)
             u == ExecuteBorrow(c, k, borrow)
  <2>1. Commit(u, margin, 0) /\ margin \in Nat /\ borrow \in Nat
    BY <1>1, <1>8 DEF Open
  <2>2. KeepsShares(Context, c)
    BY SharesLedger
  <2>3. Sound(c) /\ c.vault = vault /\ c.now = now
    BY <1>1, <2>1, CreditKeyFacts DEF Sound, Backed
  <2> HIDE DEF c
  <2>4. KeepsShares(c, u)
    BY SharesDebt
  <2>5. ASSUME Nav(vault) = 0 PROVE u.vault = vault
    <3> DEFINE b == Borrow(c, borrow)
               d == CreditKey(b, k, borrow)
    <3>1. u = IF borrow = 0 THEN c ELSE RecordBorrow(d, k, borrow)
      BY DEF ExecuteBorrow
    <3>2. ~b.ok
      BY <2>1, <2>3, <2>5, LoansNeedBalance
    <3>3. Typed(b)
      BY <2>1, <2>3, BorrowFacts DEF SoundBut
    <3> HIDE DEF b
    <3>4. ~d.ok /\ d \in Contexts
      BY <2>1, <3>2, <3>3, CreditKeyFacts DEF Typed
    <3> HIDE DEF d
    <3>5. ~RecordBorrow(d, k, borrow).ok
      BY <3>4 DEF RecordBorrow, Require, Contexts
    <3> QED
      BY <2>1, <2>3, <3>1, <3>5 DEF Commit
  <2> HIDE DEF u
  <2> QED
    BY <1>2, <2>1, <2>2, <2>4, <2>5, SharesTrans, CommitKeepsShares
<1>9. ASSUME NEW k \in Keys, NEW a, a \in Nat, Commit(WithdrawFromKey(Context, k, a), 0, a)
      PROVE  ValueKept /\ Owned'
  <2> DEFINE u == WithdrawFromKey(Context, k, a)
  <2>1. KeepsShares(Context, u)
    BY SharesLedger
  <2>2. u.vault = vault
    BY <1>1, <1>9, StepWithdrawFromKey
  <2>3. Commit(u, 0, a)
    BY <1>9
  <2> HIDE DEF u
  <2> QED
    BY <1>2, <2>1, <2>2, <2>3, CommitKeepsShares
<1>10. ASSUME NEW k \in Keys, NEW a \in KeyAmounts, Repay(k, a) PROVE ValueKept /\ Owned'
  <2> DEFINE t     == Accrue(Context)
             repay == IF a >= KeyDebt(t, k) THEN KeyDebt(t, k) ELSE a
             u     == RepayKey(t, k, repay)
  <2>1. borrowed[k] > 0 /\ Commit(u, a, a - repay)
    BY <1>10 DEF Repay
  <2>2. Nav(vault) # 0
    BY <2>1, NothingToShare
  <2> HIDE DEF t, repay
  <2>3. KeepsShares(t, u)
    BY SharesDebt
  <2> HIDE DEF u
  <2>4. KeepsShares(Context, t)
    BY <1>3 DEF t
  <2> QED
    BY <1>2, <2>1, <2>2, <2>3, <2>4, SharesTrans, CommitKeepsShares
<1>11. ASSUME NEW k \in Keys, WriteOff(k) PROVE ValueKept /\ Owned'
  <2> DEFINE u == WriteOffResidual(Context, k)
  <2>1. borrowed[k] > 0 /\ Commit(u, 0, 0)
    BY <1>11 DEF WriteOff
  <2>2. Nav(vault) # 0
    BY <2>1, NothingToShare
  <2>3. KeepsShares(Context, u)
    BY SharesWriteOff
  <2> HIDE DEF u
  <2> QED
    BY <1>2, <2>1, <2>2, <2>3, CommitKeepsShares
<1>12. ASSUME NEW k \in Keys, NEW a \in KeyAmounts, Spend(k, a) PROVE ValueKept /\ Owned'
  BY <1>1, <1>9, <1>12 DEF Spend
<1>13. ASSUME NEW k \in Keys, Sweep(k) PROVE ValueKept /\ Owned'
  <2>1. quote[k] \in Nat
    BY <1>1 DEF Contexts, Context
  <2> QED
    BY <1>9, <1>13, <2>1 DEF Sweep
<1> QED
  BY <1>4, <1>5, <1>6, <1>7, <1>8, <1>10, <1>11, <1>12, <1>13

\* Every step keeps the value of the shares it does not touch.
LEMMA NextKeepsValue == Books /\ Owned /\ [Next]_vars => Owned' /\ ValueKept
<1> SUFFICES ASSUME Books, Owned, [Next]_vars PROVE Owned' /\ ValueKept
  OBVIOUS
<1>1. ASSUME vault' = vault PROVE Owned' /\ ValueKept
  BY <1>1 DEF Owned, ValueKept
<1>2. CASE UNCHANGED vars
  BY <1>1, <1>2 DEF vars
<1>3. ASSUME NEW d \in Ticks, Tick(d) PROVE Owned' /\ ValueKept
  BY <1>1, <1>3 DEF Tick
<1>4. CASE \E a \in PoolAmounts : \/ DepositLiquidity(a) \/ SupplyUnaccrued(a)
                                  \/ WithdrawLiquidity(a) \/ WithdrawUnaccrued(a)
  BY <1>4, LiquidityKeepsValue
<1>5. CASE \/ AccrueInterest
           \/ \E a \in PoolAmounts : \/ WithdrawFeeCollector(a)
                                     \/ \E surplus \in Surpluses : FlashLoan(a, surplus)
           \/ \E cfg \in RateConfigs : SetBorrowRateParams(cfg)
           \/ \E k \in Keys : \/ \E margin, borrow \in KeyAmounts : Open(k, margin, borrow)
                              \/ \E a \in KeyAmounts : Spend(k, a) \/ Repay(k, a)
                              \/ WriteOff(k)
                              \/ Sweep(k)
  BY <1>5, OthersKeepValue
<1> QED
  BY <1>2, <1>3, <1>4, <1>5 DEF Next

\* A deposit or a withdrawal never lowers the quote behind each share of the
\* others, and a vault whose last share was withdrawn is empty.
THEOREM SharesKeepTheirValue == Spec => OtherSharesKeepTheirValue
<1>1. Init => Owned
  BY DEF Init, EmptyVault, Nav, Owned
<1>2. Books /\ Owned /\ [Next]_vars => Owned'
  BY NextKeepsValue
<1>3. Books /\ Owned /\ [Next]_vars =>
        [vault'.total_shares # vault.total_shares =>
           Nav(vault') * vault.total_shares >= Nav(vault) * vault'.total_shares]_vars
  BY NextKeepsValue DEF ValueKept
<1> QED
  BY <1>1, <1>2, <1>3, BooksBalance, PTL DEF Spec, OtherSharesKeepTheirValue

\* A vault whose last share is withdrawn is empty: neither idle quote nor
\* debt nor insurance is left for whoever supplies next.
THEOREM NobodyInheritsTheVault == Spec => [](vault.total_shares = 0 => Nav(vault) = 0)
<1>1. Init => Owned
  BY DEF Init, EmptyVault, Nav, Owned
<1>2. Books /\ Owned /\ [Next]_vars => Owned'
  BY NextKeepsValue
<1>3. Owned => (vault.total_shares = 0 => Nav(vault) = 0)
  BY DEF Owned
<1> QED
  BY <1>1, <1>2, <1>3, BooksBalance, PTL DEF Spec

-----------------------------------------------------------------------------
(* Who pays for a debt that is written off                                 *)

\* What the LPs and those who share their fees have and are owed, the fund
\* apart.
Owing(t) == t.vault.balance + t.vault.total_borrowed + t.collector + t.paid

\* A payment into a debt, on the vault's side and on the key's.
LEMMA RepayVaultPays ==
    ASSUME NEW t, Sound(t), Accrued(t), NEW p \in Nat, NEW payment \in Nat,
           payment <= VaultDebtOf(t.vault, p),
           RepayVaultForLedger(t, p, payment).ok
    PROVE  LET u == RepayVaultForLedger(t, p, payment)
           IN  /\ u.vault.total_borrowed = t.vault.total_borrowed - payment
               /\ u.vault.insurance_fund = t.vault.insurance_fund
               /\ u.quote = t.quote
<1> DEFINE a         == Accrue(t)
           debt      == VaultDebtOf(a.vault, p)
           repay     == IF payment >= debt THEN debt ELSE payment
           principal == VaultPrincipalIn(p, repay, debt)
           paid      == ApplyRepayment(a, repay, principal)
           shared    == DistributeProtocolFee(paid, repay - principal)
           cond      == payment > 0 /\ principal <= repay
           last      == [shared EXCEPT !.vault.balance = @ + (payment - (repay - principal))]
<1>1. RepayVaultForLedger(t, p, payment) = Require(a, cond, last)
  BY DEF RepayVaultForLedger
<1>2. /\ Sound(a) /\ a.vault.total_borrowed = t.vault.total_borrowed
      /\ a.vault.total_principal_borrowed = t.vault.total_principal_borrowed
      /\ a.vault.insurance_fund = t.vault.insurance_fund
  BY StepAccrue, AccrueOnce, AccruedVaultType DEF Step, Sound, Typed, Contexts
<1>3. a.quote = t.quote
  BY DEF Accrue, Sound, Typed, Contexts
<1>4. /\ a \in Contexts /\ a.vault \in PoolVaults /\ a.vault.total_borrowed \in Nat
      /\ t.vault.total_borrowed \in Nat /\ t.vault.total_principal_borrowed \in Nat
  BY <1>2 DEF Sound, Typed, Contexts, PoolVaults
<1> HIDE DEF a
<1>5. debt = VaultDebtOf(t.vault, p) /\ debt \in Nat
  BY <1>2, <1>4, DebtNat DEF VaultDebtOf
<1> HIDE DEF debt
<1>6. repay = payment
  BY <1>5
<1> HIDE DEF repay
<1>7. principal \in Nat
  BY <1>5, <1>6, SplitNat
<1> HIDE DEF principal
<1>8. /\ Typed(paid) /\ (paid.ok => paid.vault.total_borrowed = a.vault.total_borrowed - repay)
      /\ paid.vault.insurance_fund = a.vault.insurance_fund /\ paid.quote = a.quote
  <2>1. Typed(paid) /\ (paid.ok => paid.vault.total_borrowed = a.vault.total_borrowed - repay)
    <3>1. Typed(a) /\ repay \in Nat
      BY <1>2, <1>6 DEF Sound
    <3> QED
      BY <1>7, <3>1, ApplyRepaymentFacts
  <2>2. paid.vault.insurance_fund = a.vault.insurance_fund /\ paid.quote = a.quote
    BY <1>4 DEF ApplyRepayment, Require, Contexts, PoolVaults
  <2> QED
    BY <2>1, <2>2
<1> HIDE DEF paid
<1>9. /\ shared.vault.total_borrowed = paid.vault.total_borrowed
      /\ shared.vault.insurance_fund = paid.vault.insurance_fund
      /\ shared.quote = paid.quote /\ shared.ok = paid.ok
      /\ shared.vault = [paid.vault EXCEPT !.balance = shared.vault.balance]
      /\ "vault" \in DOMAIN shared /\ "quote" \in DOMAIN shared /\ "ok" \in DOMAIN shared
  BY <1>8 DEF DistributeProtocolFee, Typed, Contexts, PoolVaults
<1>10. DOMAIN shared.vault = DOMAIN paid.vault /\ "total_borrowed" \in DOMAIN paid.vault
       /\ "insurance_fund" \in DOMAIN paid.vault
  BY <1>8, <1>9 DEF Typed, Contexts, PoolVaults
<1> HIDE DEF shared
<1>11. /\ last.vault.total_borrowed = shared.vault.total_borrowed
       /\ last.vault.insurance_fund = shared.vault.insurance_fund
       /\ last.quote = shared.quote /\ last.ok = shared.ok
  BY <1>9, <1>10
<1> HIDE DEF last, cond
<1>12. Require(a, cond, last) = last /\ last.ok
  <2>1. [a EXCEPT !.ok = FALSE].ok = FALSE
    BY <1>4 DEF Contexts
  <2> QED
    BY <1>1, <2>1 DEF Require
<1> QED
  BY <1>1, <1>2, <1>3, <1>6, <1>8, <1>9, <1>11, <1>12

\* Whoever pays into a debt, the vault's side is worth what it was, and a
\* debt that is paid in full is gone.
LEMMA RepayKeyPays ==
    ASSUME NEW t, Sound(t), Accrued(t), NEW k \in Keys, NEW payment \in Nat,
           payment <= KeyDebt(t, k), RepayKey(t, k, payment).ok
    PROVE  LET u == RepayKey(t, k, payment)
           IN  /\ Owing(u) = Owing(t) /\ u.quote = t.quote
               /\ u.vault.insurance_fund = t.vault.insurance_fund
               /\ payment = KeyDebt(t, k) => u.borrowed[k] = 0
<1> DEFINE p    == t.borrowed[k]
           debt == KeyDebt(t, k)
           l    == LedgerPrincipalIn(p, payment, debt)
           r    == RepayVaultForLedger(t, p, payment)
           u    == RepayKey(t, k, payment)
<1>1. /\ p \in Nat /\ debt \in Nat /\ debt = VaultDebtOf(t.vault, p)
      /\ t.ok => p <= t.vault.total_principal_borrowed
  BY KeyDebtFacts
<1>2. u = RecordRepay(r, k, l)
  BY DEF RepayKey
<1> HIDE DEF debt, p, l
<1>3. Typed(r) /\ r.borrowed = t.borrowed
  BY <1>1, RepayVaultFacts DEF debt
<1>4. /\ r.ok /\ u.vault = r.vault /\ u.quote = r.quote /\ u.collector = r.collector
      /\ u.paid = r.paid
      /\ u.borrowed = [r.borrowed EXCEPT ![k] = @ - l]
  <2> HIDE DEF r
  <2> QED
    BY <1>2, <1>3 DEF RecordRepay, Require, Typed, Contexts
<1>5. /\ r.vault.total_borrowed = t.vault.total_borrowed - payment
      /\ r.vault.insurance_fund = t.vault.insurance_fund
      /\ r.quote = t.quote
  BY <1>1, <1>4, RepayVaultPays DEF debt
<1>6. Step(t, u, payment)
  BY StepRepayKey DEF debt
<1> HIDE DEF r, u
<1>7. Held(u) = Held(t) + payment /\ Typed(u) /\ Typed(t)
  BY <1>6 DEF Step, Sound, u
<1>8. Owing(u) = Owing(t)
  <2>1. /\ SumFunctionOnSet(t.quote, Keys) \in Nat
        /\ t.vault.balance \in Nat /\ t.vault.insurance_fund \in Nat
        /\ t.collector \in Nat /\ t.paid \in Nat /\ t.vault.total_borrowed \in Nat
        /\ u.vault.balance \in Nat /\ u.collector \in Nat /\ u.paid \in Nat
    BY <1>7, SumNat, ProxyAssumption DEF Typed, Contexts, PoolVaults
  <2>2. /\ u.quote = t.quote /\ u.vault.insurance_fund = t.vault.insurance_fund
        /\ u.vault.total_borrowed = t.vault.total_borrowed - payment
    BY <1>4, <1>5
  <2> DEFINE all == SumFunctionOnSet(t.quote, Keys)
  <2>3. u.vault.balance + t.vault.insurance_fund + u.collector + u.paid + all
          = t.vault.balance + t.vault.insurance_fund + t.collector + t.paid + all + payment
    BY <1>7, <2>2 DEF Held
  <2> HIDE DEF all
  <2>4. all \in Nat
    BY <2>1 DEF all
  <2>5. u.vault.balance + u.collector + u.paid
          = t.vault.balance + t.collector + t.paid + payment
    BY <2>1, <2>3, <2>4
  <2> QED
    BY <2>1, <2>2, <2>5 DEF Owing
<1>9. ASSUME payment = debt PROVE u.borrowed[k] = 0
  <2>1. l = p
    BY <1>1, <1>9 DEF l, LedgerPrincipalIn
  <2>2. t.borrowed \in [Keys -> Nat]
    BY <1>7 DEF Typed, Contexts
  <2> QED
    BY <1>1, <1>3, <1>4, <2>1, <2>2 DEF p
<1> QED
  BY <1>4, <1>5, <1>8, <1>9 DEF u, debt

\* The key pays as long as it has anything.
LEMMA CoverFromKeyPays ==
    ASSUME NEW t, Sound(t), Accrued(t), NEW k \in Keys, CoverFromKey(t, k).ok
    PROVE  LET u == CoverFromKey(t, k)
           IN  Owing(u) = Owing(t) /\ (u.borrowed[k] # 0 => u.quote[k] = 0)
<1> DEFINE cover == IF t.quote[k] >= KeyDebt(t, k) THEN KeyDebt(t, k) ELSE t.quote[k]
           w == WithdrawFromKey(t, k, cover)
           u == CoverFromKey(t, k)
<1>1. u = IF cover = 0 \/ t.borrowed[k] = 0 THEN t ELSE RepayKey(w, k, cover)
  BY DEF CoverFromKey
<1>2. /\ t.quote[k] \in Nat /\ KeyDebt(t, k) \in Nat /\ t.borrowed[k] \in Nat
      /\ t.ok => t.borrowed[k] <= KeyDebt(t, k)
  BY KeyDebtFacts DEF Sound, Typed, Contexts
<1>3. cover \in Nat /\ cover <= KeyDebt(t, k)
  BY <1>2
<1>4. u.ok
  OBVIOUS
<1>5. cover # KeyDebt(t, k) => cover = t.quote[k]
  BY <1>2
<1> HIDE DEF cover, u
<1>6. CASE cover = 0 \/ t.borrowed[k] = 0
  <2>1. u = t
    BY <1>1, <1>6
  <2>2. ASSUME t.borrowed[k] # 0 PROVE t.quote[k] = 0
    BY <1>2, <1>3, <1>4, <1>5, <1>6, <2>1, <2>2
  <2> QED
    BY <2>1, <2>2 DEF u
<1>7. CASE ~(cover = 0 \/ t.borrowed[k] = 0)
  <2>1. /\ Step(t, w, 0 - cover) /\ w.borrowed = t.borrowed /\ w.vault = t.vault
    BY <1>3, StepWithdrawFromKey
  <2>2. u = RepayKey(w, k, cover)
    BY <1>1, <1>7
  <2> HIDE DEF w
  <2>3. Sound(w) /\ Accrued(w) /\ KeyDebt(w, k) = KeyDebt(t, k)
    BY <2>1 DEF Step, KeyDebt
  <2>4. Step(w, u, cover)
    BY <1>3, <2>2, <2>3, StepRepayKey
  <2>5. w.ok /\ RepayKey(w, k, cover).ok
    BY <1>4, <2>2, <2>4 DEF Step
  <2>6. /\ Owing(u) = Owing(w) /\ u.quote = w.quote
        /\ cover = KeyDebt(t, k) => u.borrowed[k] = 0
    BY <1>3, <2>2, <2>3, <2>5, RepayKeyPays
  <2>7. /\ w.collector = t.collector /\ w.paid = t.paid
        /\ w.quote = [t.quote EXCEPT ![k] = @ - cover]
    BY <2>5 DEF w, WithdrawFromKey, Require, Sound, Typed, Contexts
  <2>8. w.quote[k] = t.quote[k] - cover
    BY <2>7 DEF Sound, Typed, Contexts
  <2>9. Owing(w) = Owing(t)
    BY <2>1, <2>7 DEF Owing
  <2>10. u.borrowed[k] # 0 => u.quote[k] = 0
    BY <1>2, <1>5, <2>6, <2>8
  <2> QED
    BY <2>6, <2>9, <2>10 DEF u
<1> QED
  BY <1>6, <1>7

\* Then the insurance fund does.
LEMMA CoverFromInsurancePays ==
    ASSUME NEW t, Sound(t), Accrued(t), NEW k \in Keys, CoverFromInsurance(t, k).ok
    PROVE  LET u == CoverFromInsurance(t, k)
           IN  /\ Owing(u) = Owing(t) /\ u.quote = t.quote
               /\ u.borrowed[k] # 0 => t.borrowed[k] # 0 /\ u.vault.insurance_fund = 0
<1> DEFINE fund  == t.vault.insurance_fund
           cover == IF fund >= KeyDebt(t, k) THEN KeyDebt(t, k) ELSE fund
           w == TakeInsurance(t, cover)
           u == CoverFromInsurance(t, k)
<1>1. u = IF cover = 0 \/ t.borrowed[k] = 0 THEN t ELSE RepayKey(w, k, cover)
  BY DEF CoverFromInsurance
<1>2. /\ fund \in Nat /\ KeyDebt(t, k) \in Nat /\ t.borrowed[k] \in Nat
      /\ t.ok => t.borrowed[k] <= KeyDebt(t, k)
  BY KeyDebtFacts DEF Sound, Typed, Contexts, PoolVaults
<1>3. cover \in Nat /\ cover <= KeyDebt(t, k)
  BY <1>2
<1>4. u.ok
  OBVIOUS
<1>5. cover # KeyDebt(t, k) => cover = fund
  BY <1>2
<1> HIDE DEF cover, u
<1>6. CASE cover = 0 \/ t.borrowed[k] = 0
  <2>1. u = t
    BY <1>1, <1>6
  <2>2. ASSUME t.borrowed[k] # 0 PROVE fund = 0
    BY <1>2, <1>3, <1>4, <1>5, <1>6, <2>1, <2>2
  <2> QED
    BY <2>1, <2>2 DEF u
<1>7. CASE ~(cover = 0 \/ t.borrowed[k] = 0)
  <2>1. /\ Step(t, w, 0 - cover) /\ w.borrowed = t.borrowed
        /\ w.vault.total_borrowed = t.vault.total_borrowed
        /\ w.vault.total_principal_borrowed = t.vault.total_principal_borrowed
    BY <1>3, StepTakeInsurance
  <2>2. u = RepayKey(w, k, cover)
    BY <1>1, <1>7
  <2> HIDE DEF w
  <2>3. Sound(w) /\ Accrued(w) /\ KeyDebt(w, k) = KeyDebt(t, k)
    BY <2>1 DEF Step, KeyDebt, VaultDebtOf
  <2>4. Step(w, u, cover)
    BY <1>3, <2>2, <2>3, StepRepayKey
  <2>5. w.ok /\ RepayKey(w, k, cover).ok
    BY <1>4, <2>2, <2>4 DEF Step
  <2>6. /\ Owing(u) = Owing(w) /\ u.quote = w.quote
        /\ u.vault.insurance_fund = w.vault.insurance_fund
        /\ cover = KeyDebt(t, k) => u.borrowed[k] = 0
    BY <1>3, <2>2, <2>3, <2>5, RepayKeyPays
  <2>7. /\ w.collector = t.collector /\ w.paid = t.paid /\ w.quote = t.quote
        /\ w.vault.balance = t.vault.balance
        /\ w.vault.insurance_fund = fund - cover
    BY <2>5 DEF w, TakeInsurance, Require, Sound, Typed, Contexts, PoolVaults
  <2>8. Owing(w) = Owing(t)
    BY <2>1, <2>7 DEF Owing
  <2> HIDE DEF fund
  <2>9. u.borrowed[k] # 0 => u.vault.insurance_fund = 0
    BY <1>2, <1>5, <2>6, <2>7
  <2> QED
    BY <1>7, <2>6, <2>7, <2>8, <2>9 DEF u
<1> QED
  BY <1>6, <1>7

\* What is left is nobody's quote.
LEMMA SocializeRestPays ==
    ASSUME NEW t, Typed(t), NEW k \in Keys, SocializeRest(t, k).ok
    PROVE  LET u == SocializeRest(t, k)
           IN  /\ u.quote = t.quote /\ u.vault.insurance_fund = t.vault.insurance_fund
               /\ t.borrowed[k] = 0 => u = t
<1> DEFINE w == WriteOffDebtForLedger(t, t.borrowed[k], KeyDebt(t, k))
<1>1. SocializeRest(t, k) = IF t.borrowed[k] = 0 THEN t ELSE RecordRepay(w, k, t.borrowed[k])
  BY DEF SocializeRest
<1>2. /\ w.quote = t.quote /\ w.vault.insurance_fund = t.vault.insurance_fund
      /\ "quote" \in DOMAIN w /\ "vault" \in DOMAIN w
  BY DEF WriteOffDebtForLedger, ApplyRepayment, Require, Typed, Contexts, PoolVaults
<1> HIDE DEF w
<1>3. ASSUME NEW p
      PROVE  RecordRepay(w, k, p).quote = w.quote /\ RecordRepay(w, k, p).vault = w.vault
  BY <1>2 DEF RecordRepay, Require
<1> QED
  BY <1>1, <1>2, <1>3

\* A write-off that costs the others something has used up the key and the
\* fund.
LEMMA WriteOffPays ==
    ASSUME NEW t, Sound(t), NEW k \in Keys, t.borrowed[k] > 0, WriteOffResidual(t, k).ok
    PROVE  LET u == WriteOffResidual(t, k)
           IN  \/ Owing(u) = Owing(Accrue(t))
               \/ u.quote[k] = 0 /\ u.vault.insurance_fund = 0
<1> DEFINE a == Accrue(t)
           b == CoverFromKey(a, k)
           c == CoverFromInsurance(b, k)
           d == SocializeRest(c, k)
<1>1. WriteOffResidual(t, k) = d /\ d.ok
  BY DEF WriteOffResidual
<1>2. Sound(a) /\ Accrued(a)
  BY StepAccrue DEF Step
<1> HIDE DEF a
<1>3. Step(a, b, 0) /\ Sound(b) /\ Accrued(b)
  BY <1>2, StepCoverFromKey DEF Step
<1>4. b.ok => Owing(b) = Owing(a) /\ (b.borrowed[k] # 0 => b.quote[k] = 0)
  BY <1>2, CoverFromKeyPays
<1> HIDE DEF b
<1>5. Step(b, c, 0) /\ Sound(c) /\ Accrued(c)
  BY <1>3, StepCoverFromInsurance DEF Step
<1>6. c.ok => /\ Owing(c) = Owing(b) /\ c.quote = b.quote
              /\ c.borrowed[k] # 0 => b.borrowed[k] # 0 /\ c.vault.insurance_fund = 0
  BY <1>3, CoverFromInsurancePays
<1> HIDE DEF c
<1>7. c.ok /\ b.ok
  <2>1. Step(c, d, 0)
    BY <1>5, StepSocializeRest
  <2> QED
    BY <1>1, <1>5, <2>1 DEF Step
<1>8. /\ d.quote = c.quote /\ d.vault.insurance_fund = c.vault.insurance_fund
      /\ c.borrowed[k] = 0 => d = c
  BY <1>1, <1>5, SocializeRestPays DEF Sound
<1> HIDE DEF d
<1> QED
  BY <1>1, <1>4, <1>6, <1>7, <1>8 DEF a

\* The key that defaults and then the whole insurance fund pay before the LPs
\* do, for any debt and any number of coins in any of the three.
THEOREM KeyAndFundPayFirst == Spec => LPsAreLastToPay
<1> DEFINE Falls == vault'.balance + vault'.total_borrowed + collector' + purse'
                      < vault.balance + AccruedVault(vault, now).total_borrowed
                          + collector + purse
<1>1. ASSUME Books, NEW k \in Keys, borrowed[k] > 0, WriteOff(k), Falls
      PROVE  quote'[k] = 0 /\ vault'.insurance_fund = 0
  <2> DEFINE u == WriteOffResidual(Context, k)
  <2>1. /\ Sound(Context) /\ Context.borrowed[k] > 0 /\ Context.vault = vault
        /\ Context.collector = collector /\ Context.paid = 0 /\ Context.now = now
        /\ purse \in Nat /\ Context \in Contexts
    BY <1>1 DEF Books, Context, Sound, Typed
  <2>2. /\ u.ok /\ vault' = u.vault /\ collector' = u.collector /\ quote' = u.quote
        /\ purse' = purse - 0 + 0 + u.paid
    BY <1>1 DEF WriteOff, Commit
  <2>3. \/ Owing(u) = Owing(Accrue(Context))
        \/ u.quote[k] = 0 /\ u.vault.insurance_fund = 0
    BY <2>1, <2>2, WriteOffPays
  <2>4. Sound(u)
    BY <2>1, StepWriteOffResidual DEF Step
  <2> HIDE DEF u
  <2>5. /\ u.vault.balance \in Nat /\ u.vault.total_borrowed \in Nat /\ u.collector \in Nat
        /\ u.paid \in Nat /\ vault.balance \in Nat /\ collector \in Nat
        /\ AccruedVault(vault, now).total_borrowed \in Nat
        /\ AccruedVault(vault, now).balance = vault.balance
    BY <2>1, <2>4, AccruedVaultType DEF Sound, Typed, Contexts, PoolVaults
  <2>6. Owing(Accrue(Context))
          = vault.balance + AccruedVault(vault, now).total_borrowed + collector + 0
    <3> DEFINE a == Accrue(Context)
    <3>1. a.vault = AccruedVault(vault, now)
      BY <2>1, StepAccrue
    <3>2. a.collector = collector /\ a.paid = 0
      BY <2>1 DEF Accrue, Contexts
    <3> HIDE DEF a
    <3> QED
      BY <2>5, <3>1, <3>2 DEF Owing, a
  <2>7. Owing(u) # Owing(Accrue(Context))
    BY <1>1, <2>1, <2>2, <2>5, <2>6 DEF Owing
  <2> QED
    BY <2>2, <2>3, <2>7
<1>2. Books /\ [Next]_vars =>
        [\A k \in Keys :
           /\ borrowed[k] > 0 /\ borrowed'[k] = 0 /\ WriteOff(k)
           /\ vault'.balance + vault'.total_borrowed + collector' + purse'
                < vault.balance + AccruedVault(vault, now).total_borrowed + collector + purse
           => quote'[k] = 0 /\ vault'.insurance_fund = 0]_vars
  BY <1>1
<1> HIDE DEF Falls
<1> QED
  BY <1>2, BooksBalance, PTL DEF Spec, LPsAreLastToPay

==============================================================================
