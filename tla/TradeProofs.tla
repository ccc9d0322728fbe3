----------------------------- MODULE TradeProofs ------------------------------
(***************************************************************************)
(* The trading contracts keep their books, for every set of proxies and    *)
(* keys, every scale, every price and every amount: the theorems at the    *)
(* end.                                                                    *)
(*                                                                         *)
(* A transaction is a chain of operators on a context.  Each operator gets *)
(* a lemma: if the context it returns has not aborted, neither had the one *)
(* it was given, its books balance again, the quote in the system changed  *)
(* by a known amount, and only the ledgers of one key were touched.        *)
(* Nothing but its fields is known of a context that aborted.              *)
(***************************************************************************)
EXTENDS Trade, ProtocolMathProofs

Fields == {"vault", "collector", "paid", "now", "ok", "purse",
           "custody", "trading", "reserved", "debtTotal", "manager",
           "quote", "borrowed", "margin", "leverage", "remint",
           "order", "trigger", "contracts"}

IsContext(t) == t = [f \in Fields |-> t[f]]

Leverage == {lev \in Nat : LeverageInBounds(lev)}

VaultTyped(t) == /\ t.vault \in VaultType /\ t.vault.last_accrue_ms <= t.now
                 /\ t.collector \in Nat /\ t.paid \in Nat /\ t.now \in Nat

ProxiesTyped(t) == /\ t.purse \in Nat
                   /\ t.custody \in [Proxies -> Nat] /\ t.trading \in [Proxies -> Nat]
                   /\ t.reserved \in [Proxies -> Nat] /\ t.manager \in [Proxies -> Nat]

KeysTyped(t) == /\ t.quote \in [Keys -> Nat] /\ t.contracts \in [Keys -> Nat]
                /\ t.remint \in [Keys -> BOOLEAN]
                /\ t.order \in [Keys -> OrderType \cup {NoOrder}]

DebtsTyped(t) == /\ t.borrowed \in [Keys -> Nat] /\ t.debtTotal \in [Proxies -> Nat]
                 /\ t.margin \in [Keys -> Nat] /\ t.leverage \in [Keys -> Leverage]

\* CustodyMatchesLedgers, ReserveMatchesOrders and DebtTotalsMatch of a context.
Custodied(t) ==
    \A a \in Proxies : t.custody[a] = t.trading[a] + t.reserved[a] + Sum(t.quote, KeysOf(a))
OrdersReserved(t) == \A a \in Proxies : t.reserved[a] = Sum(RestingMargin(t.order), KeysOf(a))
Totalled(t) == \A a \in Proxies : t.debtTotal[a] = Sum(t.borrowed, KeysOf(a))

\* The vault's debt covers its principal, and its principal the ledgers'.
Covered(v) == /\ v.total_principal_borrowed <= v.total_borrowed
              /\ v.total_principal_borrowed = 0 => v.total_borrowed = 0
Backed(t)  == Sum(t.borrowed, Keys) <= t.vault.total_principal_borrowed

Books(t) == /\ VaultTyped(t) /\ ProxiesTyped(t) /\ KeysTyped(t) /\ DebtsTyped(t)
            /\ Custodied(t) /\ OrdersReserved(t) /\ Totalled(t)
            /\ Covered(t.vault) /\ Backed(t)

Sane(t) == IsContext(t) /\ (t.ok => Books(t))

\* All the quote there is.
Funds(t) == t.vault.balance + t.vault.insurance_fund + t.collector + t.paid
Held(t)  == t.purse + Funds(t) + Sum(t.custody, Proxies) + Sum(t.manager, Proxies)

Accrued(t) == t.vault.last_accrue_ms = t.now

\* Only key k's ledger may differ.
Elsewhere(t, u, k) ==
    \A i \in Keys \ {k} : /\ u.quote[i] = t.quote[i] /\ u.borrowed[i] = t.borrowed[i]
                          /\ u.margin[i] = t.margin[i] /\ u.leverage[i] = t.leverage[i]
                          /\ u.contracts[i] = t.contracts[i] /\ u.order[i] = t.order[i]

\* A call on key k leads from t to u, which holds d more quote.
Step(t, u, k, d) ==
    /\ IsContext(u)
    /\ u.ok => /\ t.ok /\ Books(u)
               /\ Held(u) = Held(t) + d
               /\ u.now = t.now /\ (Accrued(t) => Accrued(u))
               /\ Elsewhere(t, u, k)

-----------------------------------------------------------------------------
(* Contexts and steps in general                                           *)

\* Keys and proxies.
LEMMA KeyFacts ==
    /\ IsFiniteSet(Keys) /\ IsFiniteSet(Proxies)
    /\ \A k \in Keys : ProxyOf[k] \in Proxies /\ k \in KeysOf(ProxyOf[k])
    /\ \A a : KeysOf(a) \in SUBSET Keys
BY ProxyAssumption, TradeAssumption DEF KeysOf

\* What a context holds is an amount.
LEMMA FundsNat == ASSUME NEW t, VaultTyped(t) PROVE Funds(t) \in Nat
<1>1. /\ t.vault.balance \in Nat /\ t.vault.insurance_fund \in Nat
      /\ t.collector \in Nat /\ t.paid \in Nat
  BY DEF VaultTyped, VaultType
<1> QED
  BY <1>1 DEF Funds

\* So is all the quote there is.
LEMMA HeldNat == ASSUME NEW t, Books(t) PROVE Held(t) \in Nat
<1>1. t.purse \in Nat /\ Funds(t) \in Nat
  BY FundsNat DEF Books, ProxiesTyped
<1>2. Sum(t.custody, Proxies) \in Nat /\ Sum(t.manager, Proxies) \in Nat
  BY SumNat, KeyFacts DEF Books, ProxiesTyped, Sum
<1> QED
  BY <1>1, <1>2 DEF Held

\* Steps on one key compose.
LEMMA StepTrans ==
    ASSUME NEW t, Sane(t), NEW u, NEW w, NEW k, NEW d, NEW e,
           t.ok => d \in Int /\ e \in Int,
           Step(t, u, k, d), Step(u, w, k, e)
    PROVE  Step(t, w, k, d + e)
<1>1. t.ok => Held(t) \in Nat
  BY HeldNat DEF Sane
<1>2. ASSUME w.ok PROVE Elsewhere(t, w, k)
  BY <1>2 DEF Step, Elsewhere
<1> QED
  BY <1>1, <1>2 DEF Step

\* A step leads to a sane context.
LEMMA StepSane == ASSUME NEW t, NEW u, NEW k, NEW d, Step(t, u, k, d) PROVE Sane(u)
BY DEF Step, Sane

\* A call that does nothing.
LEMMA StepSame == ASSUME NEW t, Sane(t), NEW k PROVE Step(t, t, k, 0)
<1>1. t.ok => Held(t) \in Nat
  BY HeldNat DEF Sane
<1> QED
  BY <1>1 DEF Step, Sane, Elsewhere

\* An aborted transaction keeps its fields.
LEMMA AbortFacts ==
    ASSUME NEW t, IsContext(t)
    PROVE  IsContext([t EXCEPT !.ok = FALSE]) /\ [t EXCEPT !.ok = FALSE].ok = FALSE
BY DEF IsContext, Fields

\* An assertion leads on or aborts.
LEMMA RequireFacts ==
    ASSUME NEW t, IsContext(t), NEW cond, NEW after, t.ok /\ cond => IsContext(after)
    PROVE  /\ IsContext(Require(t, cond, after))
           /\ Require(t, cond, after).ok => t.ok /\ cond /\ Require(t, cond, after) = after
BY AbortFacts DEF Require

\* An assertion in front of a step leaves it a step.
LEMMA StepRequire ==
    ASSUME NEW t, IsContext(t), NEW cond, NEW after, NEW k, NEW d,
           t.ok /\ cond => Step(t, after, k, d)
    PROVE  Step(t, Require(t, cond, after), k, d)
BY AbortFacts DEF Require, Step

-----------------------------------------------------------------------------
(* What a call leaves alone                                                *)

SameVault(t, u) == u.vault = t.vault /\ u.collector = t.collector /\ u.paid = t.paid

SameWallets(t, u) == /\ u.purse = t.purse /\ u.custody = t.custody /\ u.trading = t.trading
                     /\ u.reserved = t.reserved /\ u.manager = t.manager

SameOrders(t, u) == u.order = t.order /\ u.remint = t.remint /\ u.contracts = t.contracts

SameDebts(t, u) == u.borrowed = t.borrowed /\ u.debtTotal = t.debtTotal

SameLeverage(t, u) == u.margin = t.margin /\ u.leverage = t.leverage

\* Only the vault, the collector and what is paid out may differ.
OnlyVault(t, u) == /\ IsContext(u) /\ u.now = t.now
                   /\ SameWallets(t, u) /\ u.quote = t.quote /\ SameOrders(t, u)
                   /\ SameDebts(t, u) /\ SameLeverage(t, u)

\* Calls that only touch the vault compose.
LEMMA OnlyVaultTrans ==
    ASSUME NEW t, NEW u, NEW w, OnlyVault(t, u), OnlyVault(u, w)
    PROVE  OnlyVault(t, w)
BY DEF OnlyVault, SameWallets, SameOrders, SameDebts, SameLeverage

\* A call that only touches the vault and leaves it backing the ledgers.
LEMMA VaultStep ==
    ASSUME NEW t, Sane(t), NEW k, NEW u, IsContext(u),
           u.ok => /\ t.ok /\ OnlyVault(t, u) /\ VaultTyped(u) /\ Covered(u.vault)
                   /\ t.vault.total_principal_borrowed <= u.vault.total_principal_borrowed
                   /\ Accrued(t) => Accrued(u)
    PROVE  Step(t, u, k, Funds(u) - Funds(t))
<1> SUFFICES ASSUME u.ok
             PROVE  /\ Books(u) /\ Held(u) = Held(t) + (Funds(u) - Funds(t))
                    /\ Elsewhere(t, u, k)
  BY DEF Step, OnlyVault
<1>1. Books(t) /\ Held(t) \in Nat /\ Funds(t) \in Nat /\ Funds(u) \in Nat
  BY HeldNat, FundsNat DEF Sane, Books
<1>2. /\ ProxiesTyped(u) /\ KeysTyped(u) /\ DebtsTyped(u)
      /\ Custodied(u) /\ OrdersReserved(u) /\ Totalled(u) /\ Backed(u)
  <2>1. /\ Sum(t.borrowed, Keys) \in Nat /\ Sum(t.borrowed, Keys) <= t.vault.total_principal_borrowed
        /\ t.vault.total_principal_borrowed \in Nat /\ u.vault.total_principal_borrowed \in Nat
        /\ t.vault.total_principal_borrowed <= u.vault.total_principal_borrowed
    BY <1>1, SumNat, KeyFacts DEF Books, DebtsTyped, Backed, Sum, VaultTyped, VaultType
  <2>2. Backed(u)
    BY <2>1 DEF Backed, OnlyVault, SameDebts
  <2> QED
    BY <1>1, <2>2 DEF OnlyVault, SameWallets, SameOrders, SameDebts, SameLeverage, Books,
                      ProxiesTyped, KeysTyped, DebtsTyped, Custodied, OrdersReserved, Totalled
<1>3. Held(u) = t.purse + Funds(u) + Sum(t.custody, Proxies) + Sum(t.manager, Proxies)
  BY DEF OnlyVault, SameWallets, Held
<1>4. /\ Sum(t.custody, Proxies) \in Nat /\ Sum(t.manager, Proxies) \in Nat /\ t.purse \in Nat
  BY <1>1, SumNat, KeyFacts DEF Books, ProxiesTyped, Sum
<1>5. Held(u) = Held(t) + (Funds(u) - Funds(t))
  BY <1>1, <1>3, <1>4 DEF Held
<1>6. Elsewhere(t, u, k)
  BY DEF OnlyVault, SameOrders, SameDebts, SameLeverage, Elsewhere
<1> QED
  BY <1>2, <1>5, <1>6 DEF Books

\* A call on a key's ledger, and no other, may touch the vault too.
OnlyDebt(t, u, k, b, total) ==
    /\ IsContext(u) /\ u.now = t.now
    /\ SameWallets(t, u) /\ u.quote = t.quote /\ SameOrders(t, u) /\ SameLeverage(t, u)
    /\ u.borrowed = [t.borrowed EXCEPT ![k] = b]
    /\ u.debtTotal = [t.debtTotal EXCEPT ![ProxyOf[k]] = total]

\* It keeps the books if the totals follow the ledger.
LEMMA DebtStep ==
    ASSUME NEW t, Sane(t), NEW k \in Keys, NEW b, NEW total,
           NEW u, IsContext(u),
           u.ok => /\ t.ok /\ OnlyDebt(t, u, k, b, total) /\ b \in Nat /\ total \in Nat
                   /\ VaultTyped(u) /\ Covered(u.vault)
                   /\ b - t.borrowed[k] = total - t.debtTotal[ProxyOf[k]]
                   /\ Sum(t.borrowed, Keys) - t.borrowed[k] + b
                        <= u.vault.total_principal_borrowed
                   /\ Accrued(t) => Accrued(u)
    PROVE  Step(t, u, k, Funds(u) - Funds(t))
<1> SUFFICES ASSUME u.ok
             PROVE  /\ Books(u) /\ Held(u) = Held(t) + (Funds(u) - Funds(t))
                    /\ Elsewhere(t, u, k)
  BY DEF Step, OnlyDebt
<1>1. Books(t) /\ Held(t) \in Nat /\ Funds(t) \in Nat /\ Funds(u) \in Nat
  BY HeldNat, FundsNat DEF Sane, Books
<1>2. ProxiesTyped(u) /\ KeysTyped(u) /\ Custodied(u) /\ OrdersReserved(u)
  BY <1>1 DEF OnlyDebt, SameWallets, SameOrders, Books, ProxiesTyped, KeysTyped, Custodied,
              OrdersReserved
<1>3. /\ t.borrowed \in [Keys -> Nat] /\ t.debtTotal \in [Proxies -> Nat]
      /\ t.borrowed[k] \in Nat /\ ProxyOf[k] \in Proxies
      /\ t.margin \in [Keys -> Nat] /\ t.leverage \in [Keys -> Leverage]
  BY <1>1, KeyFacts DEF Books, DebtsTyped
<1>4. /\ u.borrowed \in [Keys -> Nat] /\ u.borrowed[k] = b
      /\ \A i \in Keys \ {k} : u.borrowed[i] = t.borrowed[i]
      /\ u.debtTotal \in [Proxies -> Nat] /\ u.debtTotal[ProxyOf[k]] = total
      /\ \A a \in Proxies \ {ProxyOf[k]} : u.debtTotal[a] = t.debtTotal[a]
  BY <1>3 DEF OnlyDebt
<1>5. DebtsTyped(u)
  BY <1>3, <1>4 DEF DebtsTyped, OnlyDebt, SameLeverage
<1>6. Totalled(u)
  <2> SUFFICES ASSUME NEW a \in Proxies PROVE u.debtTotal[a] = Sum(u.borrowed, KeysOf(a))
    BY DEF Totalled
  <2>1. t.debtTotal[a] = Sum(t.borrowed, KeysOf(a)) /\ t.debtTotal[a] \in Nat
    BY <1>1, <1>3 DEF Books, Totalled
  <2>2. CASE a = ProxyOf[k]
    <3>1. Sum(u.borrowed, KeysOf(a)) = Sum(t.borrowed, KeysOf(a)) - t.borrowed[k] + b
      <4>1. k \in KeysOf(a) /\ KeysOf(a) \in SUBSET Keys
        BY <2>2, KeyFacts
      <4> QED
        BY <1>3, <1>4, <4>1, KeyFacts, SumChangeOn DEF Sum
    <3> QED
      BY <1>3, <1>4, <2>1, <2>2, <3>1
  <2>3. CASE a # ProxyOf[k]
    <3>1. Sum(u.borrowed, KeysOf(a)) = Sum(t.borrowed, KeysOf(a))
      <4>1. KeysOf(a) \in SUBSET Keys /\ \A i \in KeysOf(a) : u.borrowed[i] = t.borrowed[i]
        BY <1>4, <2>3 DEF KeysOf
      <4> QED
        BY <4>1, KeyFacts, SumSame DEF Sum
    <3> QED
      BY <1>4, <2>1, <2>3, <3>1
  <2> QED
    BY <2>2, <2>3
<1>7. Backed(u)
  <2>1. Sum(u.borrowed, Keys) = Sum(t.borrowed, Keys) - t.borrowed[k] + b
    BY <1>3, <1>4, KeyFacts, SumChange DEF Sum
  <2> QED
    BY <2>1 DEF Backed
<1>8. Held(u) = Held(t) + (Funds(u) - Funds(t))
  <2>1. Held(u) = t.purse + Funds(u) + Sum(t.custody, Proxies) + Sum(t.manager, Proxies)
    BY DEF OnlyDebt, SameWallets, Held
  <2>2. /\ Sum(t.custody, Proxies) \in Nat /\ Sum(t.manager, Proxies) \in Nat /\ t.purse \in Nat
    BY <1>1, SumNat, KeyFacts DEF Books, ProxiesTyped, Sum
  <2> QED
    BY <1>1, <2>1, <2>2 DEF Held
<1>9. Elsewhere(t, u, k)
  BY <1>4 DEF OnlyDebt, SameOrders, SameLeverage, Elsewhere
<1> QED
  BY <1>2, <1>5, <1>6, <1>7, <1>8, <1>9 DEF Books

\* Quote moves in the balance manager between a proxy's trading account, one
\* of its keys and the outside.
OnlyQuote(t, u, k, c, x, q) ==
    /\ IsContext(u) /\ u.now = t.now
    /\ SameVault(t, u) /\ SameOrders(t, u) /\ SameDebts(t, u) /\ SameLeverage(t, u)
    /\ u.purse = t.purse /\ u.reserved = t.reserved /\ u.manager = t.manager
    /\ u.custody = [t.custody EXCEPT ![ProxyOf[k]] = c]
    /\ u.trading = [t.trading EXCEPT ![ProxyOf[k]] = x]
    /\ u.quote = [t.quote EXCEPT ![k] = q]

\* Such a call keeps the books if coins and ledgers change alike.
LEMMA QuoteStep ==
    ASSUME NEW t, Sane(t), NEW k \in Keys, NEW c, NEW x, NEW q, NEW d,
           NEW u, IsContext(u),
           u.ok => /\ t.ok /\ OnlyQuote(t, u, k, c, x, q) /\ c \in Nat /\ x \in Nat /\ q \in Nat
                   /\ c - x - q = t.custody[ProxyOf[k]] - t.trading[ProxyOf[k]] - t.quote[k]
                   /\ c - t.custody[ProxyOf[k]] = d
    PROVE  Step(t, u, k, d)
<1> SUFFICES ASSUME u.ok
             PROVE  /\ Books(u) /\ Held(u) = Held(t) + d /\ (Accrued(t) => Accrued(u))
                    /\ Elsewhere(t, u, k)
  BY DEF Step, OnlyQuote
<1> DEFINE p == ProxyOf[k]
<1>1. Books(t) /\ Held(t) \in Nat /\ Funds(t) \in Nat
  BY HeldNat, FundsNat DEF Sane, Books
<1>2. /\ VaultTyped(u) /\ DebtsTyped(u) /\ OrdersReserved(u) /\ Totalled(u)
      /\ Covered(u.vault) /\ Backed(u) /\ Funds(u) = Funds(t) /\ (Accrued(t) => Accrued(u))
  BY <1>1 DEF OnlyQuote, SameVault, SameOrders, SameDebts, SameLeverage, Books, VaultTyped,
              DebtsTyped, OrdersReserved, Totalled, Backed, Funds, Accrued
<1>3. /\ t.quote \in [Keys -> Nat] /\ t.custody \in [Proxies -> Nat]
      /\ t.trading \in [Proxies -> Nat] /\ t.reserved \in [Proxies -> Nat]
      /\ t.manager \in [Proxies -> Nat] /\ t.purse \in Nat /\ p \in Proxies
  BY <1>1, KeyFacts DEF Books, ProxiesTyped, KeysTyped
<1>4. /\ u.quote \in [Keys -> Nat] /\ u.quote[k] = q
      /\ \A i \in Keys \ {k} : u.quote[i] = t.quote[i]
      /\ u.custody \in [Proxies -> Nat] /\ u.custody[p] = c
      /\ u.trading \in [Proxies -> Nat] /\ u.trading[p] = x
      /\ \A a \in Proxies \ {p} : u.custody[a] = t.custody[a] /\ u.trading[a] = t.trading[a]
  BY <1>3 DEF OnlyQuote
<1>5. ProxiesTyped(u) /\ KeysTyped(u)
  BY <1>1, <1>3, <1>4 DEF OnlyQuote, SameOrders, Books, ProxiesTyped, KeysTyped
<1>6. Custodied(u)
  <2> SUFFICES ASSUME NEW a \in Proxies
               PROVE  u.custody[a] = u.trading[a] + u.reserved[a] + Sum(u.quote, KeysOf(a))
    BY DEF Custodied
  <2>1. /\ t.custody[a] = t.trading[a] + t.reserved[a] + Sum(t.quote, KeysOf(a))
        /\ t.custody[a] \in Nat /\ t.trading[a] \in Nat /\ t.reserved[a] \in Nat
        /\ u.reserved[a] = t.reserved[a] /\ Sum(t.quote, KeysOf(a)) \in Nat
    BY <1>1, <1>3, KeyFacts, SumNat DEF Books, Custodied, OnlyQuote, Sum
  <2>2. CASE a = p
    <3>1. Sum(u.quote, KeysOf(a)) = Sum(t.quote, KeysOf(a)) - t.quote[k] + q
      <4>1. k \in KeysOf(a) /\ KeysOf(a) \in SUBSET Keys
        BY <2>2, KeyFacts
      <4> QED
        BY <1>3, <1>4, <4>1, KeyFacts, SumChangeOn DEF Sum
    <3>2. t.quote[k] \in Nat
      BY <1>3
    <3> QED
      BY <1>4, <2>1, <2>2, <3>1, <3>2
  <2>3. CASE a # p
    <3>1. Sum(u.quote, KeysOf(a)) = Sum(t.quote, KeysOf(a))
      <4>1. KeysOf(a) \in SUBSET Keys /\ \A i \in KeysOf(a) : u.quote[i] = t.quote[i]
        BY <1>4, <2>3 DEF KeysOf
      <4> QED
        BY <4>1, KeyFacts, SumSame DEF Sum
    <3> QED
      BY <1>4, <2>1, <2>3, <3>1
  <2> QED
    BY <2>2, <2>3
<1>7. Held(u) = Held(t) + d
  <2>1. Sum(u.custody, Proxies) = Sum(t.custody, Proxies) - t.custody[p] + c
    BY <1>3, <1>4, KeyFacts, SumChange DEF Sum
  <2>2. Sum(t.custody, Proxies) \in Nat /\ Sum(t.manager, Proxies) \in Nat /\ t.custody[p] \in Nat
    BY <1>3, SumNat, KeyFacts DEF Sum
  <2>3. u.purse = t.purse /\ u.manager = t.manager
    BY DEF OnlyQuote
  <2> QED
    BY <1>1, <1>2, <1>3, <2>1, <2>2, <2>3 DEF Held
<1>8. Elsewhere(t, u, k)
  BY <1>4 DEF OnlyQuote, SameOrders, SameDebts, SameLeverage, Elsewhere
<1> QED
  BY <1>2, <1>5, <1>6, <1>7, <1>8 DEF Books

\* Quote moves between a trading account and the outside.
OnlyTrading(t, u, a, c, x) ==
    /\ IsContext(u) /\ u.now = t.now
    /\ SameVault(t, u) /\ SameOrders(t, u) /\ SameDebts(t, u) /\ SameLeverage(t, u)
    /\ u.purse = t.purse /\ u.reserved = t.reserved /\ u.manager = t.manager
    /\ u.custody = [t.custody EXCEPT ![a] = c]
    /\ u.trading = [t.trading EXCEPT ![a] = x]
    /\ u.quote = t.quote

\* The same for a proxy, on no key.
LEMMA TradingStep ==
    ASSUME NEW t, Sane(t), NEW a \in Proxies, NEW c, NEW x, NEW d, NEW k,
           NEW u, IsContext(u),
           u.ok => /\ t.ok /\ OnlyTrading(t, u, a, c, x) /\ c \in Nat /\ x \in Nat
                   /\ c - x = t.custody[a] - t.trading[a]
                   /\ c - t.custody[a] = d
    PROVE  Step(t, u, k, d)
<1> SUFFICES ASSUME u.ok
             PROVE  /\ Books(u) /\ Held(u) = Held(t) + d /\ (Accrued(t) => Accrued(u))
                    /\ Elsewhere(t, u, k)
  BY DEF Step, OnlyTrading
<1>1. Books(t) /\ Held(t) \in Nat /\ Funds(t) \in Nat
  BY HeldNat, FundsNat DEF Sane, Books
<1>2. /\ VaultTyped(u) /\ DebtsTyped(u) /\ KeysTyped(u) /\ OrdersReserved(u) /\ Totalled(u)
      /\ Covered(u.vault) /\ Backed(u) /\ Funds(u) = Funds(t) /\ (Accrued(t) => Accrued(u))
  BY <1>1 DEF OnlyTrading, SameVault, SameOrders, SameDebts, SameLeverage, Books, VaultTyped,
              DebtsTyped, KeysTyped, OrdersReserved, Totalled, Backed, Funds, Accrued
<1>3. /\ t.quote \in [Keys -> Nat] /\ t.custody \in [Proxies -> Nat]
      /\ t.trading \in [Proxies -> Nat] /\ t.reserved \in [Proxies -> Nat]
      /\ t.manager \in [Proxies -> Nat] /\ t.purse \in Nat
  BY <1>1 DEF Books, ProxiesTyped, KeysTyped
<1>4. /\ u.custody \in [Proxies -> Nat] /\ u.custody[a] = c
      /\ u.trading \in [Proxies -> Nat] /\ u.trading[a] = x
      /\ \A i \in Proxies \ {a} : u.custody[i] = t.custody[i] /\ u.trading[i] = t.trading[i]
  BY <1>3 DEF OnlyTrading
<1>5. ProxiesTyped(u)
  BY <1>3, <1>4 DEF OnlyTrading, ProxiesTyped
<1>6. Custodied(u)
  <2> SUFFICES ASSUME NEW i \in Proxies
               PROVE  u.custody[i] = u.trading[i] + u.reserved[i] + Sum(u.quote, KeysOf(i))
    BY DEF Custodied
  <2>1. /\ t.custody[i] = t.trading[i] + t.reserved[i] + Sum(t.quote, KeysOf(i))
        /\ t.custody[i] \in Nat /\ t.trading[i] \in Nat /\ t.reserved[i] \in Nat
        /\ u.reserved[i] = t.reserved[i] /\ Sum(t.quote, KeysOf(i)) \in Nat
        /\ u.quote = t.quote
    BY <1>1, <1>3, KeyFacts, SumNat DEF Books, Custodied, OnlyTrading, Sum
  <2> QED
    BY <1>4, <2>1
<1>7. Held(u) = Held(t) + d
  <2>1. Sum(u.custody, Proxies) = Sum(t.custody, Proxies) - t.custody[a] + c
    BY <1>3, <1>4, KeyFacts, SumChange DEF Sum
  <2>2. Sum(t.custody, Proxies) \in Nat /\ Sum(t.manager, Proxies) \in Nat /\ t.custody[a] \in Nat
    BY <1>3, SumNat, KeyFacts DEF Sum
  <2>3. u.purse = t.purse /\ u.manager = t.manager
    BY DEF OnlyTrading
  <2> QED
    BY <1>1, <1>2, <1>3, <2>1, <2>2, <2>3 DEF Held
<1>8. Elsewhere(t, u, k)
  BY DEF OnlyTrading, SameOrders, SameDebts, SameLeverage, Elsewhere
<1> QED
  BY <1>2, <1>5, <1>6, <1>7, <1>8 DEF Books

\* What an order reserves.
OrderMargin(o) == IF o = NoOrder THEN 0 ELSE o.margin

\* Margin moves between a trading account and the reserve behind an order of
\* the key.
OnlyOrder(t, u, k, o, x, r) ==
    /\ IsContext(u) /\ u.now = t.now
    /\ SameVault(t, u) /\ SameDebts(t, u) /\ SameLeverage(t, u)
    /\ u.purse = t.purse /\ u.custody = t.custody /\ u.manager = t.manager /\ u.quote = t.quote
    /\ u.remint = t.remint /\ u.contracts = t.contracts
    /\ u.trading = [t.trading EXCEPT ![ProxyOf[k]] = x]
    /\ u.reserved = [t.reserved EXCEPT ![ProxyOf[k]] = r]
    /\ u.order = [t.order EXCEPT ![k] = o]

\* The margins of the resting orders are amounts.
LEMMA RestingMarginNat ==
    ASSUME NEW orders \in [Keys -> OrderType \cup {NoOrder}]
    PROVE  /\ RestingMargin(orders) \in [Keys -> Nat]
           /\ \A k \in Keys : RestingMargin(orders)[k] = OrderMargin(orders[k])
BY DEF RestingMargin, OrderMargin, OrderType

\* Such a call keeps the books if the reserve follows the order.
LEMMA OrderStep ==
    ASSUME NEW t, Sane(t), NEW k \in Keys, NEW o, NEW x, NEW r,
           NEW u, IsContext(u),
           u.ok => /\ t.ok /\ OnlyOrder(t, u, k, o, x, r)
                   /\ x \in Nat /\ r \in Nat /\ o \in OrderType \cup {NoOrder}
                   /\ x + r = t.trading[ProxyOf[k]] + t.reserved[ProxyOf[k]]
                   /\ r - t.reserved[ProxyOf[k]] = OrderMargin(o) - OrderMargin(t.order[k])
    PROVE  Step(t, u, k, 0)
<1> SUFFICES ASSUME u.ok
             PROVE  /\ Books(u) /\ Held(u) = Held(t) + 0 /\ (Accrued(t) => Accrued(u))
                    /\ Elsewhere(t, u, k)
  BY DEF Step, OnlyOrder
<1> DEFINE p == ProxyOf[k]
<1>1. Books(t) /\ Held(t) \in Nat
  BY HeldNat DEF Sane
<1>2. /\ VaultTyped(u) /\ DebtsTyped(u) /\ Totalled(u) /\ Covered(u.vault) /\ Backed(u)
      /\ Funds(u) = Funds(t) /\ (Accrued(t) => Accrued(u))
  BY <1>1 DEF OnlyOrder, SameVault, SameDebts, SameLeverage, Books, VaultTyped, DebtsTyped,
              Totalled, Backed, Funds, Accrued
<1>3. /\ t.custody \in [Proxies -> Nat] /\ t.trading \in [Proxies -> Nat]
      /\ t.reserved \in [Proxies -> Nat] /\ p \in Proxies
      /\ t.order \in [Keys -> OrderType \cup {NoOrder}]
  BY <1>1, KeyFacts DEF Books, ProxiesTyped, KeysTyped
<1>4. /\ u.order \in [Keys -> OrderType \cup {NoOrder}] /\ u.order[k] = o
      /\ \A i \in Keys \ {k} : u.order[i] = t.order[i]
      /\ u.trading \in [Proxies -> Nat] /\ u.trading[p] = x
      /\ u.reserved \in [Proxies -> Nat] /\ u.reserved[p] = r
      /\ \A a \in Proxies \ {p} : u.reserved[a] = t.reserved[a] /\ u.trading[a] = t.trading[a]
  BY <1>3 DEF OnlyOrder
<1>5. ProxiesTyped(u) /\ KeysTyped(u)
  BY <1>1, <1>4 DEF OnlyOrder, Books, ProxiesTyped, KeysTyped
<1>6. Custodied(u)
  <2> SUFFICES ASSUME NEW a \in Proxies
               PROVE  u.custody[a] = u.trading[a] + u.reserved[a] + Sum(u.quote, KeysOf(a))
    BY DEF Custodied
  <2>1. /\ t.custody[a] = t.trading[a] + t.reserved[a] + Sum(t.quote, KeysOf(a))
        /\ u.trading[a] + u.reserved[a] = t.trading[a] + t.reserved[a]
    BY <1>1, <1>3, <1>4 DEF Books, Custodied
  <2> QED
    BY <2>1 DEF OnlyOrder
<1>7. OrdersReserved(u)
  <2> SUFFICES ASSUME NEW a \in Proxies
               PROVE  u.reserved[a] = Sum(RestingMargin(u.order), KeysOf(a))
    BY DEF OrdersReserved
  <2> DEFINE f == RestingMargin(t.order)
             g == RestingMargin(u.order)
  <2>1. /\ f \in [Keys -> Nat] /\ f[k] = OrderMargin(t.order[k])
        /\ g \in [Keys -> Nat] /\ g[k] = OrderMargin(o)
        /\ \A i \in Keys \ {k} : g[i] = f[i]
    BY <1>3, <1>4, RestingMarginNat
  <2>2. t.reserved[a] = Sum(f, KeysOf(a)) /\ t.reserved[a] \in Nat
    BY <1>1, <1>3 DEF Books, OrdersReserved
  <2> HIDE DEF f, g
  <2>3. CASE a = p
    <3>1. Sum(g, KeysOf(a)) = Sum(f, KeysOf(a)) - f[k] + g[k]
      <4>1. k \in KeysOf(a) /\ KeysOf(a) \in SUBSET Keys
        BY <2>3, KeyFacts
      <4> QED
        BY <2>1, <4>1, KeyFacts, SumChangeOn DEF Sum
    <3>2. u.reserved[a] = Sum(g, KeysOf(a))
      <4>1. f[k] \in Nat /\ g[k] \in Nat
        BY <2>1
      <4> QED
        BY <1>4, <2>1, <2>2, <2>3, <3>1, <4>1
    <3> QED
      BY <3>2 DEF g
  <2>4. CASE a # p
    <3>1. Sum(g, KeysOf(a)) = Sum(f, KeysOf(a))
      <4>1. KeysOf(a) \in SUBSET Keys /\ \A i \in KeysOf(a) : g[i] = f[i]
        BY <2>1, <2>4 DEF KeysOf
      <4> QED
        BY <4>1, KeyFacts, SumSame DEF Sum
    <3> QED
      BY <1>4, <2>2, <2>4, <3>1 DEF g
  <2> QED
    BY <2>3, <2>4
<1>8. Held(u) = Held(t) + 0
  BY <1>1, <1>2 DEF Held, OnlyOrder
<1>9. Elsewhere(t, u, k)
  BY <1>4 DEF OnlyOrder, SameDebts, SameLeverage, Elsewhere
<1> QED
  BY <1>2, <1>5, <1>6, <1>7, <1>8, <1>9 DEF Books

\* Quote moves between the world, the managers and a key's contracts; a key's
\* remint choice may change too.
OnlyWorld(t, u, k, p, m, n) ==
    /\ IsContext(u) /\ u.now = t.now
    /\ SameVault(t, u) /\ SameDebts(t, u) /\ SameLeverage(t, u)
    /\ u.custody = t.custody /\ u.trading = t.trading /\ u.reserved = t.reserved
    /\ u.quote = t.quote /\ u.order = t.order
    /\ u.purse = p
    /\ u.manager = [t.manager EXCEPT ![ProxyOf[k]] = m]
    /\ u.contracts = [t.contracts EXCEPT ![k] = n]

\* The ledgers do not notice.
LEMMA WorldStep ==
    ASSUME NEW t, Sane(t), NEW k \in Keys, NEW p, NEW m, NEW n, NEW d,
           NEW u, IsContext(u),
           u.ok => /\ t.ok /\ OnlyWorld(t, u, k, p, m, n) /\ p \in Nat /\ m \in Nat /\ n \in Nat
                   /\ u.remint \in [Keys -> BOOLEAN]
                   /\ p + m - t.purse - t.manager[ProxyOf[k]] = d
    PROVE  Step(t, u, k, d)
<1> SUFFICES ASSUME u.ok
             PROVE  /\ Books(u) /\ Held(u) = Held(t) + d /\ (Accrued(t) => Accrued(u))
                    /\ Elsewhere(t, u, k)
  BY DEF Step, OnlyWorld
<1> DEFINE a == ProxyOf[k]
<1>1. Books(t) /\ Held(t) \in Nat /\ Funds(t) \in Nat
  BY HeldNat, FundsNat DEF Sane, Books
<1>2. /\ VaultTyped(u) /\ DebtsTyped(u) /\ Totalled(u) /\ Covered(u.vault) /\ Backed(u)
      /\ Custodied(u) /\ OrdersReserved(u)
      /\ Funds(u) = Funds(t) /\ (Accrued(t) => Accrued(u))
  BY <1>1 DEF OnlyWorld, SameVault, SameDebts, SameLeverage, Books, VaultTyped, DebtsTyped,
              Totalled, Backed, Custodied, OrdersReserved, Funds, Accrued
<1>3. /\ t.custody \in [Proxies -> Nat] /\ t.manager \in [Proxies -> Nat] /\ a \in Proxies
      /\ t.contracts \in [Keys -> Nat] /\ t.purse \in Nat
  BY <1>1, KeyFacts DEF Books, ProxiesTyped, KeysTyped
<1>4. /\ u.manager \in [Proxies -> Nat] /\ u.manager[a] = m
      /\ \A i \in Proxies \ {a} : u.manager[i] = t.manager[i]
      /\ u.contracts \in [Keys -> Nat]
      /\ \A i \in Keys \ {k} : u.contracts[i] = t.contracts[i]
  BY <1>3 DEF OnlyWorld
<1>5. ProxiesTyped(u) /\ KeysTyped(u)
  BY <1>1, <1>4 DEF OnlyWorld, Books, ProxiesTyped, KeysTyped
<1>6. Held(u) = Held(t) + d
  <2>1. Sum(u.manager, Proxies) = Sum(t.manager, Proxies) - t.manager[a] + m
    BY <1>3, <1>4, KeyFacts, SumChange DEF Sum
  <2>2. Sum(t.custody, Proxies) \in Nat /\ Sum(t.manager, Proxies) \in Nat /\ t.manager[a] \in Nat
    BY <1>3, SumNat, KeyFacts DEF Sum
  <2>3. u.purse = p /\ u.custody = t.custody
    BY DEF OnlyWorld
  <2> QED
    BY <1>1, <1>2, <1>3, <2>1, <2>2, <2>3 DEF Held
<1>7. Elsewhere(t, u, k)
  BY <1>4 DEF OnlyWorld, SameDebts, SameLeverage, Elsewhere
<1> QED
  BY <1>2, <1>5, <1>6, <1>7 DEF Books

\* A key's margin and leverage change, and nothing else.
OnlyLeverage(t, u, k, m, lev) ==
    /\ IsContext(u) /\ u.now = t.now
    /\ SameVault(t, u) /\ SameWallets(t, u) /\ u.quote = t.quote /\ SameOrders(t, u)
    /\ SameDebts(t, u)
    /\ u.margin = [t.margin EXCEPT ![k] = m]
    /\ u.leverage = [t.leverage EXCEPT ![k] = lev]

\* The books do not depend on them.
LEMMA LeverageStep ==
    ASSUME NEW t, Sane(t), NEW k \in Keys, NEW m, NEW lev,
           NEW u, IsContext(u),
           u.ok => t.ok /\ OnlyLeverage(t, u, k, m, lev) /\ m \in Nat /\ lev \in Leverage
    PROVE  Step(t, u, k, 0)
<1> SUFFICES ASSUME u.ok
             PROVE  /\ Books(u) /\ Held(u) = Held(t) + 0 /\ (Accrued(t) => Accrued(u))
                    /\ Elsewhere(t, u, k)
  BY DEF Step, OnlyLeverage
<1>1. Books(t) /\ Held(t) \in Nat
  BY HeldNat DEF Sane
<1>2. /\ VaultTyped(u) /\ ProxiesTyped(u) /\ KeysTyped(u) /\ Totalled(u)
      /\ Covered(u.vault) /\ Backed(u) /\ Custodied(u) /\ OrdersReserved(u)
      /\ Held(u) = Held(t) /\ (Accrued(t) => Accrued(u))
  BY <1>1 DEF OnlyLeverage, SameVault, SameWallets, SameOrders, SameDebts, Books, VaultTyped,
              ProxiesTyped, KeysTyped, Totalled, Backed, Custodied, OrdersReserved, Held, Funds,
              Accrued
<1>3. t.margin \in [Keys -> Nat] /\ t.leverage \in [Keys -> Leverage]
  BY <1>1 DEF Books, DebtsTyped
<1>4. /\ u.margin \in [Keys -> Nat] /\ u.leverage \in [Keys -> Leverage]
      /\ \A i \in Keys \ {k} : u.margin[i] = t.margin[i] /\ u.leverage[i] = t.leverage[i]
  BY <1>3 DEF OnlyLeverage
<1>5. DebtsTyped(u)
  BY <1>1, <1>4 DEF OnlyLeverage, SameDebts, Books, DebtsTyped
<1>6. Elsewhere(t, u, k)
  BY <1>4 DEF OnlyLeverage, SameOrders, SameDebts, Elsewhere
<1> QED
  BY <1>1, <1>2, <1>5, <1>6 DEF Books

-----------------------------------------------------------------------------
(* What a call does to the key it is about                                 *)

\* A trader's own quote, free or behind an order.
Free(t, a) == t.trading[a] + t.reserved[a]

KeepsFree(t, u) == u.ok => \A a \in Proxies : Free(t, a) <= Free(u, a)

\* MarginDebtOnlyWithBorrow of one key.
MarginBacked(t, k) == t.margin[k] > 0 => t.borrowed[k] > 0 /\ IsLeveraged(t.leverage[k])

\* The key borrows nothing more, keeps its margin backed, and keeps its quote
\* as long as it owes.
Tame(t, u, k) ==
    u.ok => /\ u.borrowed[k] <= t.borrowed[k]
            /\ MarginBacked(t, k) => MarginBacked(u, k)
            /\ u.borrowed[k] > 0 => t.quote[k] <= u.quote[k]

\* What the ledgers of a proxy and a key hold.
LEMMA LedgerTypes ==
    ASSUME NEW t, Books(t)
    PROVE  /\ \A k \in Keys : /\ t.quote[k] \in Nat /\ t.borrowed[k] \in Nat
                              /\ t.margin[k] \in Nat /\ t.leverage[k] \in Leverage
                              /\ t.contracts[k] \in Nat
                              /\ t.order[k] \in OrderType \cup {NoOrder}
           /\ \A a \in Proxies : /\ t.custody[a] \in Nat /\ t.trading[a] \in Nat
                                 /\ t.reserved[a] \in Nat /\ t.manager[a] \in Nat
                                 /\ t.debtTotal[a] \in Nat
           /\ DOMAIN t.quote = Keys /\ DOMAIN t.borrowed = Keys /\ DOMAIN t.margin = Keys
           /\ DOMAIN t.leverage = Keys /\ DOMAIN t.contracts = Keys /\ DOMAIN t.order = Keys
           /\ DOMAIN t.custody = Proxies /\ DOMAIN t.trading = Proxies
           /\ DOMAIN t.reserved = Proxies /\ DOMAIN t.manager = Proxies
           /\ DOMAIN t.debtTotal = Proxies
BY DEF Books, ProxiesTyped, KeysTyped, DebtsTyped

\* The same of a context that has not aborted, for a key and its proxy.
LEMMA KeyTypes ==
    ASSUME NEW t, Sane(t), t.ok, NEW k \in Keys
    PROVE  /\ t.quote[k] \in Nat /\ t.borrowed[k] \in Nat /\ t.margin[k] \in Nat
           /\ t.leverage[k] \in Leverage /\ t.contracts[k] \in Nat
           /\ t.order[k] \in OrderType \cup {NoOrder}
           /\ t.custody[ProxyOf[k]] \in Nat /\ t.trading[ProxyOf[k]] \in Nat
           /\ t.reserved[ProxyOf[k]] \in Nat /\ t.manager[ProxyOf[k]] \in Nat
           /\ t.debtTotal[ProxyOf[k]] \in Nat
           /\ t.trading = [t.trading EXCEPT ![ProxyOf[k]] = t.trading[ProxyOf[k]]]
           /\ t.custody = [t.custody EXCEPT ![ProxyOf[k]] = t.custody[ProxyOf[k]]]
           /\ t.manager = [t.manager EXCEPT ![ProxyOf[k]] = t.manager[ProxyOf[k]]]
           /\ t.contracts = [t.contracts EXCEPT ![k] = t.contracts[k]]
           /\ t.margin = [t.margin EXCEPT ![k] = t.margin[k]]
<1>1. Books(t) /\ ProxyOf[k] \in Proxies
  BY KeyFacts DEF Sane
<1>2. /\ t.trading \in [Proxies -> Nat] /\ t.custody \in [Proxies -> Nat]
      /\ t.manager \in [Proxies -> Nat] /\ t.contracts \in [Keys -> Nat]
      /\ t.margin \in [Keys -> Nat]
  BY <1>1 DEF Books, ProxiesTyped, KeysTyped, DebtsTyped
<1> QED
  BY <1>1, <1>2, LedgerTypes

\* Tame calls compose.
LEMMA TameTrans ==
    ASSUME NEW t, Sane(t), NEW u, NEW w, NEW k \in Keys, NEW d, NEW e,
           Step(t, u, k, d), Step(u, w, k, e), Tame(t, u, k), Tame(u, w, k)
    PROVE  Tame(t, w, k)
<1> SUFFICES ASSUME w.ok
             PROVE  /\ w.borrowed[k] <= t.borrowed[k]
                    /\ MarginBacked(t, k) => MarginBacked(w, k)
                    /\ w.borrowed[k] > 0 => t.quote[k] <= w.quote[k]
  BY DEF Tame
<1>1. u.ok /\ t.ok /\ Books(t) /\ Books(u) /\ Books(w)
  BY DEF Step, Sane
<1>2. /\ t.borrowed[k] \in Nat /\ u.borrowed[k] \in Nat /\ w.borrowed[k] \in Nat
      /\ t.quote[k] \in Nat /\ u.quote[k] \in Nat /\ w.quote[k] \in Nat
  BY <1>1, LedgerTypes
<1> QED
  BY <1>1, <1>2 DEF Tame

\* So do calls that keep the traders' own quote.
LEMMA FreeTrans ==
    ASSUME NEW t, Sane(t), NEW u, NEW w, NEW k, NEW d, NEW e,
           Step(t, u, k, d), Step(u, w, k, e), KeepsFree(t, u), KeepsFree(u, w)
    PROVE  KeepsFree(t, w)
<1> SUFFICES ASSUME w.ok, NEW a \in Proxies PROVE Free(t, a) <= Free(w, a)
  BY DEF KeepsFree
<1>1. u.ok /\ t.ok /\ Books(t) /\ Books(u) /\ Books(w)
  BY DEF Step, Sane
<1>2. Free(t, a) \in Nat /\ Free(u, a) \in Nat /\ Free(w, a) \in Nat
  BY <1>1, LedgerTypes DEF Free
<1> QED
  BY <1>1, <1>2 DEF KeepsFree

\* A call that leaves a key's debt and margin alone and takes none of its
\* quote is tame.
LEMMA TameSame ==
    ASSUME NEW t, Sane(t), NEW u, NEW k \in Keys,
           u.ok => /\ t.ok /\ u.borrowed = t.borrowed
                   /\ u.margin = t.margin /\ u.leverage = t.leverage
                   /\ t.quote[k] <= u.quote[k]
    PROVE  Tame(t, u, k)
<1>1. u.ok => t.borrowed[k] \in Nat
  BY LedgerTypes DEF Sane
<1> QED
  BY <1>1 DEF Tame, MarginBacked

\* A call that leaves the trading accounts and reserves alone.
LEMMA FreeSame ==
    ASSUME NEW t, Sane(t), NEW u,
           u.ok => t.ok /\ u.trading = t.trading /\ u.reserved = t.reserved
    PROVE  KeepsFree(t, u)
<1> SUFFICES ASSUME u.ok, NEW a \in Proxies PROVE Free(t, a) <= Free(u, a)
  BY DEF KeepsFree
<1>1. t.trading[a] \in Nat /\ t.reserved[a] \in Nat
  BY LedgerTypes DEF Sane
<1> QED
  BY <1>1 DEF Free

\* A call that only adds to one trading account.
LEMMA FreeMore ==
    ASSUME NEW t, Sane(t), NEW u, NEW a \in Proxies, NEW x,
           u.ok => /\ t.ok /\ u.trading = [t.trading EXCEPT ![a] = x] /\ u.reserved = t.reserved
                   /\ x \in Nat /\ t.trading[a] <= x
    PROVE  KeepsFree(t, u)
<1> SUFFICES ASSUME u.ok, NEW i \in Proxies PROVE Free(t, i) <= Free(u, i)
  BY DEF KeepsFree
<1>1. t.trading[i] \in Nat /\ t.reserved[i] \in Nat /\ DOMAIN t.trading = Proxies
  BY LedgerTypes DEF Sane
<1> QED
  BY <1>1 DEF Free

-----------------------------------------------------------------------------
(* Calls a keeper may make                                                 *)

\* A step that is tame and keeps the traders' own quote.
Calm(t, u, k, d) ==
    /\ Step(t, u, k, d) /\ KeepsFree(t, u)
    /\ k \in Keys => Tame(t, u, k)

\* Calm calls compose.
LEMMA CalmTrans ==
    ASSUME NEW t, Sane(t), NEW u, NEW w, NEW k, NEW d, NEW e,
           t.ok => d \in Int /\ e \in Int,
           Calm(t, u, k, d), Calm(u, w, k, e)
    PROVE  Calm(t, w, k, d + e)
BY StepTrans, TameTrans, FreeTrans DEF Calm

\* A call that does nothing is calm.
LEMMA CalmSame == ASSUME NEW t, Sane(t), NEW k PROVE Calm(t, t, k, 0)
<1>1. k \in Keys /\ t.ok => t.quote[k] \in Nat
  BY KeyTypes
<1> QED
  BY <1>1, StepSame, TameSame, FreeSame DEF Calm

\* An assertion in front of a calm call.
LEMMA CalmRequire ==
    ASSUME NEW t, IsContext(t), NEW cond, NEW after, NEW k, NEW d,
           t.ok /\ cond => Calm(t, after, k, d)
    PROVE  Calm(t, Require(t, cond, after), k, d)
<1>1. Step(t, Require(t, cond, after), k, d)
  BY StepRequire DEF Calm
<1>2. ASSUME Require(t, cond, after).ok
      PROVE  t.ok /\ cond /\ Require(t, cond, after) = after
  BY <1>2, AbortFacts DEF Require
<1> QED
  BY <1>1, <1>2 DEF Calm, Tame, KeepsFree

\* A call that leads to a calm one leads to a sane context.
LEMMA CalmSane == ASSUME NEW t, NEW u, NEW k, NEW d, Calm(t, u, k, d) PROVE Sane(u)
BY StepSane DEF Calm

-----------------------------------------------------------------------------
(* user_proxy.move: coins and ledgers                                      *)

\* Quote that moves between a trading account and the outside is not a key's.
LEMMA TradingTame ==
    ASSUME NEW t, Sane(t), NEW u, NEW a, NEW c, NEW x, NEW k \in Keys,
           u.ok => t.ok /\ OnlyTrading(t, u, a, c, x)
    PROVE  Tame(t, u, k)
<1>1. t.ok => t.quote[k] \in Nat
  BY KeyTypes
<1> QED
  BY <1>1, TameSame DEF OnlyTrading, SameDebts, SameLeverage

\* Quote that reaches the trading account.
LEMMA CreditTradingFacts ==
    ASSUME NEW t, Sane(t), NEW a \in Proxies, NEW amount, t.ok => amount \in Nat, NEW k
    PROVE  LET u == CreditTrading(t, a, amount)
           IN  /\ Calm(t, u, k, amount) /\ u.ok = t.ok
               /\ OnlyTrading(t, u, a, t.custody[a] + amount, t.trading[a] + amount)
<1> DEFINE u == CreditTrading(t, a, amount)
<1>1. /\ IsContext(u) /\ u.ok = t.ok
      /\ OnlyTrading(t, u, a, t.custody[a] + amount, t.trading[a] + amount)
  BY DEF Sane, CreditTrading, IsContext, Fields, OnlyTrading, SameVault, SameOrders, SameDebts,
         SameLeverage
<1>2. t.ok => t.custody[a] \in Nat /\ t.trading[a] \in Nat
  BY LedgerTypes DEF Sane
<1> HIDE DEF u
<1>3. Step(t, u, k, amount)
  BY <1>1, <1>2, TradingStep
<1>4. KeepsFree(t, u)
  BY <1>1, <1>2, FreeMore DEF OnlyTrading
<1>5. ASSUME k \in Keys PROVE Tame(t, u, k)
  BY <1>1, <1>5, TradingTame
<1> QED
  BY <1>1, <1>3, <1>4, <1>5 DEF u, Calm

\* A deposit is quote that reaches the trading account.
LEMMA DepositQuoteFacts ==
    ASSUME NEW t, Sane(t), NEW a \in Proxies, NEW amount \in Nat, NEW k
    PROVE  Calm(t, DepositQuote(t, a, amount), k, amount)
<1> DEFINE cond == amount > 0
           w == CreditTrading(t, a, amount)
<1>1. DepositQuote(t, a, amount) = Require(t, cond, w)
  BY DEF DepositQuote, CreditTrading
<1>2. Calm(t, w, k, amount)
  BY CreditTradingFacts
<1> HIDE DEF w, cond
<1> QED
  BY <1>1, <1>2, CalmRequire DEF Sane

\* Quote that leaves the trading account: never more than there is.
LEMMA TakeTradingFacts ==
    ASSUME NEW t, Sane(t), NEW a \in Proxies, NEW amount \in Nat, NEW k
    PROVE  LET u == TakeTrading(t, a, amount)
           IN  /\ Step(t, u, k, 0 - amount)
               /\ k \in Keys => Tame(t, u, k)
               /\ u.ok => t.ok /\ OnlyTrading(t, u, a, t.custody[a] - amount, t.trading[a] - amount)
<1> DEFINE u == TakeTrading(t, a, amount)
           w == [t EXCEPT !.custody[a] = @ - amount, !.trading[a] = @ - amount]
           cond == amount <= t.trading[a] /\ amount <= t.custody[a]
<1>1. u = Require(t, cond, w)
  BY DEF TakeTrading
<1>2. /\ IsContext(w) /\ w.ok = t.ok
      /\ OnlyTrading(t, w, a, t.custody[a] - amount, t.trading[a] - amount)
  BY DEF Sane, IsContext, Fields, OnlyTrading, SameVault, SameOrders, SameDebts, SameLeverage
<1>3. t.ok => t.custody[a] \in Nat /\ t.trading[a] \in Nat
  BY LedgerTypes DEF Sane
<1> HIDE DEF u, w
<1>4. t.ok /\ cond => Step(t, w, k, 0 - amount)
  <2> SUFFICES ASSUME t.ok, cond PROVE Step(t, w, k, 0 - amount)
    OBVIOUS
  <2>1. /\ t.custody[a] - amount \in Nat /\ t.trading[a] - amount \in Nat
        /\ (t.custody[a] - amount) - (t.trading[a] - amount) = t.custody[a] - t.trading[a]
        /\ (t.custody[a] - amount) - t.custody[a] = 0 - amount
    BY <1>3
  <2> QED
    BY <1>2, <2>1, TradingStep
<1> HIDE DEF cond
<1>5. Step(t, u, k, 0 - amount)
  BY <1>1, <1>4, StepRequire DEF Sane
<1>6. u.ok => t.ok /\ u = w
  BY <1>1, <1>2, RequireFacts DEF Sane
<1>7. ASSUME k \in Keys PROVE Tame(t, u, k)
  BY <1>2, <1>6, <1>7, TradingTame
<1> QED
  BY <1>2, <1>5, <1>6, <1>7 DEF u

\* Quote that reaches a key.
LEMMA CreditKeyFacts ==
    ASSUME NEW t, Sane(t), NEW k \in Keys, NEW amount, t.ok => amount \in Nat
    PROVE  LET u == CreditKey(t, k, amount)
           IN  /\ Calm(t, u, k, amount) /\ u.ok = t.ok
               /\ u.ok => OnlyQuote(t, u, k, t.custody[ProxyOf[k]] + amount,
                                    t.trading[ProxyOf[k]], t.quote[k] + amount)
<1> DEFINE u == CreditKey(t, k, amount)
           p == ProxyOf[k]
<1>1. /\ IsContext(u) /\ u.ok = t.ok /\ u.trading = t.trading /\ u.reserved = t.reserved
      /\ t.trading = [t.trading EXCEPT ![p] = t.trading[p]]
           => OnlyQuote(t, u, k, t.custody[p] + amount, t.trading[p], t.quote[k] + amount)
  BY DEF Sane, CreditKey, IsContext, Fields, OnlyQuote, SameVault, SameOrders, SameDebts,
         SameLeverage
<1>2. t.ok => /\ t.custody[p] \in Nat /\ t.trading[p] \in Nat /\ t.quote[k] \in Nat
              /\ t.trading = [t.trading EXCEPT ![p] = t.trading[p]]
  BY KeyTypes
<1> HIDE DEF u
<1>3. Step(t, u, k, amount)
  <2> DEFINE c == t.custody[p] + amount
             q == t.quote[k] + amount
  <2>1. t.ok => /\ c \in Nat /\ q \in Nat
                /\ c - t.trading[p] - q = t.custody[p] - t.trading[p] - t.quote[k]
                /\ c - t.custody[p] = amount
    BY <1>2
  <2>2. t.ok => OnlyQuote(t, u, k, c, t.trading[p], q)
    BY <1>1, <1>2
  <2> HIDE DEF c, q
  <2> QED
    BY <1>1, <1>2, <2>1, <2>2, QuoteStep
<1>4. KeepsFree(t, u)
  BY <1>1, FreeSame
<1>5. Tame(t, u, k)
  <2>1. t.ok => u.quote[k] = t.quote[k] + amount
    <3>1. t.ok => t.quote \in [Keys -> Nat]
      BY DEF Sane, Books, KeysTyped
    <3> QED
      BY <1>1, <1>2, <3>1 DEF OnlyQuote
  <2> QED
    BY <1>1, <1>2, <2>1, TameSame DEF OnlyQuote, SameDebts, SameLeverage
<1> QED
  BY <1>1, <1>2, <1>3, <1>4, <1>5 DEF u, Calm

\* Quote that leaves a key: never more than it holds.
LEMMA WithdrawFromKeyFacts ==
    ASSUME NEW t, Sane(t), NEW k \in Keys, NEW amount, t.ok => amount \in Nat
    PROVE  LET u == WithdrawFromKey(t, k, amount)
           IN  /\ Step(t, u, k, 0 - amount)
               /\ u.ok => OnlyQuote(t, u, k, t.custody[ProxyOf[k]] - amount,
                                    t.trading[ProxyOf[k]], t.quote[k] - amount)
               /\ KeepsFree(t, u)
<1> DEFINE u == WithdrawFromKey(t, k, amount)
           p == ProxyOf[k]
           w == [t EXCEPT !.custody[p] = @ - amount, !.quote[k] = @ - amount]
           cond == amount <= t.quote[k] /\ amount <= t.custody[p]
<1>1. u = Require(t, cond, w)
  BY DEF WithdrawFromKey
<1>2. /\ IsContext(w) /\ w.ok = t.ok /\ w.trading = t.trading /\ w.reserved = t.reserved
      /\ t.trading = [t.trading EXCEPT ![p] = t.trading[p]]
           => OnlyQuote(t, w, k, t.custody[p] - amount, t.trading[p], t.quote[k] - amount)
  BY DEF Sane, IsContext, Fields, OnlyQuote, SameVault, SameOrders, SameDebts, SameLeverage
<1>3. t.ok => /\ t.custody[p] \in Nat /\ t.trading[p] \in Nat /\ t.quote[k] \in Nat
              /\ t.trading = [t.trading EXCEPT ![p] = t.trading[p]]
  BY KeyTypes
<1> HIDE DEF u, w
<1>4. t.ok /\ cond => Step(t, w, k, 0 - amount)
  <2> SUFFICES ASSUME t.ok, cond PROVE Step(t, w, k, 0 - amount)
    OBVIOUS
  <2> DEFINE c == t.custody[p] - amount
             q == t.quote[k] - amount
  <2>1. /\ c \in Nat /\ q \in Nat
        /\ c - t.trading[p] - q = t.custody[p] - t.trading[p] - t.quote[k]
        /\ c - t.custody[p] = 0 - amount
    BY <1>3
  <2>2. OnlyQuote(t, w, k, c, t.trading[p], q)
    BY <1>2, <1>3
  <2> HIDE DEF c, q
  <2> QED
    BY <1>2, <1>3, <2>1, <2>2, QuoteStep
<1> HIDE DEF cond
<1>5. Step(t, u, k, 0 - amount)
  BY <1>1, <1>4, StepRequire DEF Sane
<1>6. u.ok => t.ok /\ u = w
  BY <1>1, <1>2, RequireFacts DEF Sane
<1>7. KeepsFree(t, u)
  BY <1>2, <1>6, FreeSame
<1> QED
  BY <1>2, <1>3, <1>5, <1>6, <1>7 DEF u

\* Margin moves from the trading account onto the key.
LEMMA AllocateMarginFacts ==
    ASSUME NEW t, Sane(t), NEW k \in Keys, NEW amount, t.ok => amount \in Nat
    PROVE  LET u == AllocateMargin(t, k, amount)
           IN  /\ Step(t, u, k, 0)
               /\ u.ok => OnlyQuote(t, u, k, t.custody[ProxyOf[k]],
                                    t.trading[ProxyOf[k]] - amount, t.quote[k] + amount)
<1> DEFINE u == AllocateMargin(t, k, amount)
           p == ProxyOf[k]
           w == [t EXCEPT !.trading[p] = @ - amount, !.quote[k] = @ + amount]
           cond == amount <= t.trading[p]
<1>1. u = Require(t, cond, w)
  BY DEF AllocateMargin
<1>2. /\ IsContext(w) /\ w.ok = t.ok
      /\ t.custody = [t.custody EXCEPT ![p] = t.custody[p]]
           => OnlyQuote(t, w, k, t.custody[p], t.trading[p] - amount, t.quote[k] + amount)
  BY DEF Sane, IsContext, Fields, OnlyQuote, SameVault, SameOrders, SameDebts, SameLeverage
<1>3. t.ok => /\ t.custody[p] \in Nat /\ t.trading[p] \in Nat /\ t.quote[k] \in Nat
              /\ t.custody = [t.custody EXCEPT ![p] = t.custody[p]]
  BY KeyTypes
<1> HIDE DEF u, w
<1>4. t.ok /\ cond => Step(t, w, k, 0)
  <2> SUFFICES ASSUME t.ok, cond PROVE Step(t, w, k, 0)
    OBVIOUS
  <2> DEFINE c == t.custody[p]
             x == t.trading[p] - amount
             q == t.quote[k] + amount
  <2>1. /\ c \in Nat /\ x \in Nat /\ q \in Nat
        /\ c - x - q = t.custody[p] - t.trading[p] - t.quote[k]
        /\ c - t.custody[p] = 0
    BY <1>3
  <2>2. OnlyQuote(t, w, k, c, x, q)
    BY <1>2, <1>3
  <2> HIDE DEF c, x, q
  <2> QED
    BY <1>2, <2>1, <2>2, QuoteStep
<1> HIDE DEF cond
<1>5. Step(t, u, k, 0)
  BY <1>1, <1>4, StepRequire DEF Sane
<1>6. u.ok => t.ok /\ u = w
  BY <1>1, <1>2, RequireFacts DEF Sane
<1> QED
  BY <1>2, <1>3, <1>5, <1>6 DEF u

\* A key that owes nothing gives its quote back.
LEMMA SweepFreeQuoteFacts ==
    ASSUME NEW t, Sane(t), NEW k \in Keys
    PROVE  LET u == SweepFreeQuote(t, k)
           IN  /\ Calm(t, u, k, 0)
               /\ u.ok => /\ SameDebts(t, u) /\ SameLeverage(t, u) /\ SameOrders(t, u)
                          /\ SameVault(t, u)
                          /\ t.borrowed[k] = 0 =>
                               /\ u.trading = [t.trading EXCEPT
                                     ![ProxyOf[k]] = t.trading[ProxyOf[k]] + t.quote[k]]
                               /\ u.reserved = t.reserved
<1> DEFINE u == SweepFreeQuote(t, k)
           p == ProxyOf[k]
<1>1. CASE t.borrowed[k] > 0
  <2>1. u = t
    BY <1>1 DEF SweepFreeQuote
  <2>2. u.ok => t.borrowed[k] # 0
    BY <1>1, <2>1, KeyTypes
  <2>3. t.ok => t.quote[k] \in Nat
    BY KeyTypes
  <2> HIDE DEF u
  <2>4. Tame(t, u, k) /\ KeepsFree(t, u)
    BY <2>1, <2>3, TameSame, FreeSame
  <2> QED
    BY <2>1, <2>2, <2>4, StepSame DEF u, Calm, SameDebts, SameLeverage, SameOrders, SameVault
<1>2. CASE ~(t.borrowed[k] > 0)
  <2> DEFINE x == t.trading[p] + t.quote[k]
  <2>1. /\ IsContext(u) /\ u.ok = t.ok /\ u.reserved = t.reserved
        /\ t.custody = [t.custody EXCEPT ![p] = t.custody[p]]
             => OnlyQuote(t, u, k, t.custody[p], x, 0)
    BY <1>2 DEF SweepFreeQuote, Sane, IsContext, Fields, OnlyQuote, SameVault, SameOrders,
                SameDebts, SameLeverage
  <2>2. t.ok => /\ t.custody[p] \in Nat /\ t.trading[p] \in Nat /\ t.quote[k] \in Nat
                /\ t.custody = [t.custody EXCEPT ![p] = t.custody[p]]
                /\ t.borrowed[k] \in Nat /\ p \in Proxies
    BY KeyTypes, KeyFacts
  <2> HIDE DEF u
  <2>3. u.ok => /\ t.ok /\ OnlyQuote(t, u, k, t.custody[p], x, 0) /\ x \in Nat
                /\ t.custody[p] - x - 0 = t.custody[p] - t.trading[p] - t.quote[k]
                /\ t.custody[p] - t.custody[p] = 0 /\ t.trading[p] <= x
    BY <2>1, <2>2
  <2> HIDE DEF x
  <2>4. Step(t, u, k, 0)
    BY <2>1, <2>2, <2>3, QuoteStep
  <2>5. Tame(t, u, k)
    <3>1. u.ok => /\ u.borrowed = t.borrowed /\ u.margin = t.margin /\ u.leverage = t.leverage
                  /\ t.borrowed[k] = 0
      BY <1>2, <2>2, <2>3 DEF OnlyQuote, SameDebts, SameLeverage
    <3> QED
      BY <3>1 DEF Tame, MarginBacked
  <2>6. KeepsFree(t, u)
    <3>1. p \in Proxies
      BY KeyFacts
    <3> QED
      BY <2>1, <2>3, <3>1, FreeMore DEF OnlyQuote
  <2> QED
    BY <2>3, <2>4, <2>5, <2>6 DEF u, x, OnlyQuote, Calm
<1> QED
  BY <1>1, <1>2

-----------------------------------------------------------------------------
(* user_proxy.move: resting orders                                         *)

\* An order is placed with its margin.
LEMMA PlaceOrderFacts ==
    ASSUME NEW t, Sane(t), NEW k \in Keys, NEW o \in OrderType
    PROVE  LET u == PlaceOrder(t, k, o)
           IN  /\ Step(t, u, k, 0) /\ Tame(t, u, k)
               /\ u.ok => u.quote = t.quote /\ SameDebts(t, u) /\ u.contracts = t.contracts
<1> DEFINE u == PlaceOrder(t, k, o)
           p == ProxyOf[k]
           v == [t EXCEPT !.order[k] = o]
           r == Require(t, t.order[k] = NoOrder, v)
           w == [r EXCEPT !.trading[p] = @ - o.margin, !.reserved[p] = @ + o.margin]
<1>1. u = Require(r, o.margin <= r.trading[p], w)
  BY DEF PlaceOrder, Reserve
<1>2. IsContext(v) /\ v.ok = t.ok
  BY DEF Sane, IsContext, Fields
<1>3. IsContext(r) /\ (r.ok => t.ok /\ t.order[k] = NoOrder /\ r = v)
  <2> DEFINE empty == t.order[k] = NoOrder
  <2>1. r = Require(t, empty, v)
    OBVIOUS
  <2> HIDE DEF r, v, empty
  <2>2. IsContext(r) /\ (r.ok => t.ok /\ empty /\ r = v)
    BY <1>2, <2>1, RequireFacts DEF Sane
  <2> QED
    BY <2>2 DEF empty
<1>4. /\ IsContext(w) /\ w.ok = r.ok
      /\ r = v => OnlyOrder(t, w, k, o, t.trading[p] - o.margin, t.reserved[p] + o.margin)
  <2> HIDE DEF r
  <2>1. IsContext(w) /\ w.ok = r.ok
    BY <1>3 DEF IsContext, Fields
  <2>2. ASSUME r = v
        PROVE  OnlyOrder(t, w, k, o, t.trading[p] - o.margin, t.reserved[p] + o.margin)
    BY <2>1, <2>2 DEF Sane, IsContext, Fields, OnlyOrder, SameVault, SameDebts, SameLeverage
  <2> QED
    BY <2>1, <2>2
<1>5. v.trading = t.trading
  BY DEF Sane, IsContext, Fields
<1> HIDE DEF u, r, v, w
<1>6. IsContext(u) /\ (u.ok => r.ok /\ o.margin <= r.trading[p] /\ u = w)
  <2> DEFINE cond == o.margin <= r.trading[p]
  <2>1. u = Require(r, cond, w)
    BY <1>1
  <2> HIDE DEF cond
  <2>2. IsContext(u) /\ (u.ok => r.ok /\ cond /\ u = w)
    BY <1>3, <1>4, <2>1, RequireFacts
  <2> QED
    BY <2>2 DEF cond
<1> DEFINE x == t.trading[p] - o.margin
           m == t.reserved[p] + o.margin
<1>7. u.ok => /\ t.ok /\ t.order[k] = NoOrder /\ OnlyOrder(t, u, k, o, x, m)
              /\ o.margin <= t.trading[p]
  BY <1>3, <1>4, <1>5, <1>6
<1>8. u.ok => /\ x \in Nat /\ m \in Nat /\ x + m = t.trading[p] + t.reserved[p]
              /\ m - t.reserved[p] = OrderMargin(o) - OrderMargin(t.order[k])
  <2>1. OrderMargin(o) = o.margin /\ o.margin \in Nat /\ OrderMargin(NoOrder) = 0
    BY OrderAssumption DEF OrderMargin, OrderType
  <2>2. t.ok => t.trading[p] \in Nat /\ t.reserved[p] \in Nat
    BY KeyTypes
  <2> QED
    BY <1>7, <2>1, <2>2
<1> HIDE DEF x, m
<1>9. Step(t, u, k, 0)
  BY <1>6, <1>7, <1>8, OrderStep
<1>10. u.ok => /\ u.quote = t.quote /\ SameDebts(t, u) /\ u.contracts = t.contracts
               /\ u.margin = t.margin /\ u.leverage = t.leverage
  BY <1>7 DEF OnlyOrder, SameLeverage
<1>11. Tame(t, u, k)
  <2>1. u.ok => t.quote[k] \in Nat
    BY <1>7, KeyTypes
  <2> QED
    BY <1>7, <1>10, <2>1, TameSame DEF SameDebts
<1> QED
  BY <1>9, <1>10, <1>11 DEF u

\* An order leaves the key and its margin the reserve.
LEMMA ReleaseOrderFacts ==
    ASSUME NEW t, Sane(t), NEW k \in Keys
    PROVE  LET u == ReleaseOrder(t, k)
           IN  /\ Calm(t, u, k, 0)
               /\ u.ok => /\ t.order[k] # NoOrder /\ u.order[k] = NoOrder
                          /\ u.quote = t.quote /\ SameVault(t, u) /\ SameDebts(t, u)
                          /\ SameLeverage(t, u) /\ u.contracts = t.contracts
<1> DEFINE u == ReleaseOrder(t, k)
           p == ProxyOf[k]
           b == t.order[k].margin
           v == [t EXCEPT !.order[k] = NoOrder]
           w == [v EXCEPT !.reserved[p] = @ - b, !.trading[p] = @ + b]
           r == Require(v, b <= v.reserved[p], w)
<1>1. u = Require(t, t.order[k] # NoOrder, r)
  BY DEF ReleaseOrder, Release
<1>2. IsContext(v) /\ v.ok = t.ok /\ v.reserved = t.reserved
  BY DEF Sane, IsContext, Fields
<1>3. /\ IsContext(w) /\ w.ok = t.ok
      /\ OnlyOrder(t, w, k, NoOrder, t.trading[p] + b, t.reserved[p] - b)
  BY DEF Sane, IsContext, Fields, OnlyOrder, SameVault, SameDebts, SameLeverage
<1> HIDE DEF u, v, w, r
<1>4. IsContext(r) /\ (r.ok => t.ok /\ b <= t.reserved[p] /\ r = w)
  <2> DEFINE cond == b <= v.reserved[p]
  <2>1. r = Require(v, cond, w)
    BY DEF r
  <2> HIDE DEF cond
  <2>2. IsContext(r) /\ (r.ok => v.ok /\ cond /\ r = w)
    BY <1>2, <1>3, <2>1, RequireFacts
  <2> QED
    BY <1>2, <2>2 DEF cond
<1>5. IsContext(u) /\ (u.ok => t.ok /\ t.order[k] # NoOrder /\ u = r)
  BY <1>1, <1>4, RequireFacts DEF Sane
<1> DEFINE x == t.trading[p] + b
           m == t.reserved[p] - b
<1>6. u.ok => /\ t.ok /\ t.order[k] # NoOrder /\ OnlyOrder(t, u, k, NoOrder, x, m)
              /\ b <= t.reserved[p]
  BY <1>3, <1>4, <1>5
<1>7. u.ok => /\ x \in Nat /\ m \in Nat /\ x + m = t.trading[p] + t.reserved[p]
              /\ m - t.reserved[p] = OrderMargin(NoOrder) - OrderMargin(t.order[k])
  <2>1. u.ok => b \in Nat /\ OrderMargin(t.order[k]) = b
    <3>1. t.ok => t.order[k] \in OrderType \cup {NoOrder}
      BY KeyTypes
    <3>2. u.ok => t.order[k] \in OrderType /\ t.order[k] # NoOrder
      BY <1>6, <3>1
    <3> QED
      BY <3>2 DEF OrderMargin, OrderType
  <2>2. OrderMargin(NoOrder) = 0
    BY DEF OrderMargin
  <2>3. t.ok => t.trading[p] \in Nat /\ t.reserved[p] \in Nat
    BY KeyTypes
  <2> HIDE DEF b
  <2> QED
    BY <1>6, <2>1, <2>2, <2>3
<1> HIDE DEF x, m, b
<1>8. Step(t, u, k, 0)
  BY <1>5, <1>6, <1>7, OrderStep
<1>9. u.ok => /\ u.quote = t.quote /\ SameVault(t, u) /\ SameDebts(t, u) /\ SameLeverage(t, u)
              /\ u.contracts = t.contracts /\ u.order[k] = NoOrder
  <2>1. t.ok => t.order \in [Keys -> OrderType \cup {NoOrder}]
    BY DEF Sane, Books, KeysTyped
  <2> QED
    BY <1>6, <2>1 DEF OnlyOrder
<1>10. Tame(t, u, k)
  <2>1. u.ok => t.quote[k] \in Nat
    BY <1>6, KeyTypes
  <2> QED
    BY <1>6, <1>9, <2>1, TameSame DEF SameDebts, SameLeverage
<1>11. KeepsFree(t, u)
  <2> SUFFICES ASSUME u.ok, NEW a \in Proxies PROVE Free(t, a) <= Free(u, a)
    BY DEF KeepsFree
  <2>1. t.trading[a] \in Nat /\ t.reserved[a] \in Nat
    BY <1>6, LedgerTypes DEF Sane
  <2>2. Free(u, a) = Free(t, a)
    <3>1. t.trading \in [Proxies -> Nat] /\ t.reserved \in [Proxies -> Nat]
      BY <1>6 DEF Sane, Books, ProxiesTyped
    <3> QED
      BY <1>6, <1>7, <3>1 DEF Free, OnlyOrder
  <2> QED
    BY <2>1, <2>2 DEF Free
<1> QED
  BY <1>6, <1>8, <1>9, <1>10, <1>11 DEF u, Calm

\* A liquidation cancels the order if there is one.
LEMMA CancelFacts ==
    ASSUME NEW t, Sane(t), NEW k \in Keys
    PROVE  LET u == CancelForLiquidation(t, k)
           IN  /\ Calm(t, u, k, 0)
               /\ u.ok => /\ u.quote = t.quote /\ SameVault(t, u) /\ SameDebts(t, u)
                          /\ SameLeverage(t, u) /\ u.contracts = t.contracts
<1> DEFINE u == CancelForLiquidation(t, k)
<1>1. CASE t.order[k] = NoOrder
  <2>1. u = t
    BY <1>1 DEF CancelForLiquidation
  <2>2. t.ok => t.quote[k] \in Nat
    BY KeyTypes
  <2> HIDE DEF u
  <2>3. Tame(t, u, k) /\ KeepsFree(t, u)
    BY <2>1, <2>2, TameSame, FreeSame
  <2> QED
    BY <2>1, <2>3, StepSame DEF u, Calm, SameVault, SameDebts, SameLeverage
<1>2. CASE t.order[k] # NoOrder
  BY <1>2, ReleaseOrderFacts DEF CancelForLiquidation
<1> QED
  BY <1>1, <1>2

-----------------------------------------------------------------------------
(* user_proxy.move: leverage, posted margin, remint choice and triggers    *)

\* Leverage is set, and a key at 1x has no posted margin.
LEMMA SetLeverageFacts ==
    ASSUME NEW t, Sane(t), NEW k \in Keys, NEW lev, t.ok => lev \in Leverage
    PROVE  LET u == SetLeverage(t, k, lev)
           IN  /\ Calm(t, u, k, 0) /\ u.ok = t.ok
               /\ u.ok => OnlyLeverage(t, u, k, IF IsLeveraged(lev) THEN t.margin[k] ELSE 0, lev)
<1> DEFINE u == SetLeverage(t, k, lev)
           m == IF IsLeveraged(lev) THEN t.margin[k] ELSE 0
<1>1. IsContext(u) /\ u.ok = t.ok /\ OnlyLeverage(t, u, k, m, lev)
  BY DEF SetLeverage, Sane, IsContext, Fields, OnlyLeverage, SameVault, SameWallets, SameOrders,
         SameDebts
<1>2. t.ok => m \in Nat /\ t.margin[k] \in Nat /\ t.quote[k] \in Nat /\ t.borrowed[k] \in Nat
  BY KeyTypes
<1>3. m > 0 => IsLeveraged(lev) /\ m = t.margin[k]
  OBVIOUS
<1> HIDE DEF u, m
<1>4. Step(t, u, k, 0)
  BY <1>1, <1>2, LeverageStep
<1>5. t.ok => /\ u.margin[k] = m /\ u.leverage[k] = lev /\ u.borrowed = t.borrowed
              /\ u.quote = t.quote
  <2>1. t.ok => t.margin \in [Keys -> Nat] /\ t.leverage \in [Keys -> Leverage]
    BY DEF Sane, Books, DebtsTyped
  <2> QED
    BY <1>1, <2>1 DEF OnlyLeverage, SameDebts
<1>6. Tame(t, u, k)
  BY <1>1, <1>2, <1>3, <1>5 DEF Tame, MarginBacked
<1>7. KeepsFree(t, u)
  BY <1>1, FreeSame DEF OnlyLeverage, SameWallets
<1> QED
  BY <1>1, <1>4, <1>6, <1>7 DEF u, m, Calm

\* 1x is a leverage.
LEMMA UnitLeverage == Bps \in Leverage /\ ~IsLeveraged(Bps)
BY ScaleAssumption DEF Leverage, LeverageInBounds, IsLeveraged

\* A key goes back to 1x and its posted margin goes.
LEMMA ResetFacts ==
    ASSUME NEW t, Sane(t), NEW k \in Keys
    PROVE  LET u == ResetToUnleveraged(t, k)
           IN  Calm(t, u, k, 0) /\ u.ok = t.ok /\ (u.ok => OnlyLeverage(t, u, k, 0, Bps))
BY SetLeverageFacts, UnitLeverage DEF ResetToUnleveraged

\* Leverage follows the debt: afterwards a posted margin stands for a debt.
LEMMA SyncLeverageFacts ==
    ASSUME NEW t, Sane(t), NEW k \in Keys
    PROVE  LET u == SyncLeverage(t, k)
           IN  /\ Calm(t, u, k, 0)
               /\ u.ok => /\ u.quote = t.quote /\ SameOrders(t, u) /\ SameDebts(t, u)
                          /\ SameVault(t, u) /\ SameWallets(t, u) /\ MarginBacked(u, k)
<1> DEFINE m    == t.margin[k]
           b    == t.borrowed[k]
           lev  == LeverageOf(m, b)
           cond == LeverageDefined(m, b)
           w    == SetLeverage(t, k, lev)
           u    == SyncLeverage(t, k)
<1>1. u = Require(t, cond, w)
  BY DEF SyncLeverage
<1>2. t.ok => m \in Nat /\ b \in Nat
  BY KeyTypes
<1>3. t.ok /\ cond => lev \in Leverage
  <2> SUFFICES ASSUME t.ok, cond PROVE lev \in Leverage
    OBVIOUS
  <2> HIDE DEF m, b
  <2>1. CASE b = 0
    BY <2>1, UnitLeverage DEF LeverageOf
  <2>2. CASE b # 0
    <3>1. m > 0 /\ LeverageInBounds(lev) /\ lev = ((m + b) * Bps) \div m
      BY <2>2 DEF LeverageDefined, LeverageOf
    <3>2. (m + b) * Bps \in Nat
      BY <1>2, MulNat, ScaleAssumption
    <3>3. ((m + b) * Bps) \div m \in Nat
      BY <1>2, <3>1, <3>2, DivBounds
    <3> QED
      BY <3>1, <3>3 DEF Leverage
  <2> QED
    BY <2>1, <2>2
<1>7. t.ok /\ IsLeveraged(lev) => b > 0
  <2> HIDE DEF m, b
  <2> QED
    BY <1>2, UnitLeverage DEF LeverageOf
<1> HIDE DEF lev, cond, u, w
<1>4. t.ok /\ cond => /\ Calm(t, w, k, 0)
                      /\ w.ok => OnlyLeverage(t, w, k, IF IsLeveraged(lev) THEN t.margin[k] ELSE 0,
                                              lev)
  BY <1>3, SetLeverageFacts DEF w
<1>5. Calm(t, u, k, 0)
  BY <1>1, <1>4, CalmRequire DEF Sane
<1>6. u.ok => t.ok /\ cond /\ u = w
  BY <1>1, <1>4, RequireFacts DEF Sane, Calm, Step
<1>8. u.ok => MarginBacked(u, k)
  <2>1. t.ok => t.margin \in [Keys -> Nat] /\ t.leverage \in [Keys -> Leverage]
    BY DEF Sane, Books, DebtsTyped
  <2>2. u.ok => /\ u.margin[k] = IF IsLeveraged(lev) THEN t.margin[k] ELSE 0
                /\ u.leverage[k] = lev /\ u.borrowed[k] = b
    BY <1>4, <1>6, <2>1 DEF OnlyLeverage, SameDebts
  <2> HIDE DEF b
  <2> QED
    BY <1>6, <1>7, <2>2 DEF MarginBacked
<1> QED
  BY <1>4, <1>5, <1>6, <1>8 DEF u, OnlyLeverage

\* The posted margin goes.
LEMMA ClearMarginFacts ==
    ASSUME NEW t, Sane(t), NEW k \in Keys
    PROVE  LET u == ClearMarginDebt(t, k)
           IN  /\ Calm(t, u, k, 0) /\ u.ok = t.ok
               /\ u.ok => OnlyLeverage(t, u, k, 0, t.leverage[k])
<1> DEFINE u == ClearMarginDebt(t, k)
<1>1. /\ IsContext(u) /\ u.ok = t.ok
      /\ t.leverage = [t.leverage EXCEPT ![k] = t.leverage[k]]
           => OnlyLeverage(t, u, k, 0, t.leverage[k])
  BY DEF ClearMarginDebt, Sane, IsContext, Fields, OnlyLeverage, SameVault, SameWallets,
         SameOrders, SameDebts
<1>2. t.ok => /\ t.leverage[k] \in Leverage /\ t.quote[k] \in Nat /\ t.borrowed[k] \in Nat
              /\ t.leverage = [t.leverage EXCEPT ![k] = t.leverage[k]]
              /\ t.margin \in [Keys -> Nat]
  BY KeyTypes DEF Sane, Books, DebtsTyped
<1> HIDE DEF u
<1>3. Step(t, u, k, 0)
  BY <1>1, <1>2, LeverageStep
<1>4. Tame(t, u, k)
  BY <1>1, <1>2 DEF Tame, MarginBacked, OnlyLeverage, SameDebts
<1>5. KeepsFree(t, u)
  BY <1>1, <1>2, FreeSame DEF OnlyLeverage, SameWallets
<1> QED
  BY <1>1, <1>2, <1>3, <1>4, <1>5 DEF u, Calm

\* Margin is posted.
LEMMA AddMarginFacts ==
    ASSUME NEW t, Sane(t), NEW k \in Keys, NEW amount, t.ok => amount \in Nat
    PROVE  LET u == AddMarginDebt(t, k, amount)
           IN  /\ Step(t, u, k, 0) /\ u.ok = t.ok
               /\ u.ok => OnlyLeverage(t, u, k, t.margin[k] + amount, t.leverage[k])
<1> DEFINE u == AddMarginDebt(t, k, amount)
           m == t.margin[k] + amount
<1>1. /\ IsContext(u) /\ u.ok = t.ok
      /\ t.leverage = [t.leverage EXCEPT ![k] = t.leverage[k]]
           => OnlyLeverage(t, u, k, m, t.leverage[k])
  BY DEF AddMarginDebt, Sane, IsContext, Fields, OnlyLeverage, SameVault, SameWallets,
         SameOrders, SameDebts
<1>2. t.ok => /\ t.leverage[k] \in Leverage /\ m \in Nat
              /\ t.leverage = [t.leverage EXCEPT ![k] = t.leverage[k]]
  BY KeyTypes DEF Sane, Books, DebtsTyped
<1> HIDE DEF u, m
<1>3. Step(t, u, k, 0)
  BY <1>1, <1>2, LeverageStep
<1> QED
  BY <1>1, <1>2, <1>3 DEF u, m

\* A call that touches neither ledgers nor vault is calm.
LEMMA IdleCalm ==
    ASSUME NEW t, Sane(t), NEW k, NEW u, IsContext(u),
           u.ok => t.ok /\ OnlyVault(t, u) /\ SameVault(t, u)
    PROVE  Calm(t, u, k, 0)
<1>1. u.ok => Books(t) /\ Funds(u) = Funds(t) /\ Funds(t) \in Nat
  BY FundsNat DEF Sane, Books, SameVault, Funds
<1>2. u.ok => /\ VaultTyped(u) /\ Covered(u.vault) /\ (Accrued(t) => Accrued(u))
              /\ t.vault.total_principal_borrowed <= u.vault.total_principal_borrowed
  BY <1>1 DEF Books, OnlyVault, SameVault, VaultTyped, VaultType, Accrued
<1>3. Step(t, u, k, Funds(u) - Funds(t))
  BY <1>2, VaultStep
<1>4. Step(t, u, k, 0)
  BY <1>1, <1>3 DEF Step
<1>5. k \in Keys /\ t.ok => t.quote[k] \in Nat
  BY KeyTypes
<1>6. k \in Keys => Tame(t, u, k)
  BY <1>5, TameSame DEF OnlyVault, SameDebts, SameLeverage
<1>7. KeepsFree(t, u)
  BY FreeSame DEF OnlyVault, SameWallets
<1> QED
  BY <1>4, <1>6, <1>7 DEF Calm

\* Triggers are set, cleared, and cleared with a key's last contract.
LEMMA TriggerFacts ==
    ASSUME NEW t, Sane(t), NEW k \in Keys, NEW tp, NEW sl
    PROVE  /\ Calm(t, SetTriggers(t, k, tp, sl), k, 0)
           /\ Calm(t, ClearTriggers(t, k), k, 0)
           /\ LET u == ClearTriggersIfFlat(t, k)
              IN  Calm(t, u, k, 0) /\ u.ok = t.ok /\ OnlyVault(t, u) /\ SameVault(t, u)
<1>1. LET u == SetTriggers(t, k, tp, sl)
      IN  IsContext(u) /\ u.ok = t.ok /\ OnlyVault(t, u) /\ SameVault(t, u)
  BY DEF SetTriggers, Sane, IsContext, Fields, OnlyVault, SameVault, SameWallets, SameOrders,
         SameDebts, SameLeverage
<1>2. Calm(t, SetTriggers(t, k, tp, sl), k, 0)
  BY <1>1, IdleCalm
<1>3. LET u == ClearTriggersIfFlat(t, k)
      IN  IsContext(u) /\ u.ok = t.ok /\ OnlyVault(t, u) /\ SameVault(t, u)
  BY DEF ClearTriggersIfFlat, Sane, IsContext, Fields, OnlyVault, SameVault, SameWallets,
         SameOrders, SameDebts, SameLeverage
<1>4. Calm(t, ClearTriggersIfFlat(t, k), k, 0)
  BY <1>3, IdleCalm
<1>5. LET u == [t EXCEPT !.trigger[k] = NoTrigger]
      IN  IsContext(u) /\ u.ok = t.ok /\ OnlyVault(t, u) /\ SameVault(t, u)
  BY DEF Sane, IsContext, Fields, OnlyVault, SameVault, SameWallets, SameOrders,
         SameDebts, SameLeverage
<1>6. Calm(t, ClearTriggers(t, k), k, 0)
  <2> DEFINE w == [t EXCEPT !.trigger[k] = NoTrigger]
             set == t.trigger[k] # NoTrigger
  <2>1. ClearTriggers(t, k) = Require(t, set, w)
    BY DEF ClearTriggers
  <2>2. Calm(t, w, k, 0)
    BY <1>5, IdleCalm
  <2> HIDE DEF w, set
  <2> QED
    BY <2>1, <2>2, CalmRequire DEF Sane
<1> QED
  BY <1>2, <1>3, <1>4, <1>6

-----------------------------------------------------------------------------
(* Quote from and to the world, and DeepBook Predict                       *)

\* Only the purse differs.
OnlyPurse(t, u, p) ==
    /\ IsContext(u) /\ u.now = t.now /\ u.purse = p
    /\ SameVault(t, u) /\ SameOrders(t, u) /\ SameDebts(t, u) /\ SameLeverage(t, u)
    /\ u.custody = t.custody /\ u.trading = t.trading /\ u.reserved = t.reserved
    /\ u.manager = t.manager /\ u.quote = t.quote

\* The ledgers do not notice.
LEMMA PurseStep ==
    ASSUME NEW t, Sane(t), NEW k, NEW p, NEW d, NEW u, IsContext(u),
           u.ok => t.ok /\ OnlyPurse(t, u, p) /\ p \in Nat /\ p - t.purse = d
    PROVE  Calm(t, u, k, d)
<1>1. ASSUME u.ok
      PROVE  Books(u) /\ Held(u) = Held(t) + d /\ (Accrued(t) => Accrued(u)) /\ Elsewhere(t, u, k)
  <2>1. Books(t) /\ Held(t) \in Nat /\ Funds(t) \in Nat
    BY <1>1, HeldNat, FundsNat DEF Sane, Books
  <2>2. Books(u) /\ Funds(u) = Funds(t) /\ (Accrued(t) => Accrued(u))
    BY <1>1, <2>1 DEF OnlyPurse, SameVault, SameOrders, SameDebts, SameLeverage, Books, VaultTyped,
              ProxiesTyped, KeysTyped, DebtsTyped, Totalled, Backed, Custodied, OrdersReserved,
              Funds, Accrued
  <2>3. t.purse \in Nat /\ Sum(t.custody, Proxies) \in Nat /\ Sum(t.manager, Proxies) \in Nat
    BY <2>1, SumNat, KeyFacts DEF Books, ProxiesTyped, Sum
  <2>4. Held(u) = Held(t) + d
    BY <1>1, <2>1, <2>2, <2>3 DEF Held, OnlyPurse
  <2> QED
    BY <1>1, <2>2, <2>4 DEF OnlyPurse, SameOrders, SameDebts, SameLeverage, Elsewhere
<1>2. Step(t, u, k, d)
  BY <1>1 DEF Step, OnlyPurse
<1>3. KeepsFree(t, u)
  BY FreeSame DEF OnlyPurse
<1>4. ASSUME k \in Keys PROVE Tame(t, u, k)
  <2>1. t.ok => t.quote[k] \in Nat
    BY <1>4, KeyTypes
  <2> QED
    BY <1>4, <2>1, TameSame DEF OnlyPurse, SameDebts, SameLeverage
<1> QED
  BY <1>2, <1>3, <1>4 DEF Calm

\* Quote comes in: never more than the world has.
LEMMA PayInFacts ==
    ASSUME NEW t, Sane(t), NEW amount \in Nat, NEW k
    PROVE  LET u == PayIn(t, amount)
           IN  /\ Calm(t, u, k, 0 - amount)
               /\ u.ok => t.ok /\ OnlyPurse(t, u, t.purse - amount) /\ amount <= t.purse
<1> DEFINE u == PayIn(t, amount)
           w == [t EXCEPT !.purse = @ - amount]
           cond == amount <= t.purse
           p == t.purse - amount
<1>1. u = Require(t, cond, w)
  BY DEF PayIn
<1>2. IsContext(w) /\ w.ok = t.ok /\ OnlyPurse(t, w, p)
  BY DEF Sane, IsContext, Fields, OnlyPurse, SameVault, SameOrders, SameDebts, SameLeverage
<1>3. t.ok => t.purse \in Nat
  BY DEF Sane, Books, ProxiesTyped
<1>4. t.ok /\ cond => p \in Nat /\ p - t.purse = 0 - amount
  BY <1>3
<1>5. IsContext(u) /\ (u.ok => t.ok /\ cond /\ u = w)
  <2> HIDE DEF u, w, cond
  <2> QED
    BY <1>1, <1>2, RequireFacts DEF Sane
<1> HIDE DEF u, w, p
<1>6. u.ok => t.ok /\ OnlyPurse(t, u, p) /\ p \in Nat /\ p - t.purse = 0 - amount
  BY <1>2, <1>4, <1>5
<1>7. Calm(t, u, k, 0 - amount)
  BY <1>5, <1>6, PurseStep
<1> QED
  BY <1>5, <1>6, <1>7 DEF u, p

\* Quote goes out.
LEMMA PayOutFacts ==
    ASSUME NEW t, Sane(t), NEW amount \in Nat, NEW k
    PROVE  LET u == PayOut(t, amount)
           IN  /\ Calm(t, u, k, amount)
               /\ OnlyPurse(t, u, t.purse + amount) /\ u.ok = t.ok
<1> DEFINE u == PayOut(t, amount)
           p == t.purse + amount
<1>1. IsContext(u) /\ u.ok = t.ok /\ OnlyPurse(t, u, p)
  BY DEF PayOut, Sane, IsContext, Fields, OnlyPurse, SameVault, SameOrders, SameDebts, SameLeverage
<1>2. t.ok => p \in Nat /\ p - t.purse = amount
  BY DEF Sane, Books, ProxiesTyped
<1> HIDE DEF u, p
<1>3. Calm(t, u, k, amount)
  BY <1>1, <1>2, PurseStep
<1> QED
  BY <1>1, <1>3 DEF u, p

\* What happens on Predict is calm.
LEMMA WorldCalm ==
    ASSUME NEW t, Sane(t), NEW k \in Keys, NEW p, NEW m, NEW n, NEW d,
           NEW u, IsContext(u),
           u.ok => /\ t.ok /\ OnlyWorld(t, u, k, p, m, n) /\ p \in Nat /\ m \in Nat /\ n \in Nat
                   /\ u.remint \in [Keys -> BOOLEAN]
                   /\ p + m - t.purse - t.manager[ProxyOf[k]] = d
    PROVE  Calm(t, u, k, d)
<1>1. Step(t, u, k, d)
  BY WorldStep
<1>2. t.ok => t.quote[k] \in Nat
  BY KeyTypes
<1>3. Tame(t, u, k)
  BY <1>2, TameSame DEF OnlyWorld, SameDebts, SameLeverage
<1>4. KeepsFree(t, u)
  BY FreeSame DEF OnlyWorld
<1> QED
  BY <1>1, <1>3, <1>4 DEF Calm

\* Contracts are bought with quote that leaves the system.
LEMMA BuyFacts ==
    ASSUME NEW t, Sane(t), NEW k \in Keys, NEW qty, NEW cost,
           t.ok => qty \in Nat /\ cost \in Nat
    PROVE  LET u == BuyContracts(t, k, qty, cost)
           IN  /\ Calm(t, u, k, cost) /\ u.ok = t.ok
               /\ u.ok => OnlyWorld(t, u, k, t.purse + cost, t.manager[ProxyOf[k]],
                                    t.contracts[k] + qty)
<1> DEFINE u == BuyContracts(t, k, qty, cost)
           p == t.purse + cost
           m == t.manager[ProxyOf[k]]
           n == t.contracts[k] + qty
<1>1. /\ IsContext(u) /\ u.ok = t.ok /\ u.remint = t.remint
      /\ t.manager = [t.manager EXCEPT ![ProxyOf[k]] = m] => OnlyWorld(t, u, k, p, m, n)
  BY DEF BuyContracts, PayOut, Sane, IsContext, Fields, OnlyWorld, SameVault, SameDebts,
         SameLeverage
<1>2. t.ok => /\ p \in Nat /\ m \in Nat /\ n \in Nat /\ p + m - t.purse - m = cost
              /\ t.remint \in [Keys -> BOOLEAN]
              /\ t.manager = [t.manager EXCEPT ![ProxyOf[k]] = m]
  <2>1. t.ok => /\ t.purse \in Nat /\ m \in Nat /\ t.contracts[k] \in Nat
                /\ t.remint \in [Keys -> BOOLEAN]
                /\ t.manager = [t.manager EXCEPT ![ProxyOf[k]] = m]
    BY KeyTypes DEF Sane, Books, ProxiesTyped, KeysTyped
  <2> HIDE DEF m
  <2> QED
    BY <2>1
<1> HIDE DEF u, p, n
<1>3. Calm(t, u, k, cost)
  BY <1>1, <1>2, WorldCalm
<1> QED
  BY <1>1, <1>2, <1>3 DEF u, p, n

\* Contracts are redeemed and the payout waits in the manager: never more
\* contracts than there are.
LEMMA RedeemFacts ==
    ASSUME NEW t, Sane(t), NEW k \in Keys, NEW qty \in Nat, NEW payout \in Nat
    PROVE  LET u == RedeemContracts(t, k, qty, payout)
           IN  /\ Calm(t, u, k, 0)
               /\ u.ok => /\ t.ok /\ 0 < qty /\ qty <= t.contracts[k]
                          /\ OnlyWorld(t, u, k, t.purse - payout,
                                       t.manager[ProxyOf[k]] + payout, t.contracts[k] - qty)
<1> DEFINE u == RedeemContracts(t, k, qty, payout)
           v == PayIn(t, payout)
           w == [v EXCEPT !.contracts[k] = @ - qty, !.manager[ProxyOf[k]] = @ + payout]
           cond == 0 < qty /\ qty <= t.contracts[k]
           p == t.purse - payout
           m == t.manager[ProxyOf[k]] + payout
           n == t.contracts[k] - qty
<1>1. u = Require(v, cond, w)
  BY DEF RedeemContracts
<1>2. /\ Step(t, v, k, 0 - payout) /\ (v.ok => t.ok)
      /\ v.ok => OnlyPurse(t, v, p) /\ v.remint = t.remint /\ payout <= t.purse
  BY PayInFacts DEF Calm, OnlyPurse, SameOrders
<1> HIDE DEF u, v
<1>3. /\ IsContext(v) /\ (v.ok => t.ok)
      /\ IsContext(w) /\ w.ok = v.ok /\ w.remint = v.remint
      /\ OnlyPurse(t, v, p) => OnlyWorld(t, w, k, p, m, n)
  BY <1>2 DEF Step, IsContext, Fields, OnlyPurse, OnlyWorld, SameVault, SameDebts, SameOrders,
              SameLeverage
<1>4. t.ok /\ payout <= t.purse /\ cond
        => /\ p \in Nat /\ m \in Nat /\ n \in Nat
           /\ p + m - t.purse - t.manager[ProxyOf[k]] = 0
  <2>1. t.ok => /\ t.purse \in Nat /\ t.manager[ProxyOf[k]] \in Nat /\ t.contracts[k] \in Nat
    BY KeyTypes DEF Sane, Books, ProxiesTyped
  <2> QED
    BY <2>1
<1>5. t.ok => t.remint \in [Keys -> BOOLEAN]
  BY DEF Sane, Books, KeysTyped
<1>6. IsContext(u) /\ (u.ok => v.ok /\ cond /\ u = w)
  <2> HIDE DEF w, cond
  <2> QED
    BY <1>1, <1>3, RequireFacts
<1> HIDE DEF w, p, m, n
<1>7. u.ok => /\ t.ok /\ cond /\ OnlyWorld(t, u, k, p, m, n) /\ u.remint = t.remint
              /\ payout <= t.purse
  BY <1>2, <1>3, <1>6
<1>8. Calm(t, u, k, 0)
  BY <1>4, <1>5, <1>6, <1>7, WorldCalm
<1> QED
  BY <1>7, <1>8 DEF u, p, m, n

\* A payout is taken from the manager: never more than it holds.
LEMMA TakeFromManagerFacts ==
    ASSUME NEW t, Sane(t), NEW k \in Keys, NEW amount, t.ok => amount \in Nat
    PROVE  LET u == TakeFromManager(t, k, amount)
           IN  /\ Calm(t, u, k, 0 - amount)
               /\ u.ok => /\ t.ok
                          /\ OnlyWorld(t, u, k, t.purse, t.manager[ProxyOf[k]] - amount,
                                       t.contracts[k])
<1> DEFINE u == TakeFromManager(t, k, amount)
           w == [t EXCEPT !.manager[ProxyOf[k]] = @ - amount]
           cond == amount <= t.manager[ProxyOf[k]]
           p == t.purse
           m == t.manager[ProxyOf[k]] - amount
           n == t.contracts[k]
<1>1. u = Require(t, cond, w)
  BY DEF TakeFromManager
<1>2. /\ IsContext(w) /\ w.ok = t.ok /\ w.remint = t.remint
      /\ t.contracts = [t.contracts EXCEPT ![k] = n] => OnlyWorld(t, w, k, p, m, n)
  BY DEF Sane, IsContext, Fields, OnlyWorld, SameVault, SameDebts, SameLeverage
<1>3. t.ok /\ cond
        => /\ p \in Nat /\ m \in Nat /\ n \in Nat
           /\ p + m - t.purse - t.manager[ProxyOf[k]] = 0 - amount
  <2>1. t.ok => /\ t.purse \in Nat /\ t.manager[ProxyOf[k]] \in Nat /\ t.contracts[k] \in Nat
    BY KeyTypes DEF Sane, Books, ProxiesTyped
  <2> QED
    BY <2>1
<1>4. t.ok => t.remint \in [Keys -> BOOLEAN] /\ t.contracts = [t.contracts EXCEPT ![k] = n]
  BY KeyTypes DEF Sane, Books, KeysTyped
<1>5. IsContext(u) /\ (u.ok => t.ok /\ cond /\ u = w)
  <2> HIDE DEF u, w, cond
  <2> QED
    BY <1>1, <1>2, RequireFacts DEF Sane
<1> HIDE DEF u, w, p, m, n
<1>6. u.ok => t.ok /\ cond /\ OnlyWorld(t, u, k, p, m, n) /\ u.remint = t.remint
  BY <1>2, <1>4, <1>5
<1>7. Calm(t, u, k, 0 - amount)
  BY <1>3, <1>4, <1>5, <1>6, WorldCalm
<1> QED
  BY <1>6, <1>7 DEF u, p, m, n

\* The owner's choice to remint.
LEMMA SetRemintFacts ==
    ASSUME NEW t, Sane(t), NEW k \in Keys, NEW keep, t.ok => keep \in BOOLEAN
    PROVE  LET u == SetRemint(t, k, keep)
           IN  /\ Calm(t, u, k, 0) /\ u.ok = t.ok
               /\ u.ok => /\ u.contracts = t.contracts /\ SameDebts(t, u) /\ SameWallets(t, u)
                          /\ SameLeverage(t, u) /\ u.quote = t.quote /\ u.order = t.order
<1> DEFINE u == SetRemint(t, k, keep)
           p == t.purse
           m == t.manager[ProxyOf[k]]
           n == t.contracts[k]
<1>1. /\ IsContext(u) /\ u.ok = t.ok /\ u.remint = [t.remint EXCEPT ![k] = keep]
      /\ u.contracts = t.contracts /\ SameDebts(t, u) /\ SameWallets(t, u)
      /\ SameLeverage(t, u) /\ u.quote = t.quote /\ u.order = t.order
      /\ t.contracts = [t.contracts EXCEPT ![k] = n] /\ t.manager = [t.manager EXCEPT ![ProxyOf[k]] = m]
           => OnlyWorld(t, u, k, p, m, n)
  BY DEF SetRemint, Sane, IsContext, Fields, OnlyWorld, SameVault, SameDebts, SameLeverage,
         SameWallets
<1>2. t.ok => /\ p \in Nat /\ m \in Nat /\ n \in Nat /\ p + m - t.purse - m = 0
              /\ t.contracts = [t.contracts EXCEPT ![k] = n]
              /\ t.manager = [t.manager EXCEPT ![ProxyOf[k]] = m]
              /\ [t.remint EXCEPT ![k] = keep] \in [Keys -> BOOLEAN]
  <2>1. t.ok => /\ t.purse \in Nat /\ m \in Nat /\ n \in Nat
                /\ t.contracts = [t.contracts EXCEPT ![k] = n]
                /\ t.manager = [t.manager EXCEPT ![ProxyOf[k]] = m]
                /\ t.remint \in [Keys -> BOOLEAN]
    BY KeyTypes DEF Sane, Books, ProxiesTyped, KeysTyped
  <2> HIDE DEF m, n
  <2> QED
    BY <2>1
<1> HIDE DEF u, p, n
<1> HIDE DEF m
<1>3. u.ok => /\ t.ok /\ OnlyWorld(t, u, k, p, m, n) /\ u.remint \in [Keys -> BOOLEAN]
              /\ p \in Nat /\ m \in Nat /\ n \in Nat
              /\ p + m - t.purse - t.manager[ProxyOf[k]] = 0
  BY <1>1, <1>2 DEF m
<1>4. Calm(t, u, k, 0)
  BY <1>1, <1>3, WorldCalm
<1> QED
  BY <1>1, <1>4 DEF u

-----------------------------------------------------------------------------
(* leverage_vault.move: interest and revenue                               *)

\* Interest keeps the type of the vault and only ever adds to the debt.
LEMMA AccruedVaultType ==
    ASSUME NEW v \in VaultType, NEW n \in Nat, v.last_accrue_ms <= n
    PROVE  LET w == AccruedVault(v, n)
           IN  /\ w \in VaultType /\ w.last_accrue_ms = n
               /\ v.total_borrowed <= w.total_borrowed
               /\ v.total_borrowed = 0 => w.total_borrowed = 0
               /\ n = v.last_accrue_ms => w.total_borrowed = v.total_borrowed
               /\ w.balance = v.balance /\ w.insurance_fund = v.insurance_fund
               /\ w.total_principal_borrowed = v.total_principal_borrowed
<1> DEFINE interest == InterestFor(v.total_borrowed, CurrentBorrowRate(v), n - v.last_accrue_ms)
           idle == v.last_accrue_ms = 0 \/ n - v.last_accrue_ms = 0 \/ v.total_borrowed = 0
           w == AccruedVault(v, n)
<1>1. interest \in Nat
  <2>1. v.rate \in RateType
    BY DEF VaultType
  <2>2. Nav(v) \in Nat
    BY DEF Nav, VaultType
  <2>3. Utilization(v) \in Nat
    <3>1. v.total_borrowed * Bps \in Nat
      BY MulNat, ScaleAssumption DEF VaultType
    <3> QED
      BY <2>2, <3>1, DivBounds DEF Utilization
  <2>4. CurrentBorrowRate(v) \in Nat
    BY <2>1, <2>3, BorrowRateNat, ScaleAssumption DEF CurrentBorrowRate, RateType
  <2>5. v.total_borrowed \in Nat /\ n - v.last_accrue_ms \in Nat
    BY DEF VaultType
  <2> QED
    BY <2>4, <2>5, InterestForNat
<1> HIDE DEF interest
<1>2. w = IF idle THEN [v EXCEPT !.last_accrue_ms = n]
          ELSE [v EXCEPT !.total_borrowed = v.total_borrowed + interest, !.last_accrue_ms = n]
  BY DEF AccruedVault, interest
<1> HIDE DEF w
<1>3. v.total_borrowed + interest \in Nat /\ v.total_borrowed <= v.total_borrowed + interest
  BY <1>1 DEF VaultType
<1>4. CASE idle
  <2>1. w = [v EXCEPT !.last_accrue_ms = n]
    BY <1>2, <1>4
  <2> QED
    BY <2>1 DEF VaultType, w
<1>5. CASE ~idle
  <2> DEFINE d == v.total_borrowed + interest
  <2> HIDE DEF d
  <2>1. w = [v EXCEPT !.total_borrowed = d, !.last_accrue_ms = n] /\ d \in Nat
        /\ v.total_borrowed <= d
    BY <1>2, <1>3, <1>5 DEF d
  <2>2. v.total_borrowed # 0 /\ n # v.last_accrue_ms
    BY <1>5 DEF VaultType
  <2> QED
    BY <2>1, <2>2 DEF VaultType, w
<1> QED
  BY <1>4, <1>5

\* Accruing interest touches nothing but the vault's debt and clock.
LEMMA AccrueFacts ==
    ASSUME NEW t, Sane(t), NEW k
    PROVE  LET u == Accrue(t)
           IN  /\ Calm(t, u, k, 0) /\ u.ok = t.ok /\ OnlyVault(t, u)
               /\ t.ok => /\ Accrued(u) /\ Funds(u) = Funds(t)
                          /\ u.vault.total_principal_borrowed = t.vault.total_principal_borrowed
                          /\ u.vault.balance = t.vault.balance
                          /\ Accrued(t) => u.vault.total_borrowed = t.vault.total_borrowed
<1> DEFINE u == Accrue(t)
           v == AccruedVault(t.vault, t.now)
<1>1. /\ IsContext(u) /\ u.ok = t.ok /\ OnlyVault(t, u) /\ u.vault = v
      /\ u.collector = t.collector /\ u.paid = t.paid
  BY DEF Accrue, Sane, IsContext, Fields, OnlyVault, SameWallets, SameOrders, SameDebts,
         SameLeverage
<1>2. t.ok => /\ t.vault \in VaultType /\ t.now \in Nat /\ t.vault.last_accrue_ms <= t.now
              /\ t.collector \in Nat /\ t.paid \in Nat /\ Covered(t.vault)
  BY DEF Sane, Books, VaultTyped
<1>3. t.ok => /\ v \in VaultType /\ v.last_accrue_ms = t.now
              /\ t.vault.total_borrowed <= v.total_borrowed
              /\ t.vault.total_borrowed = 0 => v.total_borrowed = 0
              /\ t.now = t.vault.last_accrue_ms => v.total_borrowed = t.vault.total_borrowed
              /\ v.balance = t.vault.balance /\ v.insurance_fund = t.vault.insurance_fund
              /\ v.total_principal_borrowed = t.vault.total_principal_borrowed
  BY <1>2, AccruedVaultType
<1> HIDE DEF u, v
<1>4. t.ok => /\ VaultTyped(u) /\ Covered(u.vault) /\ Accrued(u) /\ Funds(u) = Funds(t)
              /\ t.vault.total_principal_borrowed <= u.vault.total_principal_borrowed
  <2>1. t.ok => /\ t.vault.total_borrowed \in Nat /\ t.vault.total_principal_borrowed \in Nat
                /\ v.total_borrowed \in Nat
    BY <1>2, <1>3 DEF VaultType
  <2> QED
    BY <1>1, <1>2, <1>3, <2>1 DEF OnlyVault, VaultTyped, Covered, Accrued, Funds
<1>5. Step(t, u, k, 0)
  <2>1. Step(t, u, k, Funds(u) - Funds(t))
    BY <1>1, <1>4, VaultStep
  <2>2. t.ok => Funds(u) - Funds(t) = 0
    <3>1. t.ok => Funds(t) \in Nat
      BY FundsNat DEF Sane, Books
    <3> QED
      BY <1>4, <3>1
  <2> QED
    BY <1>1, <2>1, <2>2 DEF Step
<1>6. k \in Keys => Tame(t, u, k)
  <2>1. k \in Keys /\ t.ok => t.quote[k] \in Nat
    BY KeyTypes
  <2> QED
    BY <1>1, <2>1, TameSame DEF OnlyVault, SameDebts, SameLeverage
<1>7. KeepsFree(t, u)
  BY <1>1, FreeSame DEF OnlyVault, SameWallets
<1> QED
  BY <1>1, <1>3, <1>4, <1>5, <1>6, <1>7 DEF u, Calm, Accrued

\* Only quote of the vault, the collector and the sender moves: d more of it.
OnlyFunds(t, u, d) ==
    /\ OnlyVault(t, u) /\ VaultTyped(u)
    /\ u.vault.total_borrowed = t.vault.total_borrowed
    /\ u.vault.total_principal_borrowed = t.vault.total_principal_borrowed
    /\ u.vault.last_accrue_ms = t.vault.last_accrue_ms
    /\ Funds(u) = Funds(t) + d

\* Such calls compose.
LEMMA OnlyFundsTrans ==
    ASSUME NEW t, VaultTyped(t), NEW u, NEW w, NEW d \in Int, NEW e \in Int,
           OnlyFunds(t, u, d), OnlyFunds(u, w, e)
    PROVE  OnlyFunds(t, w, d + e)
<1>1. OnlyVault(t, w)
  BY OnlyVaultTrans DEF OnlyFunds
<1>2. Funds(t) \in Nat
  BY FundsNat
<1> QED
  BY <1>1, <1>2 DEF OnlyFunds

\* Such a call is calm.
LEMMA FundsCalm ==
    ASSUME NEW t, Sane(t), NEW k, NEW d \in Int, NEW u, IsContext(u),
           u.ok => t.ok /\ OnlyFunds(t, u, d)
    PROVE  Calm(t, u, k, d)
<1>1. u.ok => Books(t) /\ Funds(t) \in Nat
  BY FundsNat DEF Sane, Books
<1>2. u.ok => /\ OnlyVault(t, u) /\ VaultTyped(u) /\ Covered(u.vault)
              /\ t.vault.total_principal_borrowed <= u.vault.total_principal_borrowed
              /\ (Accrued(t) => Accrued(u)) /\ Funds(u) - Funds(t) = d
  BY <1>1 DEF OnlyFunds, OnlyVault, Books, Covered, VaultTyped, VaultType, Accrued
<1>3. Step(t, u, k, Funds(u) - Funds(t))
  BY <1>2, VaultStep
<1>4. Step(t, u, k, d)
  BY <1>2, <1>3 DEF Step
<1>5. k \in Keys /\ t.ok => t.quote[k] \in Nat
  BY KeyTypes
<1>6. k \in Keys => Tame(t, u, k)
  BY <1>2, <1>5, TameSame DEF OnlyVault, SameDebts, SameLeverage
<1>7. KeepsFree(t, u)
  BY <1>2, FreeSame DEF OnlyVault, SameWallets
<1> QED
  BY <1>4, <1>6, <1>7 DEF Calm

\* A vault whose balance and insurance fund change.
WithFunds(v, b, f) == [v EXCEPT !.balance = b, !.insurance_fund = f]

\* Funds of a vault that only moves quote.
LEMMA FundsMoved ==
    ASSUME NEW t, VaultTyped(t), NEW u, OnlyVault(t, u),
           NEW b \in Nat, NEW f \in Nat, NEW c \in Nat, NEW q \in Nat, NEW d \in Int,
           u.vault = WithFunds(t.vault, b, f),
           u.collector = c, u.paid = q,
           b + f + c + q = Funds(t) + d
    PROVE  OnlyFunds(t, u, d)
<1>1. t.vault \in VaultType /\ t.vault.last_accrue_ms <= t.now /\ t.now \in Nat
  BY DEF VaultTyped
<1>2. /\ u.vault \in VaultType /\ u.vault.balance = b /\ u.vault.insurance_fund = f
      /\ u.vault.total_borrowed = t.vault.total_borrowed
      /\ u.vault.total_principal_borrowed = t.vault.total_principal_borrowed
      /\ u.vault.last_accrue_ms = t.vault.last_accrue_ms
  BY <1>1 DEF VaultType, WithFunds
<1> QED
  BY <1>1, <1>2 DEF OnlyFunds, VaultTyped, Funds, OnlyVault

\* The parts of the funds.
LEMMA FundParts ==
    ASSUME NEW t, VaultTyped(t)
    PROVE  /\ t.vault.balance \in Nat /\ t.vault.insurance_fund \in Nat
           /\ t.vault.total_borrowed \in Nat /\ t.vault.total_principal_borrowed \in Nat
           /\ t.collector \in Nat /\ t.paid \in Nat
           /\ t.vault = [t.vault EXCEPT !.insurance_fund = t.vault.insurance_fund]
           /\ t.vault = [t.vault EXCEPT !.balance = t.vault.balance]
BY DEF VaultTyped, VaultType

\* Both splits of a revenue hand out exactly that revenue.
LEMMA DistributeFacts ==
    ASSUME NEW t, IsContext(t), NEW total \in Nat
    PROVE  /\ LET u == DistributeProtocolFee(t, total)
              IN  /\ IsContext(u) /\ u.ok = t.ok
                  /\ VaultTyped(t) => OnlyFunds(t, u, total)
           /\ LET u == DistributeLiquidationSurplus(t, total)
              IN  /\ IsContext(u) /\ u.ok = t.ok
                  /\ VaultTyped(t) => OnlyFunds(t, u, total)
<1> DEFINE split == FeeSplit(total)
<1>1. /\ split.vault \in Nat /\ split.collector \in Nat /\ split.keeper \in Nat
      /\ split.vault + split.collector + split.keeper = total
  BY FeeSplitExact
<1> HIDE DEF split
<1> DEFINE c == t.collector + split.collector
           q == t.paid + split.keeper
<1>2. LET u == DistributeProtocolFee(t, total)
      IN  /\ IsContext(u) /\ u.ok = t.ok
          /\ VaultTyped(t) => OnlyFunds(t, u, total)
  <2> DEFINE u == DistributeProtocolFee(t, total)
             b == t.vault.balance + split.vault
             f == t.vault.insurance_fund
  <2>1. /\ IsContext(u) /\ u.ok = t.ok /\ OnlyVault(t, u)
        /\ u.vault = [t.vault EXCEPT !.balance = b] /\ u.collector = c /\ u.paid = q
    BY DEF DistributeProtocolFee, split, IsContext, Fields, OnlyVault, SameWallets, SameOrders,
           SameDebts, SameLeverage
  <2> HIDE DEF u
  <2>2. ASSUME VaultTyped(t) PROVE OnlyFunds(t, u, total)
    <3>1. /\ t.vault.balance \in Nat /\ t.vault.insurance_fund \in Nat
          /\ t.collector \in Nat /\ t.paid \in Nat
      BY <2>2, FundParts
    <3>2. b \in Nat /\ f \in Nat /\ c \in Nat /\ q \in Nat /\ b + f + c + q = Funds(t) + total
      BY <1>1, <3>1 DEF Funds
    <3>3. u.vault = WithFunds(t.vault, b, f)
      BY <2>1, <2>2 DEF VaultTyped, VaultType, WithFunds
    <3> HIDE DEF b, f, c, q
    <3>4. total \in Int /\ OnlyVault(t, u) /\ u.collector = c /\ u.paid = q
      BY <2>1
    <3> QED
      BY <2>2, <3>2, <3>3, <3>4, FundsMoved
  <2> QED
    BY <2>1, <2>2 DEF u
<1>3. LET u == DistributeLiquidationSurplus(t, total)
      IN  /\ IsContext(u) /\ u.ok = t.ok
          /\ VaultTyped(t) => OnlyFunds(t, u, total)
  <2> DEFINE u == DistributeLiquidationSurplus(t, total)
             b == t.vault.balance
             f == t.vault.insurance_fund + split.vault
  <2>1. /\ IsContext(u) /\ u.ok = t.ok /\ OnlyVault(t, u)
        /\ u.vault = [t.vault EXCEPT !.insurance_fund = f] /\ u.collector = c /\ u.paid = q
    BY DEF DistributeLiquidationSurplus, split, IsContext, Fields, OnlyVault, SameWallets,
           SameOrders, SameDebts, SameLeverage
  <2> HIDE DEF u
  <2>2. ASSUME VaultTyped(t) PROVE OnlyFunds(t, u, total)
    <3>1. /\ t.vault.balance \in Nat /\ t.vault.insurance_fund \in Nat
          /\ t.collector \in Nat /\ t.paid \in Nat
      BY <2>2, FundParts
    <3>2. b \in Nat /\ f \in Nat /\ c \in Nat /\ q \in Nat /\ b + f + c + q = Funds(t) + total
      BY <1>1, <3>1 DEF Funds
    <3>3. u.vault = WithFunds(t.vault, b, f)
      BY <2>1, <2>2 DEF VaultTyped, VaultType, WithFunds
    <3> HIDE DEF b, f, c, q
    <3>4. total \in Int /\ OnlyVault(t, u) /\ u.collector = c /\ u.paid = q
      BY <2>1
    <3> QED
      BY <2>2, <3>2, <3>3, <3>4, FundsMoved
  <2> QED
    BY <2>1, <2>2 DEF u
<1> QED
  BY <1>2, <1>3

-----------------------------------------------------------------------------
(* leverage_vault.move: liquidity, loans and repayments                    *)

\* The amount of a step may be written otherwise.
LEMMA CalmBy ==
    ASSUME NEW t, NEW u, NEW k, NEW d, NEW e, Calm(t, u, k, d), t.ok => d = e
    PROVE  Calm(t, u, k, e)
BY DEF Calm, Step

\* Liquidity buys shares and joins the idle balance.
LEMMA SupplyFacts ==
    ASSUME NEW t, Sane(t), NEW k, NEW amount \in Nat
    PROVE  Calm(t, Supply(t, amount), k, amount)
<1> DEFINE shares == SharesFor(t.vault, amount)
           cond == amount > 0 /\ shares > 0
           w == [t EXCEPT !.vault.balance = @ + amount, !.vault.total_shares = @ + shares]
<1>1. Supply(t, amount) = Require(t, cond, w)
  BY DEF Supply
<1>2. /\ IsContext(w) /\ w.ok = t.ok /\ OnlyVault(t, w)
      /\ w.vault = [[t.vault EXCEPT !.balance = @ + amount] EXCEPT !.total_shares = @ + shares]
      /\ w.collector = t.collector /\ w.paid = t.paid
  BY DEF Sane, IsContext, Fields, OnlyVault, SameWallets, SameOrders, SameDebts, SameLeverage
<1>3. t.ok => VaultTyped(t)
  BY DEF Sane, Books
<1>4. t.ok => shares \in Nat
  <2> SUFFICES ASSUME t.ok PROVE shares \in Nat
    OBVIOUS
  <2>1. t.vault.total_shares \in Nat /\ Nav(t.vault) \in Nat
    BY <1>3 DEF VaultTyped, VaultType, Nav
  <2>2. amount * t.vault.total_shares \in Nat
    BY <2>1, MulNat
  <2> QED
    BY <2>1, <2>2, DivBounds DEF SharesFor
<1> HIDE DEF w, shares
<1>5. t.ok => OnlyFunds(t, w, amount)
  <2> SUFFICES ASSUME t.ok PROVE OnlyFunds(t, w, amount)
    OBVIOUS
  <2>1. /\ t.vault \in VaultType /\ t.vault.balance \in Nat /\ t.vault.total_shares \in Nat
        /\ t.vault.insurance_fund \in Nat /\ t.collector \in Nat /\ t.paid \in Nat
        /\ t.vault.last_accrue_ms <= t.now /\ t.now \in Nat
    BY <1>3 DEF VaultTyped, VaultType
  <2>2. /\ w.vault \in VaultType /\ w.vault.balance = t.vault.balance + amount
        /\ w.vault.insurance_fund = t.vault.insurance_fund
        /\ w.vault.total_borrowed = t.vault.total_borrowed
        /\ w.vault.total_principal_borrowed = t.vault.total_principal_borrowed
        /\ w.vault.last_accrue_ms = t.vault.last_accrue_ms
    <3> DEFINE b == t.vault.balance + amount
               s == t.vault.total_shares + shares
    <3>1. b \in Nat /\ s \in Nat
      BY <1>4, <2>1
    <3>2. w.vault = [[t.vault EXCEPT !.balance = b] EXCEPT !.total_shares = s]
      BY <1>2, <2>1 DEF VaultType
    <3> HIDE DEF b, s
    <3> QED
      BY <2>1, <3>1, <3>2 DEF VaultType, b
  <2> QED
    BY <1>2, <2>1, <2>2 DEF OnlyFunds, VaultTyped, Funds, OnlyVault
<1>6. Calm(t, w, k, amount)
  BY <1>2, <1>5, FundsCalm
<1> HIDE DEF cond
<1> QED
  BY <1>1, <1>6, CalmRequire DEF Sane

\* A loan leaves the idle balance and is owed from then on, in principal too.
LEMMA BorrowFacts ==
    ASSUME NEW t0, Sane(t0), NEW k, NEW amount \in Int
    PROVE  LET u == Borrow(t0, amount)
           IN  /\ Step(t0, u, k, 0 - amount)
               /\ u.ok => /\ t0.ok /\ amount > 0 /\ OnlyVault(t0, u)
                          /\ u.vault.total_principal_borrowed
                               = t0.vault.total_principal_borrowed + amount
<1> DEFINE t == Accrue(t0)
           cond == amount > 0 /\ amount <= t.vault.balance
           w == [t EXCEPT !.vault.balance = @ - amount,
                          !.vault.total_borrowed = @ + amount,
                          !.vault.total_principal_borrowed = @ + amount]
           u == Borrow(t0, amount)
<1>1. u = Require(t, cond, w)
  BY DEF Borrow
<1>2. /\ Step(t0, t, k, 0) /\ Sane(t) /\ t.ok = t0.ok /\ OnlyVault(t0, t)
      /\ t0.ok => t.vault.total_principal_borrowed = t0.vault.total_principal_borrowed
  BY AccrueFacts, CalmSane DEF Calm
<1> HIDE DEF t
<1>3. /\ IsContext(w) /\ w.ok = t.ok /\ OnlyVault(t, w)
      /\ w.collector = t.collector /\ w.paid = t.paid
  BY <1>2 DEF Sane, IsContext, Fields, OnlyVault, SameWallets, SameOrders, SameDebts, SameLeverage
<1>4. t.ok => VaultTyped(t) /\ Covered(t.vault)
  BY <1>2 DEF Sane, Books
<1> HIDE DEF w, u
<1>5. t.ok /\ cond => /\ VaultTyped(w) /\ Covered(w.vault) /\ (Accrued(t) => Accrued(w))
                      /\ w.vault.total_principal_borrowed
                           = t.vault.total_principal_borrowed + amount
                      /\ t.vault.total_principal_borrowed <= w.vault.total_principal_borrowed
                      /\ Funds(w) - Funds(t) = 0 - amount
  <2> SUFFICES ASSUME t.ok, cond
               PROVE  /\ VaultTyped(w) /\ Covered(w.vault) /\ (Accrued(t) => Accrued(w))
                      /\ w.vault.total_principal_borrowed
                           = t.vault.total_principal_borrowed + amount
                      /\ t.vault.total_principal_borrowed <= w.vault.total_principal_borrowed
                      /\ Funds(w) - Funds(t) = 0 - amount
    OBVIOUS
  <2>1. /\ t.vault \in VaultType /\ t.vault.balance \in Nat /\ t.vault.total_borrowed \in Nat
        /\ t.vault.total_principal_borrowed \in Nat
        /\ t.vault.insurance_fund \in Nat /\ t.collector \in Nat /\ t.paid \in Nat
        /\ t.vault.last_accrue_ms <= t.now /\ t.now \in Nat
    BY <1>4 DEF VaultTyped, VaultType
  <2> DEFINE b == t.vault.balance - amount
             d == t.vault.total_borrowed + amount
             p == t.vault.total_principal_borrowed + amount
  <2>2. b \in Nat /\ d \in Nat /\ p \in Nat
    BY <2>1
  <2>3. w.vault = [t.vault EXCEPT !.balance = b, !.total_borrowed = d,
                                  !.total_principal_borrowed = p]
    BY <1>2, <2>1 DEF VaultType, w, Sane, IsContext, Fields
  <2>4. /\ w.vault \in VaultType /\ w.vault.balance = b /\ w.vault.total_borrowed = d
        /\ w.vault.total_principal_borrowed = p
        /\ w.vault.insurance_fund = t.vault.insurance_fund
        /\ w.vault.last_accrue_ms = t.vault.last_accrue_ms
    <3> HIDE DEF b, d, p
    <3> QED
      BY <2>1, <2>2, <2>3 DEF VaultType
  <2> QED
    BY <1>3, <1>4, <2>1, <2>4 DEF VaultTyped, Covered, Accrued, Funds, OnlyVault
<1>6. t.ok /\ cond => Step(t, w, k, 0 - amount)
  <2> SUFFICES ASSUME t.ok, cond PROVE Step(t, w, k, 0 - amount)
    OBVIOUS
  <2> HIDE DEF cond
  <2>1. Step(t, w, k, Funds(w) - Funds(t))
    BY <1>2, <1>3, <1>5, VaultStep
  <2> QED
    BY <1>5, <2>1
<1>7. Step(t, u, k, 0 - amount)
  <2> HIDE DEF cond
  <2> QED
    BY <1>1, <1>2, <1>6, StepRequire DEF Sane
<1>8. u.ok => t.ok /\ cond /\ u = w
  <2> HIDE DEF cond
  <2> QED
    BY <1>1, <1>2, <1>3, RequireFacts DEF Sane
<1>9. Step(t0, u, k, 0 - amount)
  <2>1. Step(t0, u, k, 0 + (0 - amount))
    BY <1>2, <1>7, StepTrans
  <2> QED
    BY <2>1
<1>10. u.ok => OnlyVault(t0, u)
  BY <1>2, <1>3, <1>8, OnlyVaultTrans
<1> QED
  BY <1>2, <1>5, <1>8, <1>9, <1>10 DEF u

\* The two ends of a flash loan and the insurance fund's cover move quote
\* only.
LEMMA TakeInsuranceFacts ==
    ASSUME NEW t, Sane(t), NEW k, NEW amount, t.ok => amount \in Nat
    PROVE  LET u == TakeInsurance(t, amount)
           IN  /\ Calm(t, u, k, 0 - amount)
               /\ u.ok => t.ok /\ OnlyFunds(t, u, 0 - amount)
<1> DEFINE cond == amount > 0 /\ amount <= t.vault.insurance_fund
           w == [t EXCEPT !.vault.insurance_fund = @ - amount]
           u == TakeInsurance(t, amount)
<1>1. u = Require(t, cond, w)
  BY DEF TakeInsurance
<1>2. /\ IsContext(w) /\ w.ok = t.ok /\ OnlyVault(t, w)
      /\ w.vault = [t.vault EXCEPT !.insurance_fund = t.vault.insurance_fund - amount]
      /\ w.collector = t.collector /\ w.paid = t.paid
  BY DEF Sane, IsContext, Fields, OnlyVault, SameWallets, SameOrders, SameDebts, SameLeverage
<1>3. t.ok => VaultTyped(t)
  BY DEF Sane, Books
<1> HIDE DEF w, u
<1>4. t.ok /\ cond => OnlyFunds(t, w, 0 - amount)
  <2> SUFFICES ASSUME t.ok, cond PROVE OnlyFunds(t, w, 0 - amount)
    OBVIOUS
  <2> DEFINE b == t.vault.balance
             f == t.vault.insurance_fund - amount
             c == t.collector
             q == t.paid
             d == 0 - amount
  <2>1. /\ t.vault.balance \in Nat /\ t.vault.insurance_fund \in Nat
        /\ t.collector \in Nat /\ t.paid \in Nat
    BY <1>3, FundParts
  <2>2. /\ b \in Nat /\ f \in Nat /\ c \in Nat /\ q \in Nat /\ d \in Int
        /\ b + f + c + q = Funds(t) + d
    BY <2>1 DEF Funds
  <2>3. w.vault = WithFunds(t.vault, b, f)
    BY <1>2, <1>3 DEF VaultTyped, VaultType, WithFunds
  <2> HIDE DEF b, f, c, q, d
  <2>4. OnlyVault(t, w) /\ w.collector = c /\ w.paid = q
    BY <1>2 DEF c, q
  <2>5. OnlyFunds(t, w, d)
    BY <1>3, <2>2, <2>3, <2>4, FundsMoved
  <2> QED
    BY <2>5 DEF d
<1> HIDE DEF cond
<1>5. IsContext(u) /\ (u.ok => t.ok /\ cond /\ u = w)
  BY <1>1, <1>2, RequireFacts DEF Sane
<1>6. u.ok => t.ok /\ OnlyFunds(t, u, 0 - amount)
  BY <1>4, <1>5
<1>7. Calm(t, u, k, 0 - amount)
  <2>1. CASE t.ok
    <3>1. 0 - amount \in Int
      BY <2>1
    <3> QED
      BY <1>5, <1>6, <3>1, FundsCalm
  <2>2. CASE ~t.ok
    BY <1>5, <1>6, <2>2 DEF Calm, Step, Tame, KeepsFree
  <2> QED
    BY <2>1, <2>2
<1> QED
  BY <1>6, <1>7 DEF u

\* A flash loan leaves the idle balance.
LEMMA BorrowFlashFacts ==
    ASSUME NEW t0, Sane(t0), NEW k, NEW amount, t0.ok => amount \in Nat
    PROVE  LET u == BorrowFlash(t0, amount)
           IN  /\ Calm(t0, u, k, 0 - amount)
               /\ u.ok => t0.ok /\ Accrued(u) /\ OnlyVault(t0, u)
<1> DEFINE t == Accrue(t0)
           cond == amount > 0 /\ amount <= t.vault.balance
           w == [t EXCEPT !.vault.balance = @ - amount]
           u == BorrowFlash(t0, amount)
<1>1. u = Require(t, cond, w)
  BY DEF BorrowFlash
<1>2. /\ Calm(t0, t, k, 0) /\ Sane(t) /\ t.ok = t0.ok /\ OnlyVault(t0, t)
      /\ t0.ok => Accrued(t)
  BY AccrueFacts, CalmSane
<1> HIDE DEF t
<1>3. /\ IsContext(w) /\ w.ok = t.ok /\ OnlyVault(t, w)
      /\ w.vault = [t.vault EXCEPT !.balance = t.vault.balance - amount]
      /\ w.collector = t.collector /\ w.paid = t.paid
  BY <1>2 DEF Sane, IsContext, Fields, OnlyVault, SameWallets, SameOrders, SameDebts, SameLeverage
<1>4. t.ok => VaultTyped(t)
  BY <1>2 DEF Sane, Books
<1> HIDE DEF w, u
<1>5. t.ok /\ cond => OnlyFunds(t, w, 0 - amount)
  <2> SUFFICES ASSUME t.ok, cond PROVE OnlyFunds(t, w, 0 - amount)
    OBVIOUS
  <2> DEFINE b == t.vault.balance - amount
             f == t.vault.insurance_fund
             c == t.collector
             q == t.paid
             d == 0 - amount
  <2>1. /\ t.vault.balance \in Nat /\ t.vault.insurance_fund \in Nat
        /\ t.collector \in Nat /\ t.paid \in Nat
    BY <1>4, FundParts
  <2>2. /\ b \in Nat /\ f \in Nat /\ c \in Nat /\ q \in Nat /\ d \in Int
        /\ b + f + c + q = Funds(t) + d
    BY <1>2, <2>1 DEF Funds
  <2>3. w.vault = WithFunds(t.vault, b, f)
    BY <1>3, <1>4 DEF VaultTyped, VaultType, WithFunds
  <2> HIDE DEF b, f, c, q, d
  <2>4. OnlyVault(t, w) /\ w.collector = c /\ w.paid = q
    BY <1>3 DEF c, q
  <2>5. OnlyFunds(t, w, d)
    BY <1>4, <2>2, <2>3, <2>4, FundsMoved
  <2> QED
    BY <2>5 DEF d
<1> HIDE DEF cond
<1>6. IsContext(u) /\ (u.ok => t.ok /\ cond /\ u = w)
  BY <1>1, <1>2, <1>3, RequireFacts DEF Sane
<1>7. u.ok => t.ok /\ OnlyFunds(t, u, 0 - amount)
  BY <1>5, <1>6
<1>8. Calm(t, u, k, 0 - amount)
  <2>1. CASE t.ok
    <3>1. 0 - amount \in Int
      BY <1>2, <2>1
    <3> QED
      BY <1>2, <1>6, <1>7, <3>1, FundsCalm
  <2>2. CASE ~t.ok
    BY <1>6, <1>7, <2>2 DEF Calm, Step, Tame, KeepsFree
  <2> QED
    BY <2>1, <2>2
<1>9. Calm(t0, u, k, 0 - amount)
  <2>1. Calm(t0, u, k, 0 + (0 - amount))
    <3>1. t0.ok => 0 \in Int /\ 0 - amount \in Int
      OBVIOUS
    <3> QED
      BY <1>2, <1>8, <3>1, CalmTrans
  <2>2. t0.ok => 0 + (0 - amount) = 0 - amount
    OBVIOUS
  <2> QED
    BY <2>1, <2>2, CalmBy
<1>10. u.ok => t0.ok /\ Accrued(u) /\ OnlyVault(t0, u)
  BY <1>2, <1>7, OnlyVaultTrans DEF OnlyFunds, OnlyVault, Accrued
<1> QED
  BY <1>9, <1>10 DEF u

\* A repayment that is covered takes the debt and its principal down together.
LEMMA ApplyRepaymentFacts ==
    ASSUME NEW t, IsContext(t), t.ok => VaultTyped(t), NEW repay, NEW principal,
           t.ok => repay \in Nat /\ principal \in Nat
    PROVE  LET u == ApplyRepayment(t, repay, principal)
           IN  /\ IsContext(u)
               /\ u.ok => /\ t.ok /\ OnlyVault(t, u) /\ VaultTyped(u) /\ Funds(u) = Funds(t)
                          /\ u.vault.last_accrue_ms = t.vault.last_accrue_ms
                          /\ repay <= t.vault.total_borrowed
                          /\ principal <= t.vault.total_principal_borrowed
                          /\ u.vault.total_borrowed = t.vault.total_borrowed - repay
                          /\ u.vault.total_principal_borrowed
                               = t.vault.total_principal_borrowed - principal
<1> DEFINE cond == /\ repay <= t.vault.total_borrowed
                   /\ principal <= t.vault.total_principal_borrowed
           w == [t EXCEPT !.vault.total_borrowed = @ - repay,
                          !.vault.total_principal_borrowed = @ - principal]
           u == ApplyRepayment(t, repay, principal)
<1>1. u = Require(t, cond, w)
  BY DEF ApplyRepayment
<1>2. /\ IsContext(w) /\ w.ok = t.ok /\ OnlyVault(t, w)
      /\ w.collector = t.collector /\ w.paid = t.paid
  BY DEF IsContext, Fields, OnlyVault, SameWallets, SameOrders, SameDebts, SameLeverage
<1> HIDE DEF u
<1>3. ASSUME t.ok, cond
      PROVE  /\ VaultTyped(w) /\ Funds(w) = Funds(t)
             /\ w.vault.last_accrue_ms = t.vault.last_accrue_ms
             /\ w.vault.total_borrowed = t.vault.total_borrowed - repay
             /\ w.vault.total_principal_borrowed = t.vault.total_principal_borrowed - principal
  <2>1. /\ t.vault \in VaultType /\ t.vault.total_borrowed \in Nat
        /\ t.vault.total_principal_borrowed \in Nat
        /\ t.vault.last_accrue_ms <= t.now /\ t.now \in Nat
    BY <1>3 DEF VaultTyped, VaultType
  <2> DEFINE d == t.vault.total_borrowed - repay
             p == t.vault.total_principal_borrowed - principal
  <2>2. d \in Nat /\ p \in Nat
    BY <1>3, <2>1
  <2>3. w.vault = [t.vault EXCEPT !.total_borrowed = d, !.total_principal_borrowed = p]
    BY <2>1 DEF VaultType, IsContext, Fields
  <2>4. /\ w.vault \in VaultType /\ w.vault.balance = t.vault.balance
        /\ w.vault.total_borrowed = d /\ w.vault.total_principal_borrowed = p
        /\ w.vault.insurance_fund = t.vault.insurance_fund
        /\ w.vault.last_accrue_ms = t.vault.last_accrue_ms
    <3> HIDE DEF d, p, w
    <3> QED
      BY <2>1, <2>2, <2>3 DEF VaultType
  <2> HIDE DEF w
  <2> QED
    BY <1>2, <1>3, <2>1, <2>4 DEF VaultTyped, Funds, OnlyVault
<1> HIDE DEF w
<1>4. IsContext(u) /\ (u.ok => t.ok /\ cond /\ u = w)
  <2> HIDE DEF cond
  <2> QED
    BY <1>1, <1>2, RequireFacts
<1> QED
  BY <1>2, <1>3, <1>4 DEF u

\* What a repayment does to the vault.
Repaid(t, r, principal, payment) ==
    /\ OnlyVault(t, r) /\ VaultTyped(r) /\ Covered(r.vault) /\ Accrued(r)
    /\ Funds(r) = Funds(t) + payment
    /\ r.vault.total_principal_borrowed = t.vault.total_principal_borrowed - principal

\* The vault's side of a payment against a ledger of principal p.
LEMMA RepayVaultFacts ==
    ASSUME NEW t0, Sane(t0), t0.ok => Accrued(t0), NEW p, NEW payment,
           t0.ok => /\ p \in Nat /\ payment \in Nat
                    /\ p <= t0.vault.total_principal_borrowed
                    /\ payment <= VaultDebtOf(t0.vault, p)
    PROVE  LET r == RepayVaultForLedger(t0, p, payment)
               v == VaultPrincipalIn(p, payment, VaultDebtOf(t0.vault, p))
           IN  /\ IsContext(r)
               /\ r.ok => t0.ok /\ payment > 0 /\ Repaid(t0, r, v, payment)
<1> DEFINE t         == Accrue(t0)
           debt      == VaultDebtOf(t.vault, p)
           repay     == IF payment >= debt THEN debt ELSE payment
           principal == VaultPrincipalIn(p, repay, debt)
           interest  == repay - principal
           applied   == ApplyRepayment(t, repay, principal)
           shared    == DistributeProtocolFee(applied, interest)
           cond      == payment > 0 /\ principal <= repay
           last      == [shared EXCEPT !.vault.balance = @ + (payment - interest)]
           r         == RepayVaultForLedger(t0, p, payment)
           v         == VaultPrincipalIn(p, payment, VaultDebtOf(t0.vault, p))
<1>1. r = Require(t, cond, last)
  BY DEF RepayVaultForLedger
<1>2. /\ Sane(t) /\ t.ok = t0.ok /\ OnlyVault(t0, t)
      /\ t.ok => /\ Accrued(t) /\ Funds(t) = Funds(t0) /\ VaultTyped(t) /\ Covered(t.vault)
                 /\ t.vault.total_principal_borrowed = t0.vault.total_principal_borrowed
                 /\ t.vault.total_borrowed = t0.vault.total_borrowed
  BY AccrueFacts, CalmSane DEF Sane, Books
<1> HIDE DEF r, t
<1>3. ASSUME t.ok, cond
      PROVE  IsContext(last) /\ (last.ok => Repaid(t, last, v, payment))
  <2>1. debt = VaultDebtOf(t0.vault, p)
    BY <1>2, <1>3 DEF VaultDebtOf
  <2>2. /\ p \in Nat /\ payment \in Nat /\ p <= t.vault.total_principal_borrowed
        /\ payment <= debt
    BY <1>2, <1>3, <2>1
  <2>3. /\ t.vault.total_borrowed \in Nat /\ t.vault.total_principal_borrowed \in Nat
        /\ Funds(t) \in Nat /\ t.now \in Nat
    BY <1>2, <1>3, FundsNat DEF VaultTyped, VaultType
  <2>4. debt \in Nat
    BY <2>2, <2>3, DebtNat DEF VaultDebtOf
  <2>5. repay = payment
    <3> HIDE DEF debt
    <3> QED
      BY <2>2, <2>4
  <2>6. principal = v
    <3> HIDE DEF repay, debt
    <3> QED
      BY <2>1, <2>5
  <2>7. principal \in Nat /\ principal <= payment
    <3>1. VaultPrincipalIn(p, repay, debt) \in Nat
      <4> HIDE DEF repay, debt
      <4> QED
        BY <2>2, <2>4, <2>5, SplitNat
    <3> HIDE DEF repay, debt
    <3> QED
      BY <1>3, <2>5, <3>1
  <2>8. interest \in Nat /\ interest = payment - principal
    <3> HIDE DEF repay, principal
    <3> QED
      BY <2>2, <2>5, <2>7
  <2> HIDE DEF interest
  <2>9. /\ IsContext(applied)
        /\ applied.ok => /\ OnlyVault(t, applied) /\ VaultTyped(applied)
                         /\ Funds(applied) = Funds(t)
                         /\ applied.vault.last_accrue_ms = t.vault.last_accrue_ms
                         /\ payment <= t.vault.total_borrowed
                         /\ principal <= t.vault.total_principal_borrowed
                         /\ applied.vault.total_borrowed = t.vault.total_borrowed - payment
                         /\ applied.vault.total_principal_borrowed
                              = t.vault.total_principal_borrowed - principal
    <3> HIDE DEF repay, principal
    <3> QED
      BY <1>2, <1>3, <2>2, <2>5, <2>7, ApplyRepaymentFacts DEF Sane
  <2> HIDE DEF repay, principal, applied
  <2>10. /\ IsContext(shared) /\ shared.ok = applied.ok
         /\ applied.ok => OnlyFunds(applied, shared, interest)
    BY <2>8, <2>9, DistributeFacts
  <2> HIDE DEF shared
  <2>11. /\ IsContext(last) /\ last.ok = shared.ok /\ OnlyVault(shared, last)
         /\ last.collector = shared.collector /\ last.paid = shared.paid
    BY <2>10 DEF IsContext, Fields, OnlyVault, SameWallets, SameOrders, SameDebts, SameLeverage
  <2>12. ASSUME last.ok PROVE OnlyFunds(shared, last, principal)
    <3> DEFINE b == shared.vault.balance + (payment - interest)
               f == shared.vault.insurance_fund
               c == shared.collector
               q == shared.paid
    <3>1. VaultTyped(shared)
      BY <2>10, <2>11, <2>12 DEF OnlyFunds
    <3>2. /\ shared.vault.balance \in Nat /\ shared.vault.insurance_fund \in Nat
          /\ shared.collector \in Nat /\ shared.paid \in Nat
      BY <3>1, FundParts
    <3>3. /\ b \in Nat /\ f \in Nat /\ c \in Nat /\ q \in Nat /\ principal \in Int
          /\ b + f + c + q = Funds(shared) + principal
      BY <2>2, <2>7, <2>8, <3>2 DEF Funds
    <3>4. last.vault = WithFunds(shared.vault, b, f)
      BY <2>10, <3>1 DEF VaultTyped, VaultType, WithFunds, IsContext, Fields
    <3> HIDE DEF b, f, c, q, last
    <3>5. OnlyVault(shared, last) /\ last.collector = c /\ last.paid = q
      BY <2>11 DEF c, q
    <3> QED
      BY <3>1, <3>3, <3>4, <3>5, FundsMoved
  <2> HIDE DEF last
  <2>13. ASSUME last.ok PROVE Repaid(t, last, v, payment)
    <3>1. applied.ok /\ VaultTyped(applied)
      BY <2>9, <2>10, <2>11, <2>13
    <3>2. OnlyFunds(applied, last, interest + principal)
      <4>1. interest \in Int /\ principal \in Int
        BY <2>7, <2>8
      <4> QED
        BY <2>10, <2>12, <2>13, <3>1, <4>1, OnlyFundsTrans
    <3>3. OnlyVault(t, last)
      BY <2>9, <3>1, <3>2, OnlyVaultTrans DEF OnlyFunds
    <3>4. interest + principal = payment
      BY <2>2, <2>7, <2>8
    <3>5. Funds(last) = Funds(t) + payment
      BY <2>9, <3>1, <3>2, <3>4 DEF OnlyFunds
    <3>6. /\ last.vault.total_borrowed = t.vault.total_borrowed - payment
          /\ last.vault.total_principal_borrowed = t.vault.total_principal_borrowed - v
          /\ last.vault.last_accrue_ms = t.vault.last_accrue_ms
      BY <2>6, <2>9, <3>1, <3>2 DEF OnlyFunds
    <3>7. Covered(last.vault)
      <4> DEFINE D == t.vault.total_borrowed
                 P == t.vault.total_principal_borrowed
      <4>1. D \in Nat /\ P \in Nat /\ p <= P /\ P <= D /\ (P = 0 => D = 0)
        BY <1>2, <1>3, <2>2, <2>3 DEF Covered
      <4>2. debt = DebtWithInterest(p, D, P) /\ v = VaultPrincipalIn(p, payment, debt)
        BY <2>1 DEF VaultDebtOf
      <4>3. payment <= DebtWithInterest(p, D, P)
        BY <2>2, <4>2
      <4>4. /\ last.vault.total_borrowed = D - payment
            /\ last.vault.total_principal_borrowed = P - v
        BY <3>6
      <4>5. v \in Nat
        BY <2>6, <2>7
      <4> HIDE DEF D, P, v, debt
      <4>6. payment - v <= D - P /\ (P - v = 0 => D - payment = 0)
        BY <2>2, <4>1, <4>2, <4>3, VaultSplitKeepsCover
      <4> QED
        BY <2>2, <4>1, <4>4, <4>5, <4>6 DEF Covered
    <3>8. VaultTyped(last) /\ Accrued(last)
      BY <1>2, <1>3, <3>2, <3>3, <3>6 DEF OnlyFunds, OnlyVault, Accrued
    <3> QED
      BY <3>3, <3>5, <3>6, <3>7, <3>8 DEF Repaid
  <2> QED
    BY <2>11, <2>13
<1> HIDE DEF last, cond, v
<1>4. IsContext(r) /\ (r.ok => t.ok /\ cond /\ r = last)
  BY <1>1, <1>2, <1>3, RequireFacts DEF Sane
<1>5. r.ok => Repaid(t0, r, v, payment)
  <2> SUFFICES ASSUME r.ok PROVE Repaid(t0, r, v, payment)
    OBVIOUS
  <2>1. Repaid(t, r, v, payment)
    BY <1>3, <1>4
  <2>2. OnlyVault(t0, r)
    BY <1>2, <2>1, OnlyVaultTrans DEF Repaid
  <2> QED
    BY <1>2, <1>4, <2>1, <2>2 DEF Repaid
<1> QED
  BY <1>2, <1>4, <1>5 DEF r, v, cond

-----------------------------------------------------------------------------
(* trade.move: borrowing onto a key and repaying its debt                  *)

\* What the books say of a single key.
LEMMA KeyDebtFacts ==
    ASSUME NEW t, Sane(t), t.ok, NEW k \in Keys
    PROVE  /\ t.borrowed[k] \in Nat /\ KeyDebt(t, k) \in Nat
           /\ t.borrowed[k] = 0 <=> KeyDebt(t, k) = 0
           /\ t.borrowed[k] <= t.vault.total_principal_borrowed
           /\ t.borrowed[k] <= KeyDebt(t, k)
<1> DEFINE p == t.borrowed[k]
           D == t.vault.total_borrowed
           P == t.vault.total_principal_borrowed
<1>1. /\ t.borrowed \in [Keys -> Nat] /\ p \in Nat /\ D \in Nat /\ P \in Nat
      /\ Covered(t.vault) /\ Backed(t)
  BY DEF Sane, Books, DebtsTyped, VaultTyped, VaultType
<1>2. KeyDebt(t, k) = DebtWithInterest(p, D, P)
  BY DEF KeyDebt, VaultDebtOf
<1>3. p <= P /\ P <= D
  <2>1. p <= Sum(t.borrowed, Keys) /\ Sum(t.borrowed, Keys) \in Nat
    BY <1>1, SumBound, SumNat, KeyFacts DEF Sum
  <2> QED
    BY <1>1, <2>1 DEF Backed, Covered
<1>4. p = 0 => KeyDebt(t, k) = 0
  BY <1>2 DEF DebtWithInterest
<1> HIDE DEF p, D, P
<1>5. DebtWithInterest(p, D, P) \in Nat /\ p <= DebtWithInterest(p, D, P)
  BY <1>1, <1>3, DebtNat, DebtCoversLedger
<1> QED
  BY <1>1, <1>2, <1>3, <1>4, <1>5 DEF p, P

\* What the vault lends arrives on the key, whose ledger owes it.
LEMMA ExecuteBorrowFacts ==
    ASSUME NEW t, Sane(t), NEW k \in Keys, NEW amount \in Int
    PROVE  LET u == ExecuteBorrow(t, k, amount)
           IN  /\ Step(t, u, k, 0)
               /\ u.ok => /\ t.ok /\ amount \in Nat
                          /\ u.borrowed = [t.borrowed EXCEPT ![k] = t.borrowed[k] + amount]
                          /\ SameLeverage(t, u) /\ SameOrders(t, u)
                          /\ u.trading = t.trading /\ u.reserved = t.reserved
<1>1. CASE amount = 0
  <2>1. ExecuteBorrow(t, k, amount) = t
    BY <1>1 DEF ExecuteBorrow
  <2>2. t.ok => /\ t.borrowed[k] + amount = t.borrowed[k]
                /\ t.borrowed = [t.borrowed EXCEPT ![k] = t.borrowed[k]]
    BY <1>1, KeyTypes DEF Sane, Books, DebtsTyped
  <2> QED
    BY <1>1, <2>1, <2>2, StepSame DEF SameLeverage, SameOrders
<1>2. CASE amount # 0
  <2> DEFINE b == Borrow(t, amount)
             c == CreditKey(b, k, amount)
             x == c.borrowed[k] + amount
             y == c.debtTotal[ProxyOf[k]] + amount
             u == RecordBorrow(c, k, amount)
  <2>1. ExecuteBorrow(t, k, amount) = u
    BY <1>2 DEF ExecuteBorrow
  <2>2. /\ Step(t, b, k, 0 - amount)
        /\ b.ok => /\ t.ok /\ amount > 0 /\ OnlyVault(t, b)
                   /\ b.vault.total_principal_borrowed
                        = t.vault.total_principal_borrowed + amount
    BY BorrowFacts
  <2>3. Sane(b) /\ (b.ok => amount \in Nat)
    BY <2>2, StepSane
  <2> HIDE DEF b
  <2>4. /\ Step(b, c, k, amount) /\ Sane(c) /\ c.ok = b.ok
        /\ c.ok => OnlyQuote(b, c, k, b.custody[ProxyOf[k]] + amount,
                             b.trading[ProxyOf[k]], b.quote[k] + amount)
    BY <2>3, CreditKeyFacts, CalmSane DEF Calm
  <2> HIDE DEF c
  <2>5. /\ IsContext(u) /\ u.ok = c.ok /\ OnlyDebt(c, u, k, x, y) /\ SameVault(c, u)
    BY <2>4 DEF RecordBorrow, Sane, IsContext, Fields, OnlyDebt, SameVault, SameWallets,
                SameOrders, SameLeverage
  <2> HIDE DEF u
  <2>6. c.ok => /\ t.ok /\ amount \in Nat /\ c.borrowed = t.borrowed
                /\ c.trading = t.trading /\ c.reserved = t.reserved
                /\ SameLeverage(t, c) /\ SameOrders(t, c)
                /\ c.vault.total_principal_borrowed = t.vault.total_principal_borrowed + amount
    <3>1. b.ok => b.trading = [b.trading EXCEPT ![ProxyOf[k]] = b.trading[ProxyOf[k]]]
      BY <2>3, KeyTypes
    <3> QED
      BY <2>2, <2>3, <2>4, <3>1 DEF OnlyVault, OnlyQuote, SameWallets, SameOrders, SameDebts,
                                    SameLeverage, SameVault
  <2>7. ASSUME u.ok
        PROVE  /\ c.ok /\ OnlyDebt(c, u, k, x, y) /\ x \in Nat /\ y \in Nat
               /\ VaultTyped(u) /\ Covered(u.vault)
               /\ x - c.borrowed[k] = y - c.debtTotal[ProxyOf[k]]
               /\ Sum(c.borrowed, Keys) - c.borrowed[k] + x <= u.vault.total_principal_borrowed
               /\ Accrued(c) => Accrued(u)
               /\ Funds(u) = Funds(c) /\ Funds(c) \in Nat
    <3>1. /\ c.ok /\ Books(c) /\ Books(t) /\ amount \in Nat
          /\ c.borrowed[k] \in Nat /\ c.debtTotal[ProxyOf[k]] \in Nat
      BY <2>4, <2>5, <2>6, <2>7, KeyTypes DEF Sane
    <3>2. Sum(c.borrowed, Keys) + amount <= c.vault.total_principal_borrowed
      <4>1. Sum(t.borrowed, Keys) <= t.vault.total_principal_borrowed
        BY <3>1 DEF Books, Backed
      <4>2. Sum(t.borrowed, Keys) \in Nat /\ t.vault.total_principal_borrowed \in Nat
        BY <3>1, SumNat, KeyFacts DEF Books, DebtsTyped, VaultTyped, VaultType, Sum
      <4> QED
        BY <2>6, <3>1, <4>1, <4>2
    <3>3. Sum(c.borrowed, Keys) \in Nat /\ c.vault.total_principal_borrowed \in Nat
      BY <3>1, SumNat, KeyFacts DEF Books, DebtsTyped, VaultTyped, VaultType, Sum
    <3>4. Funds(c) \in Nat
      BY <3>1, FundsNat DEF Books
    <3>5. /\ VaultTyped(u) /\ Covered(u.vault) /\ Funds(u) = Funds(c) /\ (Accrued(c) => Accrued(u))
          /\ u.vault = c.vault
      BY <2>5, <3>1 DEF Books, OnlyDebt, SameVault, VaultTyped, Covered, Funds, Accrued
    <3>6. x \in Nat /\ y \in Nat /\ x - c.borrowed[k] = y - c.debtTotal[ProxyOf[k]]
      BY <3>1
    <3>7. Sum(c.borrowed, Keys) - c.borrowed[k] + x <= c.vault.total_principal_borrowed
      BY <3>1, <3>2, <3>3
    <3> QED
      BY <2>5, <3>1, <3>4, <3>5, <3>6, <3>7
  <2>8. Step(c, u, k, 0)
    <3>1. Step(c, u, k, Funds(u) - Funds(c))
      <4> HIDE DEF x, y
      <4> QED
        BY <2>4, <2>5, <2>7, DebtStep
    <3> QED
      BY <2>7, <3>1 DEF Step
  <2>9. Step(t, u, k, 0)
    <3>1. Step(t, c, k, (0 - amount) + amount)
      BY <2>2, <2>4, StepTrans
    <3>2. Step(t, u, k, ((0 - amount) + amount) + 0)
      BY <2>8, <3>1, StepTrans
    <3>3. ((0 - amount) + amount) + 0 = 0
      OBVIOUS
    <3> QED
      BY <3>2, <3>3
  <2> QED
    BY <2>1, <2>5, <2>6, <2>9 DEF OnlyDebt, SameWallets, SameLeverage, SameOrders, u
<1> QED
  BY <1>1, <1>2

\* A step that pays into a key's debt and leaves the rest of the key alone.
Pays(t, u, k, d) ==
    /\ Step(t, u, k, d)
    /\ u.ok => /\ t.ok /\ u.borrowed[k] <= t.borrowed[k]
               /\ u.trading = t.trading /\ u.reserved = t.reserved
               /\ SameLeverage(t, u) /\ SameOrders(t, u)

\* Such steps compose.
LEMMA PaysTrans ==
    ASSUME NEW t, Sane(t), NEW u, NEW w, NEW k \in Keys, NEW d, NEW e,
           t.ok => d \in Int /\ e \in Int,
           Pays(t, u, k, d), Pays(u, w, k, e)
    PROVE  Pays(t, w, k, d + e)
<1>1. Step(t, w, k, d + e)
  BY StepTrans DEF Pays
<1> SUFFICES ASSUME w.ok
             PROVE  /\ t.ok /\ w.borrowed[k] <= t.borrowed[k]
                    /\ w.trading = t.trading /\ w.reserved = t.reserved
                    /\ SameLeverage(t, w) /\ SameOrders(t, w)
  BY <1>1 DEF Pays
<1>2. /\ t.borrowed[k] \in Nat /\ u.borrowed[k] \in Nat /\ w.borrowed[k] \in Nat
  BY KeyTypes, StepSane DEF Pays
<1> QED
  BY <1>2 DEF Pays, SameLeverage, SameOrders

\* A call that does nothing pays nothing.
LEMMA PaysSame == ASSUME NEW t, Sane(t), NEW k \in Keys PROVE Pays(t, t, k, 0)
<1>1. t.ok => t.borrowed[k] \in Nat
  BY KeyTypes
<1> QED
  BY <1>1, StepSame DEF Pays, SameLeverage, SameOrders

\* The amount may be written otherwise.
LEMMA PaysBy ==
    ASSUME NEW t, NEW u, NEW k, NEW d, NEW e, Pays(t, u, k, d), t.ok => d = e
    PROVE  Pays(t, u, k, e)
BY DEF Pays, Step

\* A payment into a key's debt: the vault gives up no more principal than the
\* ledger does, and a full payment leaves no principal.
LEMMA RepayKeyFacts ==
    ASSUME NEW t, Sane(t), t.ok => Accrued(t), NEW k \in Keys, NEW payment,
           t.ok => payment \in Nat /\ payment <= KeyDebt(t, k)
    PROVE  LET u == RepayKey(t, k, payment)
           IN  /\ Pays(t, u, k, payment)
               /\ u.ok => /\ u.quote = t.quote
                          /\ payment = KeyDebt(t, k) => u.borrowed[k] = 0
<1> DEFINE p    == t.borrowed[k]
           debt == KeyDebt(t, k)
           v    == VaultPrincipalIn(p, payment, debt)
           l    == LedgerPrincipalIn(p, payment, debt)
           r    == RepayVaultForLedger(t, p, payment)
           x    == r.borrowed[k] - l
           y    == r.debtTotal[ProxyOf[k]] - l
           w    == [r EXCEPT !.borrowed[k] = @ - l, !.debtTotal[ProxyOf[k]] = @ - l]
           cond == l <= r.borrowed[k] /\ l <= r.debtTotal[ProxyOf[k]]
           u    == RepayKey(t, k, payment)
<1>1. t.ok => /\ p \in Nat /\ debt \in Nat /\ debt = VaultDebtOf(t.vault, p)
              /\ p = 0 => debt = 0
              /\ p <= t.vault.total_principal_borrowed
  BY KeyDebtFacts DEF KeyDebt
<1>2. t.ok => v \in Nat /\ l \in Nat
  <2> HIDE DEF p, debt
  <2> QED
    BY <1>1, SplitNat DEF debt
<1>3. u = Require(r, cond, w)
  BY DEF RepayKey, RecordRepay
<1> HIDE DEF p, debt, u
<1>4. /\ IsContext(r)
      /\ r.ok => t.ok /\ payment > 0 /\ Repaid(t, r, v, payment)
  <2>1. IsContext(r) /\ (r.ok => t.ok /\ payment > 0
                                 /\ Repaid(t, r, VaultPrincipalIn(p, payment, VaultDebtOf(t.vault, p)),
                                           payment))
    BY <1>1, RepayVaultFacts DEF debt
  <2> QED
    BY <1>1, <2>1
<1> HIDE DEF r, v, l
<1>5. IsContext(w) /\ w.ok = r.ok /\ OnlyDebt(r, w, k, x, y) /\ SameVault(r, w)
  BY <1>4 DEF IsContext, Fields, OnlyDebt, SameVault, SameWallets, SameOrders, SameLeverage
<1> HIDE DEF w
<1>6. IsContext(u) /\ (u.ok => r.ok /\ cond /\ u = w)
  <2> HIDE DEF cond
  <2> QED
    BY <1>3, <1>4, <1>5, RequireFacts
<1>7. ASSUME u.ok
      PROVE  /\ t.ok /\ OnlyDebt(t, u, k, x, y) /\ x \in Nat /\ y \in Nat
             /\ VaultTyped(u) /\ Covered(u.vault)
             /\ x - t.borrowed[k] = y - t.debtTotal[ProxyOf[k]]
             /\ Sum(t.borrowed, Keys) - t.borrowed[k] + x <= u.vault.total_principal_borrowed
             /\ Accrued(t) => Accrued(u)
             /\ Funds(u) = Funds(t) + payment /\ Funds(t) \in Nat
             /\ x = p - l
  <2>1. /\ t.ok /\ Books(t) /\ payment \in Nat /\ payment > 0 /\ payment <= debt
        /\ p \in Nat /\ debt \in Nat /\ v \in Nat /\ l \in Nat /\ p > 0
    BY <1>1, <1>2, <1>4, <1>6, <1>7 DEF Sane, debt
  <2>2. Repaid(t, r, v, payment) /\ OnlyVault(t, r) /\ VaultTyped(r) /\ Covered(r.vault)
    BY <1>4, <1>6, <1>7 DEF Repaid
  <2>3. u = w /\ cond /\ u.vault = r.vault /\ u.collector = r.collector /\ u.paid = r.paid
        /\ u.now = r.now
    BY <1>5, <1>6, <1>7 DEF SameVault, OnlyDebt
  <2>4. r.borrowed = t.borrowed /\ r.debtTotal = t.debtTotal
    BY <2>2 DEF OnlyVault, SameDebts
  <2>5. OnlyDebt(t, u, k, x, y)
    BY <1>5, <2>2, <2>3, <2>4 DEF OnlyDebt, OnlyVault, SameWallets, SameOrders, SameLeverage
  <2>6. t.borrowed[k] = p /\ t.debtTotal[ProxyOf[k]] \in Nat
    BY <2>1, KeyTypes DEF p
  <2>7. x \in Nat /\ y \in Nat /\ x = p - l /\ x - t.borrowed[k] = y - t.debtTotal[ProxyOf[k]]
    BY <2>1, <2>3, <2>4, <2>6
  <2>8. VaultTyped(u) /\ Covered(u.vault) /\ Funds(u) = Funds(t) + payment /\ Accrued(u)
    BY <2>2, <2>3 DEF VaultTyped, Covered, Funds, Accrued, Repaid
  <2>9. Funds(t) \in Nat
    BY <2>1, FundsNat DEF Books
  <2>10. v <= l
    BY <2>1, SplitBounds DEF v, l
  <2>11. Sum(t.borrowed, Keys) - t.borrowed[k] + x <= u.vault.total_principal_borrowed
    <3>1. Sum(t.borrowed, Keys) <= t.vault.total_principal_borrowed
      BY <2>1 DEF Books, Backed
    <3>2. Sum(t.borrowed, Keys) \in Nat /\ t.vault.total_principal_borrowed \in Nat
      BY <2>1, SumNat, KeyFacts DEF Books, DebtsTyped, VaultTyped, VaultType, Sum
    <3>3. u.vault.total_principal_borrowed = t.vault.total_principal_borrowed - v
      BY <2>2, <2>3 DEF Repaid
    <3> HIDE DEF x
    <3> QED
      BY <2>1, <2>6, <2>7, <2>10, <3>1, <3>2, <3>3
  <2> QED
    BY <2>1, <2>5, <2>7, <2>8, <2>9, <2>11
<1>8. Step(t, u, k, payment)
  <2>1. Step(t, u, k, Funds(u) - Funds(t))
    <3> HIDE DEF x, y
    <3> QED
      BY <1>6, <1>7, DebtStep
  <2>2. u.ok => Funds(u) - Funds(t) = payment
    BY <1>7, <1>4, <1>6
  <2> QED
    BY <2>1, <2>2 DEF Step
<1>9. ASSUME u.ok
      PROVE  /\ u.borrowed[k] = x /\ x <= t.borrowed[k]
             /\ payment = debt => x = 0
  <2>1. t.ok /\ OnlyDebt(t, u, k, x, y) /\ x = p - l /\ x \in Nat
    BY <1>7, <1>9
  <2>2. u.borrowed[k] = x
    BY <2>1 DEF Sane, Books, DebtsTyped, OnlyDebt
  <2>3. p \in Nat /\ l \in Nat /\ debt \in Nat
    BY <1>1, <1>2, <2>1
  <2>4. x <= t.borrowed[k]
    <3> HIDE DEF x
    <3> QED
      BY <2>1, <2>3 DEF p
  <2>5. ASSUME payment = debt PROVE l = p
    BY <2>3, <2>5 DEF l, LedgerPrincipalIn
  <2>6. payment = debt => x = 0
    <3> HIDE DEF x
    <3> QED
      BY <2>1, <2>3, <2>5
  <2> QED
    BY <2>2, <2>4, <2>6
<1> QED
  BY <1>7, <1>8, <1>9 DEF u, debt, Pays, OnlyDebt, SameWallets, SameOrders, SameLeverage

-----------------------------------------------------------------------------
(* leverage_vault.move: flash loans                                        *)

\* The fee of a flash loan is an amount.
LEMMA FlashFeeNat ==
    ASSUME NEW v \in VaultType, NEW amount \in Nat
    PROVE  FlashFee(v, amount) \in Nat
<1>1. v.rate.flash \in Nat
  BY ScaleAssumption DEF VaultType, RateType
<1>2. amount * v.rate.flash \in Nat
  BY <1>1, MulNat
<1> QED
  BY <1>2, DivBounds, ScaleAssumption DEF FlashFee

\* The loan comes back with its fee, and whatever else the coin holds is
\* shared out: the whole payment stays in the system.
LEMMA RepayFlashFacts ==
    ASSUME NEW t0, Sane(t0), NEW k, NEW amount, NEW fee, NEW payment,
           t0.ok => amount \in Nat /\ fee \in Nat /\ payment \in Nat
    PROVE  LET u == RepayFlash(t0, amount, fee, payment)
           IN  /\ Calm(t0, u, k, payment)
               /\ u.ok => t0.ok /\ amount + fee <= payment /\ OnlyVault(t0, u)
<1> DEFINE a    == Accrue(t0)
           t    == [a EXCEPT !.vault.balance = @ + amount]
           fed  == DistributeProtocolFee(t, fee)
           rest == payment - amount - fee
           cond == payment >= amount + fee
           w    == DistributeLiquidationSurplus(fed, rest)
           u    == RepayFlash(t0, amount, fee, payment)
<1>1. u = Require(t, cond, w)
  BY DEF RepayFlash
<1>2. Calm(t0, a, k, 0) /\ Sane(a) /\ a.ok = t0.ok /\ OnlyVault(t0, a)
  BY AccrueFacts, CalmSane
<1> HIDE DEF a
<1>3. /\ IsContext(t) /\ t.ok = a.ok /\ OnlyVault(a, t)
      /\ t.vault = [a.vault EXCEPT !.balance = @ + amount]
      /\ t.collector = a.collector /\ t.paid = a.paid
  BY <1>2 DEF Sane, IsContext, Fields, OnlyVault, SameWallets, SameOrders, SameDebts, SameLeverage
<1> HIDE DEF t, u
<1>4. ASSUME t.ok, cond
      PROVE  IsContext(w) /\ w.ok = t.ok /\ OnlyFunds(a, w, payment)
  <2>1. amount \in Nat /\ fee \in Nat /\ rest \in Nat /\ VaultTyped(a) /\ a.ok
    BY <1>2, <1>3, <1>4 DEF Sane, Books
  <2>2. OnlyFunds(a, t, amount)
    <3> DEFINE b == a.vault.balance + amount
               f == a.vault.insurance_fund
               c == a.collector
               q == a.paid
    <3>1. /\ a.vault.balance \in Nat /\ f \in Nat /\ c \in Nat /\ q \in Nat
      BY <2>1, FundParts
    <3>2. b \in Nat /\ b + f + c + q = Funds(a) + amount /\ amount \in Int
      BY <2>1, <3>1 DEF Funds
    <3>3. t.vault = WithFunds(a.vault, b, f)
      BY <1>3, <2>1 DEF VaultTyped, VaultType, WithFunds
    <3>4. OnlyVault(a, t) /\ t.collector = c /\ t.paid = q
      BY <1>3
    <3> HIDE DEF b, f, c, q
    <3> QED
      BY <2>1, <3>1, <3>2, <3>3, <3>4, FundsMoved
  <2>3. IsContext(fed) /\ fed.ok = t.ok /\ OnlyFunds(t, fed, fee)
    BY <1>3, <2>1, <2>2, DistributeFacts DEF OnlyFunds
  <2> HIDE DEF fed, rest
  <2>4. IsContext(w) /\ w.ok = fed.ok /\ OnlyFunds(fed, w, rest)
    BY <2>1, <2>3, DistributeFacts DEF OnlyFunds
  <2> HIDE DEF w
  <2>5. OnlyFunds(a, fed, amount + fee)
    BY <2>1, <2>2, <2>3, OnlyFundsTrans
  <2>6. OnlyFunds(a, w, (amount + fee) + rest)
    BY <2>1, <2>4, <2>5, OnlyFundsTrans
  <2>7. (amount + fee) + rest = payment
    BY <1>2, <1>3, <1>4, <2>1 DEF rest
  <2> QED
    BY <2>3, <2>4, <2>6, <2>7
<1> HIDE DEF cond, w
<1>5. IsContext(u) /\ (u.ok => t.ok /\ cond /\ u = w)
  BY <1>1, <1>3, <1>4, RequireFacts
<1>6. Calm(a, u, k, payment)
  <2>1. CASE t.ok
    <3>1. payment \in Int
      BY <1>2, <1>3, <2>1
    <3> QED
      BY <1>2, <1>3, <1>4, <1>5, <3>1, FundsCalm
  <2>2. CASE ~t.ok
    BY <1>5, <2>2 DEF Calm, Step, Tame, KeepsFree
  <2> QED
    BY <2>1, <2>2
<1>7. Calm(t0, u, k, payment)
  <2>1. t0.ok => 0 \in Int /\ payment \in Int /\ 0 + payment = payment
    OBVIOUS
  <2>2. Calm(t0, u, k, 0 + payment)
    BY <1>2, <1>6, <2>1, CalmTrans
  <2> QED
    BY <2>1, <2>2, CalmBy
<1>8. u.ok => t0.ok /\ amount + fee <= payment /\ OnlyVault(t0, u)
  <2>1. u.ok => OnlyVault(t0, u)
    BY <1>2, <1>4, <1>5, OnlyVaultTrans DEF OnlyFunds
  <2> QED
    BY <1>2, <1>3, <1>5, <2>1 DEF cond
<1> QED
  BY <1>7, <1>8 DEF u

-----------------------------------------------------------------------------
(* trade.move: a debt nobody pays                                          *)

\* The insurance fund and a step that only moves quote pay into no debt.
LEMMA FundsPay ==
    ASSUME NEW t, Sane(t), NEW u, NEW k \in Keys, NEW d, Step(t, u, k, d),
           u.ok => t.ok /\ OnlyVault(t, u)
    PROVE  Pays(t, u, k, d)
<1>1. t.ok => t.borrowed[k] \in Nat
  BY KeyTypes
<1> QED
  BY <1>1 DEF Pays, OnlyVault, SameWallets, SameOrders, SameDebts, SameLeverage

\* First the quote left on the key pays.
LEMMA CoverFromKeyFacts ==
    ASSUME NEW t, Sane(t), t.ok => Accrued(t), NEW k \in Keys
    PROVE  Pays(t, CoverFromKey(t, k), k, 0)
<1> DEFINE debt  == KeyDebt(t, k)
           cover == IF t.quote[k] >= debt THEN debt ELSE t.quote[k]
           w     == WithdrawFromKey(t, k, cover)
           u     == RepayKey(w, k, cover)
<1>1. CoverFromKey(t, k) = IF cover = 0 \/ t.borrowed[k] = 0 THEN t ELSE u
  BY DEF CoverFromKey
<1>2. t.ok => debt \in Nat /\ t.quote[k] \in Nat
  BY KeyTypes, KeyDebtFacts
<1> HIDE DEF debt
<1>3. t.ok => cover \in Nat /\ cover <= debt
  BY <1>2
<1> HIDE DEF cover
<1>4. /\ Step(t, w, k, 0 - cover) /\ Sane(w)
      /\ w.ok => OnlyQuote(t, w, k, t.custody[ProxyOf[k]] - cover, t.trading[ProxyOf[k]],
                           t.quote[k] - cover)
  BY <1>3, WithdrawFromKeyFacts, StepSane
<1> HIDE DEF w
<1>5. w.ok => /\ t.ok /\ Accrued(w) /\ KeyDebt(w, k) = debt
              /\ w.trading = t.trading /\ w.reserved = t.reserved
              /\ SameLeverage(t, w) /\ SameOrders(t, w) /\ SameDebts(t, w)
  <2>1. t.ok => t.trading = [t.trading EXCEPT ![ProxyOf[k]] = t.trading[ProxyOf[k]]]
    BY KeyTypes
  <2> QED
    BY <1>4, <2>1 DEF Step, OnlyQuote, SameVault, SameDebts, KeyDebt, debt
<1>6. Pays(t, w, k, 0 - cover)
  <2>1. t.ok => t.borrowed[k] \in Nat
    BY KeyTypes
  <2> QED
    BY <1>4, <1>5, <2>1 DEF Pays, SameDebts
<1>7. Pays(w, u, k, cover)
  BY <1>3, <1>4, <1>5, RepayKeyFacts
<1> HIDE DEF u
<1>8. Pays(t, u, k, 0)
  <2>1. t.ok => (0 - cover) \in Int /\ cover \in Int /\ (0 - cover) + cover = 0
    BY <1>3
  <2>2. Pays(t, u, k, (0 - cover) + cover)
    BY <1>6, <1>7, <2>1, PaysTrans
  <2> QED
    BY <2>1, <2>2, PaysBy
<1> QED
  BY <1>1, <1>8, PaysSame

\* Then the insurance fund.
LEMMA CoverFromInsuranceFacts ==
    ASSUME NEW t, Sane(t), t.ok => Accrued(t), NEW k \in Keys
    PROVE  Pays(t, CoverFromInsurance(t, k), k, 0)
<1> DEFINE debt  == KeyDebt(t, k)
           fund  == t.vault.insurance_fund
           cover == IF fund >= debt THEN debt ELSE fund
           w     == TakeInsurance(t, cover)
           u     == RepayKey(w, k, cover)
<1>1. CoverFromInsurance(t, k) = IF cover = 0 \/ t.borrowed[k] = 0 THEN t ELSE u
  BY DEF CoverFromInsurance
<1>2. t.ok => debt \in Nat /\ fund \in Nat
  BY KeyDebtFacts DEF Sane, Books, VaultTyped, VaultType
<1> HIDE DEF debt, fund
<1>3. t.ok => cover \in Nat /\ cover <= debt
  BY <1>2
<1> HIDE DEF cover
<1>4. /\ Step(t, w, k, 0 - cover) /\ Sane(w)
      /\ w.ok => t.ok /\ OnlyFunds(t, w, 0 - cover)
  BY <1>3, TakeInsuranceFacts, StepSane DEF Calm
<1> HIDE DEF w
<1>5. w.ok => Accrued(w) /\ KeyDebt(w, k) = debt
  BY <1>4 DEF Step, OnlyFunds, OnlyVault, SameDebts, KeyDebt, VaultDebtOf, debt
<1>6. Pays(t, w, k, 0 - cover)
  BY <1>4, FundsPay DEF OnlyFunds
<1>7. Pays(w, u, k, cover)
  BY <1>3, <1>4, <1>5, RepayKeyFacts
<1> HIDE DEF u
<1>8. Pays(t, u, k, 0)
  <2>1. t.ok => (0 - cover) \in Int /\ cover \in Int /\ (0 - cover) + cover = 0
    BY <1>3
  <2>2. Pays(t, u, k, (0 - cover) + cover)
    BY <1>6, <1>7, <2>1, PaysTrans
  <2> QED
    BY <2>1, <2>2, PaysBy
<1> QED
  BY <1>1, <1>8, PaysSame

\* The LPs lose the rest: the vault gives up exactly the principal the ledger
\* gives up, and the key owes nothing.
LEMMA SocializeRestFacts ==
    ASSUME NEW t, Sane(t), t.ok => Accrued(t), NEW k \in Keys
    PROVE  LET u == SocializeRest(t, k)
           IN  Pays(t, u, k, 0) /\ (u.ok => u.borrowed[k] = 0)
<1> DEFINE p    == t.borrowed[k]
           debt == KeyDebt(t, k)
           v    == VaultPrincipalIn(p, debt, VaultDebtOf(t.vault, p))
           r    == WriteOffDebtForLedger(t, p, debt)
           x    == r.borrowed[k] - p
           y    == r.debtTotal[ProxyOf[k]] - p
           w    == [r EXCEPT !.borrowed[k] = @ - p, !.debtTotal[ProxyOf[k]] = @ - p]
           cond == p <= r.borrowed[k] /\ p <= r.debtTotal[ProxyOf[k]]
           u    == RecordRepay(r, k, p)
<1>1. SocializeRest(t, k) = IF p = 0 THEN t ELSE u
  BY DEF SocializeRest
<1>2. CASE p = 0
  BY <1>1, <1>2, PaysSame
<1>3. CASE p # 0
  <2>1. t.ok => /\ p \in Nat /\ debt \in Nat /\ p <= debt /\ debt = VaultDebtOf(t.vault, p)
                /\ p <= t.vault.total_principal_borrowed
    BY KeyDebtFacts DEF KeyDebt
  <2>2. r = IF debt = 0 THEN t ELSE ApplyRepayment(t, debt, v)
    BY <1>3 DEF WriteOffDebtForLedger
  <2>3. t.ok => debt # 0 /\ v = p
    <3>1. t.ok => debt # 0
      <4> HIDE DEF p, debt
      <4> QED
        BY <1>3, <2>1
    <3> HIDE DEF debt
    <3> QED
      BY <1>3, <2>1, <3>1 DEF VaultPrincipalIn
  <2>4. u = Require(r, cond, w)
    BY DEF RecordRepay
  <2> HIDE DEF p, debt, v, u
  <2>5. /\ IsContext(r)
        /\ r.ok => /\ t.ok /\ OnlyVault(t, r) /\ VaultTyped(r) /\ Funds(r) = Funds(t)
                   /\ r.vault.last_accrue_ms = t.vault.last_accrue_ms
                   /\ debt <= t.vault.total_borrowed
                   /\ r.vault.total_borrowed = t.vault.total_borrowed - debt
                   /\ r.vault.total_principal_borrowed = t.vault.total_principal_borrowed - p
    <3>1. CASE debt = 0
      BY <2>2, <2>3, <3>1 DEF Sane
    <3>2. CASE debt # 0
      <4> DEFINE z == ApplyRepayment(t, debt, v)
      <4>1. r = z
        BY <2>2, <3>2
      <4>2. /\ IsContext(z)
            /\ z.ok => /\ t.ok /\ OnlyVault(t, z) /\ VaultTyped(z) /\ Funds(z) = Funds(t)
                       /\ z.vault.last_accrue_ms = t.vault.last_accrue_ms
                       /\ debt <= t.vault.total_borrowed
                       /\ z.vault.total_borrowed = t.vault.total_borrowed - debt
                       /\ z.vault.total_principal_borrowed
                            = t.vault.total_principal_borrowed - v
        BY <2>1, <2>3, ApplyRepaymentFacts DEF Sane, Books
      <4> HIDE DEF z
      <4> QED
        BY <2>3, <4>1, <4>2
    <3> QED
      BY <3>1, <3>2
  <2> HIDE DEF r
  <2>6. IsContext(w) /\ w.ok = r.ok /\ OnlyDebt(r, w, k, x, y) /\ SameVault(r, w)
    BY <2>5 DEF IsContext, Fields, OnlyDebt, SameVault, SameWallets, SameOrders, SameLeverage
  <2> HIDE DEF w
  <2>7. IsContext(u) /\ (u.ok => r.ok /\ cond /\ u = w)
    <3> HIDE DEF cond
    <3> QED
      BY <2>4, <2>5, <2>6, RequireFacts
  <2>8. ASSUME u.ok
        PROVE  /\ t.ok /\ OnlyDebt(t, u, k, x, y) /\ x = 0 /\ y \in Nat
               /\ VaultTyped(u) /\ Covered(u.vault)
               /\ x - t.borrowed[k] = y - t.debtTotal[ProxyOf[k]]
               /\ Sum(t.borrowed, Keys) - t.borrowed[k] + x <= u.vault.total_principal_borrowed
               /\ Accrued(t) => Accrued(u)
               /\ Funds(u) = Funds(t) /\ Funds(t) \in Nat
    <3>1. /\ t.ok /\ Books(t) /\ p \in Nat /\ debt \in Nat /\ p = t.borrowed[k]
          /\ t.debtTotal[ProxyOf[k]] \in Nat /\ p <= t.vault.total_principal_borrowed
      BY <2>1, <2>5, <2>7, <2>8, KeyTypes DEF Sane, p
    <3>2. u = w /\ cond /\ u.vault = r.vault /\ u.collector = r.collector /\ u.paid = r.paid
          /\ u.now = r.now /\ r.ok
      BY <2>6, <2>7, <2>8 DEF SameVault, OnlyDebt
    <3>3. r.borrowed = t.borrowed /\ r.debtTotal = t.debtTotal /\ r.now = t.now
      BY <2>5, <3>2 DEF OnlyVault, SameDebts
    <3>4. OnlyDebt(t, u, k, x, y)
      BY <2>5, <2>6, <3>2, <3>3 DEF OnlyDebt, OnlyVault, SameWallets, SameOrders, SameLeverage
    <3>5. x = 0 /\ y \in Nat /\ x - t.borrowed[k] = y - t.debtTotal[ProxyOf[k]]
      BY <3>1, <3>2, <3>3
    <3>6. VaultTyped(u) /\ Funds(u) = Funds(t) /\ (Accrued(t) => Accrued(u))
      BY <2>5, <3>2, <3>3 DEF VaultTyped, Funds, Accrued
    <3>7. Covered(u.vault)
      <4> DEFINE D == t.vault.total_borrowed
                 P == t.vault.total_principal_borrowed
      <4>1. D \in Nat /\ P \in Nat /\ p <= P /\ P <= D /\ (P = 0 => D = 0)
        BY <3>1 DEF Books, Covered, VaultTyped, VaultType
      <4>2. /\ u.vault.total_borrowed = D - debt
            /\ u.vault.total_principal_borrowed = P - p
        BY <2>5, <3>2
      <4>3. debt = DebtWithInterest(p, D, P)
        BY <2>1, <3>1 DEF VaultDebtOf
      <4> HIDE DEF D, P
      <4>4. p = VaultPrincipalIn(p, debt, DebtWithInterest(p, D, P))
        BY <1>3, <2>3, <3>1, <4>3 DEF v, VaultPrincipalIn
      <4>5. debt <= DebtWithInterest(p, D, P)
        BY <3>1, <4>3
      <4>6. debt - p <= D - P /\ (P - p = 0 => D - debt = 0)
        <5> DEFINE s == VaultPrincipalIn(p, debt, DebtWithInterest(p, D, P))
        <5>1. debt - s <= D - P /\ (P - s = 0 => D - debt = 0)
          BY <3>1, <4>1, <4>5, VaultSplitKeepsCover
        <5> HIDE DEF s
        <5>2. s = p
          BY <4>4 DEF s
        <5> QED
          BY <5>1, <5>2
      <4> QED
        BY <3>1, <4>1, <4>2, <4>6 DEF Covered
    <3>8. Sum(t.borrowed, Keys) - t.borrowed[k] + x <= u.vault.total_principal_borrowed
      <4>1. Sum(t.borrowed, Keys) <= t.vault.total_principal_borrowed
        BY <3>1 DEF Books, Backed
      <4>2. Sum(t.borrowed, Keys) \in Nat /\ t.vault.total_principal_borrowed \in Nat
        BY <3>1, SumNat, KeyFacts DEF Books, DebtsTyped, VaultTyped, VaultType, Sum
      <4>3. u.vault.total_principal_borrowed = t.vault.total_principal_borrowed - p
        BY <2>5, <3>2
      <4> HIDE DEF x
      <4> QED
        BY <3>1, <3>5, <4>1, <4>2, <4>3
    <3>9. Funds(t) \in Nat
      BY <3>1, FundsNat DEF Books
    <3> QED
      BY <3>1, <3>4, <3>5, <3>6, <3>7, <3>8, <3>9
  <2> HIDE DEF x, y
  <2>9. Step(t, u, k, 0)
    <3>1. u.ok => x \in Nat
      BY <2>8
    <3>2. Step(t, u, k, Funds(u) - Funds(t))
      BY <2>7, <2>8, <3>1, DebtStep
    <3>3. u.ok => Funds(u) - Funds(t) = 0
      BY <2>8
    <3> QED
      BY <3>2, <3>3 DEF Step
  <2>10. u.ok => u.borrowed[k] = 0 /\ t.borrowed[k] \in Nat
    BY <2>8, KeyTypes DEF Sane, Books, DebtsTyped, OnlyDebt
  <2>11. Pays(t, u, k, 0)
    BY <2>8, <2>9, <2>10 DEF Pays, OnlyDebt, SameWallets, SameOrders, SameLeverage
  <2> QED
    BY <1>1, <1>3, <2>10, <2>11 DEF p, u
<1> QED
  BY <1>2, <1>3

\* The three together: the key owes nothing any more.
LEMMA WriteOffResidualFacts ==
    ASSUME NEW t, Sane(t), NEW k \in Keys
    PROVE  LET u == WriteOffResidual(t, k)
           IN  Pays(t, u, k, 0) /\ (u.ok => u.borrowed[k] = 0)
<1> DEFINE a == Accrue(t)
           b == CoverFromKey(a, k)
           c == CoverFromInsurance(b, k)
           u == SocializeRest(c, k)
<1>1. WriteOffResidual(t, k) = IF t.borrowed[k] = 0 THEN t ELSE u
  BY DEF WriteOffResidual
<1>2. /\ Step(t, a, k, 0) /\ Sane(a) /\ a.ok = t.ok /\ OnlyVault(t, a)
      /\ a.ok => Accrued(a)
  BY AccrueFacts, CalmSane DEF Calm
<1>3. Pays(t, a, k, 0)
  BY <1>2, FundsPay
<1> HIDE DEF a
<1>4. Pays(a, b, k, 0) /\ Sane(b) /\ (b.ok => Accrued(b))
  <2>1. Pays(a, b, k, 0)
    BY <1>2, CoverFromKeyFacts
  <2> QED
    BY <1>2, <2>1, StepSane DEF Pays, Step
<1> HIDE DEF b
<1>5. Pays(b, c, k, 0) /\ Sane(c) /\ (c.ok => Accrued(c))
  <2>1. Pays(b, c, k, 0)
    BY <1>4, CoverFromInsuranceFacts
  <2> QED
    BY <1>4, <2>1, StepSane DEF Pays, Step
<1> HIDE DEF c
<1>6. Pays(c, u, k, 0) /\ (u.ok => u.borrowed[k] = 0)
  BY <1>5, SocializeRestFacts
<1> HIDE DEF u
<1>7. Pays(t, b, k, 0 + 0)
  BY <1>3, <1>4, PaysTrans
<1>8. Pays(t, c, k, (0 + 0) + 0)
  BY <1>5, <1>7, PaysTrans
<1>9. Pays(t, u, k, ((0 + 0) + 0) + 0)
  BY <1>6, <1>8, PaysTrans
<1>10. Pays(t, u, k, 0)
  BY <1>9
<1> QED
  BY <1>1, <1>6, <1>10, PaysSame

\* A payment that ends the debt, or ends with the posted margin gone, is calm.
LEMMA PaysCalm ==
    ASSUME NEW t, Sane(t), NEW u, NEW w, NEW k \in Keys, NEW d, NEW e,
           t.ok => d \in Int /\ e \in Int,
           Pays(t, u, k, d), Calm(u, w, k, e),
           w.ok => /\ MarginBacked(w, k)
                   /\ w.borrowed[k] > 0 => t.quote[k] <= w.quote[k]
    PROVE  Calm(t, w, k, d + e)
<1>1. Step(t, w, k, d + e)
  BY StepTrans DEF Pays, Calm
<1>2. KeepsFree(t, w)
  BY FreeTrans, FreeSame DEF Pays, Calm
<1>3. Tame(t, w, k)
  <2>1. Sane(u) /\ Sane(w) /\ (w.ok => u.ok /\ t.ok)
    BY StepSane DEF Pays, Calm, Step
  <2>2. w.ok => t.borrowed[k] \in Nat /\ u.borrowed[k] \in Nat /\ w.borrowed[k] \in Nat
    BY <2>1, KeyTypes
  <2>3. w.ok => u.borrowed[k] <= t.borrowed[k] /\ w.borrowed[k] <= u.borrowed[k]
    BY <2>1 DEF Pays, Calm, Tame
  <2> QED
    BY <2>2, <2>3 DEF Tame
<1> QED
  BY <1>1, <1>2, <1>3 DEF Calm

\* A write-off leaves the key without debt and without posted margin.
LEMMA WriteOffKeyFacts ==
    ASSUME NEW t, Sane(t), NEW k \in Keys
    PROVE  LET u == WriteOffKey(t, k)
           IN  Calm(t, u, k, 0) /\ (u.ok => u.borrowed[k] = 0 /\ u.margin[k] = 0)
<1> DEFINE r == WriteOffResidual(t, k)
           u == ClearMarginDebt(r, k)
<1>1. WriteOffKey(t, k) = u
  BY DEF WriteOffKey
<1>2. Pays(t, r, k, 0) /\ Sane(r) /\ (r.ok => r.borrowed[k] = 0)
  BY WriteOffResidualFacts, StepSane DEF Pays
<1> HIDE DEF r
<1>3. /\ Calm(r, u, k, 0) /\ u.ok = r.ok
      /\ u.ok => OnlyLeverage(r, u, k, 0, r.leverage[k])
  BY <1>2, ClearMarginFacts
<1> HIDE DEF u
<1>4. u.ok => u.borrowed[k] = 0 /\ u.margin[k] = 0
  BY <1>2, <1>3 DEF OnlyLeverage, SameDebts, Sane, Books, DebtsTyped
<1>5. Calm(t, u, k, 0 + 0)
  <2>1. u.ok => MarginBacked(u, k) /\ (u.borrowed[k] > 0 => t.quote[k] <= u.quote[k])
    BY <1>4 DEF MarginBacked
  <2> QED
    BY <1>2, <1>3, <2>1, PaysCalm
<1>6. Calm(t, u, k, 0)
  BY <1>5
<1> QED
  BY <1>1, <1>4, <1>6

-----------------------------------------------------------------------------
(* trade.move: repaying from a payout                                      *)

\* A key that owes nothing goes back to 1x and gives its quote back.
LEMMA FinalizeFacts ==
    ASSUME NEW t, Sane(t), NEW k \in Keys
    PROVE  Calm(t, Finalize(t, k), k, 0)
<1> DEFINE r == ResetToUnleveraged(t, k)
           c == ClearMarginDebt(r, k)
           u == SweepFreeQuote(c, k)
<1>1. Finalize(t, k) = IF t.borrowed[k] > 0 THEN t ELSE u
  BY DEF Finalize
<1>2. Calm(t, r, k, 0) /\ Sane(r)
  BY ResetFacts, CalmSane
<1> HIDE DEF r
<1>3. Calm(r, c, k, 0) /\ Sane(c)
  BY <1>2, ClearMarginFacts, CalmSane
<1> HIDE DEF c
<1>4. Calm(c, u, k, 0)
  BY <1>3, SweepFreeQuoteFacts
<1> HIDE DEF u
<1>5. Calm(t, c, k, 0 + 0)
  BY <1>2, <1>3, CalmTrans
<1>6. Calm(t, u, k, (0 + 0) + 0)
  BY <1>4, <1>5, CalmTrans
<1>7. Calm(t, u, k, 0)
  BY <1>6
<1> QED
  BY <1>1, <1>7, CalmSame

\* A repayment that leverage follows.
LEMMA RepayAndSyncFacts ==
    ASSUME NEW t, Sane(t), t.ok => Accrued(t), NEW k \in Keys, NEW payment,
           t.ok => payment \in Nat /\ payment <= KeyDebt(t, k)
    PROVE  LET u == SyncLeverage(RepayKey(t, k, payment), k)
           IN  Calm(t, u, k, payment) /\ (u.ok => MarginBacked(u, k))
<1> DEFINE r == RepayKey(t, k, payment)
           u == SyncLeverage(r, k)
<1>1. Pays(t, r, k, payment) /\ Sane(r) /\ (r.ok => r.quote = t.quote)
  BY RepayKeyFacts, StepSane DEF Pays
<1> HIDE DEF r
<1>2. Calm(r, u, k, 0) /\ (u.ok => u.quote = r.quote /\ MarginBacked(u, k))
  BY <1>1, SyncLeverageFacts
<1> HIDE DEF u
<1>3. u.ok => r.ok /\ t.ok /\ t.quote[k] \in Nat
  BY <1>1, <1>2, KeyTypes DEF Pays, Calm, Step
<1>4. t.ok => payment \in Int /\ 0 \in Int /\ payment + 0 = payment
  OBVIOUS
<1>5. Calm(t, u, k, payment + 0)
  <2>1. u.ok => /\ MarginBacked(u, k)
                /\ u.borrowed[k] > 0 => t.quote[k] <= u.quote[k]
    BY <1>1, <1>2, <1>3
  <2> QED
    BY <1>1, <1>2, <1>4, <2>1, PaysCalm
<1>6. Calm(t, u, k, payment)
  BY <1>4, <1>5, CalmBy
<1> QED
  BY <1>2, <1>6 DEF u, r

\* A payout pays the debt of its key and the surplus goes to the trader.
LEMMA ApplyPayoutFacts ==
    ASSUME NEW t, Sane(t), t.ok => Accrued(t), NEW k \in Keys, NEW payout \in Nat, NEW hold
    PROVE  Calm(t, ApplyPayout(t, k, payout, hold), k, 0)
<1> DEFINE debt  == KeyDebt(t, k)
           repay == IF payout >= debt THEN debt ELSE payout
           taken == TakeFromManager(t, k, payout)
           owes  == repay > 0 /\ t.borrowed[k] > 0
           synced == SyncLeverage(RepayKey(taken, k, repay), k)
           paid  == IF owes THEN synced ELSE taken
           rest  == payout - repay
           u     == IF hold THEN CreditKey(paid, k, rest)
                    ELSE CreditTrading(paid, ProxyOf[k], rest)
<1>1. ApplyPayout(t, k, payout, hold) = u
  BY DEF ApplyPayout
<1>2. t.ok => debt \in Nat /\ t.borrowed[k] \in Nat /\ (t.borrowed[k] = 0 => debt = 0)
  BY KeyDebtFacts
<1> HIDE DEF debt
<1>3. t.ok => /\ repay \in Nat /\ repay <= debt /\ rest \in Nat /\ repay + rest = payout
              /\ ~owes => repay = 0
  BY <1>2
<1> HIDE DEF repay, owes, rest
<1>4. /\ Calm(t, taken, k, 0 - payout) /\ Sane(taken)
      /\ taken.ok => /\ t.ok /\ KeyDebt(taken, k) = debt /\ Accrued(taken)
  <2>1. /\ Calm(t, taken, k, 0 - payout)
        /\ taken.ok => /\ t.ok
                       /\ OnlyWorld(t, taken, k, t.purse, t.manager[ProxyOf[k]] - payout,
                                    t.contracts[k])
    BY TakeFromManagerFacts
  <2> QED
    BY <2>1, CalmSane DEF OnlyWorld, SameVault, SameDebts, KeyDebt, debt, Accrued
<1> HIDE DEF taken
<1>5. Calm(taken, paid, k, repay) /\ Sane(paid)
  <2>1. CASE owes
    <3>1. Calm(taken, synced, k, repay)
      BY <1>3, <1>4, RepayAndSyncFacts
    <3> QED
      BY <2>1, <3>1, CalmSane
  <2>2. CASE ~owes
    <3>1. Calm(taken, taken, k, 0)
      BY <1>4, CalmSame
    <3>2. taken.ok => 0 = repay
      BY <1>3, <1>4, <2>2
    <3>3. Calm(taken, taken, k, repay)
      BY <3>1, <3>2, CalmBy
    <3> QED
      BY <1>4, <2>2, <3>3
  <2> QED
    BY <2>1, <2>2
<1> HIDE DEF paid
<1>6. (paid.ok => t.ok) /\ (paid.ok => rest \in Nat)
  BY <1>3, <1>4, <1>5 DEF Calm, Step
<1>7. Calm(paid, u, k, rest)
  BY <1>5, <1>6, KeyFacts, CreditKeyFacts, CreditTradingFacts
<1> HIDE DEF u
<1>8. t.ok => /\ (0 - payout) \in Int /\ repay \in Int /\ rest \in Int
              /\ (0 - payout) + repay \in Int /\ ((0 - payout) + repay) + rest = 0
  BY <1>3
<1>9. Calm(t, paid, k, (0 - payout) + repay)
  BY <1>4, <1>5, <1>8, CalmTrans
<1>10. Calm(t, u, k, ((0 - payout) + repay) + rest)
  BY <1>7, <1>8, <1>9, CalmTrans
<1> QED
  BY <1>1, <1>8, <1>10, CalmBy

\* The whole repayment: interest first, then the payout, the write-off of a
\* settled key and the clean-up of one that owes nothing.
LEMMA RepayFromPayoutFacts ==
    ASSUME NEW t, Sane(t), NEW k \in Keys, NEW payout \in Nat, NEW settled, NEW hold
    PROVE  Calm(t, RepayFromPayout(t, k, payout, settled, hold), k, 0)
<1> DEFINE a == Accrue(t)
           b == IF payout = 0 THEN a ELSE ApplyPayout(a, k, payout, hold)
           c == IF settled THEN WriteOffKey(b, k) ELSE b
           d == ClearTriggersIfFlat(c, k)
           e == Finalize(d, k)
           u == IF hold THEN c ELSE e
<1>1. RepayFromPayout(t, k, payout, settled, hold) = u
  BY DEF RepayFromPayout
<1>2. Calm(t, a, k, 0) /\ Sane(a) /\ (a.ok => Accrued(a))
  BY AccrueFacts, CalmSane
<1> HIDE DEF a
<1>3. Calm(a, b, k, 0) /\ Sane(b)
  BY <1>2, ApplyPayoutFacts, CalmSame, CalmSane
<1> HIDE DEF b
<1>4. Calm(b, c, k, 0) /\ Sane(c)
  BY <1>3, WriteOffKeyFacts, CalmSame, CalmSane
<1> HIDE DEF c
<1>5. Calm(c, d, k, 0) /\ Sane(d)
  BY <1>4, TriggerFacts, CalmSane
<1> HIDE DEF d
<1>6. Calm(d, e, k, 0)
  BY <1>5, FinalizeFacts
<1> HIDE DEF e
<1>7. Calm(t, b, k, 0 + 0)
  BY <1>2, <1>3, CalmTrans
<1>8. Calm(t, c, k, (0 + 0) + 0)
  BY <1>4, <1>7, CalmTrans
<1>9. Calm(t, d, k, ((0 + 0) + 0) + 0)
  BY <1>5, <1>8, CalmTrans
<1>10. Calm(t, e, k, (((0 + 0) + 0) + 0) + 0)
  BY <1>6, <1>9, CalmTrans
<1>11. Calm(t, c, k, 0) /\ Calm(t, e, k, 0)
  BY <1>8, <1>10
<1> QED
  BY <1>1, <1>11

\* A redeem with the repayment from its payout.
LEMMA RedeemAndRepayFacts ==
    ASSUME NEW t, Sane(t), NEW k \in Keys, NEW qty \in Nat, NEW payout \in Nat,
           NEW settled, NEW hold
    PROVE  Calm(t, RepayFromPayout(RedeemContracts(t, k, qty, payout), k, payout, settled, hold),
                k, 0)
<1> DEFINE r == RedeemContracts(t, k, qty, payout)
           u == RepayFromPayout(r, k, payout, settled, hold)
<1>1. Calm(t, r, k, 0) /\ Sane(r)
  BY RedeemFacts, CalmSane
<1> HIDE DEF r
<1>2. Calm(r, u, k, 0)
  BY <1>1, RepayFromPayoutFacts
<1> HIDE DEF u
<1>3. Calm(t, u, k, 0 + 0)
  BY <1>1, <1>2, CalmTrans
<1>4. Calm(t, u, k, 0)
  BY <1>3
<1> QED
  BY <1>4 DEF u, r

\* A payment by hand, already taken from its source.
LEMMA RepayByHandFacts ==
    ASSUME NEW t, Sane(t), t.ok => Accrued(t), NEW k \in Keys, NEW amount \in Nat
    PROVE  LET u == RepayByHand(t, k, amount)
           IN  /\ Step(t, u, k, amount)
               /\ u.ok => /\ MarginBacked(u, k) /\ u.borrowed[k] <= t.borrowed[k]
                          /\ t.quote[k] <= u.quote[k]
<1> DEFINE debt  == KeyDebt(t, k)
           repay == IF amount > debt THEN debt ELSE amount
           free  == t.borrowed[k] = 0
           payed == RepayKey(t, k, repay)
           paid  == IF free THEN t ELSE payed
           rest  == amount - repay
           c     == CreditTrading(paid, ProxyOf[k], rest)
           s     == SyncLeverage(c, k)
           cond  == amount > 0
           u     == RepayByHand(t, k, amount)
<1>1. u = Require(s, cond, s)
  BY DEF RepayByHand
<1>2. t.ok => debt \in Nat /\ t.borrowed[k] \in Nat /\ (free => debt = 0)
  BY KeyDebtFacts
<1> HIDE DEF debt
<1>3. t.ok => /\ repay \in Nat /\ repay <= debt /\ rest \in Nat /\ repay + rest = amount
              /\ free => repay = 0
  <2> HIDE DEF free
  <2> QED
    BY <1>2
<1> HIDE DEF repay, rest
<1>4. Pays(t, paid, k, repay) /\ Sane(paid) /\ (paid.ok => paid.quote = t.quote)
  <2>1. CASE free
    <3>1. Pays(t, t, k, 0) /\ (t.ok => 0 = repay)
      BY <1>3, <2>1, PaysSame
    <3>2. Pays(t, t, k, repay)
      BY <3>1, PaysBy
    <3> QED
      BY <2>1, <3>2
  <2>2. CASE ~free
    <3>1. Pays(t, payed, k, repay) /\ (payed.ok => payed.quote = t.quote)
      BY <1>3, RepayKeyFacts DEF debt
    <3> QED
      BY <2>2, <3>1, StepSane DEF Pays
  <2> QED
    BY <2>1, <2>2
<1> HIDE DEF paid
<1>5. (paid.ok => t.ok) /\ (paid.ok => rest \in Nat)
  BY <1>3, <1>4 DEF Pays, Step
<1>6. /\ Step(paid, c, k, rest) /\ Sane(c) /\ c.ok = paid.ok
      /\ c.quote = paid.quote /\ c.borrowed = paid.borrowed
  <2> DEFINE a == ProxyOf[k]
             cu == paid.custody[a] + rest
             x == paid.trading[a] + rest
  <2>1. Calm(paid, c, k, rest) /\ c.ok = paid.ok /\ OnlyTrading(paid, c, a, cu, x)
    BY <1>4, <1>5, KeyFacts, CreditTradingFacts
  <2> HIDE DEF c, a, cu, x
  <2> QED
    BY <2>1, CalmSane DEF Calm, OnlyTrading, SameDebts
<1> HIDE DEF c
<1>7. /\ Step(c, s, k, 0)
      /\ s.ok => s.quote = c.quote /\ s.borrowed = c.borrowed /\ MarginBacked(s, k)
  BY <1>6, SyncLeverageFacts DEF Calm, SameDebts
<1> HIDE DEF s
<1>8. Step(t, s, k, amount)
  <2>1. t.ok => /\ repay \in Int /\ rest \in Int /\ repay + rest \in Int /\ 0 \in Int
                /\ (repay + rest) + 0 = amount
    BY <1>3
  <2>2. Step(t, c, k, repay + rest)
    BY <1>4, <1>6, <2>1, StepTrans DEF Pays
  <2>3. Step(t, s, k, (repay + rest) + 0)
    BY <1>7, <2>1, <2>2, StepTrans
  <2> QED
    BY <2>1, <2>3 DEF Step
<1> HIDE DEF cond, u
<1>9. IsContext(u) /\ (u.ok => s.ok /\ u = s)
  BY <1>1, <1>8, RequireFacts DEF Step
<1>10. Step(t, u, k, amount)
  BY <1>8, <1>9 DEF Step
<1>11. u.ok => /\ MarginBacked(u, k) /\ u.borrowed[k] <= t.borrowed[k]
               /\ t.quote[k] <= u.quote[k]
  <2>1. u.ok => t.ok /\ s.ok /\ c.ok /\ paid.ok /\ t.quote[k] \in Nat
    BY <1>6, <1>7, <1>8, <1>9, KeyTypes DEF Step
  <2> QED
    BY <1>4, <1>6, <1>7, <1>9, <2>1 DEF Pays
<1> QED
  BY <1>10, <1>11 DEF u

-----------------------------------------------------------------------------
(* trade.move: minting                                                     *)

\* What a mint borrows: nothing at 1x, and something at every leverage above
\* it, however small the margin that the bounds allow.
LEMMA MintBorrow ==
    ASSUME NEW margin \in Nat, NEW lev \in Leverages \cup {Bps}, LeverageInBounds(lev),
           MinMargin <= margin
    PROVE  /\ PositionFromMargin(margin, lev) - margin \in Nat
           /\ ~IsLeveraged(lev) => PositionFromMargin(margin, lev) - margin = 0
           /\ IsLeveraged(lev) => PositionFromMargin(margin, lev) - margin > 0
<1>1. /\ lev \in Nat /\ Bps \in Nat \ {0} /\ Bps <= lev /\ MinMargin \in Nat
      /\ PositionFromMargin(margin, lev) = (margin * lev) \div Bps
  BY TradeAssumption, ScaleAssumption DEF LeverageInBounds, PositionFromMargin, MulBps
<1>2. CASE ~IsLeveraged(lev)
  <2>1. lev = Bps
    BY <1>1, <1>2 DEF IsLeveraged
  <2>2. margin * Bps \in Nat
    BY <1>1, MulNat
  <2>3. (margin * Bps) \div Bps = margin
    <3> DEFINE q == (margin * Bps) \div Bps
    <3>1. q \in Nat /\ Bps * q <= margin * Bps /\ margin * Bps < Bps * (q + 1)
      BY <1>1, <2>2, DivBounds
    <3> HIDE DEF q
    <3>2. Bps * q <= Bps * margin /\ Bps * margin < Bps * (q + 1)
      BY <1>1, <3>1
    <3>3. q <= margin /\ margin < q + 1
      BY <1>1, <3>1, <3>2, CancelMul
    <3> QED
      BY <3>1, <3>3 DEF q
  <2> QED
    BY <1>1, <1>2, <2>1, <2>3
<1>3. CASE IsLeveraged(lev)
  <2>1. lev # Bps /\ lev \in Leverages
    BY <1>1, <1>3 DEF IsLeveraged
  <2>2. (MinMargin * lev) \div Bps > MinMargin
    BY <1>3, <2>1, MarginAssumption DEF PositionFromMargin, MulBps
  <2>3. MinMargin * lev \in Nat /\ margin * lev \in Nat
    BY <1>1, MulNat
  <2>4. Bps * (MinMargin + 1) <= MinMargin * lev
    <3> DEFINE q == (MinMargin * lev) \div Bps
    <3>1. q \in Nat /\ Bps * q <= MinMargin * lev
      BY <1>1, <2>3, DivBounds
    <3>2. MinMargin + 1 <= q
      BY <1>1, <2>2, <3>1
    <3> HIDE DEF q
    <3>3. Bps * (MinMargin + 1) <= Bps * q
      BY <1>1, <3>1, <3>2, MulMono
    <3> QED
      BY <1>1, <2>3, <3>1, <3>3
  <2>5. Bps * (margin + 1) <= margin * lev
    <3> DEFINE more == margin - MinMargin
    <3>1. more \in Nat /\ margin = MinMargin + more
      BY <1>1
    <3> HIDE DEF more
    <3>2. more * Bps <= more * lev
      BY <1>1, <3>1, MulMono
    <3>3. margin * lev = MinMargin * lev + more * lev
      BY <1>1, <3>1
    <3>4. Bps * (margin + 1) = Bps * (MinMargin + 1) + more * Bps
      BY <1>1, <3>1
    <3>5. more * Bps \in Nat /\ more * lev \in Nat /\ Bps * (MinMargin + 1) \in Nat
      BY <1>1, <3>1, MulNat
    <3> QED
      BY <2>3, <2>4, <3>2, <3>3, <3>4, <3>5
  <2>6. (margin * lev) \div Bps \in Nat /\ margin + 1 <= (margin * lev) \div Bps
    <3>1. (margin * lev) \div Bps \in Nat
      BY <1>1, <2>3, DivBounds
    <3> QED
      BY <1>1, <2>3, <2>5, <3>1, DivGreatest
  <2> DEFINE q == (margin * lev) \div Bps
  <2> HIDE DEF q
  <2>7. q - margin \in Nat /\ q - margin > 0
    BY <2>6 DEF q
  <2> QED
    BY <1>1, <1>3, <2>7 DEF q
<1> QED
  BY <1>2, <1>3

\* The bounds of a mint are asserted before anything moves.
LEMMA PlanFacts ==
    ASSUME NEW t, Sane(t), NEW k, NEW margin, NEW lev
    PROVE  LET u == PlanLeverage(t, k, margin, lev)
           IN  /\ Step(t, u, k, 0)
               /\ u.ok => /\ t.ok /\ u = t /\ MinMargin <= margin /\ LeverageInBounds(lev)
                          /\ InMintWindow(t, k, lev)
<1> DEFINE cond == /\ ~registry.paused
                   /\ MinMargin <= margin /\ margin <= MaxMargin
                   /\ LeverageInBounds(lev)
                   /\ InMintWindow(t, k, lev)
                   /\ margin <= t.trading[ProxyOf[k]]
           u == PlanLeverage(t, k, margin, lev)
<1>1. u = Require(t, cond, t)
  BY DEF PlanLeverage
<1>2. cond => MinMargin <= margin /\ LeverageInBounds(lev) /\ InMintWindow(t, k, lev)
  OBVIOUS
<1> HIDE DEF u, cond
<1>3. Step(t, u, k, 0)
  BY <1>1, StepSame, StepRequire DEF Sane
<1>4. u.ok => t.ok /\ cond /\ u = t
  BY <1>1, RequireFacts DEF Sane
<1> QED
  BY <1>2, <1>3, <1>4 DEF u

\* A loan to an aborted transaction.
LEMMA ExecuteBorrowAborts ==
    ASSUME NEW t, IsContext(t), ~t.ok, NEW k, NEW amount
    PROVE  IsContext(ExecuteBorrow(t, k, amount)) /\ ~ExecuteBorrow(t, k, amount).ok
<1> DEFINE a == Accrue(t)
           b == Borrow(t, amount)
           c == CreditKey(b, k, amount)
<1>1. IsContext(a) /\ ~a.ok
  BY DEF Accrue, IsContext, Fields
<1>2. b = [a EXCEPT !.ok = FALSE]
  <2> HIDE DEF a
  <2> QED
    BY <1>1 DEF Borrow, Require, a
<1>3. IsContext(b) /\ ~b.ok
  <2> HIDE DEF a, b
  <2> QED
    BY <1>1, <1>2, AbortFacts
<1> HIDE DEF b
<1>4. IsContext(c) /\ ~c.ok
  BY <1>3 DEF CreditKey, IsContext, Fields
<1> HIDE DEF c
<1>5. IsContext(RecordBorrow(c, k, amount)) /\ ~RecordBorrow(c, k, amount).ok
  BY <1>4 DEF RecordBorrow, IsContext, Fields
<1> QED
  BY <1>5 DEF ExecuteBorrow, b, c

\* Debts, trading accounts, orders and contracts are the same.
SameHoldings(t, u) ==
    /\ u.borrowed = t.borrowed /\ u.debtTotal = t.debtTotal
    /\ u.trading = t.trading /\ u.reserved = t.reserved
    /\ u.order = t.order /\ u.contracts = t.contracts

\* What a mint does to its key.
Minted(t, u, k, margin, lev, qty, cost) ==
    /\ t.ok /\ 0 < cost /\ MinMargin <= margin /\ LeverageInBounds(lev) /\ InMintWindow(t, k, lev)
    /\ MarginBacked(u, k)
    /\ u.contracts[k] = t.contracts[k] + qty
    /\ ~IsLeveraged(lev) => u.borrowed = t.borrowed
    /\ u.trading = [t.trading EXCEPT ![ProxyOf[k]] = t.trading[ProxyOf[k]] - margin]
    /\ u.reserved = t.reserved /\ u.order = t.order

\* A mint keeps the books: what is borrowed and the margin arrive on the key,
\* and what they buy leaves it.  A key that posts margin also owes.
LEMMA ExecuteMintFacts ==
    ASSUME NEW t, Sane(t), NEW k \in Keys, NEW margin, NEW lev \in Leverages \cup {Bps},
           NEW qty, NEW cost, NEW keep, NEW payout,
           t.ok => margin \in Nat /\ qty \in Nat /\ cost \in Nat /\ keep \in BOOLEAN
    PROVE  LET u == ExecuteMint(t, k, margin, lev, qty, cost, keep, payout)
           IN  Step(t, u, k, 0) /\ (u.ok => Minted(t, u, k, margin, lev, qty, cost))
<1> DEFINE p       == ProxyOf[k]
           borrow  == PositionFromMargin(margin, lev) - margin
           planned == PlanLeverage(t, k, margin, lev)
           placed  == AllocateMargin(planned, k, margin)
           lent    == ExecuteBorrow(placed, k, borrow)
           funded  == WithdrawFromKey(lent, k, cost)
           bought  == BuyContracts(funded, k, qty, cost)
           levered == SetLeverage(bought, k, lev)
           accrued == Accrue(levered)
           backed  == AddMarginDebt(accrued, k, margin)
           posted  == IF IsLeveraged(lev) THEN backed ELSE levered
           final   == SetRemint(posted, k, keep)
           cond    == /\ 0 < cost /\ cost <= margin + borrow
                      /\ IsLeveraged(lev) => ~CollateralLiquidatable(posted, k, payout)
           u       == ExecuteMint(t, k, margin, lev, qty, cost, keep, payout)
<1>1. u = Require(posted, cond, final)
  BY DEF ExecuteMint
<1>2. cond => 0 < cost
  OBVIOUS
<1>3. /\ Step(t, planned, k, 0) /\ Sane(planned)
      /\ planned.ok => /\ t.ok /\ planned = t /\ MinMargin <= margin /\ LeverageInBounds(lev)
                       /\ InMintWindow(t, k, lev) /\ margin \in Nat /\ lev \in Leverage
  <2>1. lev \in Nat
    BY TradeAssumption, ScaleAssumption
  <2> QED
    BY <2>1, PlanFacts, StepSane DEF Leverage
<1>4. planned.ok => /\ borrow \in Nat /\ (~IsLeveraged(lev) => borrow = 0)
                    /\ IsLeveraged(lev) => borrow > 0
  BY <1>3, MintBorrow
<1> HIDE DEF u, cond, final, planned, borrow
<1>5. /\ Step(planned, placed, k, 0) /\ Sane(placed)
      /\ placed.ok => OnlyQuote(planned, placed, k, planned.custody[p], planned.trading[p] - margin,
                                planned.quote[k] + margin)
  BY <1>3, AllocateMarginFacts, StepSane
<1> HIDE DEF placed
<1>6. /\ Step(placed, lent, k, 0) /\ Sane(lent)
      /\ lent.ok => /\ placed.ok
                    /\ lent.borrowed = [placed.borrowed EXCEPT ![k] = placed.borrowed[k] + borrow]
                    /\ SameLeverage(placed, lent) /\ SameOrders(placed, lent)
                    /\ lent.trading = placed.trading /\ lent.reserved = placed.reserved
  <2>1. CASE placed.ok
    <3>1. borrow \in Int
      BY <1>4, <1>5, <2>1 DEF Step
    <3> QED
      BY <1>5, <3>1, ExecuteBorrowFacts, StepSane
  <2>2. CASE ~placed.ok
    <3>1. IsContext(lent) /\ ~lent.ok
      BY <1>5, <2>2, ExecuteBorrowAborts DEF Sane
    <3> QED
      BY <3>1 DEF Step, Sane
  <2> QED
    BY <2>1, <2>2
<1> HIDE DEF lent
<1>7. (lent.ok => placed.ok /\ planned.ok /\ t.ok) /\ (lent.ok => cost \in Nat /\ qty \in Nat)
  BY <1>3, <1>5, <1>6 DEF Step
<1>8. /\ Step(lent, funded, k, 0 - cost) /\ Sane(funded)
      /\ funded.ok => /\ lent.ok
                      /\ OnlyQuote(lent, funded, k, lent.custody[p] - cost, lent.trading[p],
                                   lent.quote[k] - cost)
  BY <1>6, <1>7, WithdrawFromKeyFacts, StepSane DEF Step
<1> HIDE DEF funded
<1>9. /\ Step(funded, bought, k, cost) /\ Sane(bought)
      /\ bought.ok => /\ funded.ok
                      /\ OnlyWorld(funded, bought, k, funded.purse + cost, funded.manager[p],
                                   funded.contracts[k] + qty)
  BY <1>7, <1>8, BuyFacts, StepSane DEF Calm
<1> HIDE DEF bought
<1>10. /\ Step(bought, levered, k, 0) /\ Sane(levered)
       /\ levered.ok => /\ bought.ok
                        /\ OnlyLeverage(bought, levered, k,
                                        IF IsLeveraged(lev) THEN bought.margin[k] ELSE 0, lev)
  <2>1. bought.ok => lev \in Leverage
    BY <1>3, <1>7, <1>8, <1>9
  <2> QED
    BY <1>9, <2>1, SetLeverageFacts, StepSane DEF Calm
<1> HIDE DEF levered
<1>11. /\ Step(levered, accrued, k, 0) /\ Sane(accrued) /\ accrued.ok = levered.ok
       /\ OnlyVault(levered, accrued)
  BY <1>10, AccrueFacts, CalmSane DEF Calm
<1> HIDE DEF accrued
<1>12. /\ Step(accrued, backed, k, 0) /\ backed.ok = accrued.ok
       /\ backed.ok => OnlyLeverage(accrued, backed, k, accrued.margin[k] + margin,
                                    accrued.leverage[k])
  <2>1. accrued.ok => margin \in Nat
    BY <1>3, <1>7, <1>8, <1>9, <1>10, <1>11
  <2> QED
    BY <1>11, <2>1, AddMarginFacts
<1> HIDE DEF backed
<1>13. /\ Step(levered, posted, k, 0) /\ Sane(posted) /\ (posted.ok => levered.ok)
       /\ posted.ok => /\ SameHoldings(levered, posted) /\ posted.leverage[k] = lev
                       /\ IsLeveraged(lev) \/ posted.margin[k] = 0
  <2>1. levered.ok => /\ levered.margin \in [Keys -> Nat] /\ levered.leverage \in [Keys -> Leverage]
                      /\ bought.margin \in [Keys -> Nat] /\ bought.leverage \in [Keys -> Leverage]
    BY <1>9, <1>10 DEF Sane, Books, DebtsTyped
  <2>2. levered.ok => /\ levered.leverage[k] = lev
                      /\ IsLeveraged(lev) \/ levered.margin[k] = 0
    BY <1>10, <2>1 DEF OnlyLeverage
  <2>3. CASE IsLeveraged(lev)
    <3>1. Step(levered, backed, k, 0 + 0)
      BY <1>10, <1>11, <1>12, StepTrans
    <3>2. Step(levered, backed, k, 0) /\ Sane(backed)
      BY <3>1, StepSane
    <3>3. backed.ok => /\ SameHoldings(levered, backed) /\ backed.leverage[k] = lev
      BY <1>11, <1>12, <2>1, <2>2 DEF OnlyVault, OnlyLeverage, SameHoldings, SameWallets,
                                      SameOrders, SameDebts, SameLeverage
    <3> QED
      BY <1>11, <1>12, <2>3, <3>2, <3>3
  <2>4. CASE ~IsLeveraged(lev)
    <3>1. SameHoldings(levered, levered)
      BY DEF SameHoldings
    <3> QED
      BY <1>10, <2>2, <2>4, <3>1, StepSame
  <2> QED
    BY <2>3, <2>4
<1> HIDE DEF posted
<1>14. /\ Step(posted, final, k, 0) /\ final.ok = posted.ok
       /\ final.ok => /\ final.contracts = posted.contracts /\ SameDebts(posted, final)
                      /\ SameWallets(posted, final) /\ SameLeverage(posted, final)
                      /\ final.order = posted.order
  <2>1. posted.ok => keep \in BOOLEAN
    BY <1>7, <1>8, <1>9, <1>10, <1>13
  <2> QED
    BY <1>13, <2>1, SetRemintFacts DEF Calm, final
<1>15. IsContext(u) /\ (u.ok => posted.ok /\ cond /\ u = final)
  BY <1>1, <1>13, <1>14, RequireFacts DEF Sane, Step
<1>16. Step(t, u, k, 0)
  <2>1. t.ok => cost \in Int /\ (0 - cost) \in Int /\ (0 - cost) + cost = 0
    OBVIOUS
  <2>2. Step(t, placed, k, 0 + 0)
    BY <1>3, <1>5, StepTrans
  <2>3. Step(t, lent, k, (0 + 0) + 0)
    BY <1>6, <2>2, StepTrans
  <2>4. Step(t, lent, k, 0)
    BY <2>3
  <2>5. Step(t, funded, k, 0 + (0 - cost))
    BY <1>8, <2>1, <2>4, StepTrans
  <2>6. Step(t, bought, k, (0 + (0 - cost)) + cost)
    <3>1. t.ok => (0 + (0 - cost)) \in Int
      BY <2>1
    <3> QED
      BY <1>9, <2>1, <2>5, <3>1, StepTrans
  <2>7. Step(t, bought, k, 0)
    BY <2>1, <2>6 DEF Step
  <2>8. Step(t, levered, k, 0 + 0)
    BY <1>10, <2>7, StepTrans
  <2>9. Step(t, posted, k, (0 + 0) + 0)
    BY <1>13, <2>8, StepTrans
  <2>10. Step(t, final, k, ((0 + 0) + 0) + 0)
    BY <1>14, <2>9, StepTrans
  <2>11. Step(t, final, k, 0)
    BY <2>10
  <2> QED
    BY <1>15, <2>11 DEF Step
<1>17. ASSUME u.ok PROVE Minted(t, u, k, margin, lev, qty, cost)
  <2>1. /\ posted.ok /\ levered.ok /\ bought.ok /\ funded.ok /\ lent.ok /\ placed.ok /\ planned.ok
        /\ t.ok /\ u = final /\ final.ok /\ planned = t /\ cond
    BY <1>3, <1>7, <1>8, <1>9, <1>10, <1>13, <1>14, <1>15, <1>17
  <2>2. u.borrowed = [t.borrowed EXCEPT ![k] = t.borrowed[k] + borrow]
    BY <1>5, <1>6, <1>8, <1>9, <1>10, <1>13, <1>14, <2>1
       DEF OnlyQuote, OnlyWorld, OnlyLeverage, SameHoldings, SameDebts
  <2>3. /\ u.trading = [t.trading EXCEPT ![p] = t.trading[p] - margin]
        /\ u.reserved = t.reserved /\ u.order = t.order
    <3>1. /\ placed.trading = [t.trading EXCEPT ![p] = t.trading[p] - margin]
          /\ placed.reserved = t.reserved /\ placed.order = t.order
      BY <1>5, <2>1 DEF OnlyQuote, SameOrders
    <3>2. lent.trading = placed.trading /\ lent.reserved = placed.reserved /\ lent.order = placed.order
      BY <1>6, <2>1 DEF SameOrders
    <3>3. funded.trading = lent.trading /\ funded.reserved = lent.reserved
          /\ funded.order = lent.order
      <4>1. lent.trading = [lent.trading EXCEPT ![p] = lent.trading[p]]
        <5>1. Sane(lent) /\ lent.ok
          BY <1>6, <2>1
        <5>2. lent.trading = [lent.trading EXCEPT ![ProxyOf[k]] = lent.trading[ProxyOf[k]]]
          BY <5>1, KeyTypes
        <5> QED
          BY <5>2
      <4> QED
        BY <1>8, <2>1, <4>1 DEF OnlyQuote, SameOrders
    <3>4. u.trading = funded.trading /\ u.reserved = funded.reserved /\ u.order = funded.order
      BY <1>9, <1>10, <1>13, <1>14, <2>1
         DEF OnlyWorld, OnlyLeverage, SameHoldings, SameWallets, SameOrders
    <3> QED
      BY <3>1, <3>2, <3>3, <3>4
  <2>4. u.contracts[k] = t.contracts[k] + qty
    <3>1. funded.contracts = t.contracts
      BY <1>5, <1>6, <1>8, <2>1 DEF OnlyQuote, SameOrders
    <3>2. u.contracts = [funded.contracts EXCEPT ![k] = funded.contracts[k] + qty]
      BY <1>9, <1>10, <1>13, <1>14, <2>1 DEF OnlyWorld, OnlyLeverage, SameHoldings, SameOrders
    <3>3. t.contracts \in [Keys -> Nat]
      BY <2>1 DEF Sane, Books, KeysTyped
    <3> QED
      BY <3>1, <3>2, <3>3
  <2>5. t.borrowed \in [Keys -> Nat] /\ t.borrowed[k] \in Nat
    BY <2>1 DEF Sane, Books, DebtsTyped
  <2>6. ~IsLeveraged(lev) => u.borrowed = t.borrowed
    <3>1. ~IsLeveraged(lev) => t.borrowed[k] + borrow = t.borrowed[k]
      BY <1>4, <2>1, <2>5
    <3> QED
      BY <2>2, <2>5, <3>1
  <2>7. MarginBacked(u, k)
    <3>1. u.leverage[k] = lev /\ (IsLeveraged(lev) \/ u.margin[k] = 0)
      BY <1>13, <1>14, <2>1 DEF SameLeverage
    <3>2. IsLeveraged(lev) => u.borrowed[k] > 0
      <4>1. u.borrowed[k] = t.borrowed[k] + borrow
        BY <2>2, <2>5
      <4> QED
        BY <1>4, <2>1, <2>5, <4>1
    <3> QED
      BY <3>1, <3>2 DEF MarginBacked
  <2> QED
    BY <1>2, <1>3, <2>1, <2>3, <2>4, <2>6, <2>7 DEF Minted
<1> QED
  BY <1>16, <1>17 DEF u

-----------------------------------------------------------------------------
(* trade.move and liquidation.move: the keeper's transactions              *)

\* A remint buys at 1x with what the key gave back to its trader: the trader
\* ends with no less of its own quote, and the key with no debt.
LEMMA TryRemintFacts ==
    ASSUME NEW t, Sane(t), NEW k \in Keys, NEW ask \in Nat, NEW bid \in Nat
    PROVE  Calm(t, TryRemint(t, k, ask, bid), k, 0)
<1> DEFINE p      == ProxyOf[k]
           held   == t.quote[k]
           qty    == IF ask = 0 THEN 0 ELSE held \div ask
           idle   == t.borrowed[k] > 0 \/ held < MinMargin \/ qty = 0
           s      == SweepFreeQuote(t, k)
           margin == ask * qty
           keep   == t.remint[k]
           payout == bid * qty
           u      == ExecuteMint(s, k, margin, Bps, qty, margin, keep, payout)
<1>1. TryRemint(t, k, ask, bid) = IF idle THEN t ELSE u
  BY DEF TryRemint
<1>2. t.ok => /\ held \in Nat /\ keep \in BOOLEAN /\ t.borrowed[k] \in Nat
              /\ t.trading[p] \in Nat /\ t.trading \in [Proxies -> Nat]
              /\ t.reserved \in [Proxies -> Nat] /\ p \in Proxies
  BY KeyTypes, KeyFacts DEF Sane, Books, KeysTyped, ProxiesTyped
<1>3. t.ok => qty \in Nat /\ margin \in Nat /\ margin <= held
  <2> SUFFICES ASSUME t.ok PROVE qty \in Nat /\ margin \in Nat /\ margin <= held
    OBVIOUS
  <2>1. CASE ask = 0
    BY <1>2, <2>1
  <2>2. CASE ask # 0
    <3> DEFINE q == held \div ask
    <3>1. q \in Nat /\ ask * q <= held
      BY <1>2, <2>2, DivBounds
    <3>2. ask * q \in Nat
      BY <3>1, MulNat
    <3> QED
      BY <2>2, <3>1, <3>2
  <2> QED
    BY <2>1, <2>2
<1> HIDE DEF idle, qty
<1>4. CASE idle
  BY <1>1, <1>4, CalmSame
<1>5. CASE ~idle
  <2>1. /\ Calm(t, s, k, 0) /\ Sane(s)
        /\ s.ok => /\ t.ok /\ SameDebts(t, s)
                   /\ t.borrowed[k] = 0 =>
                        /\ s.trading = [t.trading EXCEPT ![p] = t.trading[p] + held]
                        /\ s.reserved = t.reserved
    BY SweepFreeQuoteFacts, CalmSane DEF Calm, Step
  <2> HIDE DEF s, margin, keep, payout
  <2>2. Step(s, u, k, 0) /\ (u.ok => Minted(s, u, k, margin, Bps, qty, margin))
    <3>1. Bps \in Leverages \cup {Bps}
      OBVIOUS
    <3>2. s.ok => margin \in Nat /\ qty \in Nat /\ keep \in BOOLEAN
      BY <1>2, <1>3, <2>1 DEF keep
    <3> QED
      BY <2>1, <3>1, <3>2, ExecuteMintFacts
  <2> HIDE DEF u
  <2>3. Step(t, u, k, 0)
    <3>1. Step(t, u, k, 0 + 0)
      BY <2>1, <2>2, StepTrans DEF Calm
    <3> QED
      BY <3>1
  <2>4. u.ok => t.borrowed[k] = 0 /\ t.ok /\ s.ok
    <3>1. u.ok => t.ok /\ s.ok
      BY <2>1, <2>2, <2>3 DEF Step
    <3> QED
      BY <1>2, <1>5, <3>1 DEF idle
  <2>5. Tame(t, u, k)
    <3>1. u.ok => u.borrowed[k] = 0 /\ MarginBacked(u, k)
      BY <2>1, <2>2, <2>4, UnitLeverage DEF Minted, SameDebts
    <3> QED
      BY <2>4, <3>1 DEF Tame
  <2>6. KeepsFree(t, u)
    <3> SUFFICES ASSUME u.ok, NEW a \in Proxies PROVE Free(t, a) <= Free(u, a)
      BY DEF KeepsFree
    <3>1. /\ u.trading = [s.trading EXCEPT ![p] = s.trading[p] - margin]
          /\ u.reserved = s.reserved
      BY <2>2 DEF Minted
    <3>2. /\ s.trading = [t.trading EXCEPT ![p] = t.trading[p] + held]
          /\ s.reserved = t.reserved
      BY <2>1, <2>4
    <3> HIDE DEF p, held
    <3>3. t.trading[a] \in Nat /\ t.reserved[a] \in Nat
      BY <1>2, <2>4
    <3>4. a # p => u.trading[a] = t.trading[a]
      BY <1>2, <2>4, <3>1, <3>2
    <3>5. u.trading[p] = (t.trading[p] + held) - margin
      BY <1>2, <2>4, <3>1, <3>2
    <3>6. t.trading[a] <= u.trading[a]
      BY <1>2, <1>3, <2>4, <3>3, <3>4, <3>5
    <3>7. u.trading[a] \in Int
      BY <1>2, <1>3, <2>4, <3>3, <3>4, <3>5
    <3> QED
      BY <3>1, <3>2, <3>3, <3>6, <3>7 DEF Free
  <2> QED
    BY <1>1, <1>5, <2>3, <2>5, <2>6 DEF Calm
<1> QED
  BY <1>4, <1>5

\* A settlement redeems, repays and writes the rest off.
LEMMA SettleFacts ==
    ASSUME NEW t, Sane(t), NEW k \in Keys, NEW qty \in Nat, NEW bid \in Nat
    PROVE  Calm(t, SettleTx(t, k, qty, bid), k, 0)
<1> DEFINE cond == ~Live(k)
           r    == Require(t, cond, t)
           u    == RepayFromPayout(RedeemContracts(r, k, qty, bid * qty), k, bid * qty, TRUE, FALSE)
<1>1. SettleTx(t, k, qty, bid) = u
  BY DEF SettleTx
<1> HIDE DEF cond
<1>2. Calm(t, r, k, 0) /\ Sane(r)
  BY CalmSame, CalmRequire, CalmSane DEF Sane
<1> HIDE DEF r
<1>3. bid * qty \in Nat
  BY MulNat
<1>4. Calm(r, u, k, 0)
  BY <1>2, <1>3, RedeemAndRepayFacts
<1> HIDE DEF u
<1>5. Calm(t, u, k, 0 + 0)
  BY <1>2, <1>4, CalmTrans
<1> QED
  BY <1>1, <1>5

\* A repayment after expiry redeems and repays.
LEMMA ForceRepayFacts ==
    ASSUME NEW t, Sane(t), NEW k \in Keys, NEW qty \in Nat, NEW bid \in Nat
    PROVE  Calm(t, ForceRepayTx(t, k, qty, bid), k, 0)
<1> DEFINE cond == Expiry[k] <= t.now /\ Live(k) /\ t.borrowed[k] > 0
           r    == Require(t, cond, t)
           u    == RepayFromPayout(RedeemContracts(r, k, qty, bid * qty), k, bid * qty, FALSE, FALSE)
<1>1. ForceRepayTx(t, k, qty, bid) = u
  BY DEF ForceRepayTx
<1> HIDE DEF cond
<1>2. Calm(t, r, k, 0) /\ Sane(r)
  BY CalmSame, CalmRequire, CalmSane DEF Sane
<1> HIDE DEF r
<1>3. bid * qty \in Nat
  BY MulNat
<1>4. Calm(r, u, k, 0)
  BY <1>2, <1>3, RedeemAndRepayFacts
<1> HIDE DEF u
<1>5. Calm(t, u, k, 0 + 0)
  BY <1>2, <1>4, CalmTrans
<1> QED
  BY <1>1, <1>5

\* A deleverage in the final window redeems, repays, and mints again if the
\* owner chose to.
LEMMA ForceDeleverageFacts ==
    ASSUME NEW t, Sane(t), NEW k \in Keys, NEW qty \in Nat, NEW bid \in Nat, NEW ask \in Nat
    PROVE  Calm(t, ForceDeleverageTx(t, k, qty, bid, ask), k, 0)
<1> DEFINE a    == Accrue(t)
           cond == /\ Expiry[k] - registry.window <= t.now /\ t.now < Expiry[k]
                   /\ Live(k)
                   /\ t.borrowed[k] > 0
                   /\ ~CollateralLiquidatable(a, k, bid * qty)
           b    == Require(a, cond, a)
           hold == t.remint[k]
           r    == RepayFromPayout(RedeemContracts(b, k, qty, bid * qty), k, bid * qty, FALSE, hold)
           m    == TryRemint(r, k, ask, bid)
           f    == Finalize(m, k)
           c    == ClearTriggersIfFlat(f, k)
<1>1. ForceDeleverageTx(t, k, qty, bid, ask) = IF hold THEN c ELSE r
  BY DEF ForceDeleverageTx
<1> HIDE DEF cond, hold
<1>2. Calm(t, a, k, 0) /\ Sane(a)
  BY AccrueFacts, CalmSane
<1> HIDE DEF a
<1>3. Calm(a, b, k, 0) /\ Sane(b)
  BY <1>2, CalmSame, CalmRequire, CalmSane DEF Sane
<1> HIDE DEF b
<1>4. bid * qty \in Nat
  BY MulNat
<1>5. Calm(b, r, k, 0) /\ Sane(r)
  BY <1>3, <1>4, RedeemAndRepayFacts, CalmSane
<1> HIDE DEF r
<1>6. Calm(r, m, k, 0) /\ Sane(m)
  BY <1>5, TryRemintFacts, CalmSane
<1> HIDE DEF m
<1>7. Calm(m, f, k, 0) /\ Sane(f)
  BY <1>6, FinalizeFacts, CalmSane
<1> HIDE DEF f
<1>8. Calm(f, c, k, 0)
  BY <1>7, TriggerFacts
<1> HIDE DEF c
<1>9. Calm(t, b, k, 0 + 0)
  BY <1>2, <1>3, CalmTrans
<1>10. Calm(t, r, k, (0 + 0) + 0)
  BY <1>5, <1>9, CalmTrans
<1>11. Calm(t, m, k, ((0 + 0) + 0) + 0)
  BY <1>6, <1>10, CalmTrans
<1>12. Calm(t, f, k, (((0 + 0) + 0) + 0) + 0)
  BY <1>7, <1>11, CalmTrans
<1>13. Calm(t, c, k, ((((0 + 0) + 0) + 0) + 0) + 0)
  BY <1>8, <1>12, CalmTrans
<1>14. Calm(t, r, k, 0) /\ Calm(t, c, k, 0)
  BY <1>10, <1>13
<1> QED
  BY <1>1, <1>14

-----------------------------------------------------------------------------
(* liquidation.move                                                        *)

\* Nothing is claimed of a transaction that aborted.
LEMMA AbortCalm ==
    ASSUME NEW t, NEW u, IsContext(u), ~u.ok, NEW k, NEW d
    PROVE  Calm(t, u, k, d)
BY DEF Calm, Step, Tame, KeepsFree

\* The health check changes nothing.
LEMMA AssertLiquidatableFacts ==
    ASSUME NEW t, Sane(t), NEW k
    PROVE  LET u == AssertLiquidatable(t, k)
           IN  Calm(t, u, k, 0) /\ (u.ok => t.ok /\ u = t)
<1> DEFINE cond == /\ HealthDebt(KeyDebt(t, k), t.margin[k], t.leverage[k]) > 0
                   /\ CollateralLiquidatable(t, k, 0)
           u == AssertLiquidatable(t, k)
<1>1. u = Require(t, cond, t)
  BY DEF AssertLiquidatable
<1> HIDE DEF cond, u
<1>2. Calm(t, Require(t, cond, t), k, 0)
  BY CalmSame, CalmRequire DEF Sane
<1>3. Require(t, cond, t).ok => t.ok /\ Require(t, cond, t) = t
  BY RequireFacts DEF Sane
<1> QED
  BY <1>1, <1>2, <1>3 DEF u

\* Clearing a key's debt takes all its quote and leaves it neither debt nor
\* margin.
LEMMA ClearDebtFacts ==
    ASSUME NEW t, Sane(t), t.ok, Accrued(t), NEW k \in Keys, NEW payment
    PROVE  LET u == ClearDebt(t, k, payment)
           IN  /\ Step(t, u, k, KeyDebt(t, k) - t.quote[k]) /\ KeepsFree(t, u)
               /\ u.ok => KeyDebt(t, k) <= payment /\ u.borrowed[k] = 0 /\ u.margin[k] = 0
<1> DEFINE debt   == KeyDebt(t, k)
           held   == t.quote[k]
           merged == WithdrawFromKey(t, k, held)
           paid   == RepayKey(merged, k, debt)
           repaid == IF debt = 0 THEN merged ELSE paid
           clean  == ClearMarginDebt(repaid, k)
           reset  == ResetToUnleveraged(clean, k)
           cond   == debt <= payment
           u      == ClearDebt(t, k, payment)
<1>1. u = Require(t, cond, reset)
  BY DEF ClearDebt
<1>2. /\ held \in Nat /\ debt \in Nat /\ t.borrowed[k] \in Nat
      /\ t.borrowed[k] = 0 <=> debt = 0
  BY KeyTypes, KeyDebtFacts
<1> HIDE DEF u
<1>3. /\ Step(t, merged, k, 0 - held) /\ KeepsFree(t, merged) /\ Sane(merged)
      /\ merged.ok => OnlyQuote(t, merged, k, t.custody[ProxyOf[k]] - held,
                                t.trading[ProxyOf[k]], t.quote[k] - held)
  BY <1>2, WithdrawFromKeyFacts, StepSane
<1> HIDE DEF merged
<1>4. merged.ok => /\ KeyDebt(merged, k) = debt /\ merged.borrowed = t.borrowed
                   /\ Accrued(merged)
  <2>1. merged.ok => merged.vault = t.vault /\ merged.borrowed = t.borrowed
    BY <1>3 DEF OnlyQuote, SameVault, SameDebts
  <2> QED
    BY <1>3, <2>1 DEF KeyDebt, Step
<1> HIDE DEF debt
<1>5. /\ Pays(merged, paid, k, debt)
      /\ paid.ok => paid.borrowed[k] = 0
  <2>1. merged.ok => debt \in Nat /\ debt <= KeyDebt(merged, k)
    BY <1>2, <1>4
  <2> QED
    BY <1>3, <1>4, <2>1, RepayKeyFacts DEF Pays, Step
<1> HIDE DEF paid
<1>6. /\ Step(merged, repaid, k, debt) /\ KeepsFree(merged, repaid) /\ Sane(repaid)
      /\ repaid.ok => repaid.borrowed[k] = 0
  <2>1. CASE debt = 0
    <3>1. Calm(merged, merged, k, 0)
      BY <1>3, CalmSame
    <3>2. repaid = merged
      BY <2>1
    <3>3. merged.ok => merged.borrowed[k] = 0
      BY <1>2, <1>4, <2>1
    <3> QED
      BY <1>3, <2>1, <3>1, <3>2, <3>3 DEF Calm
  <2>2. CASE debt # 0
    <3>1. repaid = paid
      BY <2>2
    <3>2. KeepsFree(merged, paid)
      BY <1>3, <1>5, FreeSame DEF Pays
    <3> QED
      BY <1>5, <3>1, <3>2, StepSane DEF Pays
  <2> QED
    BY <2>1, <2>2
<1> HIDE DEF repaid
<1>7. /\ Calm(repaid, clean, k, 0) /\ Sane(clean)
      /\ clean.ok => repaid.ok /\ OnlyLeverage(repaid, clean, k, 0, repaid.leverage[k])
  BY <1>6, ClearMarginFacts, CalmSane
<1> HIDE DEF clean
<1>8. /\ Calm(clean, reset, k, 0) /\ Sane(reset)
      /\ reset.ok => clean.ok /\ OnlyLeverage(clean, reset, k, 0, Bps)
  BY <1>7, ResetFacts, CalmSane
<1> HIDE DEF reset
<1>9. reset.ok => reset.borrowed[k] = 0 /\ reset.margin[k] = 0
  <2>1. clean.ok => clean.margin \in [Keys -> Nat]
    BY <1>7 DEF Sane, Books, DebtsTyped
  <2> QED
    BY <1>6, <1>7, <1>8, <2>1 DEF OnlyLeverage, SameDebts
<1>10. Step(t, repaid, k, (0 - held) + debt) /\ KeepsFree(t, repaid)
  <2>1. (0 - held) \in Int /\ debt \in Int
    BY <1>2
  <2> QED
    BY <1>3, <1>6, <2>1, StepTrans, FreeTrans
<1>11. Step(t, clean, k, ((0 - held) + debt) + 0) /\ KeepsFree(t, clean)
  <2>1. ((0 - held) + debt) \in Int
    BY <1>2
  <2> QED
    BY <1>7, <1>10, <2>1, StepTrans, FreeTrans DEF Calm
<1>12. Step(t, reset, k, (((0 - held) + debt) + 0) + 0) /\ KeepsFree(t, reset)
  <2>1. (((0 - held) + debt) + 0) \in Int
    BY <1>2
  <2> QED
    BY <1>8, <1>11, <2>1, StepTrans, FreeTrans DEF Calm
<1>13. Step(t, reset, k, debt - held)
  <2>1. (((0 - held) + debt) + 0) + 0 = debt - held
    BY <1>2
  <2> QED
    BY <1>12, <2>1
<1> HIDE DEF cond
<1>14. IsContext(u) /\ (u.ok => cond /\ u = reset)
  BY <1>1, <1>8, RequireFacts DEF Sane
<1>15. Step(t, u, k, debt - held) /\ KeepsFree(t, u)
  BY <1>12, <1>13, <1>14 DEF Step, KeepsFree
<1> QED
  BY <1>9, <1>14, <1>15 DEF u, cond, debt


\* What a liquidation borrows is an amount.
LEMMA FlashBorrowNat ==
    ASSUME NEW t, Sane(t), t.ok, NEW k \in Keys
    PROVE  QuoteLiquidationFlashBorrow(t, k) \in Nat
<1> DEFINE a == Accrue(t)
<1>1. Sane(a) /\ a.ok
  BY AccrueFacts, CalmSane
<1>2. KeyDebt(a, k) \in Nat
  BY <1>1, KeyDebtFacts
<1>3. MulBps(KeyDebt(a, k), FlashBufferBps) \in Nat
  BY <1>2, MulBpsNat, TradeAssumption
<1> QED
  BY <1>2, <1>3 DEF QuoteLiquidationFlashBorrow

\* A liquidation redeems onto its key: the coins come from the manager.
LEMMA LiquidationRedeems ==
    ASSUME NEW t, Sane(t), NEW k \in Keys, NEW qty \in Nat, NEW payout \in Nat
    PROVE  LET u == IF qty = 0 THEN t
                    ELSE CreditKey(TakeFromManager(RedeemContracts(t, k, qty, payout), k, payout),
                                   k, payout)
           IN  Calm(t, u, k, 0)
<1> DEFINE r == RedeemContracts(t, k, qty, payout)
           m == TakeFromManager(r, k, payout)
           c == CreditKey(m, k, payout)
<1>1. Calm(t, r, k, 0) /\ Sane(r)
  BY RedeemFacts, CalmSane
<1> HIDE DEF r
<1>2. Calm(r, m, k, 0 - payout) /\ Sane(m)
  BY <1>1, TakeFromManagerFacts, CalmSane
<1> HIDE DEF m
<1>3. Calm(m, c, k, payout)
  BY <1>2, CreditKeyFacts
<1> HIDE DEF c
<1>4. Calm(t, m, k, 0 + (0 - payout))
  BY <1>1, <1>2, CalmTrans
<1>5. Calm(t, c, k, (0 + (0 - payout)) + payout)
  <2>1. (0 + (0 - payout)) \in Int
    OBVIOUS
  <2> QED
    BY <1>3, <1>4, <2>1, CalmTrans
<1>6. Calm(t, c, k, 0)
  BY <1>5, CalmBy
<1> QED
  BY <1>6, CalmSame DEF r, m, c

\* A liquidation moves quote around and ends with a key that owes nothing.
LEMMA LiquidateFacts ==
    ASSUME NEW t, Sane(t), t.ok, NEW k \in Keys, NEW qty \in Nat, NEW bid \in Nat,
           NEW topUp \in Nat
    PROVE  Calm(t, LiquidateTx(t, k, qty, bid, topUp), k, 0)
<1> DEFINE loan     == QuoteLiquidationFlashBorrow(t, k)
           fee      == FlashFee(t.vault, loan)
           gain     == bid * qty
           topped   == PayIn(t, topUp)
           lent     == BorrowFlash(topped, loan)
           redeemed == IF qty = 0 THEN lent
                       ELSE CreditKey(TakeFromManager(RedeemContracts(lent, k, qty, gain), k, gain),
                                      k, gain)
           freed    == CancelForLiquidation(redeemed, k)
           checked  == AssertLiquidatable(freed, k)
           held     == checked.quote[k]
           debt     == KeyDebt(checked, k)
           payment  == loan + topUp + held
           cleared  == ClearDebt(checked, k, payment)
           flat     == ClearTriggersIfFlat(cleared, k)
           closed   == IF qty = 0 THEN cleared ELSE flat
           rest     == payment - debt
           u        == RepayFlash(closed, loan, fee, rest)
<1>1. LiquidateTx(t, k, qty, bid, topUp) = u
  BY DEF LiquidateTx
<1>2. loan \in Nat /\ fee \in Nat /\ gain \in Nat
  <2>1. loan \in Nat
    BY FlashBorrowNat
  <2> HIDE DEF loan
  <2>2. t.vault \in VaultType
    BY DEF Sane, Books, VaultTyped
  <2> QED
    BY <2>1, <2>2, FlashFeeNat, MulNat
<1> HIDE DEF loan, fee, gain
<1>3. Calm(t, topped, k, 0 - topUp) /\ Sane(topped)
  BY PayInFacts, CalmSane
<1> HIDE DEF topped
<1>4. /\ Calm(topped, lent, k, 0 - loan) /\ Sane(lent)
      /\ lent.ok => Accrued(lent)
  BY <1>2, <1>3, BorrowFlashFacts, CalmSane
<1> HIDE DEF lent
<1>5. Calm(lent, redeemed, k, 0) /\ Sane(redeemed)
  BY <1>2, <1>4, LiquidationRedeems, CalmSane
<1> HIDE DEF redeemed
<1>6. Calm(redeemed, freed, k, 0) /\ Sane(freed)
  BY <1>5, CancelFacts, CalmSane
<1> HIDE DEF freed
<1>7. /\ Calm(freed, checked, k, 0) /\ Sane(checked)
      /\ checked.ok => Accrued(checked)
  <2>1. Calm(freed, checked, k, 0) /\ Sane(checked)
    BY <1>6, AssertLiquidatableFacts, CalmSane
  <2> HIDE DEF checked
  <2> QED
    BY <1>4, <1>5, <1>6, <2>1 DEF Calm, Step
<1> HIDE DEF checked
<1>8. Calm(t, checked, k, ((((0 - topUp) + (0 - loan)) + 0) + 0) + 0)
  <2>1. (0 - topUp) \in Int /\ (0 - loan) \in Int
    BY <1>2
  <2>2. Calm(t, lent, k, (0 - topUp) + (0 - loan))
    BY <1>3, <1>4, <2>1, CalmTrans
  <2>3. ((0 - topUp) + (0 - loan)) \in Int
    BY <2>1
  <2> DEFINE d == (0 - topUp) + (0 - loan)
  <2> HIDE DEF d
  <2>4. d \in Int /\ d + 0 \in Int /\ (d + 0) + 0 \in Int
    BY <2>3 DEF d
  <2>5. Calm(t, redeemed, k, d + 0)
    BY <1>5, <2>2, <2>4, CalmTrans DEF d
  <2>6. Calm(t, freed, k, (d + 0) + 0)
    BY <1>6, <2>4, <2>5, CalmTrans
  <2>7. Calm(t, checked, k, ((d + 0) + 0) + 0)
    BY <1>7, <2>4, <2>6, CalmTrans
  <2> QED
    BY <2>7 DEF d
<1> DEFINE lessLoan == 0 - topUp - loan
<1>9. Calm(t, checked, k, lessLoan) /\ lessLoan \in Int
  <2>1. ((((0 - topUp) + (0 - loan)) + 0) + 0) + 0 = lessLoan /\ lessLoan \in Int
    BY <1>2
  <2> QED
    BY <1>8, <2>1
<1>10. /\ IsContext(closed) /\ (closed.ok => checked.ok)
       /\ checked.ok => /\ held \in Nat /\ debt \in Nat
                        /\ Step(checked, closed, k, debt - held) /\ KeepsFree(checked, closed)
       /\ closed.ok => /\ debt <= payment /\ closed.borrowed[k] = 0 /\ closed.margin[k] = 0
  <2>1. CASE ~checked.ok
    <3>1. ~cleared.ok /\ IsContext(cleared)
      <4> DEFINE cond  == debt <= payment
                 after == ResetToUnleveraged(ClearMarginDebt(
                            IF debt = 0 THEN WithdrawFromKey(checked, k, held)
                            ELSE RepayKey(WithdrawFromKey(checked, k, held), k, debt), k), k)
      <4>1. cleared = Require(checked, cond, after)
        BY DEF ClearDebt
      <4> HIDE DEF cond, after, cleared
      <4>2. Require(checked, cond, after) = [checked EXCEPT !.ok = FALSE]
        BY <2>1 DEF Require
      <4> QED
        BY <1>7, <4>1, <4>2, AbortFacts DEF Sane
    <3> HIDE DEF cleared
    <3>2. Sane(cleared)
      BY <3>1 DEF Sane
    <3>3. IsContext(closed) /\ ~closed.ok
      BY <3>1, <3>2, TriggerFacts DEF Calm, Step
    <3> QED
      BY <2>1, <3>3
  <2>2. CASE checked.ok
    <3>1. held \in Nat /\ debt \in Nat
      BY <1>7, <2>2, KeyTypes, KeyDebtFacts
    <3>2. /\ Step(checked, cleared, k, debt - held) /\ KeepsFree(checked, cleared) /\ Sane(cleared)
          /\ cleared.ok => debt <= payment /\ cleared.borrowed[k] = 0 /\ cleared.margin[k] = 0
      BY <1>7, <2>2, ClearDebtFacts, StepSane
    <3> HIDE DEF cleared, held, debt, payment
    <3>3. /\ Calm(cleared, flat, k, 0) /\ flat.ok = cleared.ok /\ OnlyVault(cleared, flat)
      BY <3>2, TriggerFacts
    <3> HIDE DEF flat
    <3>4. Step(checked, flat, k, (debt - held) + 0)
      <4>1. (debt - held) \in Int
        BY <3>1
      <4> QED
        BY <1>7, <3>2, <3>3, <4>1, StepTrans DEF Calm
    <3>5. Step(checked, flat, k, debt - held)
      <4>1. (debt - held) + 0 = debt - held
        BY <3>1
      <4> QED
        BY <3>4, <4>1
    <3>6. KeepsFree(checked, flat)
      BY <1>7, <3>2, <3>3, FreeTrans DEF Calm
    <3>7. flat.ok => flat.borrowed[k] = 0 /\ flat.margin[k] = 0
      BY <3>2, <3>3 DEF OnlyVault, SameDebts, SameLeverage
    <3>8. /\ Step(checked, closed, k, debt - held) /\ KeepsFree(checked, closed)
          /\ closed.ok => debt <= payment /\ closed.borrowed[k] = 0 /\ closed.margin[k] = 0
      BY <3>2, <3>3, <3>5, <3>6, <3>7
    <3> QED
      BY <2>2, <3>1, <3>8 DEF Step
  <2> QED
    BY <2>1, <2>2
<1> HIDE DEF held, debt, cleared, closed
<1>11. CASE ~checked.ok
  <2>1. ~closed.ok /\ Sane(closed)
    BY <1>10, <1>11 DEF Sane
  <2>2. Calm(closed, u, k, rest)
    BY <2>1, RepayFlashFacts
  <2>3. IsContext(u) /\ ~u.ok
    BY <2>1, <2>2 DEF Calm, Step
  <2> QED
    BY <1>1, <2>3, AbortCalm
<1>12. CASE checked.ok
  <2>1. /\ held \in Nat /\ debt \in Nat
        /\ Step(checked, closed, k, debt - held) /\ KeepsFree(checked, closed)
    BY <1>10, <1>12
  <2>2. Sane(closed)
    BY <2>1, StepSane
  <2>3. closed.ok => rest \in Nat
    BY <1>2, <1>10, <2>1
  <2>4. /\ Calm(closed, u, k, rest)
        /\ u.ok => closed.ok /\ OnlyVault(closed, u)
    <3> HIDE DEF rest
    <3> QED
      BY <1>2, <2>2, <2>3, RepayFlashFacts
  <2> HIDE DEF u
  <2>5. rest \in Int /\ (debt - held) \in Int /\ (lessLoan + (debt - held)) \in Int
    BY <1>2, <1>9, <2>1
  <2>6. (lessLoan + (debt - held)) + rest = 0
    BY <1>2, <2>1
  <2> HIDE DEF lessLoan, rest
  <2>7. Step(t, closed, k, lessLoan + (debt - held)) /\ KeepsFree(t, closed)
    BY <1>9, <2>1, <2>5, StepTrans, FreeTrans DEF Calm
  <2>8. Step(t, u, k, (lessLoan + (debt - held)) + rest) /\ KeepsFree(t, u)
    BY <2>4, <2>5, <2>7, StepTrans, FreeTrans DEF Calm
  <2>9. Step(t, u, k, 0)
    BY <2>6, <2>8
  <2>10. u.ok => u.borrowed[k] = 0 /\ u.margin[k] = 0
    BY <1>10, <2>4 DEF OnlyVault, SameDebts, SameLeverage
  <2>11. Tame(t, u, k)
    <3>1. t.borrowed[k] \in Nat
      BY KeyTypes
    <3> QED
      BY <2>10, <3>1 DEF Tame, MarginBacked
  <2> QED
    BY <1>1, <2>8, <2>9, <2>11 DEF Calm
<1> QED
  BY <1>11, <1>12


-----------------------------------------------------------------------------
(* The state between transactions                                          *)

\* What holds of the shared objects between transactions: the books balance,
\* no quote was made or lost, and no key posts margin without a debt.
Kept(c) == /\ c.ok /\ c.paid = 0
           /\ Sane(c)
           /\ Held(c) = TotalQuote
           /\ \A k \in Keys : MarginBacked(c, k)

\* What the three action properties say of one step.
LendsInTime ==
    \A k \in Keys : chain'.borrowed[k] > chain.borrowed[k]
                      => chain.now < Expiry[k] - registry.window

CollateralStays ==
    \A k \in Keys : chain'.borrowed[k] > 0 /\ chain'.quote[k] < chain.quote[k]
                      => chain'.contracts[k] > chain.contracts[k]

FreeQuoteStays ==
    \A a \in Proxies :
        chain'.trading[a] + chain'.reserved[a] < chain.trading[a] + chain.reserved[a]
          => \E k \in KeysOf(a) : chain.order[k] # NoOrder /\ chain'.order[k] = NoOrder
                                  /\ chain'.contracts[k] > chain.contracts[k]

\* The ledgers of a context are those of another.
SameBooks(t, u) ==
    /\ u.now = t.now /\ u.ok = t.ok /\ u.vault = t.vault /\ u.collector = t.collector
    /\ u.custody = t.custody /\ u.trading = t.trading /\ u.reserved = t.reserved
    /\ u.manager = t.manager /\ u.quote = t.quote
    /\ SameOrders(t, u) /\ SameDebts(t, u) /\ SameLeverage(t, u)

\* At the end of a transaction its sender takes what it was paid.
LEMMA CommitFacts ==
    ASSUME NEW t, Sane(t), Commit(t)
    PROVE  /\ t.ok /\ Sane(chain') /\ chain'.ok /\ chain'.paid = 0
           /\ SameBooks(t, chain') /\ Held(chain') = Held(t)
<1>1. t.ok /\ chain' = [t EXCEPT !.purse = t.purse + t.paid, !.paid = 0]
  BY DEF Commit
<1>2. /\ IsContext(chain') /\ chain'.paid = 0 /\ chain'.purse = t.purse + t.paid
      /\ SameBooks(t, chain')
  BY <1>1 DEF Sane, IsContext, Fields, SameBooks, SameOrders, SameDebts, SameLeverage
<1>3. Books(t)
  BY <1>1 DEF Sane
<1>4. /\ t.paid \in Nat /\ t.purse \in Nat /\ t.vault.balance \in Nat
      /\ t.vault.insurance_fund \in Nat /\ t.collector \in Nat
  BY <1>3, FundParts DEF Books, ProxiesTyped
<1>5. Books(chain')
  BY <1>2, <1>3, <1>4
     DEF Books, VaultTyped, ProxiesTyped, KeysTyped, DebtsTyped, Custodied, OrdersReserved,
         Totalled, Backed, SameBooks, SameOrders, SameDebts, SameLeverage
<1>6. Held(chain') = Held(t)
  <2>1. Sum(t.custody, Proxies) \in Nat /\ Sum(t.manager, Proxies) \in Nat
    BY <1>3, SumNat, KeyFacts DEF Books, ProxiesTyped, Sum
  <2>2. /\ chain'.purse + Funds(chain') = t.purse + Funds(t)
        /\ Funds(t) \in Nat /\ Funds(chain') \in Nat
    BY <1>2, <1>4 DEF Funds, SameBooks
  <2>3. chain'.custody = t.custody /\ chain'.manager = t.manager
    BY <1>2 DEF SameBooks
  <2> QED
    BY <1>4, <2>1, <2>2, <2>3 DEF Held
<1> QED
  BY <1>1, <1>2, <1>5, <1>6 DEF Sane, SameBooks

\* A transaction that moves quote around and backs its key's margin keeps the
\* books, and the other keys.
LEMMA CommitStep ==
    ASSUME Kept(chain), NEW t, NEW k, Step(chain, t, k, 0),
           t.ok => (k \in Keys => MarginBacked(t, k)),
           Commit(t)
    PROVE  t.ok /\ Kept(chain') /\ Elsewhere(chain, chain', k) /\ SameBooks(t, chain')
<1>1. /\ t.ok /\ Sane(chain') /\ chain'.ok /\ chain'.paid = 0
      /\ SameBooks(t, chain') /\ Held(chain') = Held(t)
  BY CommitFacts, StepSane
<1>2. Held(t) = Held(chain) + 0 /\ Elsewhere(chain, t, k)
  BY <1>1 DEF Step
<1>3. Held(chain) \in Nat /\ Held(chain) = TotalQuote
  BY HeldNat DEF Kept, Sane
<1>4. Elsewhere(chain, chain', k)
  BY <1>1, <1>2 DEF Elsewhere, SameBooks, SameOrders, SameDebts, SameLeverage
<1>5. ASSUME NEW i \in Keys PROVE MarginBacked(chain', i)
  <2>1. MarginBacked(chain, i)
    BY DEF Kept
  <2>2. i # k => MarginBacked(t, i)
    BY <1>2, <2>1 DEF Elsewhere, MarginBacked
  <2>3. MarginBacked(t, i)
    BY <1>1, <2>2
  <2> QED
    BY <1>1, <2>3 DEF MarginBacked, SameBooks, SameDebts, SameLeverage
<1> QED
  BY <1>1, <1>2, <1>3, <1>4, <1>5 DEF Kept

\* One that is tame on its key lends nothing and takes no collateral.
LEMMA CommitTame ==
    ASSUME Kept(chain), NEW t, NEW k, Step(chain, t, k, 0), k \in Keys => Tame(chain, t, k),
           Commit(t)
    PROVE  /\ t.ok /\ Kept(chain') /\ SameBooks(t, chain')
           /\ LendsInTime /\ CollateralStays
<1>1. t.ok
  BY DEF Commit
<1>2. k \in Keys => MarginBacked(t, k)
  BY <1>1 DEF Kept, Tame
<1>3. Kept(chain') /\ Elsewhere(chain, chain', k) /\ SameBooks(t, chain')
  BY <1>2, CommitStep
<1>4. ASSUME NEW i \in Keys
      PROVE  /\ chain.borrowed[i] \in Nat /\ chain'.borrowed[i] \in Nat
             /\ chain.quote[i] \in Nat /\ chain'.quote[i] \in Nat
  BY <1>3, KeyTypes DEF Kept
<1>5. ASSUME NEW i \in Keys
      PROVE  /\ chain'.borrowed[i] <= chain.borrowed[i]
             /\ chain'.borrowed[i] > 0 => chain.quote[i] <= chain'.quote[i]
  <2>1. CASE i = k
    BY <1>1, <1>3, <2>1 DEF Tame, SameBooks, SameDebts
  <2>2. CASE i # k
    BY <1>3, <1>4, <2>2 DEF Elsewhere
  <2> QED
    BY <2>1, <2>2
<1>6. LendsInTime
  BY <1>4, <1>5 DEF LendsInTime
<1>7. CollateralStays
  BY <1>4, <1>5 DEF CollateralStays
<1> QED
  BY <1>1, <1>3, <1>6, <1>7

\* A calm one leaves every trader its own quote, too.
LEMMA CommitCalm ==
    ASSUME Kept(chain), NEW t, NEW k, Calm(chain, t, k, 0), Commit(t)
    PROVE  Kept(chain') /\ LendsInTime /\ CollateralStays /\ FreeQuoteStays
<1>1. t.ok /\ Kept(chain') /\ SameBooks(t, chain') /\ LendsInTime /\ CollateralStays
  BY CommitTame DEF Calm
<1>2. ASSUME NEW a \in Proxies
      PROVE  ~(chain'.trading[a] + chain'.reserved[a] < chain.trading[a] + chain.reserved[a])
  <2>1. chain.trading[a] + chain.reserved[a] <= chain'.trading[a] + chain'.reserved[a]
    BY <1>1 DEF Calm, KeepsFree, Free, SameBooks
  <2>2. /\ chain.trading[a] \in Nat /\ chain.reserved[a] \in Nat
        /\ chain'.trading[a] \in Nat /\ chain'.reserved[a] \in Nat
    <3>1. Books(chain) /\ Books(chain')
      BY <1>1 DEF Kept, Sane
    <3> QED
      BY <3>1 DEF Books, ProxiesTyped
  <2> QED
    BY <2>1, <2>2
<1>3. FreeQuoteStays
  BY <1>2 DEF FreeQuoteStays
<1> QED
  BY <1>1, <1>3


\* A mint borrows on its key before the final window only, and its key holds
\* more contracts for the quote it spent.
LEMMA CommitMint ==
    ASSUME Kept(chain), NEW k \in Keys, NEW s, Calm(chain, s, k, 0),
           s.ok => /\ s.borrowed = chain.borrowed /\ s.contracts = chain.contracts,
           NEW margin, NEW lev, NEW qty, NEW cost, NEW t, Step(s, t, k, 0),
           t.ok => Minted(s, t, k, margin, lev, qty, cost),
           qty \in Nat, cost > 0 => qty > 0,
           Commit(t)
    PROVE  /\ s.ok /\ t.ok /\ Kept(chain') /\ SameBooks(t, chain')
           /\ LendsInTime /\ CollateralStays
<1>1. t.ok /\ s.ok /\ Minted(s, t, k, margin, lev, qty, cost)
  BY DEF Commit, Step
<1>2. Step(chain, t, k, 0)
  <2>1. Step(chain, t, k, 0 + 0)
    BY StepTrans DEF Kept, Calm
  <2> QED
    BY <2>1
<1>3. Kept(chain') /\ Elsewhere(chain, chain', k) /\ SameBooks(t, chain')
  BY <1>1, <1>2, CommitStep DEF Minted
<1>4. ASSUME NEW i \in Keys
      PROVE  /\ chain.borrowed[i] \in Nat /\ chain.quote[i] \in Nat /\ chain.contracts[i] \in Nat
  BY KeyTypes DEF Kept
<1>5. chain'.borrowed[k] > chain.borrowed[k] => chain.now < Expiry[k] - registry.window
  <2>1. ~IsLeveraged(lev) => chain'.borrowed[k] = chain.borrowed[k]
    BY <1>1, <1>3 DEF Minted, SameBooks, SameDebts
  <2>2. IsLeveraged(lev) => chain.now < Expiry[k] - registry.window
    <3>1. s.now = chain.now
      BY <1>1 DEF Calm, Step
    <3> QED
      BY <1>1, <3>1 DEF Minted, InMintWindow
  <2> QED
    BY <1>4, <2>1, <2>2
<1>6. chain'.contracts[k] > chain.contracts[k]
  <2>1. chain'.contracts[k] = chain.contracts[k] + qty /\ qty > 0
    BY <1>1, <1>3 DEF Minted, SameBooks, SameOrders
  <2> QED
    BY <1>4, <2>1
<1>7. LendsInTime
  BY <1>3, <1>4, <1>5 DEF LendsInTime, Elsewhere
<1>8. CollateralStays
  BY <1>3, <1>4, <1>6 DEF CollateralStays, Elsewhere
<1> QED
  BY <1>1, <1>3, <1>7, <1>8

\* No quote is paid for nothing.
LEMMA CostBuys ==
    ASSUME NEW ask \in Nat, NEW qty \in Nat
    PROVE  ask * qty \in Nat /\ (ask * qty > 0 => qty > 0)
<1>1. qty = 0 => ask * qty = 0
  OBVIOUS
<1> QED
  BY <1>1, MulNat

-----------------------------------------------------------------------------
(* The traders' actions                                                    *)

\* A deposit moves quote from outside into the trading account.
LEMMA DepositStep ==
    ASSUME Kept(chain), NEW a \in Proxies, NEW amount \in Nat, Deposit(a, amount)
    PROVE  Kept(chain') /\ LendsInTime /\ CollateralStays
<1> DEFINE p == PayIn(chain, amount)
           t == DepositQuote(p, a, amount)
<1>1. Calm(chain, p, 0, 0 - amount) /\ Sane(p)
  BY PayInFacts, CalmSane DEF Kept
<1> HIDE DEF p
<1>2. Calm(p, t, 0, amount)
  BY <1>1, DepositQuoteFacts
<1>3. Commit(t)
  BY DEF Deposit, p
<1> HIDE DEF t
<1>4. Calm(chain, t, 0, (0 - amount) + amount)
  BY <1>1, <1>2, CalmTrans DEF Kept
<1>5. Calm(chain, t, 0, 0)
  BY <1>4, CalmBy
<1> QED
  BY <1>3, <1>5, CommitCalm

\* A withdrawal moves quote of the trading account outside.
LEMMA WithdrawStep ==
    ASSUME Kept(chain), NEW a \in Proxies, NEW amount \in Nat, WithdrawQuote(a, amount)
    PROVE  Kept(chain') /\ LendsInTime /\ CollateralStays
<1> DEFINE p == TakeTrading(chain, a, amount)
           t == PayOut(p, amount)
<1>1. ASSUME NEW k PROVE Step(chain, p, k, 0 - amount) /\ Sane(p)
                         /\ (k \in Keys => Tame(chain, p, k))
  BY TakeTradingFacts, StepSane DEF Kept
<1> HIDE DEF p
<1>2. ASSUME NEW k PROVE Calm(p, t, k, amount)
  BY <1>1, PayOutFacts
<1>3. Commit(t)
  BY DEF WithdrawQuote, p
<1> HIDE DEF t
<1>4. ASSUME NEW k PROVE Step(chain, t, k, 0)
  <2>1. Step(chain, t, k, (0 - amount) + amount)
    BY <1>1, <1>2, StepTrans DEF Kept, Calm
  <2> QED
    BY <2>1
<1>5. ASSUME NEW k \in Keys PROVE Tame(chain, t, k)
  BY <1>1, <1>2, TameTrans DEF Kept, Calm
<1>6. 0 \in Keys => Tame(chain, t, 0)
  BY <1>5
<1> QED
  BY <1>3, <1>4, <1>6, CommitTame

\* A mint.
LEMMA MintStep ==
    ASSUME Kept(chain), NEW k \in Keys, NEW margin \in Nat, NEW lev \in Leverages, NEW qty \in Nat,
           NEW ask \in Nat, NEW bid \in Nat, NEW keep \in BOOLEAN,
           Mint(k, margin, lev, qty, ask, bid, keep)
    PROVE  Kept(chain') /\ LendsInTime /\ CollateralStays
<1> DEFINE cost   == ask * qty
           payout == bid * qty
           t      == ExecuteMint(chain, k, margin, lev, qty, cost, keep, payout)
<1>1. Commit(t)
  BY DEF Mint
<1>2. cost \in Nat /\ (cost > 0 => qty > 0)
  BY CostBuys
<1> HIDE DEF cost, payout
<1>3. Step(chain, t, k, 0) /\ (t.ok => Minted(chain, t, k, margin, lev, qty, cost))
  BY <1>2, ExecuteMintFacts DEF Kept
<1> HIDE DEF t
<1>4. Calm(chain, chain, k, 0)
  BY CalmSame DEF Kept
<1> QED
  BY <1>1, <1>2, <1>3, <1>4, CommitMint

\* An order reserves its margin.
LEMMA PlaceStep ==
    ASSUME Kept(chain), NEW k \in Keys, NEW margin \in Nat, NEW lev \in Leverages, NEW qty \in Nat,
           NEW maxAsk \in Nat, NEW expires \in Nat, NEW keep \in BOOLEAN,
           PlaceLimitOrder(k, margin, lev, qty, maxAsk, expires, keep)
    PROVE  Kept(chain') /\ LendsInTime /\ CollateralStays
<1> DEFINE o == [margin |-> margin, lev |-> lev, qty |-> qty,
                 maxAsk |-> maxAsk, expires |-> expires, keep |-> keep]
           t == PlaceOrder(chain, k, o)
<1>1. Commit(t)
  BY DEF PlaceLimitOrder
<1>2. o \in OrderType
  BY DEF OrderType
<1> HIDE DEF o
<1>3. Step(chain, t, k, 0) /\ Tame(chain, t, k)
  BY <1>2, PlaceOrderFacts DEF Kept
<1> HIDE DEF t
<1> QED
  BY <1>1, <1>3, CommitTame

\* Calls that only move quote around on one key: a cancellation, a redeem,
\* the recovery of a flat key's quote, triggers and the remint choice.
LEMMA QuietStep ==
    ASSUME Kept(chain), NEW k \in Keys
    PROVE  /\ CancelLimitOrder(k)
                => Kept(chain') /\ LendsInTime /\ CollateralStays /\ FreeQuoteStays
           /\ RecoverFlatKeyQuote(k)
                => Kept(chain') /\ LendsInTime /\ CollateralStays /\ FreeQuoteStays
           /\ \A tp, sl : SetAutomatedTriggers(k, tp, sl)
                => Kept(chain') /\ LendsInTime /\ CollateralStays /\ FreeQuoteStays
           /\ ClearAutomatedTriggers(k)
                => Kept(chain') /\ LendsInTime /\ CollateralStays /\ FreeQuoteStays
           /\ \A keep \in BOOLEAN : SetRemintAfterDeleverage(k, keep)
                => Kept(chain') /\ LendsInTime /\ CollateralStays /\ FreeQuoteStays
<1>1. Sane(chain)
  BY DEF Kept
<1>2. ASSUME NEW t, Calm(chain, t, k, 0), Commit(t)
      PROVE  Kept(chain') /\ LendsInTime /\ CollateralStays /\ FreeQuoteStays
  BY <1>2, CommitCalm
<1>3. ASSUME CancelLimitOrder(k)
      PROVE  Kept(chain') /\ LendsInTime /\ CollateralStays /\ FreeQuoteStays
  <2> DEFINE t == ReleaseOrder(chain, k)
  <2>1. Calm(chain, t, k, 0)
    BY <1>1, ReleaseOrderFacts
  <2>2. Commit(t)
    BY <1>3 DEF CancelLimitOrder
  <2> HIDE DEF t
  <2> QED
    BY <1>2, <2>1, <2>2
<1>4. ASSUME RecoverFlatKeyQuote(k)
      PROVE  Kept(chain') /\ LendsInTime /\ CollateralStays /\ FreeQuoteStays
  <2> DEFINE s == ClearTriggersIfFlat(chain, k)
             t == Finalize(s, k)
  <2>1. Calm(chain, s, k, 0) /\ Sane(s)
    BY <1>1, TriggerFacts, CalmSane
  <2>2. Commit(t)
    BY <1>4 DEF RecoverFlatKeyQuote
  <2> HIDE DEF s
  <2>3. Calm(s, t, k, 0)
    BY <2>1, FinalizeFacts
  <2> HIDE DEF t
  <2>4. Calm(chain, t, k, 0 + 0)
    BY <1>1, <2>1, <2>3, CalmTrans
  <2>5. Calm(chain, t, k, 0)
    BY <2>4
  <2> QED
    BY <1>2, <2>2, <2>5
<1>5. ASSUME NEW tp, NEW sl, SetAutomatedTriggers(k, tp, sl)
      PROVE  Kept(chain') /\ LendsInTime /\ CollateralStays /\ FreeQuoteStays
  <2> DEFINE t == SetTriggers(chain, k, tp, sl)
  <2>1. Calm(chain, t, k, 0)
    BY <1>1, TriggerFacts
  <2>2. Commit(t)
    BY <1>5 DEF SetAutomatedTriggers
  <2> HIDE DEF t
  <2> QED
    BY <1>2, <2>1, <2>2
<1>6. ASSUME ClearAutomatedTriggers(k)
      PROVE  Kept(chain') /\ LendsInTime /\ CollateralStays /\ FreeQuoteStays
  <2> DEFINE t == ClearTriggers(chain, k)
  <2>1. Calm(chain, t, k, 0)
    BY <1>1, TriggerFacts
  <2>2. Commit(t)
    BY <1>6 DEF ClearAutomatedTriggers
  <2> HIDE DEF t
  <2> QED
    BY <1>2, <2>1, <2>2
<1>7. ASSUME NEW keep \in BOOLEAN, SetRemintAfterDeleverage(k, keep)
      PROVE  Kept(chain') /\ LendsInTime /\ CollateralStays /\ FreeQuoteStays
  <2> DEFINE t == SetRemint(chain, k, keep)
  <2>1. Calm(chain, t, k, 0)
    BY <1>1, SetRemintFacts
  <2>2. Commit(t)
    BY <1>7 DEF SetRemintAfterDeleverage
  <2> HIDE DEF t
  <2> QED
    BY <1>2, <2>1, <2>2
<1> QED
  BY <1>3, <1>4, <1>5, <1>6, <1>7


\* Bids are amounts, whatever the oracle said.
LEMMA BidsNat == ASSUME NEW k, NEW bid \in BidsFor(k) PROVE bid \in Nat
BY TradeAssumption DEF BidsFor

\* A redeem: by the owner, or by anyone whose trigger is met.
LEMMA RedeemStep ==
    ASSUME Kept(chain), NEW k \in Keys, NEW qty \in Nat, NEW bid \in Nat, Redeem(k, qty, bid)
    PROVE  Kept(chain') /\ LendsInTime /\ CollateralStays /\ FreeQuoteStays
<1> DEFINE payout == bid * qty
           t == RepayFromPayout(RedeemContracts(chain, k, qty, payout), k, payout, FALSE, FALSE)
<1>1. Commit(t)
  BY DEF Redeem
<1>2. payout \in Nat
  BY MulNat
<1> HIDE DEF payout
<1>3. Calm(chain, t, k, 0)
  BY <1>2, RedeemAndRepayFacts DEF Kept
<1> HIDE DEF t
<1> QED
  BY <1>1, <1>3, CommitCalm

\* A hand payment out of what was just taken elsewhere.
LEMMA HandStep ==
    ASSUME Kept(chain), NEW k \in Keys, NEW amount \in Nat, NEW s, NEW t,
           Step(chain, s, k, 0 - amount), Tame(chain, s, k),
           t = RepayByHand(Accrue(s), k, amount), Commit(t)
    PROVE  Kept(chain') /\ LendsInTime /\ CollateralStays
<1> DEFINE a == Accrue(s)
<1>1. Sane(chain) /\ Sane(s)
  BY StepSane DEF Kept
<1>2. /\ Calm(s, a, k, 0) /\ Sane(a)
      /\ a.ok => Accrued(a)
  BY <1>1, AccrueFacts, CalmSane
<1>3. t = RepayByHand(a, k, amount)
  OBVIOUS
<1> HIDE DEF a
<1>4. /\ Step(a, t, k, amount)
      /\ t.ok => /\ MarginBacked(t, k) /\ t.borrowed[k] <= a.borrowed[k]
                 /\ a.quote[k] <= t.quote[k]
  BY <1>2, <1>3, RepayByHandFacts
<1>5. Tame(a, t, k)
  BY <1>4 DEF Tame
<1>6. /\ Step(chain, a, k, (0 - amount) + 0)
      /\ Tame(chain, a, k)
  BY <1>1, <1>2, StepTrans, TameTrans DEF Calm
<1>7. Step(chain, t, k, ((0 - amount) + 0) + amount) /\ Tame(chain, t, k)
  <2>1. ((0 - amount) + 0) \in Int
    OBVIOUS
  <2> QED
    BY <1>1, <1>4, <1>5, <1>6, <2>1, StepTrans, TameTrans
<1>8. Step(chain, t, k, 0)
  BY <1>7
<1> QED
  BY <1>7, <1>8, CommitTame

\* From the trading account.
LEMMA RepayDebtStep ==
    ASSUME Kept(chain), NEW k \in Keys, NEW amount \in Nat, RepayDebtFor(k, amount)
    PROVE  Kept(chain') /\ LendsInTime /\ CollateralStays
<1> DEFINE s == TakeTrading(chain, ProxyOf[k], amount)
           t == RepayByHand(Accrue(s), k, amount)
<1>1. Commit(t)
  BY DEF RepayDebtFor
<1>2. Step(chain, s, k, 0 - amount) /\ Tame(chain, s, k)
  BY KeyFacts, TakeTradingFacts DEF Kept
<1> HIDE DEF s, t
<1>3. t = RepayByHand(Accrue(s), k, amount)
  BY DEF t
<1> QED
  BY <1>1, <1>2, <1>3, HandStep

\* From outside.
LEMMA DeleverageStep ==
    ASSUME Kept(chain), NEW k \in Keys, NEW amount \in Nat, DeleverageAccountBalance(k, amount)
    PROVE  Kept(chain') /\ LendsInTime /\ CollateralStays
<1> DEFINE s == PayIn(chain, amount)
           t == RepayByHand(Accrue(s), k, amount)
<1>1. Commit(t)
  BY DEF DeleverageAccountBalance
<1>2. Step(chain, s, k, 0 - amount) /\ Tame(chain, s, k)
  BY PayInFacts DEF Kept, Calm
<1> HIDE DEF s, t
<1>3. t = RepayByHand(Accrue(s), k, amount)
  BY DEF t
<1> QED
  BY <1>1, <1>2, <1>3, HandStep

\* Any action of a trader.
LEMMA TraderStep ==
    ASSUME Kept(chain), TraderNext
    PROVE  Kept(chain') /\ LendsInTime /\ CollateralStays
<1>1. /\ Deposits \subseteq Nat /\ Margins \subseteq Nat /\ Leverages \subseteq Nat
      /\ Quantities \subseteq Nat /\ OrderExpiries \subseteq Nat /\ Repayments \subseteq Nat
      /\ Asks \subseteq Nat /\ Bids \subseteq Nat /\ Keeps \subseteq BOOLEAN
  BY TradeAssumption
<1>2. ASSUME NEW a \in Proxies, NEW d \in Deposits, Deposit(a, d) \/ WithdrawQuote(a, d)
      PROVE  Kept(chain') /\ LendsInTime /\ CollateralStays
  BY <1>1, <1>2, DepositStep, WithdrawStep
<1>3. ASSUME NEW k \in Keys, NEW m \in Margins, NEW lev \in Leverages, NEW qty \in Quantities,
             NEW keep \in Keeps, NEW ask \in Asks, NEW bid \in Bids,
             Mint(k, m, lev, qty, ask, bid, keep)
      PROVE  Kept(chain') /\ LendsInTime /\ CollateralStays
  BY <1>1, <1>3, MintStep
<1>4. ASSUME NEW k \in Keys, NEW m \in Margins, NEW lev \in Leverages, NEW qty \in Quantities,
             NEW keep \in Keeps, NEW ask \in Asks, NEW e \in OrderExpiries,
             PlaceLimitOrder(k, m, lev, qty, ask, e, keep)
      PROVE  Kept(chain') /\ LendsInTime /\ CollateralStays
  BY <1>1, <1>4, PlaceStep
<1>5. ASSUME NEW k \in Keys, NEW qty \in Quantities, NEW bid \in BidsFor(k), Redeem(k, qty, bid)
      PROVE  Kept(chain') /\ LendsInTime /\ CollateralStays
  BY <1>1, <1>5, BidsNat, RedeemStep
<1>6. ASSUME NEW k \in Keys, NEW amount \in Repayments,
             RepayDebtFor(k, amount) \/ DeleverageAccountBalance(k, amount)
      PROVE  Kept(chain') /\ LendsInTime /\ CollateralStays
  BY <1>1, <1>6, RepayDebtStep, DeleverageStep
<1>7. ASSUME NEW k \in Keys,
             \/ CancelLimitOrder(k) \/ RecoverFlatKeyQuote(k) \/ ClearAutomatedTriggers(k)
             \/ \E tp, sl \in TriggerPremiums : SetAutomatedTriggers(k, tp, sl)
             \/ \E keep \in Keeps : SetRemintAfterDeleverage(k, keep)
      PROVE  Kept(chain') /\ LendsInTime /\ CollateralStays
  BY <1>1, <1>7, QuietStep
<1> QED
  BY <1>2, <1>3, <1>4, <1>5, <1>6, <1>7 DEF TraderNext

-----------------------------------------------------------------------------
(* The actions of keepers, or of anyone                                    *)

\* Filling an order: its margin comes out of the reserve and pays for the
\* contracts; the other proxies are not touched.
LEMMA FillStep ==
    ASSUME Kept(chain), NEW k \in Keys, NEW ask \in Nat, NEW bid \in Nat,
           FillLimitOrder(k, ask, bid)
    PROVE  Kept(chain') /\ LendsInTime /\ CollateralStays /\ FreeQuoteStays
<1> DEFINE o      == chain.order[k]
           qty    == o.qty
           cost   == ask * qty
           payout == bid * qty
           s      == ReleaseOrder(chain, k)
           t      == ExecuteMint(s, k, o.margin, o.lev, qty, cost, o.keep, payout)
<1>1. Commit(t) /\ o # NoOrder
  BY DEF FillLimitOrder
<1>2. /\ o.margin \in Nat /\ o.lev \in Leverages /\ qty \in Nat /\ o.keep \in BOOLEAN
  <2>1. o \in OrderType
    <3>1. Sane(chain) /\ chain.ok
      BY DEF Kept
    <3>2. chain.order[k] \in OrderType \cup {NoOrder}
      BY <3>1, KeyTypes
    <3> QED
      BY <1>1, <3>2
  <2> HIDE DEF o
  <2> QED
    BY <2>1 DEF OrderType
<1>3. cost \in Nat /\ (cost > 0 => qty > 0)
  BY <1>2, CostBuys
<1>4. /\ Calm(chain, s, k, 0) /\ Sane(s)
      /\ s.ok => /\ chain.order[k] # NoOrder /\ s.order[k] = NoOrder
                 /\ s.quote = chain.quote /\ SameDebts(chain, s) /\ s.contracts = chain.contracts
  BY ReleaseOrderFacts, CalmSane DEF Kept
<1> DEFINE margin == o.margin
           lev    == o.lev
           keep   == o.keep
<1> HIDE DEF s, cost, payout, qty, margin, lev, keep
<1>5. t = ExecuteMint(s, k, margin, lev, qty, cost, keep, payout)
  BY DEF margin, lev, keep
<1>6. margin \in Nat /\ lev \in Leverages /\ keep \in BOOLEAN
  BY <1>2 DEF margin, lev, keep
<1> HIDE DEF o, t
<1>7. Step(s, t, k, 0) /\ (t.ok => Minted(s, t, k, margin, lev, qty, cost))
  BY <1>2, <1>3, <1>4, <1>5, <1>6, ExecuteMintFacts
<1>8. s.ok => s.borrowed = chain.borrowed /\ s.contracts = chain.contracts
  BY <1>4 DEF SameDebts
<1>9. /\ s.ok /\ t.ok /\ Kept(chain') /\ SameBooks(t, chain')
      /\ LendsInTime /\ CollateralStays
  BY <1>1, <1>2, <1>3, <1>4, <1>7, <1>8, CommitMint
<1>10. FreeQuoteStays
  <2> SUFFICES ASSUME NEW a \in Proxies,
                      chain'.trading[a] + chain'.reserved[a] < chain.trading[a] + chain.reserved[a]
               PROVE  \E i \in KeysOf(a) : chain.order[i] # NoOrder /\ chain'.order[i] = NoOrder
                                           /\ chain'.contracts[i] > chain.contracts[i]
    BY DEF FreeQuoteStays
  <2>1. a = ProxyOf[k]
    <3> SUFFICES ASSUME a # ProxyOf[k] PROVE FALSE
      OBVIOUS
    <3>1. chain.trading[a] + chain.reserved[a] <= s.trading[a] + s.reserved[a]
      BY <1>4, <1>9 DEF Calm, KeepsFree, Free
    <3>2. /\ s.trading \in [Proxies -> Nat] /\ s.reserved \in [Proxies -> Nat]
          /\ chain.trading \in [Proxies -> Nat] /\ chain.reserved \in [Proxies -> Nat]
      BY <1>4, <1>9 DEF Kept, Sane, Books, ProxiesTyped
    <3>3. chain'.trading[a] = s.trading[a] /\ chain'.reserved[a] = s.reserved[a]
      BY <1>7, <1>9, <3>2 DEF Minted, SameBooks
    <3>4. /\ s.trading[a] \in Nat /\ s.reserved[a] \in Nat
          /\ chain.trading[a] \in Nat /\ chain.reserved[a] \in Nat
      BY <3>2
    <3> QED
      BY <3>1, <3>3, <3>4
  <2>2. k \in KeysOf(a)
    BY <2>1 DEF KeysOf
  <2>3. chain.order[k] # NoOrder /\ chain'.order[k] = NoOrder
    BY <1>4, <1>7, <1>9 DEF Minted, SameBooks, SameOrders
  <2>4. chain'.contracts[k] > chain.contracts[k]
    <3>1. chain'.contracts[k] = chain.contracts[k] + qty /\ qty > 0
      BY <1>3, <1>7, <1>8, <1>9 DEF Minted, SameBooks, SameOrders
    <3>2. chain.contracts[k] \in Nat
      BY KeyTypes DEF Kept
    <3> QED
      BY <1>2, <3>1, <3>2
  <2> QED
    BY <2>2, <2>3, <2>4
<1> QED
  BY <1>9, <1>10


\* An order that expired, settlements, force-deleverages, repayments after
\* expiry, liquidations, write-offs and surpluses.
LEMMA CloseStep ==
    ASSUME Kept(chain), NEW k \in Keys, NEW qty \in Nat, NEW bid \in Nat, NEW ask \in Nat,
           NEW topUp \in Nat,
           \/ ExpireLimitOrder(k)
           \/ Commit(SettleTx(chain, k, qty, bid))
           \/ ForceDeleverageAtExpiry(k, qty, bid, ask)
           \/ ForceRepayPostExpiry(k, qty, bid)
           \/ FlashLiquidate(k, qty, bid, topUp)
           \/ WriteOffFlatBorrow(k)
    PROVE  Kept(chain') /\ LendsInTime /\ CollateralStays /\ FreeQuoteStays
<1>1. Sane(chain) /\ chain.ok
  BY DEF Kept
<1>2. ASSUME NEW t, Calm(chain, t, k, 0), Commit(t)
      PROVE  Kept(chain') /\ LendsInTime /\ CollateralStays /\ FreeQuoteStays
  BY <1>2, CommitCalm
<1>3. CASE ExpireLimitOrder(k)
  <2> DEFINE t == ReleaseOrder(chain, k)
  <2>1. Calm(chain, t, k, 0)
    BY <1>1, ReleaseOrderFacts
  <2>2. Commit(t)
    BY <1>3 DEF ExpireLimitOrder
  <2> HIDE DEF t
  <2> QED
    BY <1>2, <2>1, <2>2
<1>4. CASE Commit(SettleTx(chain, k, qty, bid))
  <2> DEFINE t == SettleTx(chain, k, qty, bid)
  <2>1. Calm(chain, t, k, 0) /\ Commit(t)
    BY <1>1, <1>4, SettleFacts
  <2> HIDE DEF t
  <2> QED
    BY <1>2, <2>1
<1>5. CASE ForceDeleverageAtExpiry(k, qty, bid, ask)
  <2> DEFINE t == ForceDeleverageTx(chain, k, qty, bid, ask)
  <2>1. Calm(chain, t, k, 0)
    BY <1>1, ForceDeleverageFacts
  <2>2. Commit(t)
    BY <1>5 DEF ForceDeleverageAtExpiry
  <2> HIDE DEF t
  <2> QED
    BY <1>2, <2>1, <2>2
<1>6. CASE ForceRepayPostExpiry(k, qty, bid)
  <2> DEFINE t == ForceRepayTx(chain, k, qty, bid)
  <2>1. Calm(chain, t, k, 0)
    BY <1>1, ForceRepayFacts
  <2>2. Commit(t)
    BY <1>6 DEF ForceRepayPostExpiry
  <2> HIDE DEF t
  <2> QED
    BY <1>2, <2>1, <2>2
<1>7. CASE FlashLiquidate(k, qty, bid, topUp)
  <2> DEFINE t == LiquidateTx(chain, k, qty, bid, topUp)
  <2>1. Calm(chain, t, k, 0)
    BY <1>1, LiquidateFacts
  <2>2. Commit(t)
    BY <1>7 DEF FlashLiquidate
  <2> HIDE DEF t
  <2> QED
    BY <1>2, <2>1, <2>2
<1>8. CASE WriteOffFlatBorrow(k)
  <2> DEFINE t == WriteOffKey(chain, k)
  <2>1. Calm(chain, t, k, 0)
    BY <1>1, WriteOffKeyFacts
  <2>2. Commit(t)
    BY <1>8 DEF WriteOffFlatBorrow
  <2> HIDE DEF t
  <2> QED
    BY <1>2, <2>1, <2>2
<1> QED
  BY <1>3, <1>4, <1>5, <1>6, <1>7, <1>8

\* What waits in the manager moves to the trading account.
LEMMA SurplusStep ==
    ASSUME Kept(chain), NEW k \in Keys, NEW amount \in Nat, RecoverManagerSurplus(k, amount)
    PROVE  Kept(chain') /\ LendsInTime /\ CollateralStays /\ FreeQuoteStays
<1> DEFINE s == TakeFromManager(chain, k, amount)
           t == CreditTrading(s, ProxyOf[k], amount)
<1>1. Commit(t)
  BY DEF RecoverManagerSurplus
<1>2. Calm(chain, s, k, 0 - amount) /\ Sane(s)
  BY TakeFromManagerFacts, CalmSane DEF Kept
<1> HIDE DEF s
<1>3. Calm(s, t, k, amount)
  BY <1>2, KeyFacts, CreditTradingFacts
<1> HIDE DEF t
<1>4. Calm(chain, t, k, (0 - amount) + amount)
  BY <1>2, <1>3, CalmTrans DEF Kept
<1>5. Calm(chain, t, k, 0)
  BY <1>4, CalmBy
<1> QED
  BY <1>1, <1>5, CommitCalm

\* Any action of a keeper.
LEMMA KeeperStep ==
    ASSUME Kept(chain), KeeperNext
    PROVE  Kept(chain') /\ LendsInTime /\ CollateralStays /\ FreeQuoteStays
<1>1. /\ Quantities \subseteq Nat /\ Asks \subseteq Nat /\ Bids \subseteq Nat /\ TopUps \subseteq Nat
      /\ Recoveries \subseteq Nat
  BY TradeAssumption
<1>2. ASSUME NEW k \in Keys, NEW ask \in Asks, NEW bid \in Bids, FillLimitOrder(k, ask, bid)
      PROVE  Kept(chain') /\ LendsInTime /\ CollateralStays /\ FreeQuoteStays
  BY <1>1, <1>2, FillStep
<1>3. ASSUME NEW k \in Keys, ExpireLimitOrder(k) \/ WriteOffFlatBorrow(k)
      PROVE  Kept(chain') /\ LendsInTime /\ CollateralStays /\ FreeQuoteStays
  <2>1. 0 \in Nat
    OBVIOUS
  <2> QED
    BY <1>3, <2>1, CloseStep
<1>4. ASSUME NEW k \in Keys, NEW qty \in Quantities, SettleExpiredPosition(k, qty)
      PROVE  Kept(chain') /\ LendsInTime /\ CollateralStays /\ FreeQuoteStays
  <2>1. PICK bid \in BidsFor(k) : Commit(SettleTx(chain, k, qty, bid))
    BY <1>4 DEF SettleExpiredPosition
  <2> QED
    BY <1>1, <2>1, BidsNat, CloseStep
<1>5. ASSUME NEW k \in Keys, NEW qty \in Quantities, NEW bid \in BidsFor(k),
             RedeemByTrigger(k, qty, bid)
      PROVE  Kept(chain') /\ LendsInTime /\ CollateralStays /\ FreeQuoteStays
  BY <1>1, <1>5, BidsNat, RedeemStep DEF RedeemByTrigger
<1>6. ASSUME NEW k \in Keys, NEW qty \in Quantities, NEW bid \in BidsFor(k),
             ForceRepayPostExpiry(k, qty, bid)
      PROVE  Kept(chain') /\ LendsInTime /\ CollateralStays /\ FreeQuoteStays
  <2>1. bid \in Nat /\ qty \in Nat
    BY <1>1, BidsNat
  <2> QED
    BY <1>6, <2>1, CloseStep
<1>7. ASSUME NEW k \in Keys, NEW qty \in Quantities, NEW bid \in BidsFor(k), NEW ask \in Asks,
             ForceDeleverageAtExpiry(k, qty, bid, ask)
      PROVE  Kept(chain') /\ LendsInTime /\ CollateralStays /\ FreeQuoteStays
  <2>1. bid \in Nat /\ qty \in Nat /\ ask \in Nat
    BY <1>1, BidsNat
  <2> QED
    BY <1>7, <2>1, CloseStep
<1>8. ASSUME NEW k \in Keys, NEW qty \in Quantities, NEW bid \in BidsFor(k), NEW topUp \in TopUps,
             FlashLiquidate(k, qty, bid, topUp)
      PROVE  Kept(chain') /\ LendsInTime /\ CollateralStays /\ FreeQuoteStays
  <2>1. bid \in Nat /\ qty \in Nat /\ topUp \in Nat
    BY <1>1, BidsNat
  <2> QED
    BY <1>8, <2>1, CloseStep
<1>9. ASSUME NEW k \in Keys, NEW topUp \in TopUps, FlashLiquidate(k, 0, 0, topUp)
      PROVE  Kept(chain') /\ LendsInTime /\ CollateralStays /\ FreeQuoteStays
  <2>1. 0 \in Nat /\ topUp \in Nat
    BY <1>1
  <2> QED
    BY <1>9, <2>1, CloseStep
<1>10. ASSUME NEW k \in Keys, NEW amount \in Recoveries,
              RecoverManagerSurplus(k, amount)
       PROVE  Kept(chain') /\ LendsInTime /\ CollateralStays /\ FreeQuoteStays
  <2>1. amount \in Nat
    BY <1>1
  <2> QED
    BY <1>10, <2>1, SurplusStep
<1> QED
  BY <1>2, <1>3, <1>4, <1>5, <1>6, <1>7, <1>8, <1>9, <1>10 DEF KeeperNext

-----------------------------------------------------------------------------
(* LPs, the admin, the clock and Predict                                   *)

\* An LP's deposit.
LEMMA LiquidityStep ==
    ASSUME Kept(chain), NEW amount \in Nat, DepositLiquidity(amount)
    PROVE  Kept(chain') /\ LendsInTime /\ CollateralStays /\ FreeQuoteStays
<1> DEFINE p == PayIn(chain, amount)
           a == Accrue(p)
           t == Supply(a, amount)
<1>1. Commit(t)
  BY DEF DepositLiquidity
<1>2. Sane(chain) /\ Calm(chain, p, 0, 0 - amount) /\ Sane(p)
  BY PayInFacts, CalmSane DEF Kept
<1> HIDE DEF p
<1>3. Calm(p, a, 0, 0) /\ Sane(a)
  BY <1>2, AccrueFacts, CalmSane
<1> HIDE DEF a
<1>4. Calm(a, t, 0, amount)
  BY <1>3, SupplyFacts
<1> HIDE DEF t
<1>5. Calm(chain, a, 0, (0 - amount) + 0)
  BY <1>2, <1>3, CalmTrans
<1>6. Calm(chain, t, 0, ((0 - amount) + 0) + amount)
  <2>1. ((0 - amount) + 0) \in Int
    OBVIOUS
  <2> QED
    BY <1>2, <1>4, <1>5, <2>1, CalmTrans
<1>7. Calm(chain, t, 0, 0)
  BY <1>6, CalmBy
<1> QED
  BY <1>1, <1>7, CommitCalm

\* Anyone may bring the vault's interest up to date.
LEMMA SynchronizeStep ==
    ASSUME Kept(chain), SynchronizeProxyAccounting
    PROVE  Kept(chain') /\ LendsInTime /\ CollateralStays /\ FreeQuoteStays
<1> DEFINE t == Accrue(chain)
<1>1. Commit(t) /\ Calm(chain, t, 0, 0)
  BY AccrueFacts DEF Kept, SynchronizeProxyAccounting
<1> HIDE DEF t
<1> QED
  BY <1>1, CommitCalm

\* A redeem outside LeverX pays the manager.
LEMMA OutsideStep ==
    ASSUME Kept(chain), NEW k \in Keys, RedeemOutside(k)
    PROVE  Kept(chain') /\ LendsInTime /\ CollateralStays /\ FreeQuoteStays
<1>1. PICK bid \in BidsFor(k) :
        Commit(RedeemContracts(chain, k, chain.contracts[k], bid * chain.contracts[k]))
  BY DEF RedeemOutside
<1> DEFINE qty    == chain.contracts[k]
           payout == bid * qty
           t      == RedeemContracts(chain, k, qty, payout)
<1>2. qty \in Nat
  BY KeyTypes DEF Kept
<1>3. payout \in Nat
  BY <1>2, BidsNat, MulNat
<1>4. Commit(t)
  BY <1>1
<1> HIDE DEF qty, payout
<1>5. Calm(chain, t, k, 0)
  BY <1>2, <1>3, RedeemFacts DEF Kept
<1> HIDE DEF t
<1> QED
  BY <1>4, <1>5, CommitCalm

\* The shared objects stay as they are, the admin's choices and the oracle's
\* results included.
LEMMA IdleStep ==
    ASSUME Kept(chain), UNCHANGED chain
    PROVE  Kept(chain') /\ LendsInTime /\ CollateralStays /\ FreeQuoteStays
<1>1. chain' = chain
  OBVIOUS
<1>2. \A i \in Keys : /\ chain.borrowed[i] \in Nat /\ chain.quote[i] \in Nat
  BY KeyTypes DEF Kept
<1>3. \A a \in Proxies : chain.trading[a] \in Nat /\ chain.reserved[a] \in Nat
  BY DEF Kept, Sane, Books, ProxiesTyped
<1>4. LendsInTime
  BY <1>1, <1>2 DEF LendsInTime
<1>5. CollateralStays
  BY <1>1, <1>2 DEF CollateralStays
<1>6. FreeQuoteStays
  BY <1>1, <1>3 DEF FreeQuoteStays
<1> QED
  BY <1>1, <1>4, <1>5, <1>6

\* Time passes.
LEMMA TickStep ==
    ASSUME Kept(chain), NEW d \in Nat, Tick(d)
    PROVE  Kept(chain') /\ LendsInTime /\ CollateralStays /\ FreeQuoteStays
<1>1. Sane(chain) /\ Books(chain) /\ chain.ok
  BY DEF Kept, Sane
<1>2. /\ IsContext(chain') /\ chain'.now = chain.now + d /\ chain'.paid = chain.paid
      /\ chain'.ok = chain.ok /\ chain'.vault = chain.vault /\ chain'.collector = chain.collector
      /\ chain'.purse = chain.purse /\ SameWallets(chain, chain') /\ chain'.quote = chain.quote
      /\ SameOrders(chain, chain') /\ SameDebts(chain, chain') /\ SameLeverage(chain, chain')
  BY <1>1 DEF Tick, Sane, IsContext, Fields, SameWallets, SameOrders, SameDebts, SameLeverage
<1>3. /\ chain.now \in Nat /\ chain.vault.last_accrue_ms <= chain.now
      /\ chain.vault.last_accrue_ms \in Nat
  BY <1>1 DEF Books, VaultTyped, VaultType
<1>4. chain'.now \in Nat /\ chain.vault.last_accrue_ms <= chain'.now
  BY <1>2, <1>3
<1>5. Books(chain')
  BY <1>1, <1>2, <1>4
     DEF Books, VaultTyped, ProxiesTyped, KeysTyped, DebtsTyped, Custodied, OrdersReserved,
         Totalled, Backed, SameWallets, SameOrders, SameDebts, SameLeverage
<1>6. Held(chain') = Held(chain)
  BY <1>2 DEF Held, Funds, SameWallets
<1>7. Kept(chain')
  BY <1>2, <1>5, <1>6 DEF Kept, Sane, MarginBacked, SameDebts, SameLeverage
<1>8. \A i \in Keys : /\ chain.borrowed[i] \in Nat /\ chain.quote[i] \in Nat
  BY KeyTypes DEF Kept
<1>9. \A a \in Proxies : chain.trading[a] \in Nat /\ chain.reserved[a] \in Nat
  BY <1>1 DEF Books, ProxiesTyped
<1>10. LendsInTime
  BY <1>2, <1>8 DEF LendsInTime, SameDebts
<1>11. CollateralStays
  BY <1>2, <1>8 DEF CollateralStays
<1>12. FreeQuoteStays
  BY <1>2, <1>9 DEF FreeQuoteStays, SameWallets
<1> QED
  BY <1>7, <1>10, <1>11, <1>12

\* Any other action.
LEMMA WorldStepKept ==
    ASSUME Kept(chain), WorldNext
    PROVE  Kept(chain') /\ LendsInTime /\ CollateralStays /\ FreeQuoteStays
<1>1. Deposits \subseteq Nat /\ Ticks \subseteq Nat
  BY TradeAssumption
<1>2. ASSUME \/ \E paused \in BOOLEAN : SetTradingPaused(paused)
             \/ \E bps \in LiquidationChoices : SetLiquidationBps(bps)
             \/ \E w \in WindowChoices : SetFinalWindowMs(w)
             \/ \E k \in Keys : \E r \in {"won", "lost"} : OracleSettles(k, r)
      PROVE  Kept(chain') /\ LendsInTime /\ CollateralStays /\ FreeQuoteStays
  <2>1. UNCHANGED chain
    BY <1>2 DEF SetTradingPaused, SetLiquidationBps, SetFinalWindowMs, OracleSettles
  <2> QED
    BY <2>1, IdleStep
<1> QED
  BY <1>1, <1>2, SynchronizeStep, LiquidityStep, TickStep, OutsideStep DEF WorldNext


-----------------------------------------------------------------------------
(* The theorems                                                            *)

\* Nothing sums to nothing.
LEMMA SumOfZeros ==
    ASSUME NEW K, IsFiniteSet(K), NEW S \in SUBSET K
    PROVE  Sum([i \in K |-> 0], S) = 0
<1>1. IsFiniteSet(S)
  BY FS_Subset
<1>2. Sum([i \in S |-> 0], S) = 0
  BY <1>1, SumZero DEF Sum
<1>3. \A i \in S : [j \in S |-> 0][i] = [j \in K |-> 0][i]
  OBVIOUS
<1>4. Sum([i \in S |-> 0], S) = Sum([i \in K |-> 0], S)
  BY <1>3, SumSame DEF Sum
<1> QED
  BY <1>2, <1>4

\* The system starts with all its quote outside and empty books.
LEMMA InitKept == ASSUME Init PROVE Kept(chain)
<1> DEFINE zeroKeys == [k \in Keys |-> 0]
           zeroProxies == [a \in Proxies |-> 0]
<1>1. /\ chain.vault = EmptyVault(Rate) /\ chain.collector = 0 /\ chain.paid = 0
      /\ chain.now = 1 /\ chain.ok /\ chain.purse = TotalQuote
      /\ chain.custody = zeroProxies /\ chain.trading = zeroProxies
      /\ chain.reserved = zeroProxies /\ chain.debtTotal = zeroProxies
      /\ chain.manager = zeroProxies
      /\ chain.quote = zeroKeys /\ chain.borrowed = zeroKeys /\ chain.margin = zeroKeys
      /\ chain.contracts = zeroKeys
      /\ chain.leverage = [k \in Keys |-> Bps] /\ chain.remint = [k \in Keys |-> TRUE]
      /\ chain.order = [k \in Keys |-> NoOrder]
  BY DEF Init
<1>2. IsContext(chain)
  BY DEF Init, IsContext, Fields
<1>3. VaultTyped(chain) /\ Covered(chain.vault)
  <2>1. EmptyVault(Rate) \in VaultType
    BY TradeAssumption DEF EmptyVault, VaultType
  <2> QED
    BY <1>1, <2>1 DEF VaultTyped, Covered, EmptyVault
<1>4. zeroProxies \in [Proxies -> Nat] /\ zeroKeys \in [Keys -> Nat]
  OBVIOUS
<1>5. /\ \A a \in Proxies : Sum(zeroKeys, KeysOf(a)) = 0
      /\ Sum(zeroKeys, Keys) = 0 /\ Sum(zeroProxies, Proxies) = 0
  BY KeyFacts, SumOfZeros
<1>6. RestingMargin(chain.order) = zeroKeys
  BY <1>1 DEF RestingMargin
<1> HIDE DEF zeroKeys, zeroProxies
<1>7. ProxiesTyped(chain) /\ KeysTyped(chain) /\ DebtsTyped(chain)
  <2>1. ProxiesTyped(chain)
    BY <1>1, <1>4, TradeAssumption DEF ProxiesTyped
  <2>2. KeysTyped(chain)
    BY <1>1, <1>4 DEF KeysTyped
  <2>3. DebtsTyped(chain)
    BY <1>1, <1>4, UnitLeverage DEF DebtsTyped
  <2> QED
    BY <2>1, <2>2, <2>3
<1>8. Custodied(chain) /\ OrdersReserved(chain) /\ Totalled(chain) /\ Backed(chain)
  <2>1. \A a \in Proxies : zeroProxies[a] = 0
    BY DEF zeroProxies
  <2>2. chain.vault.total_principal_borrowed = 0
    BY <1>1 DEF EmptyVault
  <2> QED
    BY <1>1, <1>5, <1>6, <2>1, <2>2 DEF Custodied, OrdersReserved, Totalled, Backed
<1>9. Held(chain) = TotalQuote
  <2>1. Funds(chain) = 0
    BY <1>1 DEF Funds, EmptyVault
  <2>2. TotalQuote \in Nat
    BY TradeAssumption
  <2> QED
    BY <1>1, <1>5, <2>1, <2>2 DEF Held
<1>10. \A k \in Keys : MarginBacked(chain, k)
  BY <1>1 DEF MarginBacked, zeroKeys
<1> QED
  BY <1>1, <1>2, <1>3, <1>7, <1>8, <1>9, <1>10 DEF Kept, Sane, Books

\* Every step keeps what is kept.
LEMMA StepKept ==
    ASSUME Kept(chain), [Next]_vars
    PROVE  /\ Kept(chain') /\ LendsInTime /\ CollateralStays
           /\ TraderNext \/ FreeQuoteStays
<1>1. CASE TraderNext
  BY <1>1, TraderStep
<1>2. CASE KeeperNext
  BY <1>2, KeeperStep
<1>3. CASE WorldNext
  BY <1>3, WorldStepKept
<1>4. CASE UNCHANGED vars
  BY <1>4, IdleStep DEF vars
<1> QED
  BY <1>1, <1>2, <1>3, <1>4 DEF Next

\* The inductive invariant of the trading contracts: between transactions the
\* books balance, all the quote is there, and margin comes with a debt.
THEOREM BooksAreKept == Spec => []Kept(chain)
<1>1. Init => Kept(chain)
  BY InitKept
<1>2. Kept(chain) /\ [Next]_vars => Kept(chain)'
  BY StepKept
<1> QED
  BY <1>1, <1>2, PTL DEF Spec

\* Every ledger keeps its type: no unsigned subtraction underflows in a
\* transaction that commits.
THEOREM LedgersKeepTheirTypes == Spec => []TypeOK
<1>1. Kept(chain) => TypeOK
  BY DEF Kept, Sane, Books, VaultTyped, ProxiesTyped, KeysTyped, DebtsTyped, Leverage, TypeOK
<1> QED
  BY <1>1, BooksAreKept, PTL

\* The balance manager of a proxy holds what its ledgers say (every
\* user_proxy.move function moves coins and ledger entries together).
THEOREM CoinsHaveOwners == Spec => []CustodyMatchesLedgers
<1>1. Kept(chain) => CustodyMatchesLedgers
  BY DEF Kept, Sane, Books, Custodied, CustodyMatchesLedgers
<1> QED
  BY <1>1, BooksAreKept, PTL

\* The reserve and the debt of a proxy are the sums over its keys, by
\* whichever path orders and debts come and go.
THEOREM TotalsFollowTheKeys == Spec => []TotalsMatchKeys
<1>1. Kept(chain) => TotalsMatchKeys
  BY DEF Kept, Sane, Books, OrdersReserved, Totalled, TotalsMatchKeys, ReserveMatchesOrders,
         DebtTotalsMatch
<1> QED
  BY <1>1, BooksAreKept, PTL

\* No transaction mints or loses quote.
THEOREM NoQuoteIsLost == Spec => []QuoteConserved
<1>1. Kept(chain) => QuoteConserved
  <2> SUFFICES ASSUME Kept(chain) PROVE QuoteConserved
    OBVIOUS
  <2>1. /\ chain.purse \in Nat /\ chain.vault.balance \in Nat /\ chain.vault.insurance_fund \in Nat
        /\ chain.collector \in Nat /\ chain.paid = 0 /\ Held(chain) = TotalQuote
    BY FundParts DEF Kept, Sane, Books, ProxiesTyped
  <2>2. Sum(chain.custody, Proxies) \in Nat /\ Sum(chain.manager, Proxies) \in Nat
    BY SumNat, KeyFacts DEF Kept, Sane, Books, ProxiesTyped, Sum
  <2> QED
    BY <2>1, <2>2 DEF QuoteConserved, Held, Funds
<1> QED
  BY <1>1, BooksAreKept, PTL

\* A key whose borrow is gone has no posted margin that
\* effective_health_debt could fall back on.
THEOREM MarginGoesWithTheDebt == Spec => []MarginDebtOnlyWithBorrow
<1>1. Kept(chain) => MarginDebtOnlyWithBorrow
  BY DEF Kept, MarginBacked, MarginDebtOnlyWithBorrow
<1> QED
  BY <1>1, BooksAreKept, PTL

\* What the keys owe is part of the principal the vault recorded, and the
\* vault's debt covers it: a repayment or a write-off of a key never asks
\* apply_repayment for more than there is.
THEOREM DebtsAreBacked ==
    Spec => [](/\ Covered(chain.vault)
               /\ Sum(chain.borrowed, Keys) <= chain.vault.total_principal_borrowed)
<1>1. Kept(chain) => /\ Covered(chain.vault)
                     /\ Sum(chain.borrowed, Keys) <= chain.vault.total_principal_borrowed
  BY DEF Kept, Sane, Books, Backed
<1> QED
  BY <1>1, BooksAreKept, PTL

\* Whatever the admin does to the window and whatever was placed before it,
\* only a mint outside the final window borrows.
THEOREM FinalWindowHasNoBorrow == Spec => NoBorrowInFinalWindow
<1>1. Kept(chain) /\ [Next]_vars =>
        [\A k \in Keys : chain'.borrowed[k] > chain.borrowed[k]
                           => chain.now < Expiry[k] - registry.window]_vars
  BY StepKept DEF LendsInTime
<1> QED
  BY <1>1, BooksAreKept, PTL DEF Spec, NoBorrowInFinalWindow

\* A key that still owes loses quote only by minting with it.
THEOREM IndebtedKeysKeepTheirQuote == Spec => CollateralStaysWithDebt
<1>1. Kept(chain) /\ [Next]_vars =>
        [\A k \in Keys : chain'.borrowed[k] > 0 /\ chain'.quote[k] < chain.quote[k]
                           => chain'.contracts[k] > chain.contracts[k]]_vars
  BY StepKept DEF CollateralStays
<1> QED
  BY <1>1, BooksAreKept, PTL DEF Spec, CollateralStaysWithDebt

\* Free and reserved quote only shrink at a trader's own request, or when a
\* keeper fills an order the trader placed.
THEOREM FreeQuoteIsTheTraders == Spec => KeepersNeverSpendTradingQuote
<1>1. Kept(chain) /\ [Next]_vars =>
        [\A a \in Proxies :
           chain'.trading[a] + chain'.reserved[a] < chain.trading[a] + chain.reserved[a]
             => \/ TraderNext
                \/ \E k \in KeysOf(a) : chain.order[k] # NoOrder /\ chain'.order[k] = NoOrder
                                        /\ chain'.contracts[k] > chain.contracts[k]]_vars
  BY StepKept DEF FreeQuoteStays
<1> QED
  BY <1>1, BooksAreKept, PTL DEF Spec, KeepersNeverSpendTradingQuote

==============================================================================
