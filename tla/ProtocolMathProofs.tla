-------------------------- MODULE ProtocolMathProofs --------------------------
(***************************************************************************)
(* What the arithmetic of ProtocolMath returns, for every scale and every  *)
(* amount.  The provers know the linear part of integer arithmetic; what   *)
(* the products and quotients of the contracts need is proved here once,   *)
(* and so is how a sum over a finite set follows a change of one value.    *)
(***************************************************************************)
EXTENDS ProtocolMath, Functions, FiniteSetTheorems, TLAPS

-----------------------------------------------------------------------------
(* Products and quotients of naturals *)

\* A product of naturals is a natural.
LEMMA MulNat == ASSUME NEW a \in Nat, NEW b \in Nat PROVE a * b \in Nat
OBVIOUS

\* The defining bounds of a rounded-down quotient.
LEMMA DivBounds ==
    ASSUME NEW a \in Nat, NEW b \in Nat \ {0}
    PROVE  /\ a \div b \in Nat
           /\ b * (a \div b) <= a
           /\ a < b * (a \div b) + b
           /\ a % b \in 0..(b - 1)
           /\ a = b * (a \div b) + (a % b)
OBVIOUS

\* A factor of a comparison between products may be cancelled.
LEMMA CancelMul ==
    ASSUME NEW b \in Nat \ {0}, NEW x \in Int, NEW y \in Int, b * x < b * y
    PROVE  x < y
OBVIOUS

\* A product is monotone in either factor.
LEMMA MulMono ==
    ASSUME NEW a \in Nat, NEW x \in Int, NEW y \in Int, x <= y
    PROVE  a * x <= a * y
OBVIOUS

\* An integer above the exact quotient is above its rounding down, and the
\* rounding up is the least such integer.
LEMMA CeilDivBounds ==
    ASSUME NEW a \in Nat, NEW b \in Nat \ {0}
    PROVE  /\ CeilDiv(a, b) \in Nat
           /\ a <= b * CeilDiv(a, b)
           /\ b * CeilDiv(a, b) < a + b
BY DivBounds DEF CeilDiv

\* A quotient is at most any integer whose product with the divisor reaches
\* the dividend when rounded up, and at least when rounded down.
LEMMA CeilDivLeast ==
    ASSUME NEW a \in Nat, NEW b \in Nat \ {0}, NEW q \in Int, a <= b * q
    PROVE  CeilDiv(a, b) <= q
<1>1. b * CeilDiv(a, b) < b * (q + 1)
  <2>1. b * (q + 1) = b * q + b
    OBVIOUS
  <2>2. b * q \in Int /\ b * CeilDiv(a, b) \in Int
    BY CeilDivBounds
  <2> QED
    BY <2>1, <2>2, CeilDivBounds
<1>2. CeilDiv(a, b) < q + 1
  BY <1>1, CancelMul, CeilDivBounds
<1> QED
  BY <1>2, CeilDivBounds

\* ... and the quotient rounded down is the greatest such integer from
\* below.
LEMMA DivGreatest ==
    ASSUME NEW a \in Nat, NEW b \in Nat \ {0}, NEW q \in Int, b * q <= a
    PROVE  q <= a \div b
<1>1. b * q < b * (a \div b + 1)
  <2>1. b * (a \div b + 1) = b * (a \div b) + b
    BY DivBounds
  <2>2. b * (a \div b) \in Int /\ a < b * (a \div b) + b
    BY DivBounds
  <2> QED
    BY <2>1, <2>2
<1>2. q < a \div b + 1
  BY <1>1, CancelMul, DivBounds
<1> QED
  BY <1>2, DivBounds

\* Rounding down never exceeds rounding up.
LEMMA DivLeqCeilDiv ==
    ASSUME NEW a \in Nat, NEW b \in Nat \ {0}
    PROVE  a \div b <= CeilDiv(a, b)
BY DivBounds DEF CeilDiv

-----------------------------------------------------------------------------
(* Basis points and the revenue split *)

\* A basis-point share of an amount is an amount.
LEMMA MulBpsNat == ASSUME NEW amount \in Nat, NEW bps \in Nat PROVE MulBps(amount, bps) \in Nat
BY MulNat, DivBounds, ScaleAssumption DEF MulBps

\* The three shares of a revenue are amounts and leave nothing over: the
\* keeper's remainder is never negative.
LEMMA FeeSplitExact ==
    ASSUME NEW total \in Nat
    PROVE  /\ FeeSplit(total).vault \in Nat
           /\ FeeSplit(total).collector \in Nat
           /\ FeeSplit(total).keeper \in Nat
           /\ FeeSplit(total).vault + FeeSplit(total).collector + FeeSplit(total).keeper = total
<1> DEFINE v == MulBps(total, VaultShareBps)
           c == MulBps(total, CollectorShareBps)
<1>1. v \in Nat /\ c \in Nat
  BY MulBpsNat, ShareAssumption
<1>2. Bps * v <= total * VaultShareBps /\ Bps * c <= total * CollectorShareBps
  BY MulNat, DivBounds, ScaleAssumption, ShareAssumption DEF MulBps
<1>3. total * VaultShareBps + total * CollectorShareBps <= total * Bps
  <2>1. total * (VaultShareBps + CollectorShareBps) <= total * Bps
    BY MulMono, ScaleAssumption, ShareAssumption
  <2> QED
    BY <2>1, ShareAssumption, ScaleAssumption
<1>4. Bps * (v + c) <= Bps * total
  <2>1. Bps * (v + c) = Bps * v + Bps * c
    BY <1>1, ScaleAssumption
  <2> HIDE DEF v, c
  <2> QED
    BY <1>1, <1>2, <1>3, <2>1, MulNat, ShareAssumption, ScaleAssumption
<1>5. v + c <= total
  <2> HIDE DEF v, c
  <2>1. ~ (Bps * total < Bps * (v + c))
    BY <1>1, <1>4, ScaleAssumption
  <2>2. total < v + c => Bps * total < Bps * (v + c)
    BY <1>1, ScaleAssumption
  <2> QED
    BY <2>1, <2>2, <1>1
<1> QED
  BY <1>1, <1>5 DEF FeeSplit

-----------------------------------------------------------------------------
(* Interest *)

\* The borrow curve gives a natural rate at every utilization.
LEMMA BorrowRateNat ==
    ASSUME NEW cfg, cfg.base \in Nat, cfg.slope1 \in Nat, cfg.slope2 \in Nat,
           cfg.kink \in Nat, NEW util \in Nat
    PROVE  BorrowRateAt(cfg, util) \in Nat
<1>1. CASE util <= cfg.kink
  <2>1. (cfg.slope1 * util) \div Bps \in Nat
    BY MulNat, DivBounds, ScaleAssumption
  <2> QED
    BY <1>1, <2>1 DEF BorrowRateAt
<1>2. CASE ~(util <= cfg.kink)
  <2>1. util - cfg.kink \in Nat
    BY <1>2
  <2>2. /\ (cfg.slope1 * cfg.kink) \div Bps \in Nat
        /\ (cfg.slope2 * (util - cfg.kink)) \div Bps \in Nat
    BY <2>1, MulNat, DivBounds, ScaleAssumption
  <2> QED
    BY <1>2, <2>2 DEF BorrowRateAt
<1> QED
  BY <1>1, <1>2

\* Interest is never negative.
LEMMA InterestForNat ==
    ASSUME NEW debt \in Nat, NEW rate \in Nat, NEW elapsed \in Nat
    PROVE  InterestFor(debt, rate, elapsed) \in Nat
<1>1. debt * rate \in Nat
  BY MulNat
<1>2. debt * rate * elapsed \in Nat
  BY <1>1, MulNat
<1>3. Bps * YearMs \in Nat \ {0}
  BY ScaleAssumption
<1> QED
  BY <1>2, <1>3, DivBounds DEF InterestFor

-----------------------------------------------------------------------------
(* The debt of a ledger and the two splits of its repayment.  D and P are   *)
(* the vault's debt and principal, p the ledger's principal.                *)

\* A ledger's debt with interest is an amount.
LEMMA DebtNat ==
    ASSUME NEW p \in Nat, NEW D \in Nat, NEW P \in Nat
    PROVE  DebtWithInterest(p, D, P) \in Nat
<1>1. p * D \in Nat
  BY MulNat
<1>2. P # 0 => CeilDiv(p * D, P) \in Nat
  BY <1>1, CeilDivBounds
<1> QED
  BY <1>2 DEF DebtWithInterest

\* A ledger never owes more than the vault is owed, nor a larger interest.
LEMMA DebtWithinVault ==
    ASSUME NEW p \in Nat, NEW D \in Nat, NEW P \in Nat, p <= P, P <= D
    PROVE  /\ DebtWithInterest(p, D, P) <= D
           /\ DebtWithInterest(p, D, P) <= D - P + p
           /\ p = P => DebtWithInterest(p, D, P) = D \/ P = 0
<1>1. CASE p = 0
  BY <1>1 DEF DebtWithInterest
<1>2. CASE p # 0
  <2>1. /\ p * D \in Nat
        /\ P \in Nat \ {0}
        /\ DebtWithInterest(p, D, P) = CeilDiv(p * D, P)
    BY <1>2, MulNat DEF DebtWithInterest
  <2>2. p * D <= P * (D - P + p)
    <3>1. (P - p) * (D - P) \in Nat
      BY MulNat
    <3>2. P * (D - P + p) = p * D + (P - p) * (D - P)
      OBVIOUS
    <3> QED
      BY <3>1, <3>2, <2>1
  <2>3. CeilDiv(p * D, P) <= D - P + p
    BY <2>1, <2>2, CeilDivLeast
  <2>4. p = P => CeilDiv(p * D, P) = D
    <3> SUFFICES ASSUME p = P PROVE CeilDiv(P * D, P) = D
      OBVIOUS
    <3>1. P * D <= P * CeilDiv(P * D, P)
      BY <2>1, CeilDivBounds
    <3>2. CeilDiv(P * D, P) <= D
      BY <2>3
    <3>3. CeilDiv(P * D, P) \in Nat
      BY <2>1, CeilDivBounds
    <3>4. CeilDiv(P * D, P) < D => P * CeilDiv(P * D, P) < P * D
      BY <3>3, <2>1
    <3> QED
      BY <3>1, <3>2, <3>3, <3>4, <2>1
  <2> QED
    BY <2>1, <2>3, <2>4, CeilDivBounds
<1> QED
  BY <1>1, <1>2

\* A ledger with interest owes at least its principal.
LEMMA DebtCoversLedger ==
    ASSUME NEW p \in Nat, NEW D \in Nat, NEW P \in Nat, P <= D
    PROVE  p <= DebtWithInterest(p, D, P)
<1>1. CASE p = 0 \/ P = 0
  BY <1>1 DEF DebtWithInterest
<1>2. CASE p # 0 /\ P # 0
  <2>1. /\ p * D \in Nat
        /\ P \in Nat \ {0}
        /\ DebtWithInterest(p, D, P) = CeilDiv(p * D, P)
    BY <1>2, MulNat DEF DebtWithInterest
  <2>2. P * p <= P * CeilDiv(p * D, P)
    <3>1. p * P <= p * D
      BY MulMono
    <3>2. p * D <= P * CeilDiv(p * D, P)
      BY <2>1, CeilDivBounds
    <3>3. P * p = p * P /\ P * p \in Nat /\ P * CeilDiv(p * D, P) \in Int
      BY <2>1, CeilDivBounds, MulNat
    <3> QED
      BY <3>1, <3>2, <3>3, <2>1
  <2>3. CeilDiv(p * D, P) \in Nat
    BY <2>1, CeilDivBounds
  <2>4. CeilDiv(p * D, P) < p => P * CeilDiv(p * D, P) < P * p
    BY <2>1, <2>3
  <2> QED
    BY <2>1, <2>2, <2>3, <2>4, MulNat
<1> QED
  BY <1>1, <1>2

\* Either split of a repayment gives an amount of principal.
LEMMA SplitNat ==
    ASSUME NEW p \in Nat, NEW repay \in Nat, NEW debt \in Nat
    PROVE  /\ VaultPrincipalIn(p, repay, debt) \in Nat
           /\ LedgerPrincipalIn(p, repay, debt) \in Nat
<1>1. repay * p \in Nat
  BY MulNat
<1>2. debt # 0 => (repay * p) \div debt \in Nat /\ CeilDiv(repay * p, debt) \in Nat
  BY <1>1, DivBounds, CeilDivBounds
<1>3. VaultPrincipalIn(p, repay, debt) \in Nat
  BY <1>2 DEF VaultPrincipalIn
<1>4. LedgerPrincipalIn(p, repay, debt) \in Nat
  BY <1>2 DEF LedgerPrincipalIn
<1> QED
  BY <1>3, <1>4

\* The principal in a payment, on the vault's side and on the ledger's: the
\* vault's is at most the ledger's, and both are at most the ledger's whole.
LEMMA SplitBounds ==
    ASSUME NEW p \in Nat, NEW repay \in Nat, NEW debt \in Nat, p > 0, repay <= debt
    PROVE  /\ VaultPrincipalIn(p, repay, debt) \in Nat
           /\ LedgerPrincipalIn(p, repay, debt) \in Nat
           /\ VaultPrincipalIn(p, repay, debt) <= LedgerPrincipalIn(p, repay, debt)
           /\ LedgerPrincipalIn(p, repay, debt) <= p
<1>1. CASE repay = debt
  BY <1>1 DEF VaultPrincipalIn, LedgerPrincipalIn
<1>2. CASE repay # debt
  <2>1. repay * p \in Nat /\ debt \in Nat \ {0} /\ ~(repay >= debt)
    BY <1>2, MulNat
  <2>2. LedgerPrincipalIn(p, repay, debt) = CeilDiv(repay * p, debt)
    BY <2>1 DEF LedgerPrincipalIn
  <2>3. repay * p <= debt * p
    <3>1. p * repay <= p * debt
      BY MulMono
    <3> QED
      BY <3>1
  <2>4. CeilDiv(repay * p, debt) <= p /\ CeilDiv(repay * p, debt) \in Nat
    BY <2>1, <2>3, CeilDivLeast, CeilDivBounds
  <2>5. (repay * p) \div debt <= CeilDiv(repay * p, debt) /\ (repay * p) \div debt \in Nat
    BY <2>1, DivLeqCeilDiv, DivBounds
  <2>6. VaultPrincipalIn(p, repay, debt) \in {0, (repay * p) \div debt}
    BY <2>1 DEF VaultPrincipalIn
  <2> QED
    BY <2>2, <2>4, <2>5, <2>6
<1> QED
  BY <1>1, <1>2

\* The vault's split of a payment takes no more interest than the vault has
\* outstanding, and the last principal is never paid before the last interest:
\* after subtracting both, debt still covers principal and dies with it.
LEMMA VaultSplitKeepsCover ==
    ASSUME NEW p \in Nat, NEW D \in Nat, NEW P \in Nat, NEW repay \in Nat,
           p <= P, P <= D, P = 0 => D = 0,
           repay <= DebtWithInterest(p, D, P)
    PROVE  LET v == VaultPrincipalIn(p, repay, DebtWithInterest(p, D, P))
           IN  /\ v \in Nat
               /\ v <= repay
               /\ repay - v <= D - P
               /\ P - v = 0 => D - repay = 0
<1> DEFINE debt == DebtWithInterest(p, D, P)
           v    == VaultPrincipalIn(p, repay, debt)
<1> SUFFICES v \in Nat /\ v <= repay /\ repay - v <= D - P /\ (P - v = 0 => D - repay = 0)
  OBVIOUS
<1>1. /\ debt \in Nat /\ p <= debt
      /\ debt <= D /\ debt - p <= D - P
      /\ p = P => debt = D \/ P = 0
  BY DebtNat, DebtCoversLedger, DebtWithinVault
<1> HIDE DEF debt
<1>2. CASE p = 0 \/ repay = 0
  <2>1. p = 0 => repay = 0
    BY DEF debt, DebtWithInterest
  <2>2. v = 0
    BY <1>2, <2>1 DEF VaultPrincipalIn
  <2> QED
    BY <1>1, <1>2, <2>1, <2>2
<1>3. CASE p # 0 /\ repay # 0 /\ repay = debt
  <2>1. v = p
    BY <1>1, <1>3 DEF VaultPrincipalIn
  <2> HIDE DEF v
  <2> QED
    BY <1>1, <1>3, <2>1
<1>4. CASE p # 0 /\ repay # 0 /\ repay # debt
  <2>1. repay < debt /\ debt \in Nat \ {0}
    BY <1>1, <1>4 DEF debt
  <2>2. repay * p \in Nat /\ v = (repay * p) \div debt
    BY <1>1, <1>4, <2>1, MulNat DEF VaultPrincipalIn
  <2>3. v \in Nat /\ debt * v <= repay * p
    BY <2>1, <2>2, DivBounds
  <2> HIDE DEF v
  <2>4. v < p
    <3>1. repay * p < debt * p
      BY <1>4, <2>1
    <3>2. debt * v < debt * p
      BY <2>1, <2>2, <2>3, <3>1
    <3> QED
      BY <2>1, <2>3, <3>2, CancelMul
  <2>5. v <= repay
    <3>1. repay * p <= repay * debt
      BY <1>1, MulMono
    <3>2. debt * v <= debt * repay
      BY <2>1, <2>2, <2>3, <3>1
    <3>3. repay < v => debt * repay < debt * v
      BY <2>1, <2>3
    <3> QED
      BY <2>1, <2>3, <3>2, <3>3
  <2>6. repay - (D - P) <= v
    <3>1. repay * (debt - p) <= repay * (D - P)
      BY <1>1, MulMono
    <3>2. (D - P) * repay <= (D - P) * debt
      BY <1>1, <2>1, MulMono
    <3>3. repay * (debt - p) <= (D - P) * debt
      BY <1>1, <3>1, <3>2
    <3>4. debt * (repay - (D - P)) <= repay * p
      <4>1. /\ repay * (debt - p) = repay * debt - repay * p
            /\ debt * (repay - (D - P)) = repay * debt - (D - P) * debt
        BY <1>1
      <4>2. repay * debt \in Int /\ (D - P) * debt \in Int
        BY <1>1
      <4> QED
        BY <3>3, <4>1, <4>2, <2>2
    <3> QED
      BY <2>1, <2>2, <3>4, DivGreatest
  <2> QED
    BY <1>1, <2>1, <2>3, <2>4, <2>5, <2>6
<1> QED
  BY <1>2, <1>3, <1>4
-----------------------------------------------------------------------------
(* The sum of a function over a finite set, as Functions!SumFunction defines it (a
   fold that picks one element after the other).  The library's induction theorems
   take an operator, which the provers cannot instantiate; a smallest
   counterexample (WFMin over the strict subsets of a finite set) does the same
   work without one. *)

Pick(s) == CHOOSE x \in s : TRUE

\* g is the table of partial sums of f over the subsets of S.
IsSumTable(g, f, S) ==
    g = [s \in SUBSET S |-> IF s = {} THEN 0 ELSE f[Pick(s)] + g[s \ {Pick(s)}]]

\* SumFunctionOnSet looks its result up in that table.
LEMMA SumIsTable ==
    ASSUME NEW f, NEW S
    PROVE  SumFunctionOnSet(f, S) = (CHOOSE g : IsSumTable(g, f, S))[S]
BY DEF SumFunctionOnSet, FoldFunctionOnSet, MapThenFoldSet, IsSumTable, Pick

\* Pick chooses an element.
LEMMA PickIn == ASSUME NEW s, s # {} PROVE Pick(s) \in s
BY DEF Pick

\* Among the subsets of a finite set with some property there is one none of
\* whose strict subsets has it.
LEMMA SmallestSubset ==
    ASSUME NEW S, IsFiniteSet(S), NEW T, T \subseteq SUBSET S, T # {}
    PROVE  \E x \in T : \A y \in T : ~(y \subseteq x /\ y # x)
<1>1. IsWellFoundedOn(StrictSubsetOrdering(S), SUBSET S)
  BY FS_StrictSubsetOrderingWellFounded, FS_FiniteSubsetsOfFinite
<1>2. PICK x \in T : \A y \in T : ~(<<y, x>> \in StrictSubsetOrdering(S))
  BY <1>1, WFMin
<1> QED
  BY <1>2 DEF StrictSubsetOrdering

-----------------------------------------------------------------------------
(* The table exists and is unique                                          *)

\* Tables over two sets agree on their common subsets.
LEMMA TablesAgree ==
    ASSUME NEW f, NEW S, IsFiniteSet(S), NEW A \in SUBSET S, NEW B \in SUBSET S,
           NEW g, IsSumTable(g, f, A), NEW h, IsSumTable(h, f, B),
           NEW s, s \subseteq A, s \subseteq B
    PROVE  g[s] = h[s]
<1> DEFINE T == {u \in SUBSET S : u \subseteq A /\ u \subseteq B /\ g[u] # h[u]}
<1> SUFFICES ASSUME T # {} PROVE FALSE
  OBVIOUS
<1>1. PICK x \in T : \A y \in T : ~(y \subseteq x /\ y # x)
  <2>1. T \subseteq SUBSET S
    OBVIOUS
  <2> HIDE DEF T
  <2> QED
    BY <2>1, SmallestSubset
<1>2. x # {}
  BY <1>1 DEF IsSumTable
<1>3. /\ x \ {Pick(x)} \subseteq x
      /\ x \ {Pick(x)} # x
  BY <1>2, PickIn
<1>4. g[x \ {Pick(x)}] = h[x \ {Pick(x)}]
  BY <1>1, <1>3
<1>5. /\ g[x] = f[Pick(x)] + g[x \ {Pick(x)}]
      /\ h[x] = f[Pick(x)] + h[x \ {Pick(x)}]
  BY <1>1, <1>2 DEF IsSumTable
<1> QED
  BY <1>1, <1>4, <1>5

\* The recursive function behind a fold exists on the subsets of a finite
\* set.
LEMMA TableExists ==
    ASSUME NEW f, NEW S, IsFiniteSet(S)
    PROVE  \E g : IsSumTable(g, f, S)
<1> DEFINE Table(s) == CHOOSE g : IsSumTable(g, f, s)
           T == {s \in SUBSET S : ~ \E g : IsSumTable(g, f, s)}
<1> SUFFICES ASSUME T # {} PROVE FALSE
  OBVIOUS
<1>1. PICK x \in T : \A y \in T : ~(y \subseteq x /\ y # x)
  <2>1. T \subseteq SUBSET S
    OBVIOUS
  <2> HIDE DEF T
  <2> QED
    BY <2>1, SmallestSubset
<1>2. \A y : y \subseteq x /\ y # x => IsSumTable(Table(y), f, y)
  BY <1>1
<1> DEFINE G == [s \in SUBSET x |->
                   IF s = {} THEN 0
                   ELSE f[Pick(s)] + Table(s \ {Pick(s)})[s \ {Pick(s)}]]
<1>3. ASSUME NEW s \in SUBSET x, s # {}
      PROVE  G[s \ {Pick(s)}] = Table(s \ {Pick(s)})[s \ {Pick(s)}]
  <2> DEFINE y == s \ {Pick(s)}
             z == y \ {Pick(y)}
  <2>1. y \subseteq x /\ y # x /\ IsSumTable(Table(y), f, y)
    BY <1>2, <1>3, PickIn
  <2>2. CASE y = {}
    <3>1. Table(y)[y] = 0
      BY <2>1, <2>2 DEF IsSumTable
    <3>2. G[y] = 0
      BY <2>2
    <3> QED
      BY <3>1, <3>2
  <2>3. CASE y # {}
    <3>1. z \subseteq x /\ z # x /\ z \subseteq y /\ IsSumTable(Table(z), f, z)
      BY <1>2, <2>1
    <3>2. Table(y)[z] = Table(z)[z]
      <4>1. y \in SUBSET S /\ z \in SUBSET S
        BY <1>1, <2>1, <3>1
      <4> HIDE DEF y, z, Table
      <4> QED
        BY <4>1, <2>1, <3>1, TablesAgree
    <3>3. Table(y)[y] = f[Pick(y)] + Table(y)[z]
      BY <2>1, <2>3 DEF IsSumTable
    <3>4. G[y] = f[Pick(y)] + Table(z)[z]
      BY <2>1, <2>3
    <3> QED
      BY <3>2, <3>3, <3>4
  <2> QED
    BY <2>2, <2>3
<1>4. G = [s \in SUBSET x |-> IF s = {} THEN 0 ELSE f[Pick(s)] + G[s \ {Pick(s)}]]
  <2> HIDE DEF Table
  <2> QED
    BY <1>3
<1>5. IsSumTable(G, f, x)
  <2> HIDE DEF G
  <2> QED
    BY <1>4 DEF IsSumTable
<1> QED
  BY <1>1, <1>5

\* The sum over a set is the picked value and the sum over the rest.
LEMMA SumEmpty == ASSUME NEW f PROVE SumFunctionOnSet(f, {}) = 0
<1>1. IsSumTable(CHOOSE g : IsSumTable(g, f, {}), f, {})
  BY TableExists, FS_EmptySet
<1> QED
  BY <1>1, SumIsTable DEF IsSumTable

\* A sum is unfolded by one element.
LEMMA SumStep ==
    ASSUME NEW f, NEW S, IsFiniteSet(S), S # {}
    PROVE  SumFunctionOnSet(f, S)
             = f[Pick(S)] + SumFunctionOnSet(f, S \ {Pick(S)})
<1> DEFINE R == S \ {Pick(S)}
           t == CHOOSE g : IsSumTable(g, f, S)
           u == CHOOSE g : IsSumTable(g, f, R)
<1>1. R \in SUBSET S /\ IsFiniteSet(R)
  BY FS_Subset
<1>2. IsSumTable(t, f, S) /\ IsSumTable(u, f, R)
  BY TableExists, <1>1
<1>3. t[S] = f[Pick(S)] + t[R]
  BY <1>2 DEF IsSumTable
<1>4. t[R] = u[R]
  <2> HIDE DEF R, t, u
  <2> QED
    BY <1>1, <1>2, TablesAgree
<1> QED
  BY <1>3, <1>4, SumIsTable

-----------------------------------------------------------------------------
(* What the other modules use                                              *)

\* A finite sum of naturals is a natural.
LEMMA SumNat ==
    ASSUME NEW K, IsFiniteSet(K), NEW f \in [K -> Nat], NEW S \in SUBSET K
    PROVE  SumFunctionOnSet(f, S) \in Nat
<1> DEFINE T == {s \in SUBSET K : ~ (SumFunctionOnSet(f, s) \in Nat)}
<1> SUFFICES ASSUME T # {} PROVE FALSE
  OBVIOUS
<1>1. PICK x \in T : \A y \in T : ~(y \subseteq x /\ y # x)
  <2>1. T \subseteq SUBSET K
    OBVIOUS
  <2> HIDE DEF T
  <2> QED
    BY <2>1, SmallestSubset
<1>2. x # {} /\ IsFiniteSet(x)
  <2>1. x \in SUBSET K /\ ~(SumFunctionOnSet(f, x) \in Nat)
    BY <1>1
  <2>2. x # {}
    BY <2>1, SumEmpty
  <2> QED
    BY <2>1, <2>2, FS_Subset
<1>3. SumFunctionOnSet(f, x \ {Pick(x)}) \in Nat
  BY <1>1, <1>2, PickIn
<1>4. f[Pick(x)] \in Nat
  BY <1>1, <1>2, PickIn
<1> QED
  BY <1>1, <1>2, <1>3, <1>4, SumStep

\* The sum depends on the values over the set only.
LEMMA SumSame ==
    ASSUME NEW K, IsFiniteSet(K), NEW f, NEW g, NEW S \in SUBSET K, \A i \in S : f[i] = g[i]
    PROVE  SumFunctionOnSet(f, S) = SumFunctionOnSet(g, S)
<1> DEFINE T == {s \in SUBSET S : SumFunctionOnSet(f, s) # SumFunctionOnSet(g, s)}
<1> SUFFICES ASSUME T # {} PROVE FALSE
  OBVIOUS
<1>0. IsFiniteSet(S)
  BY FS_Subset
<1>1. PICK x \in T : \A y \in T : ~(y \subseteq x /\ y # x)
  <2>1. T \subseteq SUBSET S
    OBVIOUS
  <2> HIDE DEF T
  <2> QED
    BY <1>0, <2>1, SmallestSubset
<1>2. x # {} /\ IsFiniteSet(x)
  BY <1>0, <1>1, SumEmpty, FS_Subset
<1>3. SumFunctionOnSet(f, x \ {Pick(x)}) = SumFunctionOnSet(g, x \ {Pick(x)})
  BY <1>1, <1>2, PickIn
<1>4. f[Pick(x)] = g[Pick(x)]
  BY <1>1, <1>2, PickIn
<1> QED
  BY <1>1, <1>2, <1>3, <1>4, SumStep

\* Changing one value changes the sum over any set that holds it by the
\* difference.
LEMMA SumChangeOn ==
    ASSUME NEW K, IsFiniteSet(K), NEW f \in [K -> Nat], NEW g \in [K -> Nat], NEW S \in SUBSET K,
           NEW k \in S, \A i \in S \ {k} : g[i] = f[i]
    PROVE  SumFunctionOnSet(g, S) = SumFunctionOnSet(f, S) - f[k] + g[k]
<1> DEFINE T == {s \in SUBSET S : k \in s /\
                   SumFunctionOnSet(g, s) # SumFunctionOnSet(f, s) - f[k] + g[k]}
<1> SUFFICES ASSUME T # {} PROVE FALSE
  OBVIOUS
<1>1. PICK x \in T : \A y \in T : ~(y \subseteq x /\ y # x)
  <2>1. T \subseteq SUBSET S
    OBVIOUS
  <2> HIDE DEF T
  <2> QED
    BY <2>1, SmallestSubset
<1> DEFINE p == Pick(x)
           r == x \ {Pick(x)}
<1>2. /\ x # {} /\ x \subseteq S /\ IsFiniteSet(x) /\ p \in x
      /\ r \subseteq S /\ r \subseteq x /\ r # x
  BY <1>1, FS_Subset, PickIn
<1>3. /\ SumFunctionOnSet(g, x) = g[p] + SumFunctionOnSet(g, r)
      /\ SumFunctionOnSet(f, x) = f[p] + SumFunctionOnSet(f, r)
  BY <1>2, SumStep
<1>4. SumFunctionOnSet(f, r) \in Nat /\ f[p] \in Nat /\ f[k] \in Nat /\ g[k] \in Nat
  BY <1>2, SumNat
<1>5. CASE p = k
  <2>1. \A i \in r : g[i] = f[i]
    BY <1>2, <1>5
  <2>2. SumFunctionOnSet(g, r) = SumFunctionOnSet(f, r)
    <3> HIDE DEF r
    <3> QED
      BY <1>2, <2>1, SumSame
  <2> QED
    BY <1>1, <1>3, <1>4, <1>5, <2>2
<1>6. CASE p # k
  <2>1. k \in r /\ g[p] = f[p]
    BY <1>1, <1>2, <1>6
  <2>2. SumFunctionOnSet(g, r) = SumFunctionOnSet(f, r) - f[k] + g[k]
    BY <1>1, <1>2, <2>1
  <2> QED
    BY <1>1, <1>3, <1>4, <2>1, <2>2
<1> QED
  BY <1>5, <1>6

\* The same over the whole set.
LEMMA SumChange ==
    ASSUME NEW K, IsFiniteSet(K), NEW f \in [K -> Nat], NEW g \in [K -> Nat], NEW k \in K,
           \A i \in K \ {k} : g[i] = f[i]
    PROVE  SumFunctionOnSet(g, K) = SumFunctionOnSet(f, K) - f[k] + g[k]
BY SumChangeOn

\* No value exceeds the sum.
LEMMA SumBound ==
    ASSUME NEW K, IsFiniteSet(K), NEW f \in [K -> Nat], NEW k \in K
    PROVE  f[k] <= SumFunctionOnSet(f, K)
<1> DEFINE g == [i \in K |-> IF i = k THEN 0 ELSE f[i]]
<1>1. g \in [K -> Nat] /\ g[k] = 0 /\ f[k] \in Nat /\ \A i \in K \ {k} : g[i] = f[i]
  OBVIOUS
<1> HIDE DEF g
<1>2. SumFunctionOnSet(g, K) \in Nat /\ SumFunctionOnSet(f, K) \in Nat
  BY <1>1, SumNat
<1>3. SumFunctionOnSet(g, K) = SumFunctionOnSet(f, K) - f[k] + g[k]
  BY <1>1, SumChange
<1> QED
  BY <1>1, <1>2, <1>3

\* A sum of zeros is zero.
LEMMA SumZero ==
    ASSUME NEW K, IsFiniteSet(K)
    PROVE  SumFunctionOnSet([k \in K |-> 0], K) = 0
<1> DEFINE f == [k \in K |-> 0]
           T == {s \in SUBSET K : SumFunctionOnSet(f, s) # 0}
<1> SUFFICES ASSUME T # {} PROVE FALSE
  OBVIOUS
<1>1. PICK x \in T : \A y \in T : ~(y \subseteq x /\ y # x)
  <2>1. T \subseteq SUBSET K
    OBVIOUS
  <2> HIDE DEF T
  <2> QED
    BY <2>1, SmallestSubset
<1>2. x # {} /\ IsFiniteSet(x)
  BY <1>1, SumEmpty, FS_Subset
<1>3. SumFunctionOnSet(f, x \ {Pick(x)}) = 0
  BY <1>1, <1>2, PickIn
<1>4. f[Pick(x)] = 0
  BY <1>1, <1>2, PickIn
<1> QED
  BY <1>1, <1>2, <1>3, <1>4, SumStep
=============================================================================
