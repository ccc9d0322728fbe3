------------------------ MODULE IndexProjectionProofs ------------------------
(***************************************************************************)
(* For any keys, amounts, batches and restarts: the rows keep their types, *)
(* reading a checkpoint again changes no position, an order shown open     *)
(* rests, and the rows implement LedgerReplica for every key no commit has *)
(* applied the wrong way round and LeverX has not closed in part.          *)
(***************************************************************************)
EXTENDS IndexProjection, SequenceTheorems, WellFoundedInduction, TLAPS

-----------------------------------------------------------------------------
(* Recursive functions over an initial part of the naturals.  The library's
   induction theorems take an operator, which the provers cannot instantiate; a
   least counterexample does the same work without one. *)

(* A set of naturals with an element has a least one. *)
LEMMA LeastNumber ==
  ASSUME NEW T, T \subseteq Nat, T # {}
  PROVE  \E n \in T : \A m \in T : n <= m
<1>1. PICK n \in T : \A m \in T : ~(<<m, n>> \in OpToRel(<, Nat))
  BY NatLessThanWellFounded, WFMin
<1>2. \A m \in T : ~(m < n)
  BY <1>1 DEF OpToRel
<1>3. ASSUME NEW m \in T PROVE n <= m
  <2>1. m \in Nat /\ n \in Nat /\ ~(m < n)
    BY <1>2
  <2> QED BY <2>1
<1> QED BY <1>3

(* What each turn makes of the turn before, from a. *)
IsRecursion(g, m, S, a, step) ==
  /\ g \in [0..m -> S]
  /\ g[0] = a
  /\ \A n \in 1..m : g[n] = step[<<n, g[n - 1]>>]

(* A recursion over 0..m has a function. *)
LEMMA RecursionExists ==
  ASSUME NEW m \in Nat, NEW S, NEW a \in S, NEW step \in [(1..m) \X S -> S]
  PROVE  \E g : IsRecursion(g, m, S, a, step)
<1> DEFINE T == {n \in 0..m : ~ \E g : IsRecursion(g, n, S, a, step)}
<1> SUFFICES ASSUME T # {} PROVE FALSE
  OBVIOUS
<1>1. PICK n \in T : \A k \in T : n <= k
  <2>1. T \subseteq Nat
    OBVIOUS
  <2> HIDE DEF T
  <2> QED BY <2>1, LeastNumber
<1>2. IsRecursion([i \in 0..0 |-> a], 0, S, a, step)
  BY DEF IsRecursion
<1>3. n \in 1..m /\ n - 1 \in 0..m /\ n - 1 \notin T
  BY <1>1, <1>2
<1>4. PICK g : IsRecursion(g, n - 1, S, a, step)
  BY <1>3
<1> DEFINE h == [i \in 0..n |-> IF i = n THEN step[<<n, g[n - 1]>>] ELSE g[i]]
<1>5. IsRecursion(h, n, S, a, step)
  <2>1. g \in [0..n - 1 -> S] /\ g[n - 1] \in S
    BY <1>3, <1>4 DEF IsRecursion
  <2>2. step[<<n, g[n - 1]>>] \in S
    BY <1>3, <2>1
  <2>3. h \in [0..n -> S]
    BY <1>3, <2>1, <2>2
  <2>4. h[0] = a
    BY <1>3, <1>4 DEF IsRecursion
  <2>5. ASSUME NEW i \in 1..n PROVE h[i] = step[<<i, h[i - 1]>>]
    <3>1. CASE i = n
      <4>1. n - 1 \in 0..n /\ n - 1 # n /\ n \in 0..n
        BY <1>3
      <4>2. h[n] = step[<<n, g[n - 1]>>] /\ h[n - 1] = g[n - 1]
        BY <4>1
      <4> QED BY <3>1, <4>2
    <3>2. CASE i # n
      <4>1. i \in 1..n - 1 /\ h[i] = g[i] /\ h[i - 1] = g[i - 1]
        BY <1>3, <3>2
      <4> QED BY <1>4, <4>1 DEF IsRecursion
    <3> QED BY <3>1, <3>2
  <2> HIDE DEF h
  <2> QED BY <2>3, <2>4, <2>5 DEF IsRecursion
<1> QED BY <1>1, <1>5

-----------------------------------------------------------------------------
(* Types *)

Amounts == 0..MaxQty
Names == {"LeveragedPositionOpened", "PositionRedeemed", "LeveragedPositionClosed",
          "KeyBorrowUpdated", "BadDebtWrittenOff", "StrandedCustodyRecovered",
          "PositionLiquidated", "LimitMintOrderPlaced", "LimitMintOrderExecuted",
          "LimitMintOrderCancelled"}
Kinds == {"predict_redeem_closes", "position_closes", "positions_open", "key_borrow_patches",
          "liquidation_positions"}
EventType ==
  [type : Names, key : Keys, tx : Nat, qty : Nat, payout : Nat, borrow : Nat,
   settled : BOOLEAN, had : BOOLEAN, sweep : BOOLEAN, expires : OrderExpiries \cup {0}]
KeyType == [qty : Amounts, debt : Nat, held : Nat, order : OrderExpiries \cup {0}]
Rows == [Keys -> RowType]

(* Which loops an event takes part in *)
LEMMA KindsOfEvents ==
  ASSUME NEW e
  PROVE  /\ e.type = "LeveragedPositionOpened" => KindsOf(e) = {"positions_open"}
         /\ e.type = "PositionRedeemed" => KindsOf(e) = {"predict_redeem_closes"}
         /\ e.type = "LeveragedPositionClosed" => KindsOf(e) = {"position_closes"}
         /\ e.type = "StrandedCustodyRecovered" => KindsOf(e) = {"position_closes"}
         /\ e.type = "KeyBorrowUpdated" => KindsOf(e) = {"key_borrow_patches"}
         /\ e.type = "BadDebtWrittenOff" =>
              KindsOf(e) = {"position_closes", "key_borrow_patches", "liquidation_positions"}
         /\ e.type = "PositionLiquidated" => KindsOf(e) = {"liquidation_positions"}
         /\ e.type = "LimitMintOrderPlaced" => KindsOf(e) = {"limit_placed"}
         /\ e.type = "LimitMintOrderExecuted" => KindsOf(e) = {"limit_executed"}
         /\ e.type = "LimitMintOrderCancelled" => KindsOf(e) = {"limit_cancelled"}
BY DEF KindsOf

(* Each kind leaves a row a row: a quantity is never taken below zero. *)
LEMMA ApplyTypes ==
  ASSUME NEW row \in RowType, NEW e \in EventType, NEW kind \in Kinds
  PROVE  Apply(kind, row, e) \in RowType
<1>0. /\ row.qty \in Nat /\ row.ext \in Nat /\ row.recovered \in Nat /\ row.borrow \in Nat
      /\ e.qty \in Nat /\ e.payout \in Nat /\ e.borrow \in Nat
  BY DEF RowType, EventType
<1>1. Larger(row.qty - e.qty, 0) \in Nat
  BY <1>0 DEF Larger
<1>2. CASE kind = "predict_redeem_closes"
  <2> DEFINE left == Larger(row.qty - e.qty, 0)
             status == IF left = 0 THEN (IF e.settled THEN "settled" ELSE "closed") ELSE "open"
             source == IF left = 0 THEN "predict_external" ELSE row.source
             custody == row.custody /\ ~(left = 0)
             ext == row.ext + e.payout
             changed == [row EXCEPT !.qty = left, !.status = status, !.source = source,
                                    !.custody = custody, !.ext = ext]
  <2>1. AfterRedeem(row, e) = row \/ AfterRedeem(row, e) = changed
    BY DEF AfterRedeem
  <2>2. /\ left \in Nat /\ ext \in Nat /\ custody \in BOOLEAN
        /\ status \in {"settled", "closed", "open"}
        /\ source \in {"predict_external", row.source}
    BY <1>0, <1>1
  <2> HIDE DEF left, status, source, custody, ext
  <2>3. changed \in RowType
    BY <2>2 DEF RowType
  <2> QED BY <1>2, <2>1, <2>3 DEF Apply
<1>3. CASE kind = "position_closes"
  <2> DEFINE left == Larger(row.qty - e.qty, 0)
             recovery == e.type = "StrandedCustodyRecovered"
             fromManager == recovery /\ ~e.sweep
             borrow == IF fromManager THEN row.borrow ELSE e.borrow
             status == IF e.qty > 0
                       THEN IF left = 0 THEN (IF e.settled THEN "settled" ELSE "closed") ELSE "open"
                       ELSE row.status
             source == CloseSource(e)
             custody == ~fromManager
             recovered == IF recovery THEN row.recovered + e.payout ELSE row.recovered
             changed == [row EXCEPT !.qty = left, !.borrow = borrow, !.status = status,
                                    !.source = source, !.custody = custody,
                                    !.recovered = recovered]
  <2>1. AfterClose(row, e) = row \/ AfterClose(row, e) = changed
    BY DEF AfterClose
  <2>2. source \in {"manager_surplus_recovery", "stranded_recovery", "bad_debt_writeoff",
                     "leverx_settle", "leverx_redeem"}
    BY DEF CloseSource
  <2>3. /\ left \in Nat /\ borrow \in Nat /\ recovered \in Nat /\ custody \in BOOLEAN
        /\ status \in {"settled", "closed", "open", row.status}
    BY <1>0, <1>1
  <2> HIDE DEF left, status, source, custody, borrow, recovered
  <2>4. changed \in RowType
    BY <2>2, <2>3 DEF RowType
  <2> QED BY <1>3, <2>1, <2>4 DEF Apply
<1>4. CASE kind = "positions_open"
  <2> DEFINE qty == (IF row.status = "open" THEN row.qty ELSE 0) + e.qty
             borrow == (IF row.status = "open" THEN row.borrow ELSE 0) + e.borrow
             changed == [row EXCEPT !.qty = qty, !.borrow = borrow, !.status = "open"]
  <2>1. AfterOpen(row, e) = row \/ AfterOpen(row, e) = changed
    BY DEF AfterOpen, RowType
  <2>2. qty \in Nat /\ borrow \in Nat
    BY <1>0
  <2> HIDE DEF qty, borrow
  <2>3. changed \in RowType
    BY <2>2 DEF RowType
  <2> QED BY <1>4, <2>1, <2>3 DEF Apply
<1>5. CASE kind = "key_borrow_patches"
  BY <1>0, <1>5 DEF Apply, AfterKeyBorrow, RowType
<1>6. CASE kind = "liquidation_positions"
  BY <1>0, <1>6 DEF Apply, AfterLiquidation, RowType
<1> QED BY <1>2, <1>3, <1>4, <1>5, <1>6 DEF Kinds

(* So does a turn of a loop. *)
LEMMA TurnTypes ==
  ASSUME NEW table \in Rows, NEW e \in EventType, NEW kind \in Kinds, NEW stored
  PROVE  Turn(table, kind, e, stored) \in Rows
<1>1. e.key \in Keys /\ table[e.key] \in RowType
  BY DEF EventType, Rows
<1>2. Apply(kind, table[e.key], e) \in RowType
  BY <1>1, ApplyTypes
<1> QED BY <1>1, <1>2 DEF Turn, Rows

-----------------------------------------------------------------------------
(* The loops of commit() *)

IsLoop(g, table, kind, events, stored) ==
  /\ g \in [0..Len(events) -> Rows]
  /\ g[0] = table
  /\ \A n \in 1..Len(events) : g[n] = Turn(g[n - 1], kind, events[n], stored)

(* ApplyKind is the last turn of the loop. *)
LEMMA Loops ==
  ASSUME NEW table \in Rows, NEW kind \in Kinds, NEW events \in Seq(EventType), NEW stored
  PROVE  \E g : /\ IsLoop(g, table, kind, events, stored)
                /\ ApplyKind(table, kind, events, stored) = g[Len(events)]
<1> DEFINE m == Len(events)
           Body(g) == [n \in 0..m |-> IF n = 0 THEN table
                                      ELSE Turn(g[n - 1], kind, events[n], stored)]
           step == [p \in (1..m) \X Rows |-> Turn(p[2], kind, events[p[1]], stored)]
           loop == CHOOSE g : g = Body(g)
<1>1. m \in Nat /\ \A n \in 1..m : events[n] \in EventType
  OBVIOUS
<1>2. step \in [(1..m) \X Rows -> Rows]
  <2>1. ASSUME NEW p \in (1..m) \X Rows PROVE Turn(p[2], kind, events[p[1]], stored) \in Rows
    <3>1. p[2] \in Rows /\ events[p[1]] \in EventType
      BY <1>1
    <3> QED BY <3>1, TurnTypes
  <2> QED BY <2>1
<1>3. PICK h : IsRecursion(h, m, Rows, table, step)
  <2> HIDE DEF step, m
  <2> QED BY <1>1, <1>2, RecursionExists
<1>4. \A n \in 1..m : h[n] = Turn(h[n - 1], kind, events[n], stored)
  <2> SUFFICES ASSUME NEW n \in 1..m PROVE h[n] = Turn(h[n - 1], kind, events[n], stored)
    OBVIOUS
  <2>1. n - 1 \in 0..m
    BY <1>1
  <2>2. h[n - 1] \in Rows /\ h[n] = step[<<n, h[n - 1]>>]
    BY <1>3, <2>1 DEF IsRecursion
  <2> QED BY <2>2
<1>5. h = Body(h)
  <2>1. h \in [0..m -> Rows] /\ h[0] = table
    BY <1>3 DEF IsRecursion
  <2>2. \A n \in 0..m : n = 0 \/ n \in 1..m
    BY <1>1
  <2>3. \A n \in 0..m : h[n] = Body(h)[n]
    BY <1>4, <2>1, <2>2
  <2> QED BY <2>1, <2>3
<1>6. loop = Body(loop)
  BY <1>5
<1>7. /\ loop[0] = table
      /\ \A n \in 1..m : n - 1 \in 0..m /\ loop[n] = Turn(loop[n - 1], kind, events[n], stored)
  <2> HIDE DEF loop
  <2>1. 0 \in 0..m /\ \A n \in 1..m : n \in 0..m /\ n # 0 /\ n - 1 \in 0..m
    BY <1>1
  <2>2. Body(loop)[0] = table
    BY <2>1
  <2>3. \A n \in 1..m : Body(loop)[n] = Turn(loop[n - 1], kind, events[n], stored)
    BY <2>1
  <2> QED BY <1>6, <2>1, <2>2, <2>3
<1>8. \A n \in 0..m : loop[n] \in Rows
  <2> HIDE DEF loop
  <2> DEFINE T == {n \in 0..m : loop[n] \notin Rows}
  <2> SUFFICES ASSUME T # {} PROVE FALSE
    OBVIOUS
  <2>1. PICK n \in T : \A i \in T : n <= i
    <3>1. T \subseteq Nat
      OBVIOUS
    <3> HIDE DEF T
    <3> QED BY <3>1, LeastNumber
  <2>2. n # 0
    BY <1>7, <2>1
  <2>3. n \in 1..m /\ n - 1 \in 0..m /\ n - 1 \notin T
    BY <2>1, <2>2
  <2>4. loop[n - 1] \in Rows /\ events[n] \in EventType
    BY <2>3, <1>1
  <2>5. loop[n] \in Rows
    BY <2>3, <2>4, <1>7, TurnTypes
  <2> QED BY <2>1, <2>5
<1>9. loop \in [0..m -> Rows]
  <2> HIDE DEF loop
  <2> QED BY <1>6, <1>8
<1>10. IsLoop(loop, table, kind, events, stored)
  <2> HIDE DEF loop
  <2> QED BY <1>7, <1>9 DEF IsLoop
<1>11. ApplyKind(table, kind, events, stored) = loop[m]
  BY DEF ApplyKind
<1> QED BY <1>10, <1>11

(* A loop leaves a set of tables only if a turn does. *)
LEMMA LoopStays ==
  ASSUME NEW table \in Rows, NEW kind \in Kinds, NEW events \in Seq(EventType), NEW stored,
         NEW S, table \in S,
         \A t \in S \cap Rows : \A i \in 1..Len(events) :
            Turn(t, kind, events[i], stored) \in S
  PROVE  ApplyKind(table, kind, events, stored) \in S \cap Rows
<1> DEFINE m == Len(events)
<1>1. PICK g : /\ IsLoop(g, table, kind, events, stored)
               /\ ApplyKind(table, kind, events, stored) = g[m]
  BY Loops
<1>2. m \in Nat
  OBVIOUS
<1>3. /\ g \in [0..m -> Rows]
      /\ g[0] = table
      /\ \A n \in 1..m : g[n] = Turn(g[n - 1], kind, events[n], stored)
  BY <1>1 DEF IsLoop
<1> DEFINE T == {n \in 0..m : g[n] \notin S}
<1>4. T = {}
  <2> SUFFICES ASSUME T # {} PROVE FALSE
    OBVIOUS
  <2>1. PICK n \in T : \A i \in T : n <= i
    <3>1. T \subseteq Nat
      OBVIOUS
    <3> HIDE DEF T
    <3> QED BY <3>1, LeastNumber
  <2>2. n \in 1..m /\ n - 1 \in 0..m /\ n - 1 \notin T
    BY <1>3, <2>1
  <2>3. g[n - 1] \in S \cap Rows
    BY <1>3, <2>2
  <2>4. g[n] \in S
    BY <1>3, <2>2, <2>3
  <2> QED BY <2>1, <2>4
<1>5. m \in 0..m /\ g[m] \in Rows
  BY <1>2, <1>3
<1> QED BY <1>1, <1>4, <1>5

(* Two loops from the same table go through the same tables. *)
LEMMA LoopUnique ==
  ASSUME NEW table \in Rows, NEW kind, NEW events \in Seq(EventType), NEW stored,
         NEW g, NEW h,
         IsLoop(g, table, kind, events, stored), IsLoop(h, table, kind, events, stored)
  PROVE  g[Len(events)] = h[Len(events)]
<1> DEFINE m == Len(events)
           T == {n \in 0..m : g[n] # h[n]}
<1>1. m \in Nat /\ m \in 0..m
  OBVIOUS
<1>2. T = {}
  <2> SUFFICES ASSUME T # {} PROVE FALSE
    OBVIOUS
  <2>1. PICK n \in T : \A i \in T : n <= i
    <3>1. T \subseteq Nat
      OBVIOUS
    <3> HIDE DEF T
    <3> QED BY <3>1, LeastNumber
  <2>2. n \in 1..m /\ n - 1 \in 0..m /\ n - 1 \notin T
    BY <2>1 DEF IsLoop
  <2>3. g[n] = Turn(g[n - 1], kind, events[n], stored)
        /\ h[n] = Turn(h[n - 1], kind, events[n], stored)
    BY <2>2 DEF IsLoop
  <2>4. g[n - 1] = h[n - 1]
    BY <2>2
  <2> QED BY <2>1, <2>3, <2>4
<1> QED BY <1>1, <1>2

(* The loop over one event is a turn. *)
LEMMA LoopOne ==
  ASSUME NEW table \in Rows, NEW kind \in Kinds, NEW e \in EventType, NEW stored
  PROVE  ApplyKind(table, kind, <<e>>, stored) = Turn(table, kind, e, stored)
<1> DEFINE events == <<e>>
<1>1. events \in Seq(EventType) /\ Len(events) = 1 /\ events[1] = e
  OBVIOUS
<1> HIDE DEF events
<1>2. PICK g : /\ IsLoop(g, table, kind, events, stored)
               /\ ApplyKind(table, kind, events, stored) = g[Len(events)]
  BY <1>1, Loops
<1>3. g[0] = table /\ g[1] = Turn(g[1 - 1], kind, events[1], stored)
  BY <1>1, <1>2 DEF IsLoop
<1> QED BY <1>1, <1>2, <1>3 DEF events

(* The loop over two parts is the loop over the second after that over the first. *)
LEMMA LoopParts ==
  ASSUME NEW table \in Rows, NEW kind \in Kinds, NEW s \in Seq(EventType),
         NEW t \in Seq(EventType), NEW stored
  PROVE  ApplyKind(table, kind, s \o t, stored)
           = ApplyKind(ApplyKind(table, kind, s, stored), kind, t, stored)
<1> DEFINE events == s \o t
           m == Len(s)
           l == Len(t)
           next == ApplyKind(table, kind, s, stored)
<1>1. /\ events \in Seq(EventType) /\ Len(events) = m + l /\ m \in Nat /\ l \in Nat
      /\ \A i \in 1..m : events[i] = s[i]
      /\ \A i \in 1..l : events[m + i] = t[i]
  OBVIOUS
<1> HIDE DEF events
<1>2. PICK g : /\ IsLoop(g, table, kind, events, stored)
               /\ ApplyKind(table, kind, events, stored) = g[m + l]
  <2>1. \E g : /\ IsLoop(g, table, kind, events, stored)
               /\ ApplyKind(table, kind, events, stored) = g[Len(events)]
    BY <1>1, Loops
  <2> HIDE DEF m, l
  <2> QED BY <1>1, <2>1
<1>3. PICK h : /\ IsLoop(h, table, kind, s, stored)
               /\ next = h[m]
  BY Loops
<1>4. next \in Rows
  <2>1. h \in [0..m -> Rows] /\ m \in 0..m
    BY <1>1, <1>3 DEF IsLoop
  <2> QED BY <1>3, <2>1
<1> HIDE DEF next
<1>5. PICK j : /\ IsLoop(j, next, kind, t, stored)
               /\ ApplyKind(next, kind, t, stored) = j[l]
  BY <1>4, Loops
<1>6. /\ g \in [0..m + l -> Rows] /\ g[0] = table
      /\ \A n \in 1..m + l : g[n] = Turn(g[n - 1], kind, events[n], stored)
  BY <1>1, <1>2 DEF IsLoop
<1> DEFINE front == [n \in 0..m |-> g[n]]
           back == [n \in 0..l |-> g[m + n]]
<1>7. IsLoop(front, table, kind, s, stored)
  <2>1. front \in [0..m -> Rows] /\ front[0] = table
    <3>1. 0 \in 0..m /\ \A n \in 0..m : n \in 0..m + l
      BY <1>1
    <3> QED BY <1>6, <3>1
  <2>2. ASSUME NEW n \in 1..m PROVE front[n] = Turn(front[n - 1], kind, s[n], stored)
    <3>1. n \in 0..m /\ n - 1 \in 0..m /\ n \in 1..m + l
      BY <1>1
    <3>2. front[n] = g[n] /\ front[n - 1] = g[n - 1]
      BY <3>1
    <3> QED BY <1>1, <1>6, <3>1, <3>2
  <2> HIDE DEF front
  <2> QED BY <2>1, <2>2 DEF IsLoop
<1>8. front[m] = next
  <2> HIDE DEF front
  <2> QED BY <1>3, <1>7, LoopUnique
<1>9. g[m] = next
  BY <1>1, <1>8
<1>10. IsLoop(back, next, kind, t, stored)
  <2>1. back \in [0..l -> Rows] /\ back[0] = next
    <3>1. 0 \in 0..l /\ m + 0 = m /\ \A n \in 0..l : m + n \in 0..m + l
      BY <1>1
    <3> QED BY <1>6, <1>9, <3>1
  <2>2. ASSUME NEW n \in 1..l PROVE back[n] = Turn(back[n - 1], kind, t[n], stored)
    <3>1. n \in 0..l /\ n - 1 \in 0..l /\ m + n \in 1..m + l /\ (m + n) - 1 = m + (n - 1)
      BY <1>1
    <3>2. back[n] = g[m + n] /\ back[n - 1] = g[m + (n - 1)]
      BY <3>1
    <3>3. g[m + n] = Turn(g[(m + n) - 1], kind, events[m + n], stored)
      BY <1>6, <3>1
    <3> QED BY <1>1, <3>1, <3>2, <3>3
  <2> HIDE DEF back
  <2> QED BY <2>1, <2>2 DEF IsLoop
<1>11. back[l] = j[l]
  <2> HIDE DEF back
  <2> QED BY <1>4, <1>5, <1>10, LoopUnique
<1>12. back[l] = g[m + l]
  BY <1>1
<1> QED BY <1>2, <1>5, <1>11, <1>12 DEF events, next

-----------------------------------------------------------------------------
(* The events of a commit are those of its transactions. *)

(* A sequence of events joined to another holds the events of both. *)
LEMMA ElementsOfParts ==
  ASSUME NEW S, NEW s \in Seq(S), NEW t \in Seq(S)
  PROVE  s \o t \in Seq(S) /\ ToSet(s \o t) = ToSet(s) \cup ToSet(t)
<1> DEFINE u == s \o t
<1>1. /\ u \in Seq(S) /\ Len(u) = Len(s) + Len(t) /\ Len(s) \in Nat /\ Len(t) \in Nat
      /\ \A i \in 1..Len(s) : u[i] = s[i]
      /\ \A i \in 1..Len(t) : u[Len(s) + i] = t[i]
  OBVIOUS
<1> HIDE DEF u
<1>2. ToSet(u) \subseteq ToSet(s) \cup ToSet(t)
  <2> SUFFICES ASSUME NEW i \in 1..Len(u) PROVE u[i] \in ToSet(s) \cup ToSet(t)
    BY DEF ToSet
  <2>1. CASE i \in 1..Len(s)
    BY <1>1, <2>1 DEF ToSet
  <2>2. CASE i \notin 1..Len(s)
    <3>1. i - Len(s) \in 1..Len(t) /\ Len(s) + (i - Len(s)) = i
      BY <1>1, <2>2
    <3>2. u[i] = t[i - Len(s)]
      BY <1>1, <3>1
    <3> QED BY <3>1, <3>2 DEF ToSet
  <2> QED BY <2>1, <2>2
<1>3. ToSet(s) \subseteq ToSet(u)
  <2> SUFFICES ASSUME NEW i \in 1..Len(s) PROVE s[i] \in ToSet(u)
    BY DEF ToSet
  <2>1. i \in 1..Len(u)
    BY <1>1
  <2> QED BY <1>1, <2>1 DEF ToSet
<1>4. ToSet(t) \subseteq ToSet(u)
  <2> SUFFICES ASSUME NEW i \in 1..Len(t) PROVE t[i] \in ToSet(u)
    BY DEF ToSet
  <2>1. Len(s) + i \in 1..Len(u)
    BY <1>1
  <2> QED BY <1>1, <2>1 DEF ToSet
<1> QED BY <1>1, <1>2, <1>3, <1>4 DEF u

(* The parts of a sequence joined one after the other *)
IsFlat(g, parts) ==
  \A i \in 1..Len(parts) : g[i] = IF i = 1 THEN parts[i] ELSE g[i - 1] \o parts[i]

(* FlattenSeq joins the parts one after the other. *)
LEMMA FlattenLoop ==
  ASSUME NEW S, NEW parts \in Seq(Seq(S)), Len(parts) > 0
  PROVE  \E g : IsFlat(g, parts) /\ FlattenSeq(parts) = g[Len(parts)]
<1> DEFINE m == Len(parts)
           Body(g) == [i \in 1..m |-> IF i = 1 THEN parts[i] ELSE g[i - 1] \o parts[i]]
           step == [p \in (1..m) \X Seq(S) |-> IF p[1] = 1 THEN parts[1] ELSE p[2] \o parts[p[1]]]
           flat == CHOOSE g : g = Body(g)
<1>1. m \in Nat /\ m > 0 /\ \A i \in 1..m : parts[i] \in Seq(S)
  OBVIOUS
<1>2. step \in [(1..m) \X Seq(S) -> Seq(S)]
  <2>1. ASSUME NEW p \in (1..m) \X Seq(S)
        PROVE  (IF p[1] = 1 THEN parts[1] ELSE p[2] \o parts[p[1]]) \in Seq(S)
    <3>1. p[2] \in Seq(S) /\ parts[p[1]] \in Seq(S) /\ parts[1] \in Seq(S)
      BY <1>1
    <3> HIDE DEF m
    <3>2. p[2] \o parts[p[1]] \in Seq(S)
      BY <3>1
    <3> QED BY <3>1, <3>2
  <2> QED BY <2>1
<1>3. PICK h : IsRecursion(h, m, Seq(S), << >>, step)
  <2>1. << >> \in Seq(S)
    OBVIOUS
  <2> HIDE DEF step, m
  <2> QED BY <1>1, <1>2, <2>1, RecursionExists
<1> DEFINE f == [i \in 1..m |-> h[i]]
<1>4. \A i \in 1..m : f[i] = IF i = 1 THEN parts[i] ELSE f[i - 1] \o parts[i]
  <2> SUFFICES ASSUME NEW i \in 1..m
               PROVE  f[i] = IF i = 1 THEN parts[i] ELSE f[i - 1] \o parts[i]
    OBVIOUS
  <2>1. i - 1 \in 0..m
    BY <1>1
  <2>2. h[i - 1] \in Seq(S) /\ h[i] = step[<<i, h[i - 1]>>]
    BY <1>3, <2>1 DEF IsRecursion
  <2>3. step[<<i, h[i - 1]>>] = IF i = 1 THEN parts[1] ELSE h[i - 1] \o parts[i]
    <3> HIDE DEF m
    <3> QED BY <2>2
  <2>4. i # 1 => f[i - 1] = h[i - 1]
    BY <1>1
  <2>5. f[i] = h[i]
    OBVIOUS
  <2> HIDE DEF f, step
  <2> QED BY <2>2, <2>3, <2>4, <2>5
<1>5. f = Body(f)
  <2> HIDE DEF m
  <2> QED BY <1>4
<1>6. flat = Body(flat)
  <2> HIDE DEF f
  <2> QED BY <1>5
<1>7. FlattenSeq(parts) = flat[m]
  BY <1>1 DEF FlattenSeq
<1> HIDE DEF flat
<1>8. IsFlat(flat, parts)
  <2>1. \A i \in 1..m : flat[i] = IF i = 1 THEN parts[i] ELSE flat[i - 1] \o parts[i]
    <3> HIDE DEF m
    <3> QED BY <1>6
  <2> QED BY <2>1 DEF IsFlat
<1> QED BY <1>7, <1>8

(* A batch holds the events of its transactions; one of a single transaction is
   that transaction's. *)
LEMMA Flattened ==
  ASSUME NEW S, NEW parts \in Seq(Seq(S)), Len(parts) > 0
  PROVE  /\ FlattenSeq(parts) \in Seq(S)
         /\ ToSet(FlattenSeq(parts)) = UNION {ToSet(parts[i]) : i \in 1..Len(parts)}
         /\ Len(parts) = 1 => FlattenSeq(parts) = parts[1]
<1> DEFINE m == Len(parts)
<1>1. m \in Nat /\ m > 0 /\ \A i \in 1..m : parts[i] \in Seq(S)
  OBVIOUS
<1>2. PICK flat : IsFlat(flat, parts) /\ FlattenSeq(parts) = flat[m]
  BY FlattenLoop
<1>8. \A i \in 1..m : flat[i] = IF i = 1 THEN parts[i] ELSE flat[i - 1] \o parts[i]
  BY <1>2 DEF IsFlat
<1> HIDE DEF m
<1>9. flat[1] = parts[1] /\ parts[1] \in Seq(S)
  BY <1>1, <1>8
<1> DEFINE Good(n) == /\ flat[n] \in Seq(S)
                      /\ ToSet(flat[n]) = UNION {ToSet(parts[i]) : i \in 1..n}
           T == {n \in 1..m : ~Good(n)}
<1>10. Good(1)
  <2>1. 1..1 = {1}
    OBVIOUS
  <2>2. UNION {ToSet(parts[i]) : i \in 1..1} = ToSet(parts[1])
    BY <2>1
  <2> QED BY <1>9, <2>2
<1>11. ASSUME NEW n \in 1..m, n # 1, Good(n - 1) PROVE Good(n)
  <2>1. flat[n] = flat[n - 1] \o parts[n] /\ parts[n] \in Seq(S)
    BY <1>1, <1>8, <1>11
  <2>2. flat[n] \in Seq(S) /\ ToSet(flat[n]) = ToSet(flat[n - 1]) \cup ToSet(parts[n])
    BY <1>11, <2>1, ElementsOfParts
  <2>3. 1..n = (1..n - 1) \cup {n}
    BY <1>1
  <2>4. UNION {ToSet(parts[i]) : i \in 1..n}
          = (UNION {ToSet(parts[i]) : i \in 1..n - 1}) \cup ToSet(parts[n])
    BY <2>3
  <2> QED BY <1>11, <2>2, <2>4
<1>12. T = {}
  <2> SUFFICES ASSUME T # {} PROVE FALSE
    OBVIOUS
  <2> HIDE DEF Good
  <2>1. PICK n \in T : \A i \in T : n <= i
    <3>1. T \subseteq Nat
      BY <1>1
    <3> HIDE DEF T
    <3> QED BY <3>1, LeastNumber
  <2>2. n # 1
    BY <1>10, <2>1
  <2>3. n \in 1..m /\ n - 1 \in 1..m
    BY <1>1, <2>2
  <2>4. Good(n - 1)
    BY <2>1, <2>3
  <2> QED BY <2>1, <2>2, <2>3, <2>4, <1>11
<1>13. Good(m)
  <2>1. m \in 1..m
    BY <1>1
  <2> HIDE DEF Good
  <2> QED BY <1>12, <2>1
<1> QED BY <1>1, <1>2, <1>9, <1>13 DEF m

-----------------------------------------------------------------------------
(* What a transaction writes into the log *)

LogTyped ==
  /\ log \in Seq([ledger : [Keys -> KeyType], manager : Nat, events : Seq(EventType)])
  /\ settlement \in [Keys -> Prices \cup {Live}]

(* Every ledger there has been is typed. *)
LEMMA LedgersTyped ==
  ASSUME LogTyped
  PROVE  /\ Len(log) \in Nat
         /\ \A n \in 0..Len(log) : LedgerAt(n) \in [Keys -> KeyType]
         /\ Ledger \in [Keys -> KeyType] /\ Manager \in Nat
<1>1. Len(log) \in Nat
  BY DEF LogTyped
<1>2. EmptyKey \in KeyType
  BY IndexAssumption DEF EmptyKey, KeyType, Amounts
<1>3. \A n \in 1..Len(log) : log[n].ledger \in [Keys -> KeyType] /\ log[n].manager \in Nat
  <2> DEFINE E == Seq(EventType)
             L == [Keys -> KeyType]
             R == [ledger : L, manager : Nat, events : E]
  <2>1. log \in Seq(R)
    BY DEF LogTyped
  <2> HIDE DEF R
  <2>2. \A n \in 1..Len(log) : log[n] \in R
    BY <2>1
  <2> USE DEF R
  <2> HIDE DEF E, L
  <2>3. \A n \in 1..Len(log) : log[n].ledger \in L /\ log[n].manager \in Nat
    BY <2>2
  <2> QED BY <2>3 DEF L
<1>4. \A n \in 0..Len(log) : LedgerAt(n) \in [Keys -> KeyType]
  BY <1>1, <1>2, <1>3 DEF LedgerAt, GenesisLedger
<1>5. Manager \in Nat
  BY <1>1, <1>3 DEF Manager, ManagerAt
<1> QED BY <1>1, <1>4, <1>5 DEF Ledger

(* Events of one key and one transaction, of the given types *)
EventsOf(k, i, names, s) ==
  /\ s \in Seq(EventType)
  /\ \A e \in ToSet(s) : e.key = k /\ e.tx = i /\ e.type \in names

(* Events of one transaction joined are events of that transaction. *)
LEMMA EventsJoin ==
  ASSUME NEW k, NEW i, NEW names, NEW s, NEW t,
         EventsOf(k, i, names, s), EventsOf(k, i, names, t)
  PROVE  EventsOf(k, i, names, s \o t) /\ ToSet(s \o t) = ToSet(s) \cup ToSet(t)
<1>1. s \o t \in Seq(EventType) /\ ToSet(s \o t) = ToSet(s) \cup ToSet(t)
  BY ElementsOfParts DEF EventsOf
<1> QED BY <1>1 DEF EventsOf

(* One event by itself. *)
LEMMA EventAlone ==
  ASSUME NEW e \in EventType, NEW names, e.type \in names
  PROVE  EventsOf(e.key, e.tx, names, <<e>>) /\ ToSet(<<e>>) = {e}
<1>1. <<e>> \in Seq(EventType)
  OBVIOUS
<1>2. ToSet(<<e>>) = {e}
  BY DEF ToSet
<1> QED BY <1>1, <1>2 DEF EventsOf

(* No event at all. *)
LEMMA EventsNone ==
  ASSUME NEW k, NEW i, NEW names
  PROVE  EventsOf(k, i, names, << >>) /\ ToSet(<< >>) = {}
<1>1. << >> \in Seq(EventType) /\ ToSet(<< >>) = {}
  BY DEF ToSet
<1> QED BY <1>1 DEF EventsOf

(* More types may be allowed. *)
LEMMA EventsWider ==
  ASSUME NEW k, NEW i, NEW names, NEW wider, NEW s, names \subseteq wider,
         EventsOf(k, i, names, s)
  PROVE  EventsOf(k, i, wider, s)
BY DEF EventsOf

(* An event of the transaction under way *)
Emitted(e, type, k) ==
  e \in EventType /\ e.type = type /\ e.key = k /\ e.tx = Len(log) + 1

(* A fresh event names its type, its key and the transaction under way. *)
LEMMA EventTyped ==
  ASSUME LogTyped, NEW k \in Keys, NEW type \in Names
  PROVE  /\ Emitted(Event(type, k), type, k)
         /\ Event(type, k).qty = 0 /\ Event(type, k).payout = 0 /\ Event(type, k).expires = 0
<1> DEFINE tx == Len(log) + 1
           e == Event(type, k)
<1>1. tx \in Nat
  BY LedgersTyped
<1>2. e = [type |-> type, key |-> k, tx |-> tx, qty |-> 0, payout |-> 0,
           borrow |-> 0, settled |-> FALSE, had |-> FALSE, sweep |-> FALSE, expires |-> 0]
  BY DEF Event
<1>3. Emitted(e, type, k) <=> (e \in EventType /\ e.type = type /\ e.key = k /\ e.tx = tx)
  BY DEF Emitted
<1> HIDE DEF tx, e
<1>4. e \in EventType
  BY <1>1, <1>2 DEF EventType
<1>5. e.type = type /\ e.key = k /\ e.tx = tx /\ e.qty = 0 /\ e.payout = 0 /\ e.expires = 0
  BY <1>2
<1>6. Emitted(e, type, k) /\ e.qty = 0 /\ e.payout = 0 /\ e.expires = 0
  BY <1>3, <1>4, <1>5
<1> QED BY <1>6 DEF e

(* The events the operations emit *)
LEMMA EventsTyped ==
  ASSUME LogTyped, NEW k \in Keys, NEW q \in Nat, NEW b \in Nat
  PROVE  /\ Emitted(Opened(k, q, b), "LeveragedPositionOpened", k)
         /\ Opened(k, q, b).qty = q
         /\ Emitted(Redeemed(k, q, b), "PositionRedeemed", k)
         /\ Redeemed(k, q, b).qty = q /\ Redeemed(k, q, b).payout = b
         /\ Emitted(KeyBorrow(k, b), "KeyBorrowUpdated", k)
         /\ Emitted(BadDebtWrittenOff(k), "BadDebtWrittenOff", k)
         /\ BadDebtWrittenOff(k).qty = 0
<1>1. Settled(k) \in BOOLEAN
  BY DEF Settled
<1>2. /\ Emitted(Opened(k, q, b), "LeveragedPositionOpened", k)
      /\ Opened(k, q, b).qty = q
  <2> DEFINE e == Event("LeveragedPositionOpened", k)
  <2>1. Emitted(e, "LeveragedPositionOpened", k)
    BY EventTyped DEF Names
  <2>2. Opened(k, q, b) = [e EXCEPT !.qty = q, !.borrow = b]
    BY DEF Opened
  <2> HIDE DEF e
  <2> QED BY <2>1, <2>2 DEF Emitted, EventType
<1>3. /\ Emitted(Redeemed(k, q, b), "PositionRedeemed", k)
      /\ Redeemed(k, q, b).qty = q /\ Redeemed(k, q, b).payout = b
  <2> DEFINE e == Event("PositionRedeemed", k)
             set == Settled(k)
  <2>1. Emitted(e, "PositionRedeemed", k)
    BY EventTyped DEF Names
  <2>2. Redeemed(k, q, b) = [e EXCEPT !.qty = q, !.payout = b, !.settled = set]
    BY DEF Redeemed
  <2>3. set \in BOOLEAN
    BY <1>1
  <2> HIDE DEF e, set
  <2> QED BY <2>1, <2>2, <2>3 DEF Emitted, EventType
<1>4. Emitted(KeyBorrow(k, b), "KeyBorrowUpdated", k)
  <2> DEFINE e == Event("KeyBorrowUpdated", k)
  <2>1. Emitted(e, "KeyBorrowUpdated", k)
    BY EventTyped DEF Names
  <2>2. KeyBorrow(k, b) = [e EXCEPT !.borrow = b]
    BY DEF KeyBorrow
  <2> HIDE DEF e
  <2> QED BY <2>1, <2>2 DEF Emitted, EventType
<1>5. Emitted(BadDebtWrittenOff(k), "BadDebtWrittenOff", k) /\ BadDebtWrittenOff(k).qty = 0
  <2> DEFINE e == Event("BadDebtWrittenOff", k)
  <2>1. Emitted(e, "BadDebtWrittenOff", k) /\ e.qty = 0
    BY EventTyped DEF Names
  <2>2. BadDebtWrittenOff(k) = [e EXCEPT !.settled = TRUE, !.had = TRUE]
    BY DEF BadDebtWrittenOff
  <2> HIDE DEF e
  <2> QED BY <2>1, <2>2 DEF Emitted, EventType
<1> QED BY <1>2, <1>3, <1>4, <1>5

(* The events of a liquidation and of the two recoveries. *)
LEMMA LastEventsTyped ==
  ASSUME LogTyped, NEW k \in Keys, NEW b \in Nat, NEW s \in BOOLEAN
  PROVE  /\ Emitted([Event("PositionLiquidated", k) EXCEPT !.had = s], "PositionLiquidated", k)
         /\ Emitted([Event("StrandedCustodyRecovered", k) EXCEPT !.payout = b],
                    "StrandedCustodyRecovered", k)
         /\ Emitted([Event("StrandedCustodyRecovered", k) EXCEPT !.payout = b, !.sweep = TRUE],
                    "StrandedCustodyRecovered", k)
<1> DEFINE e == Event("PositionLiquidated", k)
           f == Event("StrandedCustodyRecovered", k)
<1>1. /\ Emitted(e, "PositionLiquidated", k)
      /\ Emitted(f, "StrandedCustodyRecovered", k)
  BY EventTyped DEF Names
<1> HIDE DEF e, f
<1>2. Emitted([e EXCEPT !.had = s], "PositionLiquidated", k)
  BY <1>1 DEF Emitted, EventType
<1>3. /\ Emitted([f EXCEPT !.payout = b], "StrandedCustodyRecovered", k)
      /\ Emitted([f EXCEPT !.payout = b, !.sweep = TRUE], "StrandedCustodyRecovered", k)
  BY <1>1 DEF Emitted, EventType
<1> QED BY <1>2, <1>3 DEF e, f

(* The events of the resting orders. *)
LEMMA OrderEventsTyped ==
  ASSUME LogTyped, NEW k \in Keys, NEW x \in OrderExpiries \cup {0},
         NEW type \in {"LimitMintOrderPlaced", "LimitMintOrderExecuted", "LimitMintOrderCancelled"}
  PROVE  /\ Emitted([Event(type, k) EXCEPT !.expires = x], type, k)
         /\ [Event(type, k) EXCEPT !.expires = x].expires = x
<1> DEFINE e == Event(type, k)
<1>1. Emitted(e, type, k)
  BY EventTyped DEF Names
<1> HIDE DEF e
<1>2. Emitted([e EXCEPT !.expires = x], type, k) /\ [e EXCEPT !.expires = x].expires = x
  BY <1>1 DEF Emitted, EventType
<1> QED BY <1>2 DEF e

-----------------------------------------------------------------------------
(* A row against what its key holds: the quantity is the ledger's, and a row is
   open exactly while there is something to close. *)

Mirrors(row, at) ==
  /\ row.qty = at.qty
  /\ row.status = "open" <=> at.qty > 0

(* The tables that differ from `table` in the row of k at most, which mirrors `at` *)
Mirroring(k, table, at) ==
  {t \in Rows : (\A j \in Keys \ {k} : t[j] = table[j]) /\ Mirrors(t[k], at)}

(* One turn of a loop takes the row of k where the event took the key. *)
LEMMA MirroringTurns ==
  ASSUME NEW k \in Keys, NEW table \in Rows, NEW at, NEW after, NEW t \in Mirroring(k, table, at),
         NEW e \in EventType, e.key = k, NEW kind \in Kinds, NEW stored,
         kind \in KindsOf(e) /\ Fresh(e, stored) => Mirrors(Apply(kind, t[k], e), after),
         ~(kind \in KindsOf(e) /\ Fresh(e, stored)) => Mirrors(t[k], after)
  PROVE  Turn(t, kind, e, stored) \in Mirroring(k, table, after)
<1>1. /\ t \in Rows /\ \A j \in Keys \ {k} : t[j] = table[j]
      /\ Mirrors(t[k], at)
  BY DEF Mirroring
<1>2. Turn(t, kind, e, stored) \in Rows
  BY <1>1, TurnTypes
<1> DEFINE new == Apply(kind, t[k], e)
<1>3. CASE kind \in KindsOf(e) /\ Fresh(e, stored)
  <2>1. Turn(t, kind, e, stored) = [t EXCEPT ![k] = new]
    BY <1>3 DEF Turn
  <2>2. Mirrors(new, after)
    BY <1>3
  <2> HIDE DEF new
  <2>3. /\ Turn(t, kind, e, stored)[k] = new
        /\ \A j \in Keys \ {k} : Turn(t, kind, e, stored)[j] = t[j]
    BY <1>1, <2>1 DEF Rows
  <2> QED BY <1>1, <1>2, <2>2, <2>3 DEF Mirroring
<1>4. CASE ~(kind \in KindsOf(e) /\ Fresh(e, stored))
  <2>1. Turn(t, kind, e, stored) = t
    BY <1>4 DEF Turn
  <2> QED BY <1>1, <1>4, <2>1 DEF Mirroring
<1> QED BY <1>3, <1>4

(* The amounts of rows and events are naturals. *)
LEMMA RowFields ==
  ASSUME NEW row \in RowType, NEW e \in EventType
  PROVE  /\ row.qty \in Nat /\ row.ext \in Nat /\ row.recovered \in Nat
         /\ e.qty \in Nat /\ e.payout \in Nat
BY DEF RowType, EventType

(* A redeem takes its contracts off the row. *)
LEMMA RedeemMirrors ==
  ASSUME NEW row \in RowType, NEW e \in EventType, NEW at \in KeyType, NEW after \in KeyType,
         Mirrors(row, at), 0 < e.qty, e.qty <= at.qty, after.qty = at.qty - e.qty
  PROVE  Mirrors(AfterRedeem(row, e), after)
<1>1. /\ row.qty \in Nat /\ e.qty \in Nat /\ at.qty \in Int /\ after.qty \in Int
  BY RowFields, IndexAssumption DEF KeyType, Amounts
<1> DEFINE left == Larger(row.qty - e.qty, 0)
           status == IF left = 0 THEN (IF e.settled THEN "settled" ELSE "closed") ELSE "open"
           source == IF left = 0 THEN "predict_external" ELSE row.source
           custody == row.custody /\ ~(left = 0)
           ext == row.ext + e.payout
<1>2. row.status = "open" /\ row.qty = at.qty
  BY <1>1 DEF Mirrors
<1>3. AfterRedeem(row, e) = [row EXCEPT !.qty = left, !.status = status, !.source = source,
                                        !.custody = custody, !.ext = ext]
  BY <1>2 DEF AfterRedeem
<1>4. left = after.qty
  BY <1>1, <1>2 DEF Larger
<1>5. status = "open" <=> after.qty > 0
  BY <1>1, <1>4
<1> HIDE DEF left, status, source, custody, ext
<1>6. AfterRedeem(row, e).qty = left /\ AfterRedeem(row, e).status = status
  BY <1>3 DEF RowType
<1> QED BY <1>4, <1>5, <1>6 DEF Mirrors

(* A mint adds to the row, which is empty when it is not open. *)
LEMMA OpenMirrors ==
  ASSUME NEW row \in RowType, NEW e \in EventType, NEW at \in KeyType, NEW after \in KeyType,
         Mirrors(row, at), 0 < e.qty, after.qty = at.qty + e.qty
  PROVE  Mirrors(AfterOpen(row, e), after)
<1>1. row.qty \in Nat /\ e.qty \in Nat /\ at.qty \in Nat
  BY RowFields, IndexAssumption DEF KeyType, Amounts
<1>3. CASE row.status = "open"
  <2> DEFINE qty == row.qty + e.qty
             borrow == row.borrow + e.borrow
             new == [row EXCEPT !.qty = qty, !.borrow = borrow, !.status = "open"]
  <2>1. AfterOpen(row, e) = new
    BY <1>1, <1>3 DEF AfterOpen
  <2>2. qty = after.qty /\ after.qty > 0
    BY <1>1 DEF Mirrors
  <2> HIDE DEF qty, borrow
  <2>3. new.qty = qty /\ new.status = "open"
    BY DEF RowType
  <2> HIDE DEF new
  <2> QED BY <2>1, <2>2, <2>3 DEF Mirrors
<1>4. CASE row.status # "open"
  <2> DEFINE base == [row EXCEPT !.qty = 0, !.borrow = 0]
             qty == base.qty + e.qty
             borrow == base.borrow + e.borrow
             new == [base EXCEPT !.qty = qty, !.borrow = borrow, !.status = "open"]
  <2>1. AfterOpen(row, e) = new
    BY <1>1, <1>4 DEF AfterOpen
  <2>2. base \in RowType /\ base.qty = 0
    BY DEF RowType
  <2>3. qty = after.qty /\ after.qty > 0
    BY <1>1, <1>4, <2>2 DEF Mirrors
  <2> HIDE DEF base, qty, borrow
  <2>4. new.qty = qty /\ new.status = "open"
    BY <2>2 DEF RowType
  <2> HIDE DEF new
  <2> QED BY <2>1, <2>3, <2>4 DEF Mirrors
<1> QED BY <1>3, <1>4

(* Nothing but a mint disturbs the row of a key that holds nothing. *)
LEMMA FlatMirrors ==
  ASSUME NEW row \in RowType, NEW e \in EventType, NEW at \in KeyType, Mirrors(row, at),
         at.qty = 0, NEW kind \in Kinds, kind # "positions_open"
  PROVE  Mirrors(Apply(kind, row, e), at)
<1>1. row.qty = 0 /\ e.qty \in Nat /\ row.status # "open"
  BY RowFields DEF KeyType, Mirrors
<1>2. Larger(row.qty - e.qty, 0) = 0
  BY <1>1 DEF Larger
<1>3. CASE kind = "predict_redeem_closes"
  <2> DEFINE status == IF e.settled THEN "settled" ELSE "closed"
             ext == row.ext + e.payout
  <2>1. \/ AfterRedeem(row, e) = row
        \/ AfterRedeem(row, e) = [row EXCEPT !.qty = 0, !.status = status,
                                             !.source = "predict_external",
                                             !.custody = row.custody /\ FALSE, !.ext = ext]
    BY <1>2 DEF AfterRedeem
  <2>2. status # "open"
    OBVIOUS
  <2> HIDE DEF status, ext
  <2>3. Mirrors(AfterRedeem(row, e), at)
    BY <1>1, <2>1, <2>2 DEF Mirrors, RowType
  <2> QED BY <1>3, <2>3 DEF Apply
<1>4. CASE kind = "position_closes"
  <2> DEFINE recovery == e.type = "StrandedCustodyRecovered"
             fromManager == recovery /\ ~e.sweep
             status == IF e.qty > 0 THEN (IF e.settled THEN "settled" ELSE "closed")
                       ELSE row.status
             source == CloseSource(e)
             borrow == IF fromManager THEN row.borrow ELSE e.borrow
             custody == ~fromManager
             recovered == IF recovery THEN row.recovered + e.payout ELSE row.recovered
  <2>1. \/ AfterClose(row, e) = row
        \/ AfterClose(row, e) = [row EXCEPT !.qty = 0, !.borrow = borrow, !.status = status,
                                            !.source = source, !.custody = custody,
                                            !.recovered = recovered]
    BY <1>2 DEF AfterClose
  <2>2. status # "open"
    BY <1>1
  <2> HIDE DEF recovery, fromManager, status, source, borrow, custody, recovered
  <2>3. Mirrors(AfterClose(row, e), at)
    BY <1>1, <2>1, <2>2 DEF Mirrors, RowType
  <2> QED BY <1>4, <2>3 DEF Apply
<1>5. CASE kind = "key_borrow_patches"
  BY <1>1, <1>5 DEF Apply, AfterKeyBorrow, Mirrors
<1>6. CASE kind = "liquidation_positions"
  BY <1>1, <1>6 DEF Apply, AfterLiquidation, Mirrors, RowType
<1> QED BY <1>3, <1>4, <1>5, <1>6 DEF Kinds

(* A new debt changes the debt of the row only. *)
LEMMA PatchMirrors ==
  ASSUME NEW row \in RowType, NEW e, NEW at, Mirrors(row, at)
  PROVE  Mirrors(AfterKeyBorrow(row, e), at)
<1>1. CASE row.status = "open"
  <2> DEFINE borrow == e.borrow
  <2>1. AfterKeyBorrow(row, e) = [row EXCEPT !.borrow = borrow]
    BY <1>1 DEF AfterKeyBorrow
  <2> HIDE DEF borrow
  <2> QED BY <2>1 DEF Mirrors, RowType
<1>2. CASE row.status # "open"
  BY <1>2 DEF AfterKeyBorrow
<1> QED BY <1>1, <1>2

-----------------------------------------------------------------------------
(* One loop of commit() over the events of transaction i, which are new, takes
   rows that mirror `at` to rows that mirror `after`. *)

Passes(k, i, kind, events, at, after) ==
  \A table \in Rows, stored \in Nat : stored < i =>
    \A t \in Mirroring(k, table, at) :
      ApplyKind(t, kind, events, stored) \in Mirroring(k, table, after)

(* The loop over events that all leave a row as it should be *)
LEMMA PassKeeps ==
  ASSUME NEW k \in Keys, NEW i, NEW names, NEW events, EventsOf(k, i, names, events),
         NEW kind \in Kinds, NEW at,
         \A row \in RowType : \A e \in ToSet(events) :
            Mirrors(row, at) /\ kind \in KindsOf(e) => Mirrors(Apply(kind, row, e), at)
  PROVE  Passes(k, i, kind, events, at, at)
<1> SUFFICES ASSUME NEW table \in Rows, NEW stored \in Nat, NEW t \in Mirroring(k, table, at)
             PROVE  ApplyKind(t, kind, events, stored) \in Mirroring(k, table, at)
  BY DEF Passes
<1> DEFINE S == Mirroring(k, table, at)
<1>1. t \in Rows /\ events \in Seq(EventType)
  BY DEF Mirroring, EventsOf
<1>2. ASSUME NEW u \in S \cap Rows, NEW n \in 1..Len(events)
      PROVE  Turn(u, kind, events[n], stored) \in S
  <2> DEFINE e == events[n]
  <2>1. e \in EventType /\ e \in ToSet(events)
    BY <1>1 DEF ToSet
  <2>2. e.key = k
    BY <2>1 DEF EventsOf
  <2>3. u \in Mirroring(k, table, at) /\ u[k] \in RowType /\ Mirrors(u[k], at)
    BY DEF Mirroring, Rows
  <2> HIDE DEF e
  <2>4. kind \in KindsOf(e) => Mirrors(Apply(kind, u[k], e), at)
    BY <2>1, <2>3
  <2> QED BY <2>1, <2>2, <2>3, <2>4, MirroringTurns DEF e
<1> HIDE DEF S
<1>3. t \in S
  BY DEF S
<1>4. ApplyKind(t, kind, events, stored) \in S \cap Rows
  BY <1>1, <1>2, <1>3, LoopStays
<1> QED BY <1>4 DEF S

(* Events that do not take part *)
LEMMA PassQuiet ==
  ASSUME NEW k \in Keys, NEW i, NEW names, NEW events, EventsOf(k, i, names, events),
         NEW kind \in Kinds, NEW at, \A e \in ToSet(events) : kind \notin KindsOf(e)
  PROVE  Passes(k, i, kind, events, at, at)
BY PassKeeps

(* Of an empty key every loop but the one over mints leaves the row mirroring. *)
LEMMA PassFlat ==
  ASSUME NEW k \in Keys, NEW i, NEW names, NEW events, EventsOf(k, i, names, events),
         NEW kind \in Kinds, kind # "positions_open", NEW at \in KeyType, at.qty = 0
  PROVE  Passes(k, i, kind, events, at, at)
<1>1. ASSUME NEW row \in RowType, NEW e \in ToSet(events), Mirrors(row, at)
      PROVE  Mirrors(Apply(kind, row, e), at)
  <2>1. e \in EventType
    BY DEF EventsOf, ToSet
  <2> QED BY <1>1, <2>1, FlatMirrors
<1> QED BY <1>1, PassKeeps

(* A new debt changes nothing a mirror shows. *)
LEMMA PassPatch ==
  ASSUME NEW k \in Keys, NEW i, NEW names, NEW events, EventsOf(k, i, names, events), NEW at
  PROVE  Passes(k, i, "key_borrow_patches", events, at, at)
<1> DEFINE kind == "key_borrow_patches"
<1>1. ASSUME NEW row \in RowType, NEW e \in ToSet(events), Mirrors(row, at)
      PROVE  Mirrors(Apply(kind, row, e), at)
  <2>1. Apply(kind, row, e) = AfterKeyBorrow(row, e)
    BY DEF Apply
  <2> QED BY <1>1, <2>1, PatchMirrors
<1>2. kind \in Kinds
  BY DEF Kinds
<1> HIDE DEF kind
<1>3. Passes(k, i, kind, events, at, at)
  BY <1>1, <1>2, PassKeeps
<1> QED BY <1>3 DEF kind

(* Two parts, one after the other *)
LEMMA PassParts ==
  ASSUME NEW k \in Keys, NEW i, NEW kind \in Kinds, NEW at, NEW mid, NEW after,
         NEW s \in Seq(EventType), NEW t \in Seq(EventType),
         Passes(k, i, kind, s, at, mid), Passes(k, i, kind, t, mid, after)
  PROVE  Passes(k, i, kind, s \o t, at, after)
<1> SUFFICES ASSUME NEW table \in Rows, NEW stored \in Nat, stored < i,
                    NEW u \in Mirroring(k, table, at)
             PROVE  ApplyKind(u, kind, s \o t, stored) \in Mirroring(k, table, after)
  BY DEF Passes
<1> DEFINE v == ApplyKind(u, kind, s, stored)
<1>1. v \in Mirroring(k, table, mid)
  BY DEF Passes
<1>2. u \in Rows
  BY DEF Mirroring
<1>3. ApplyKind(u, kind, s \o t, stored) = ApplyKind(v, kind, t, stored)
  BY <1>2, LoopParts
<1> HIDE DEF v
<1>4. ApplyKind(v, kind, t, stored) \in Mirroring(k, table, after)
  BY <1>1 DEF Passes
<1> QED BY <1>3, <1>4

(* One event that matters *)
LEMMA PassOne ==
  ASSUME NEW k \in Keys, NEW i \in Nat, NEW kind \in Kinds, NEW e \in EventType, e.key = k, e.tx = i,
         kind \in KindsOf(e), NEW at, NEW after,
         \A row \in RowType : Mirrors(row, at) => Mirrors(Apply(kind, row, e), after)
  PROVE  Passes(k, i, kind, <<e>>, at, after)
<1> SUFFICES ASSUME NEW table \in Rows, NEW stored \in Nat, stored < i,
                    NEW t \in Mirroring(k, table, at)
             PROVE  ApplyKind(t, kind, <<e>>, stored) \in Mirroring(k, table, after)
  BY DEF Passes
<1>1. t \in Rows /\ t[k] \in RowType /\ Mirrors(t[k], at)
  BY DEF Mirroring, Rows
<1>2. Fresh(e, stored)
  BY DEF Fresh
<1>3. Mirrors(Apply(kind, t[k], e), after)
  BY <1>1
<1>4. Turn(t, kind, e, stored) \in Mirroring(k, table, after)
  BY <1>2, <1>3, MirroringTurns
<1> QED BY <1>1, <1>4, LoopOne

(* Only the quantity of a key is mirrored. *)
LEMMA PassSame ==
  ASSUME NEW k, NEW i, NEW kind, NEW events, NEW at, NEW mid, NEW after,
         Passes(k, i, kind, events, at, mid), mid.qty = after.qty
  PROVE  Passes(k, i, kind, events, at, after)
<1>1. \A table : Mirroring(k, table, mid) = Mirroring(k, table, after)
  BY DEF Mirroring, Mirrors
<1> QED BY <1>1 DEF Passes

(* commit() over the events of one new transaction of key k *)
Carries(k, i, at, after, events) ==
  \A table \in Rows, stored \in Nat : stored < i /\ Mirrors(table[k], at) =>
    ApplyPositions(table, events, stored) \in Mirroring(k, table, after)

(* The five loops of commit() in their order. *)
LEMMA FivePasses ==
  ASSUME NEW k \in Keys, NEW i, NEW events, NEW at, NEW a, NEW b, NEW c, NEW d, NEW after,
         Passes(k, i, "predict_redeem_closes", events, at, a),
         Passes(k, i, "position_closes", events, a, b),
         Passes(k, i, "positions_open", events, b, c),
         Passes(k, i, "key_borrow_patches", events, c, d),
         Passes(k, i, "liquidation_positions", events, d, after)
  PROVE  Carries(k, i, at, after, events)
<1> SUFFICES ASSUME NEW table \in Rows, NEW stored \in Nat, stored < i, Mirrors(table[k], at)
             PROVE  ApplyPositions(table, events, stored) \in Mirroring(k, table, after)
  BY DEF Carries
<1> DEFINE t1 == ApplyKind(table, "predict_redeem_closes", events, stored)
           t2 == ApplyKind(t1, "position_closes", events, stored)
           t3 == ApplyKind(t2, "positions_open", events, stored)
           t4 == ApplyKind(t3, "key_borrow_patches", events, stored)
           t5 == ApplyKind(t4, "liquidation_positions", events, stored)
<1>1. table \in Mirroring(k, table, at)
  BY DEF Mirroring
<1>2. t1 \in Mirroring(k, table, a)
  BY <1>1 DEF Passes
<1> HIDE DEF t1
<1>3. t2 \in Mirroring(k, table, b)
  BY <1>2 DEF Passes
<1> HIDE DEF t2
<1>4. t3 \in Mirroring(k, table, c)
  BY <1>3 DEF Passes
<1> HIDE DEF t3
<1>5. t4 \in Mirroring(k, table, d)
  BY <1>4 DEF Passes
<1> HIDE DEF t4
<1>6. t5 \in Mirroring(k, table, after)
  BY <1>5 DEF Passes
<1>7. ApplyPositions(table, events, stored) = t5
  BY DEF ApplyPositions, t1, t2, t3, t4
<1> QED BY <1>6, <1>7

(* The loops that events of these types do not enter *)
LEMMA QuietLoops ==
  ASSUME NEW k \in Keys, NEW i, NEW names, NEW events, EventsOf(k, i, names, events),
         names \subseteq Names, NEW at
  PROVE  /\ "PositionRedeemed" \notin names
              => Passes(k, i, "predict_redeem_closes", events, at, at)
         /\ names \cap {"LeveragedPositionClosed", "StrandedCustodyRecovered", "BadDebtWrittenOff"} = {}
              => Passes(k, i, "position_closes", events, at, at)
         /\ "LeveragedPositionOpened" \notin names
              => Passes(k, i, "positions_open", events, at, at)
         /\ names \cap {"BadDebtWrittenOff", "PositionLiquidated"} = {}
              => Passes(k, i, "liquidation_positions", events, at, at)
<1>1. \A e \in ToSet(events) : e.type \in names /\ e.type \in Names
  BY DEF EventsOf
<1>2. /\ "predict_redeem_closes" \in Kinds /\ "position_closes" \in Kinds
      /\ "positions_open" \in Kinds /\ "liquidation_positions" \in Kinds
  BY DEF Kinds
<1>3. ASSUME NEW e, e.type \in Names
      PROVE  /\ "predict_redeem_closes" \in KindsOf(e) => e.type = "PositionRedeemed"
             /\ "position_closes" \in KindsOf(e) =>
                  e.type \in {"LeveragedPositionClosed", "StrandedCustodyRecovered", "BadDebtWrittenOff"}
             /\ "positions_open" \in KindsOf(e) => e.type = "LeveragedPositionOpened"
             /\ "liquidation_positions" \in KindsOf(e) =>
                  e.type \in {"BadDebtWrittenOff", "PositionLiquidated"}
  BY <1>3, KindsOfEvents DEF Names
<1>4. ASSUME "PositionRedeemed" \notin names
      PROVE  Passes(k, i, "predict_redeem_closes", events, at, at)
  <2>1. \A e \in ToSet(events) : "predict_redeem_closes" \notin KindsOf(e)
    BY <1>1, <1>3, <1>4
  <2> QED BY <1>2, <2>1, PassQuiet
<1>5. ASSUME names \cap {"LeveragedPositionClosed", "StrandedCustodyRecovered", "BadDebtWrittenOff"} = {}
      PROVE  Passes(k, i, "position_closes", events, at, at)
  <2>1. \A e \in ToSet(events) : "position_closes" \notin KindsOf(e)
    BY <1>1, <1>3, <1>5
  <2> QED BY <1>2, <2>1, PassQuiet
<1>6. ASSUME "LeveragedPositionOpened" \notin names
      PROVE  Passes(k, i, "positions_open", events, at, at)
  <2>1. \A e \in ToSet(events) : "positions_open" \notin KindsOf(e)
    BY <1>1, <1>3, <1>6
  <2> QED BY <1>2, <2>1, PassQuiet
<1>7. ASSUME names \cap {"BadDebtWrittenOff", "PositionLiquidated"} = {}
      PROVE  Passes(k, i, "liquidation_positions", events, at, at)
  <2>1. \A e \in ToSet(events) : "liquidation_positions" \notin KindsOf(e)
    BY <1>1, <1>3, <1>7
  <2> QED BY <1>2, <2>1, PassQuiet
<1> QED BY <1>4, <1>5, <1>6, <1>7

(* The two loops an event may matter for *)
LEMMA PassRedeem ==
  ASSUME NEW k \in Keys, NEW i \in Nat, NEW e \in EventType, e.key = k, e.tx = i,
         e.type = "PositionRedeemed", NEW at \in KeyType, NEW after \in KeyType,
         0 < e.qty, e.qty <= at.qty, after.qty = at.qty - e.qty
  PROVE  Passes(k, i, "predict_redeem_closes", <<e>>, at, after)
<1>1. "predict_redeem_closes" \in KindsOf(e) /\ "predict_redeem_closes" \in Kinds
  BY KindsOfEvents DEF Kinds
<1>2. ASSUME NEW row \in RowType, Mirrors(row, at)
      PROVE  Mirrors(Apply("predict_redeem_closes", row, e), after)
  BY <1>2, RedeemMirrors DEF Apply
<1> QED BY <1>1, <1>2, PassOne

(* A mint in the loop over mints. *)
LEMMA PassOpen ==
  ASSUME NEW k \in Keys, NEW i \in Nat, NEW e \in EventType, e.key = k, e.tx = i,
         e.type = "LeveragedPositionOpened", NEW at \in KeyType, NEW after \in KeyType,
         0 < e.qty, after.qty = at.qty + e.qty
  PROVE  Passes(k, i, "positions_open", <<e>>, at, after)
<1>1. "positions_open" \in KindsOf(e) /\ "positions_open" \in Kinds
  BY KindsOfEvents DEF Kinds
<1>2. ASSUME NEW row \in RowType, Mirrors(row, at)
      PROVE  Mirrors(Apply("positions_open", row, e), after)
  BY <1>2, OpenMirrors DEF Apply
<1> QED BY <1>1, <1>2, PassOne

-----------------------------------------------------------------------------
(* The operations.  Each one runs a transaction of one key: what it emits says
   when a resting order is gone, and the five loops follow what it did. *)

Ends(e, x) ==
  \/ e.type \in {"LimitMintOrderExecuted", "LimitMintOrderCancelled"} /\ e.expires = x
  \/ e.type = "PositionLiquidated"

OrderFollows(x, y, events) ==
  /\ x # 0 /\ y # x => \E e \in ToSet(events) : Ends(e, x)
  /\ \A e \in ToSet(events) : e.type = "LimitMintOrderPlaced" => y = e.expires /\ y # 0

(* No close of these events leaves contracts of the key behind. *)
ClosesWhole(events, at) ==
  ~ \E e \in ToSet(events) : e.type = "LeveragedPositionClosed" /\ e.qty < at.qty

Runs(k) ==
  \E after \in KeyType, manager \in Nat, events \in Seq(EventType) :
    /\ EmitMoving(k, after, manager, events)
    /\ EventsOf(k, Len(log) + 1, Names, events)
    /\ OrderFollows(Ledger[k].order, after.order, events)
    /\ ClosesWhole(events, Ledger[k]) => Carries(k, Len(log) + 1, Ledger[k], after, events)

(* What a key holds. *)
LEMMA KeyFields ==
  ASSUME LogTyped, NEW k \in Keys
  PROVE  /\ Ledger[k] \in KeyType /\ Len(log) + 1 \in Nat /\ MaxQty \in Nat
         /\ Ledger[k].qty \in Nat /\ Ledger[k].qty <= MaxQty
         /\ Ledger[k].debt \in Nat /\ Ledger[k].held \in Nat
         /\ Ledger[k].order \in OrderExpiries \cup {0} /\ 0 \notin OrderExpiries
<1>1. Ledger[k] \in KeyType /\ Len(log) + 1 \in Nat
  BY LedgersTyped
<1> QED BY <1>1, IndexAssumption DEF KeyType, Amounts

(* How an operation is shown to be a transaction of its key. *)
LEMMA RunsMoving ==
  ASSUME LogTyped, NEW k \in Keys, NEW after \in KeyType, NEW manager \in Nat, NEW names,
         names \subseteq Names, NEW events,
         EventsOf(k, Len(log) + 1, names, events),
         EmitMoving(k, after, manager, events),
         \/ "LimitMintOrderPlaced" \notin names /\ after.order = Ledger[k].order
         \/ OrderFollows(Ledger[k].order, after.order, events),
         ClosesWhole(events, Ledger[k]) => Carries(k, Len(log) + 1, Ledger[k], after, events)
  PROVE  Runs(k)
<1>1. EventsOf(k, Len(log) + 1, Names, events)
  BY EventsWider
<1>2. events \in Seq(EventType)
  BY DEF EventsOf
<1>3. OrderFollows(Ledger[k].order, after.order, events)
  BY DEF OrderFollows, EventsOf
<1> QED BY <1>1, <1>2, <1>3 DEF Runs

(* Most leave the manager as it was. *)
LEMMA RunsIf ==
  ASSUME LogTyped, NEW k \in Keys, NEW after \in KeyType, NEW names, names \subseteq Names, NEW events,
         EventsOf(k, Len(log) + 1, names, events),
         Emit(k, after, events),
         \/ "LimitMintOrderPlaced" \notin names /\ after.order = Ledger[k].order
         \/ OrderFollows(Ledger[k].order, after.order, events),
         ClosesWhole(events, Ledger[k]) => Carries(k, Len(log) + 1, Ledger[k], after, events)
  PROVE  Runs(k)
<1>1. Manager \in Nat
  BY LedgersTyped
<1>2. EmitMoving(k, after, Manager, events)
  BY DEF Emit
<1> QED BY <1>1, <1>2, RunsMoving

(* Mint *)
LEMMA MintRuns ==
  ASSUME LogTyped, NEW k \in Keys, NEW q \in Quantities, NEW b \in {0, 1},
         NEW surplus \in {0, 1}, Mint(k, q, b, surplus)
  PROVE  Runs(k)
<1> DEFINE at == Ledger[k]
           i == Len(log) + 1
           qty == at.qty + q
           debt == at.debt + b
           held == at.held + surplus
           after == [at EXCEPT !.qty = qty, !.debt = debt, !.held = held]
           e == Opened(k, q, b)
<1>1. at \in KeyType /\ i \in Nat /\ q \in Nat /\ q > 0 /\ b \in Nat
      /\ qty \in Amounts /\ debt \in Nat /\ held \in Nat /\ qty = at.qty + q
  BY KeyFields DEF Mint, Quantities, Amounts
<1>2. Emit(k, after, <<e>>)
  BY DEF Mint
<1>3. e \in EventType /\ e.type = "LeveragedPositionOpened" /\ e.key = k /\ e.tx = i /\ e.qty = q
  <2>1. Emitted(e, "LeveragedPositionOpened", k) /\ e.qty = q
    BY <1>1, EventsTyped
  <2> QED BY <2>1 DEF Emitted
<1> HIDE DEF at, i, qty, debt, held, e
<1>4. after \in KeyType /\ after.qty = qty /\ after.order = at.order
  BY <1>1 DEF KeyType
<1> HIDE DEF after
<1> DEFINE names == {"LeveragedPositionOpened"}
<1>5. EventsOf(k, i, names, <<e>>) /\ names \subseteq Names
  BY <1>3, EventAlone DEF Names
<1>6. Carries(k, i, at, after, <<e>>)
  <2>2. /\ Passes(k, i, "predict_redeem_closes", <<e>>, at, at)
        /\ Passes(k, i, "position_closes", <<e>>, at, at)
        /\ Passes(k, i, "liquidation_positions", <<e>>, after, after)
    BY <1>5, QuietLoops
  <2>3. Passes(k, i, "positions_open", <<e>>, at, after)
    BY <1>1, <1>3, <1>4, PassOpen
  <2>4. Passes(k, i, "key_borrow_patches", <<e>>, after, after)
    BY <1>5, PassPatch
  <2> QED BY <2>2, <2>3, <2>4, FivePasses
<1>7. "LimitMintOrderPlaced" \notin names
  OBVIOUS
<1> HIDE DEF names
<1> QED BY <1>2, <1>4, <1>5, <1>6, <1>7, RunsIf DEF at, i

(* Redeem by a bot, outside LeverX *)
LEMMA ExternalRedeemRuns ==
  ASSUME LogTyped, NEW k \in Keys, NEW q \in Quantities, ExternalRedeem(k, q)
  PROVE  Runs(k)
<1> DEFINE at == Ledger[k]
           i == Len(log) + 1
           paid == q * settlement[k]
           qty == at.qty - q
           manager == Manager + paid
           after == [at EXCEPT !.qty = qty]
           e == Redeemed(k, q, paid)
<1>1. paid \in Nat
  <2>1. settlement[k] \in {0, 1}
    BY DEF LogTyped, ExternalRedeem, Settled, Prices
  <2>2. CASE settlement[k] = 0
    BY <2>2 DEF Quantities
  <2>3. CASE settlement[k] = 1
    BY <2>3 DEF Quantities
  <2> QED BY <2>1, <2>2, <2>3
<1>2. EmitMoving(k, after, manager, <<e>>)
  BY DEF ExternalRedeem
<1>3. q <= at.qty
  BY DEF ExternalRedeem
<1> HIDE DEF paid
<1>4. at \in KeyType /\ i \in Nat /\ q \in Nat /\ q > 0
      /\ qty \in Amounts /\ manager \in Nat
  BY <1>1, <1>3, KeyFields, LedgersTyped DEF Quantities, Amounts
<1>5. /\ e \in EventType /\ e.type = "PositionRedeemed" /\ e.key = k /\ e.tx = i
      /\ e.qty = q /\ e.payout = paid
  <2>1. Emitted(e, "PositionRedeemed", k) /\ e.qty = q /\ e.payout = paid
    BY <1>1, <1>4, EventsTyped
  <2> QED BY <2>1 DEF Emitted
<1>6. qty = at.qty - q
  OBVIOUS
<1> HIDE DEF at, i, qty, manager, e
<1>7. after \in KeyType /\ after.qty = qty /\ after.order = at.order
  BY <1>4 DEF KeyType
<1> HIDE DEF after
<1> DEFINE names == {"PositionRedeemed"}
<1>8. EventsOf(k, i, names, <<e>>) /\ names \subseteq Names
  BY <1>5, EventAlone DEF Names
<1>9. Carries(k, i, at, after, <<e>>)
  <2>1. /\ Passes(k, i, "position_closes", <<e>>, after, after)
        /\ Passes(k, i, "positions_open", <<e>>, after, after)
        /\ Passes(k, i, "liquidation_positions", <<e>>, after, after)
    BY <1>8, QuietLoops
  <2>2. Passes(k, i, "predict_redeem_closes", <<e>>, at, after)
    BY <1>3, <1>4, <1>5, <1>6, <1>7, PassRedeem
  <2>3. Passes(k, i, "key_borrow_patches", <<e>>, after, after)
    BY <1>8, PassPatch
  <2> QED BY <2>1, <2>2, <2>3, FivePasses
<1>10. "LimitMintOrderPlaced" \notin names
  OBVIOUS
<1> HIDE DEF names
<1> QED BY <1>2, <1>4, <1>7, <1>8, <1>9, <1>10, RunsMoving DEF at, i

(* Transactions that leave the quantity as it was, with events no position loop
   but the patches reads *)
LEMMA CarriesNothing ==
  ASSUME NEW k \in Keys, NEW i, NEW names, NEW events, EventsOf(k, i, names, events),
         names \subseteq Names,
         names \cap {"PositionRedeemed", "LeveragedPositionClosed", "StrandedCustodyRecovered",
                     "BadDebtWrittenOff", "LeveragedPositionOpened", "PositionLiquidated"} = {},
         NEW at, NEW after, after.qty = at.qty
  PROVE  Carries(k, i, at, after, events)
<1>1. /\ Passes(k, i, "predict_redeem_closes", events, at, at)
      /\ Passes(k, i, "position_closes", events, at, at)
      /\ Passes(k, i, "positions_open", events, at, at)
      /\ Passes(k, i, "liquidation_positions", events, at, at)
  BY QuietLoops
<1>2. Passes(k, i, "key_borrow_patches", events, at, at)
  BY PassPatch
<1>3. Passes(k, i, "liquidation_positions", events, at, after)
  BY <1>1, PassSame
<1> QED BY <1>1, <1>2, <1>3, FivePasses

(* Repayment by hand *)
LEMMA RepayRuns ==
  ASSUME LogTyped, NEW k \in Keys, Repay(k)
  PROVE  Runs(k)
<1> DEFINE at == Ledger[k]
           i == Len(log) + 1
           debt == at.debt - 1
           after == [at EXCEPT !.debt = debt]
           e == KeyBorrow(k, debt)
<1>1. Emit(k, after, <<e>>) /\ at.debt > 0
  BY DEF Repay
<1>2. at \in KeyType /\ debt \in Nat
  BY <1>1, KeyFields
<1>3. e \in EventType /\ e.type = "KeyBorrowUpdated" /\ e.key = k /\ e.tx = i
  <2>1. Emitted(e, "KeyBorrowUpdated", k)
    BY <1>2, EventsTyped
  <2> QED BY <2>1 DEF Emitted
<1> HIDE DEF at, i, debt, e
<1>4. /\ after \in KeyType /\ after.qty = at.qty
      /\ after.order = at.order
  BY <1>2 DEF KeyType
<1> HIDE DEF after
<1> DEFINE names == {"KeyBorrowUpdated"}
<1>5. EventsOf(k, i, names, <<e>>) /\ names \subseteq Names
  BY <1>3, EventAlone DEF Names
<1>6. Carries(k, i, at, after, <<e>>)
  BY <1>4, <1>5, CarriesNothing
<1>7. "LimitMintOrderPlaced" \notin names
  OBVIOUS
<1> HIDE DEF names
<1> QED BY <1>1, <1>4, <1>5, <1>6, <1>7, RunsIf DEF at, i

(* Placement of a limit order *)
LEMMA PlaceOrderRuns ==
  ASSUME LogTyped, NEW k \in Keys, NEW x \in OrderExpiries, PlaceOrder(k, x)
  PROVE  Runs(k)
<1> DEFINE at == Ledger[k]
           i == Len(log) + 1
           after == [at EXCEPT !.order = x]
           e == [Event("LimitMintOrderPlaced", k) EXCEPT !.expires = x]
<1>1. Emit(k, after, <<e>>) /\ at.order = 0
  BY DEF PlaceOrder
<1>2. at \in KeyType /\ x # 0
  BY KeyFields
<1>3. e \in EventType /\ e.type = "LimitMintOrderPlaced" /\ e.key = k /\ e.tx = i /\ e.expires = x
  <2>1. Emitted(e, "LimitMintOrderPlaced", k) /\ e.expires = x
    BY OrderEventsTyped
  <2> QED BY <2>1 DEF Emitted
<1> HIDE DEF at, i, e
<1>4. /\ after \in KeyType /\ after.qty = at.qty /\ after.order = x
  BY <1>2 DEF KeyType
<1> HIDE DEF after
<1> DEFINE names == {"LimitMintOrderPlaced"}
<1>5. EventsOf(k, i, names, <<e>>) /\ names \subseteq Names /\ ToSet(<<e>>) = {e}
  BY <1>3, EventAlone DEF Names
<1>6. Carries(k, i, at, after, <<e>>)
  BY <1>4, <1>5, CarriesNothing
<1>7. OrderFollows(at.order, after.order, <<e>>)
  BY <1>1, <1>2, <1>3, <1>4, <1>5 DEF OrderFollows
<1> HIDE DEF names
<1> QED BY <1>1, <1>4, <1>5, <1>6, <1>7, RunsIf DEF at, i

(* Cancellation of a limit order *)
LEMMA CancelOrderRuns ==
  ASSUME LogTyped, NEW k \in Keys, CancelOrder(k)
  PROVE  Runs(k)
<1> DEFINE at == Ledger[k]
           i == Len(log) + 1
           x == at.order
           after == [at EXCEPT !.order = 0]
           e == [Event("LimitMintOrderCancelled", k) EXCEPT !.expires = x]
<1>1. Emit(k, after, <<e>>)
  BY DEF CancelOrder
<1>2. at \in KeyType /\ x \in OrderExpiries \cup {0} /\ x = at.order
  BY KeyFields
<1>3. e \in EventType /\ e.type = "LimitMintOrderCancelled" /\ e.key = k /\ e.tx = i /\ e.expires = x
  <2>1. Emitted(e, "LimitMintOrderCancelled", k) /\ e.expires = x
    BY <1>2, OrderEventsTyped
  <2> QED BY <2>1 DEF Emitted
<1> HIDE DEF at, i, e, x
<1>4. /\ after \in KeyType /\ after.qty = at.qty /\ after.order = 0
  BY <1>2 DEF KeyType
<1> HIDE DEF after
<1> DEFINE names == {"LimitMintOrderCancelled"}
<1>5. EventsOf(k, i, names, <<e>>) /\ names \subseteq Names /\ ToSet(<<e>>) = {e}
  BY <1>3, EventAlone DEF Names
<1>6. Carries(k, i, at, after, <<e>>)
  BY <1>4, <1>5, CarriesNothing
<1>7. OrderFollows(at.order, after.order, <<e>>)
  BY <1>2, <1>3, <1>4, <1>5 DEF OrderFollows, Ends
<1> HIDE DEF names
<1> QED BY <1>1, <1>4, <1>5, <1>6, <1>7, RunsIf DEF at, i

(* A pair of events is one event after the other. *)
LEMMA PairJoins ==
  ASSUME NEW S, NEW x \in S, NEW y \in S
  PROVE  <<x>> \o <<y>> = <<x, y>>
<1> DEFINE s == <<x>> \o <<y>>
           t == <<x, y>>
<1>1. /\ s \in Seq(S) /\ Len(s) = 2 /\ s[1] = x /\ s[2] = y
      /\ t \in Seq(S) /\ Len(t) = 2 /\ t[1] = x /\ t[2] = y
  OBVIOUS
<1> HIDE DEF s, t
<1>2. \A n \in 1..Len(s) : s[n] = t[n]
  <2>1. \A n \in 1..2 : n = 1 \/ n = 2
    OBVIOUS
  <2> QED BY <1>1, <2>1
<1>3. s = t
  BY <1>1, <1>2, SeqEqual
<1> QED BY <1>3 DEF s, t

(* Fill of a limit order: a mint and the end of the order *)
LEMMA ExecuteOrderRuns ==
  ASSUME LogTyped, NEW k \in Keys, ExecuteOrder(k)
  PROVE  Runs(k)
<1> DEFINE at == Ledger[k]
           i == Len(log) + 1
           x == at.order
           qty == at.qty + 1
           debt == at.debt + 1
           after == [at EXCEPT !.order = 0, !.qty = qty, !.debt = debt]
           d == Opened(k, 1, 1)
           e == [Event("LimitMintOrderExecuted", k) EXCEPT !.expires = x]
<1>1. Emit(k, after, <<d, e>>) /\ at.qty < MaxQty
  BY DEF ExecuteOrder
<1>2. /\ at \in KeyType /\ x \in OrderExpiries \cup {0} /\ x = at.order /\ i \in Nat
      /\ qty \in Amounts /\ debt \in Nat /\ qty = at.qty + 1
  BY <1>1, KeyFields DEF Amounts
<1>3. e \in EventType /\ e.type = "LimitMintOrderExecuted" /\ e.key = k /\ e.tx = i /\ e.expires = x
  <2>1. Emitted(e, "LimitMintOrderExecuted", k) /\ e.expires = x
    BY <1>2, OrderEventsTyped
  <2> QED BY <2>1 DEF Emitted
<1>4. d \in EventType /\ d.type = "LeveragedPositionOpened" /\ d.key = k /\ d.tx = i /\ d.qty = 1
  <2>1. Emitted(d, "LeveragedPositionOpened", k) /\ d.qty = 1
    BY EventsTyped
  <2> QED BY <2>1 DEF Emitted
<1> HIDE DEF at, i, d, e, x, qty, debt
<1>5. /\ after \in KeyType /\ after.qty = qty /\ after.order = 0
  BY <1>2 DEF KeyType
<1> HIDE DEF after
<1> DEFINE names == {"LeveragedPositionOpened", "LimitMintOrderExecuted"}
           events == <<d>> \o <<e>>
<1>6. /\ EventsOf(k, i, {"LeveragedPositionOpened"}, <<d>>)
      /\ EventsOf(k, i, {"LimitMintOrderExecuted"}, <<e>>)
      /\ names \subseteq Names /\ ToSet(<<d>>) = {d} /\ ToSet(<<e>>) = {e}
  BY <1>3, <1>4, EventAlone DEF Names
<1>7. EventsOf(k, i, names, events) /\ ToSet(events) = {d, e}
  <2>1. EventsOf(k, i, names, <<d>>) /\ EventsOf(k, i, names, <<e>>)
    BY <1>6, EventsWider
  <2> QED BY <1>6, <2>1, EventsJoin
<1>8. Carries(k, i, at, after, events)
  <2>1. /\ Passes(k, i, "predict_redeem_closes", events, at, at)
        /\ Passes(k, i, "position_closes", events, at, at)
        /\ Passes(k, i, "liquidation_positions", events, after, after)
    BY <1>6, <1>7, QuietLoops
  <2>2. Passes(k, i, "positions_open", <<d>>, at, after)
    BY <1>2, <1>4, <1>5, PassOpen
  <2>3. Passes(k, i, "positions_open", <<e>>, after, after)
    BY <1>6, QuietLoops DEF Names
  <2>4. Passes(k, i, "positions_open", events, at, after)
    BY <1>6, <2>2, <2>3, PassParts DEF EventsOf, Kinds
  <2>5. Passes(k, i, "key_borrow_patches", events, after, after)
    BY <1>7, PassPatch
  <2> QED BY <2>1, <2>4, <2>5, FivePasses
<1>9. OrderFollows(at.order, after.order, events)
  BY <1>2, <1>3, <1>4, <1>5, <1>7 DEF OrderFollows, Ends
<1>10. events = <<d, e>>
  BY <1>3, <1>4, PairJoins
<1> HIDE DEF names, events
<1> QED BY <1>1, <1>5, <1>6, <1>7, <1>8, <1>9, <1>10, RunsIf DEF at, i

(* The events of a close, grouped with the redeem in front. *)
LEMMA FourParts ==
  ASSUME NEW c \in EventType, NEW d \in EventType,
         NEW u \in Seq(EventType), NEW v \in Seq(EventType)
  PROVE  (<<c, d>> \o u) \o v = <<c>> \o (<<d>> \o (u \o v))
<1> DEFINE first == <<c>>
           second == <<d>>
           both == <<c, d>>
           last == u \o v
<1>1. first \in Seq(EventType) /\ second \in Seq(EventType) /\ last \in Seq(EventType)
  OBVIOUS
<1>2. both = first \o second
  BY PairJoins
<1>3. (both \o u) \o v = both \o last
  <2>1. both \in Seq(EventType)
    OBVIOUS
  <2> HIDE DEF both
  <2> QED BY <2>1, ConcatAssociative
<1> HIDE DEF first, second, both, last
<1>4. (first \o second) \o last = first \o (second \o last)
  BY <1>1, ConcatAssociative
<1>5. (both \o u) \o v = first \o (second \o last)
  BY <1>2, <1>3, <1>4
<1> QED BY <1>5 DEF first, second, both, last

(* The events of a close begin with the redeem. *)
CloseNames(writtenOff) ==
  {"LeveragedPositionClosed", "KeyBorrowUpdated"}
    \cup (IF writtenOff THEN {"BadDebtWrittenOff"} ELSE {})

CloseSplits(k, q, paid, residual, writtenOff) ==
  /\ Emitted(Redeemed(k, q, paid), "PositionRedeemed", k)
  /\ Redeemed(k, q, paid).qty = q
  /\ CloseNames(writtenOff) \subseteq Names
  /\ \E rest : /\ EventsOf(k, Len(log) + 1, CloseNames(writtenOff), rest)
               /\ CloseEvents(k, q, paid, residual, writtenOff)
                    = <<Redeemed(k, q, paid)>> \o rest
               /\ \E c \in ToSet(rest) : c.type = "LeveragedPositionClosed" /\ c.qty = q

(* The parts of a close. *)
LEMMA CloseParts ==
  ASSUME LogTyped, NEW k \in Keys, NEW q \in Nat, NEW paid \in Nat, NEW residual \in Nat,
         NEW writtenOff \in BOOLEAN
  PROVE  CloseSplits(k, q, paid, residual, writtenOff)
<1> DEFINE i == Len(log) + 1
           a == Redeemed(k, q, paid)
           set == Settled(k)
           b == [Event("LeveragedPositionClosed", k) EXCEPT
                   !.qty = q, !.payout = paid, !.borrow = residual, !.settled = set]
           x == IF writtenOff THEN <<BadDebtWrittenOff(k)>> ELSE << >>
           y == IF paid > 0 THEN <<KeyBorrow(k, IF set THEN 0 ELSE residual)>> ELSE << >>
           names == CloseNames(writtenOff)
           rest == <<b>> \o (x \o y)
<1>1. Emitted(a, "PositionRedeemed", k) /\ a.qty = q
  BY EventsTyped
<1>2. Emitted(b, "LeveragedPositionClosed", k) /\ b.qty = q
  <2> DEFINE e == Event("LeveragedPositionClosed", k)
  <2>1. Emitted(e, "LeveragedPositionClosed", k)
    BY EventTyped DEF Names
  <2>2. set \in BOOLEAN
    BY DEF Settled
  <2> HIDE DEF e, set
  <2>3. Emitted([e EXCEPT !.qty = q, !.payout = paid, !.borrow = residual, !.settled = set],
                "LeveragedPositionClosed", k)
        /\ [e EXCEPT !.qty = q, !.payout = paid, !.borrow = residual, !.settled = set].qty = q
    BY <2>1, <2>2 DEF Emitted, EventType
  <2> QED BY <2>3 DEF e
<1>3. names \subseteq Names
  BY DEF CloseNames, Names
<1>4. EventsOf(k, i, names, <<b>>) /\ ToSet(<<b>>) = {b}
  <2>1. b \in EventType /\ b.type \in names /\ b.key = k /\ b.tx = i
    BY <1>2 DEF Emitted, CloseNames
  <2> HIDE DEF b, names, i
  <2> QED BY <2>1, EventAlone
<1>5. EventsOf(k, i, names, x)
  <2>1. CASE writtenOff
    <3> DEFINE e == BadDebtWrittenOff(k)
    <3>1. Emitted(e, "BadDebtWrittenOff", k)
      BY EventsTyped
    <3>2. e \in EventType /\ e.type \in names /\ e.key = k /\ e.tx = i
      BY <2>1, <3>1 DEF Emitted, CloseNames
    <3>3. x = <<e>>
      BY <2>1
    <3> HIDE DEF e, names, i, x
    <3> QED BY <3>2, <3>3, EventAlone
  <2>2. CASE ~writtenOff
    BY <2>2, EventsNone
  <2> QED BY <2>1, <2>2
<1>6. EventsOf(k, i, names, y)
  <2>1. CASE paid > 0
    <3> DEFINE debt == IF set THEN 0 ELSE residual
               e == KeyBorrow(k, debt)
    <3>1. debt \in Nat
      OBVIOUS
    <3> HIDE DEF debt
    <3>2. Emitted(e, "KeyBorrowUpdated", k)
      BY <3>1, EventsTyped
    <3>3. e \in EventType /\ e.type \in names /\ e.key = k /\ e.tx = i
      BY <3>2 DEF Emitted, CloseNames
    <3>4. y = <<e>>
      BY <2>1 DEF debt
    <3> HIDE DEF e, names, i, y
    <3> QED BY <3>3, <3>4, EventAlone
  <2>2. CASE ~(paid > 0)
    BY <2>2, EventsNone
  <2> QED BY <2>1, <2>2
<1>7. CloseEvents(k, q, paid, residual, writtenOff) = (<<a, b>> \o x) \o y
  BY DEF CloseEvents
<1>8. a \in EventType /\ b \in EventType
  BY <1>1, <1>2 DEF Emitted
<1> HIDE DEF a, b, x, y, names, i, set
<1>9. EventsOf(k, i, names, rest) /\ ToSet(rest) = {b} \cup ToSet(x \o y)
  <2> DEFINE first == <<b>>
             last == x \o y
  <2>1. EventsOf(k, i, names, last)
    BY <1>5, <1>6, EventsJoin
  <2>2. EventsOf(k, i, names, first) /\ ToSet(first) = {b}
    BY <1>4
  <2> HIDE DEF first, last
  <2>3. EventsOf(k, i, names, first \o last)
    BY <2>1, <2>2, EventsJoin
  <2>4. ToSet(first \o last) = ToSet(first) \cup ToSet(last)
    <3>1. first \in Seq(EventType) /\ last \in Seq(EventType)
      BY <2>1, <2>2 DEF EventsOf
    <3> QED BY <3>1, ElementsOfParts
  <2> QED BY <2>2, <2>3, <2>4 DEF first, last
<1>10. (<<a, b>> \o x) \o y = <<a>> \o rest
  <2>1. x \in Seq(EventType) /\ y \in Seq(EventType)
    BY <1>5, <1>6 DEF EventsOf
  <2> QED BY <1>8, <2>1, FourParts
<1>12. \E c \in ToSet(rest) : c.type = "LeveragedPositionClosed" /\ c.qty = q
  <2>1. b \in ToSet(rest) /\ b.type = "LeveragedPositionClosed"
    BY <1>2, <1>9 DEF Emitted
  <2> QED BY <1>2, <2>1
<1> HIDE DEF rest
<1>11. \E r : /\ EventsOf(k, i, names, r)
             /\ CloseEvents(k, q, paid, residual, writtenOff) = <<a>> \o r
             /\ \E c \in ToSet(r) : c.type = "LeveragedPositionClosed" /\ c.qty = q
  BY <1>7, <1>9, <1>10, <1>12
<1> QED BY <1>1, <1>3, <1>11 DEF a, i, names, CloseSplits

(* A redeem of all a key holds, and what follows it without a mint *)
LEMMA CarriesClose ==
  ASSUME NEW k \in Keys, NEW i \in Nat, NEW e \in EventType, e.key = k, e.tx = i,
         e.type = "PositionRedeemed", NEW at \in KeyType, NEW after \in KeyType,
         0 < e.qty, e.qty = at.qty, after.qty = 0,
         NEW names, NEW rest, EventsOf(k, i, names, rest), names \subseteq Names,
         "LeveragedPositionOpened" \notin names
  PROVE  Carries(k, i, at, after, <<e>> \o rest)
<1> DEFINE events == <<e>> \o rest
           wider == names \cup {"PositionRedeemed"}
<1>1. /\ EventsOf(k, i, {"PositionRedeemed"}, <<e>>)
      /\ wider \subseteq Names /\ names \subseteq wider /\ {"PositionRedeemed"} \subseteq wider
      /\ "LeveragedPositionOpened" \notin wider
  BY EventAlone DEF Names
<1> HIDE DEF wider
<1>2. EventsOf(k, i, wider, <<e>>) /\ EventsOf(k, i, wider, rest)
  BY <1>1, EventsWider
<1>3. EventsOf(k, i, wider, events) /\ <<e>> \in Seq(EventType) /\ rest \in Seq(EventType)
  <2>1. <<e>> \in Seq(EventType) /\ rest \in Seq(EventType)
    BY DEF EventsOf
  <2>2. EventsOf(k, i, wider, events)
    BY <1>2, EventsJoin
  <2> QED BY <2>1, <2>2
<1>4. at.qty \in Int
  BY IndexAssumption DEF KeyType, Amounts
<1>5. Passes(k, i, "predict_redeem_closes", <<e>>, at, after)
  BY <1>4, PassRedeem
<1>6. Passes(k, i, "predict_redeem_closes", rest, after, after)
  BY PassFlat DEF Kinds
<1>7. Passes(k, i, "predict_redeem_closes", events, at, after)
  BY <1>3, <1>5, <1>6, PassParts DEF Kinds
<1> HIDE DEF events
<1>8. /\ Passes(k, i, "position_closes", events, after, after)
      /\ Passes(k, i, "liquidation_positions", events, after, after)
  BY <1>1, <1>3, PassFlat DEF Kinds
<1>9. Passes(k, i, "positions_open", events, after, after)
  BY <1>1, <1>3, QuietLoops
<1>10. Passes(k, i, "key_borrow_patches", events, after, after)
  BY <1>3, PassPatch
<1>11. Carries(k, i, at, after, events)
  BY <1>7, <1>8, <1>9, <1>10, FivePasses
<1> QED BY <1>11 DEF events

(* What befalls a key that holds nothing *)
LEMMA CarriesFlat ==
  ASSUME NEW k \in Keys, NEW i, NEW at \in KeyType, NEW after, at.qty = 0,
         after.qty = 0, NEW names, NEW events, EventsOf(k, i, names, events), names \subseteq Names,
         "LeveragedPositionOpened" \notin names
  PROVE  Carries(k, i, at, after, events)
<1>1. /\ Passes(k, i, "predict_redeem_closes", events, at, at)
      /\ Passes(k, i, "position_closes", events, at, at)
      /\ Passes(k, i, "liquidation_positions", events, at, at)
  BY PassFlat DEF Kinds
<1>2. Passes(k, i, "positions_open", events, at, at)
  BY QuietLoops
<1>3. Passes(k, i, "key_borrow_patches", events, at, at)
  BY PassPatch
<1>4. Passes(k, i, "liquidation_positions", events, at, after)
  BY <1>1, PassSame
<1> QED BY <1>1, <1>2, <1>3, <1>4, FivePasses

(* Recovery of the manager's quote *)
LEMMA RecoverSurplusRuns ==
  ASSUME LogTyped, NEW k \in Keys, NEW amount \in 1..Manager, RecoverSurplus(k, amount)
  PROVE  Runs(k)
<1> DEFINE at == Ledger[k]
           i == Len(log) + 1
           manager == Manager - amount
           e == [Event("StrandedCustodyRecovered", k) EXCEPT !.payout = amount]
           names == {"StrandedCustodyRecovered"}
<1>1. EmitMoving(k, at, manager, <<e>>) /\ at.qty = 0
  BY DEF RecoverSurplus
<1>2. at \in KeyType /\ amount \in Nat /\ manager \in Nat
  BY KeyFields, LedgersTyped DEF RecoverSurplus
<1>3. e \in EventType /\ e.type = "StrandedCustodyRecovered" /\ e.key = k /\ e.tx = i
  <2>1. FALSE \in BOOLEAN
    OBVIOUS
  <2>2. Emitted(e, "StrandedCustodyRecovered", k)
    BY <1>2, <2>1, LastEventsTyped
  <2> QED BY <2>2 DEF Emitted
<1> HIDE DEF at, i, manager, e
<1>4. EventsOf(k, i, names, <<e>>) /\ names \subseteq Names
  BY <1>3, EventAlone DEF Names
<1>5. Carries(k, i, at, at, <<e>>)
  BY <1>1, <1>2, <1>4, CarriesFlat
<1>6. "LimitMintOrderPlaced" \notin names
  OBVIOUS
<1> HIDE DEF names
<1> QED BY <1>1, <1>2, <1>4, <1>5, <1>6, RunsMoving DEF at, i

(* Recovery of the quote of the key itself *)
LEMMA RecoverKeyQuoteRuns ==
  ASSUME LogTyped, NEW k \in Keys, RecoverKeyQuote(k)
  PROVE  Runs(k)
<1> DEFINE at == Ledger[k]
           i == Len(log) + 1
           held == at.held
           after == [at EXCEPT !.held = 0]
           e == [Event("StrandedCustodyRecovered", k) EXCEPT !.payout = held, !.sweep = TRUE]
           names == {"StrandedCustodyRecovered"}
<1>1. Emit(k, after, <<e>>) /\ at.qty = 0
  BY DEF RecoverKeyQuote
<1>2. at \in KeyType /\ held \in Nat
  BY KeyFields
<1> HIDE DEF held
<1>3. e \in EventType /\ e.type = "StrandedCustodyRecovered" /\ e.key = k /\ e.tx = i
  <2>1. FALSE \in BOOLEAN
    OBVIOUS
  <2>2. Emitted(e, "StrandedCustodyRecovered", k)
    BY <1>2, <2>1, LastEventsTyped
  <2> QED BY <2>2 DEF Emitted
<1> HIDE DEF at, i, e
<1>4. EventsOf(k, i, names, <<e>>) /\ names \subseteq Names
  BY <1>3, EventAlone DEF Names
<1>5. after \in KeyType /\ after.qty = 0 /\ after.order = at.order
  BY <1>1, <1>2 DEF KeyType
<1> HIDE DEF after
<1>6. Carries(k, i, at, after, <<e>>)
  BY <1>1, <1>2, <1>4, <1>5, CarriesFlat
<1>7. "LimitMintOrderPlaced" \notin names
  OBVIOUS
<1> HIDE DEF names
<1> QED BY <1>1, <1>4, <1>5, <1>6, <1>7, RunsIf DEF at, i

(* Redeem, settlement and repayment after the expiry *)
LEMMA CloseRuns ==
  ASSUME LogTyped, NEW k \in Keys, NEW q \in Quantities, NEW price \in Prices,
         NEW writtenOff \in BOOLEAN, Close(k, q, price, writtenOff)
  PROVE  Runs(k)
<1> DEFINE at == Ledger[k]
           i == Len(log) + 1
           paid == q * price
           residual == Larger(at.debt - paid, 0)
           qty == at.qty - q
           debt == IF Settled(k) THEN 0 ELSE residual
           held == IF debt = 0 THEN 0 ELSE at.held
           after == [at EXCEPT !.qty = qty, !.debt = debt, !.held = held]
           events == CloseEvents(k, q, paid, residual, writtenOff)
           e == Redeemed(k, q, paid)
           names == CloseNames(writtenOff)
<1>1. paid \in Nat
  <2>1. price \in {0, 1}
    BY DEF Prices
  <2>2. CASE price = 0
    BY <2>2 DEF Quantities
  <2>3. CASE price = 1
    BY <2>3 DEF Quantities
  <2> QED BY <2>1, <2>2, <2>3
<1>2. Emit(k, after, events)
  BY DEF Close
<1>3. q <= at.qty
  BY DEF Close
<1> HIDE DEF paid
<1>4. residual \in Nat
  BY <1>1, KeyFields DEF Larger
<1> HIDE DEF residual
<1>5. /\ at \in KeyType /\ i \in Nat /\ q \in Nat /\ q > 0 /\ qty \in Amounts /\ debt \in Nat
      /\ (q = at.qty => qty = 0) /\ at.qty \in Nat /\ held \in Nat
  BY <1>3, <1>4, KeyFields DEF Quantities, Amounts
<1>6. /\ Emitted(e, "PositionRedeemed", k) /\ e.qty = q /\ names \subseteq Names
      /\ \E rest : /\ EventsOf(k, i, names, rest) /\ events = <<e>> \o rest
                   /\ \E c \in ToSet(rest) : c.type = "LeveragedPositionClosed" /\ c.qty = q
  <2>1. q \in Nat /\ residual \in Nat /\ paid \in Nat
    BY <1>1, <1>4, <1>5
  <2> HIDE DEF at, debt, qty, held, after
  <2>2. CloseSplits(k, q, paid, residual, writtenOff)
    BY <2>1, CloseParts
  <2> QED BY <2>2 DEF CloseSplits
<1>7. e \in EventType /\ e.type = "PositionRedeemed" /\ e.key = k /\ e.tx = i
  BY <1>6 DEF Emitted
<1>8. "LeveragedPositionOpened" \notin names /\ "LimitMintOrderPlaced" \notin names
  BY DEF CloseNames
<1> HIDE DEF at, i, qty, debt, held, events, e, names
<1>9. /\ after \in KeyType /\ after.qty = qty
      /\ after.order = at.order
  BY <1>5 DEF KeyType
<1> HIDE DEF after
<1>10. PICK rest : /\ EventsOf(k, i, names, rest) /\ events = <<e>> \o rest
                   /\ \E c \in ToSet(rest) : c.type = "LeveragedPositionClosed" /\ c.qty = q
  BY <1>6
<1> DEFINE wider == names \cup {"PositionRedeemed"}
<1>11. EventsOf(k, i, wider, events) /\ wider \subseteq Names /\ "LimitMintOrderPlaced" \notin wider
  <2>1. EventsOf(k, i, {"PositionRedeemed"}, <<e>>)
    BY <1>7, EventAlone
  <2>2. EventsOf(k, i, wider, <<e>>) /\ EventsOf(k, i, wider, rest)
    BY <1>10, <2>1, EventsWider
  <2>3. EventsOf(k, i, wider, <<e>> \o rest)
    BY <2>2, EventsJoin
  <2> QED BY <1>6, <1>8, <1>10, <2>3 DEF Names
<1>12. ASSUME ClosesWhole(events, at) PROVE Carries(k, i, at, after, events)
  <2>3. <<e>> \in Seq(EventType) /\ rest \in Seq(EventType)
    BY <1>7, <1>10 DEF EventsOf
  <2>4. ToSet(rest) \subseteq ToSet(<<e>> \o rest)
    <3> DEFINE first == <<e>>
    <3>1. first \in Seq(EventType) /\ rest \in Seq(EventType)
      BY <2>3
    <3> HIDE DEF first
    <3>2. ToSet(first \o rest) = ToSet(first) \cup ToSet(rest)
      BY <3>1, ElementsOfParts
    <3> QED BY <3>2 DEF first
  <2>5. ~(q < at.qty)
    BY <1>10, <1>12, <2>4 DEF ClosesWhole
  <2>1. 0 < e.qty /\ e.qty = at.qty /\ after.qty = 0
    BY <1>3, <1>5, <1>6, <1>9, <2>5
  <2>2. Carries(k, i, at, after, <<e>> \o rest)
    BY <1>5, <1>6, <1>7, <1>8, <1>9, <1>10, <2>1, CarriesClose
  <2> QED BY <1>10, <2>2
<1> HIDE DEF wider
<1> QED BY <1>2, <1>9, <1>11, <1>12, RunsIf DEF at, i

(* Liquidation: the order is gone without an event of its own *)
LEMMA LiquidateRuns ==
  ASSUME LogTyped, NEW k \in Keys, NEW price \in Prices, Liquidate(k, price)
  PROVE  Runs(k)
<1> DEFINE at == Ledger[k]
           i == Len(log) + 1
           paid == at.qty * price
           after == [at EXCEPT !.qty = 0, !.debt = 0, !.held = 0, !.order = 0]
           had == at.qty > 0
           e == Redeemed(k, at.qty, paid)
           f == [Event("PositionLiquidated", k) EXCEPT !.had = had]
           first == IF had THEN <<e>> ELSE << >>
           events == first \o <<f>>
           names == {"PositionRedeemed", "PositionLiquidated"}
<1>1. at \in KeyType /\ i \in Nat /\ at.qty \in Nat /\ had \in BOOLEAN
  BY KeyFields
<1>2. paid \in Nat
  <2>1. price \in {0, 1}
    BY DEF Prices
  <2>2. CASE price = 0
    BY <1>1, <2>2
  <2>3. CASE price = 1
    BY <1>1, <2>3
  <2> QED BY <2>1, <2>2, <2>3
<1>3. Emit(k, after, events)
  BY DEF Liquidate
<1> HIDE DEF paid
<1>4. /\ e \in EventType /\ e.type = "PositionRedeemed" /\ e.key = k /\ e.tx = i
      /\ e.qty = at.qty
  <2>1. Emitted(e, "PositionRedeemed", k) /\ e.qty = at.qty
    BY <1>1, <1>2, EventsTyped
  <2> QED BY <2>1 DEF Emitted
<1>5. f \in EventType /\ f.type = "PositionLiquidated" /\ f.key = k /\ f.tx = i
  <2> HIDE DEF had
  <2>1. 0 \in Nat
    OBVIOUS
  <2>2. Emitted(f, "PositionLiquidated", k)
    BY <1>1, <2>1, LastEventsTyped
  <2> QED BY <2>2 DEF Emitted
<1>6. /\ had => first = <<e>> /\ at.qty > 0
      /\ ~had => first = << >> /\ at.qty = 0
  BY <1>1
<1>7. /\ 0 \in Amounts /\ at.order \in OrderExpiries \cup {0}
  BY KeyFields DEF Amounts
<1> HIDE DEF at, i, had, e, f, first
<1>8. /\ after \in KeyType /\ after.qty = 0 /\ after.order = 0
  BY <1>1, <1>7 DEF KeyType
<1> HIDE DEF after
<1>9. /\ EventsOf(k, i, {"PositionLiquidated"}, <<f>>) /\ ToSet(<<f>>) = {f}
      /\ {"PositionLiquidated"} \subseteq Names /\ names \subseteq Names
  BY <1>5, EventAlone DEF Names
<1>10. EventsOf(k, i, names, first)
  <2>1. CASE had
    <3>1. EventsOf(k, i, {"PositionRedeemed"}, <<e>>)
      BY <1>4, EventAlone
    <3> QED BY <1>6, <2>1, <3>1, EventsWider
  <2>2. CASE ~had
    BY <1>6, <2>2, EventsNone
  <2> QED BY <2>1, <2>2
<1>11. EventsOf(k, i, names, events) /\ ToSet(events) = ToSet(first) \cup {f}
  <2>1. EventsOf(k, i, names, <<f>>)
    BY <1>9, EventsWider
  <2> DEFINE rest == <<f>>
  <2> HIDE DEF names, rest
  <2>3. EventsOf(k, i, names, first \o rest) /\ ToSet(first \o rest) = ToSet(first) \cup ToSet(rest)
    <3>1. EventsOf(k, i, names, rest)
      BY <2>1 DEF rest
    <3>2. EventsOf(k, i, names, first \o rest)
      BY <1>10, <3>1, EventsJoin
    <3>3. ToSet(first \o rest) = ToSet(first) \cup ToSet(rest)
      BY <1>10, <3>1, ElementsOfParts DEF EventsOf
    <3> QED BY <3>2, <3>3
  <2>2. EventsOf(k, i, names, first \o <<f>>) /\ ToSet(first \o <<f>>) = ToSet(first) \cup ToSet(<<f>>)
    BY <2>3 DEF rest
  <2> QED BY <1>9, <2>2
<1>12. Carries(k, i, at, after, events)
  <2>1. CASE had
    <3> DEFINE last == {"PositionLiquidated"}
               rest == <<f>>
    <3>0. "LeveragedPositionOpened" \notin last
          /\ last \subseteq Names /\ EventsOf(k, i, last, rest)
      BY <1>9
    <3> HIDE DEF last, rest
    <3>2. Carries(k, i, at, after, <<e>> \o rest)
      BY <1>1, <1>4, <1>6, <1>8, <2>1, <3>0, CarriesClose
    <3>1. Carries(k, i, at, after, <<e>> \o <<f>>)
      BY <3>2 DEF rest
    <3> QED BY <1>6, <2>1, <3>1
  <2>2. CASE ~had
    BY <1>1, <1>6, <1>8, <1>9, <1>11, <2>2, CarriesFlat
  <2> QED BY <2>1, <2>2
<1>13. OrderFollows(at.order, after.order, events)
  <2>1. f \in ToSet(events) /\ \A d \in ToSet(events) : d.type \in names
    BY <1>11 DEF EventsOf
  <2>2. Ends(f, at.order)
    BY <1>5 DEF Ends
  <2> QED BY <2>1, <2>2 DEF OrderFollows
<1> HIDE DEF names, events
<1> QED BY <1>3, <1>8, <1>9, <1>11, <1>12, <1>13, RunsIf DEF at, i

(* Write-off of the debt of a flat key *)
LEMMA WriteOffFlatRuns ==
  ASSUME LogTyped, NEW k \in Keys, NEW writtenOff \in BOOLEAN, WriteOffFlat(k, writtenOff)
  PROVE  Runs(k)
<1> DEFINE at == Ledger[k]
           i == Len(log) + 1
           held == Larger(at.held - at.debt, 0)
           after == [at EXCEPT !.debt = 0, !.held = held]
           e == BadDebtWrittenOff(k)
           events == IF writtenOff THEN <<e>> ELSE << >>
           names == {"BadDebtWrittenOff"}
<1>1. Emit(k, after, events) /\ at.qty = 0
  BY DEF WriteOffFlat
<1>2. at \in KeyType /\ 0 \in Nat /\ held \in Nat
  BY KeyFields DEF Larger
<1>3. e \in EventType /\ e.type = "BadDebtWrittenOff" /\ e.key = k /\ e.tx = i
  <2>1. Emitted(e, "BadDebtWrittenOff", k)
    BY <1>2, EventsTyped
  <2> QED BY <2>1 DEF Emitted
<1>4. (writtenOff => events = <<e>>) /\ (~writtenOff => events = << >>)
  OBVIOUS
<1> HIDE DEF at, i, held, e, events
<1>5. /\ after \in KeyType /\ after.qty = 0
      /\ after.order = at.order
  BY <1>1, <1>2 DEF KeyType
<1> HIDE DEF after
<1>6. EventsOf(k, i, names, events) /\ names \subseteq Names
  <2>1. names \subseteq Names
    BY DEF Names
  <2>2. CASE writtenOff
    BY <1>3, <1>4, <2>1, <2>2, EventAlone
  <2>3. CASE ~writtenOff
    BY <1>4, <2>1, <2>3, EventsNone
  <2> QED BY <2>2, <2>3
<1>7. Carries(k, i, at, after, events)
  BY <1>1, <1>2, <1>5, <1>6, CarriesFlat
<1>8. "LimitMintOrderPlaced" \notin names
  OBVIOUS
<1> HIDE DEF names
<1> QED BY <1>1, <1>5, <1>6, <1>7, <1>8, RunsIf DEF at, i

(* A redeem of all a key holds, followed by a mint or not *)
LEMMA CarriesRemint ==
  ASSUME NEW k \in Keys, NEW i \in Nat, NEW e \in EventType, e.key = k, e.tx = i,
         e.type = "PositionRedeemed", NEW at \in KeyType, NEW flat \in KeyType, NEW after \in KeyType,
         0 < e.qty, e.qty = at.qty, flat.qty = 0,
         NEW rest, EventsOf(k, i, {"LeveragedPositionClosed", "KeyBorrowUpdated"}, rest),
         NEW opt, EventsOf(k, i, {"LeveragedPositionOpened"}, opt),
         Passes(k, i, "positions_open", opt, flat, after)
  PROVE  Carries(k, i, at, after, (<<e>> \o rest) \o opt)
<1> DEFINE close == <<e>> \o rest
           events == close \o opt
           closing == {"PositionRedeemed", "LeveragedPositionClosed", "KeyBorrowUpdated"}
           names == closing \cup {"LeveragedPositionOpened"}
           opening == {"LeveragedPositionOpened"}
           closed == {"LeveragedPositionClosed", "KeyBorrowUpdated"}
<1>1. /\ names \subseteq Names /\ closing \subseteq names /\ opening \subseteq names
      /\ opening \subseteq Names /\ closing \subseteq Names
      /\ "LeveragedPositionOpened" \notin closing /\ "PositionRedeemed" \notin opening
      /\ names \cap {"BadDebtWrittenOff", "PositionLiquidated"} = {}
      /\ {"PositionRedeemed"} \subseteq closing /\ closed \subseteq closing
  BY DEF Names
<1>2. EventsOf(k, i, closing, <<e>>) /\ EventsOf(k, i, closing, rest)
  <2>1. EventsOf(k, i, {"PositionRedeemed"}, <<e>>)
    BY EventAlone
  <2>2. EventsOf(k, i, closing, <<e>>)
    BY <1>1, <2>1, EventsWider
  <2>3. EventsOf(k, i, closing, rest)
    BY <1>1, EventsWider
  <2> QED BY <2>2, <2>3
<1> HIDE DEF closing, names, opening, closed
<1>3. EventsOf(k, i, closing, close)
  BY <1>2, EventsJoin
<1>4. EventsOf(k, i, names, close) /\ EventsOf(k, i, names, opt) /\ EventsOf(k, i, opening, opt)
  <2>1. EventsOf(k, i, names, close)
    BY <1>1, <1>3, EventsWider
  <2>2. EventsOf(k, i, opening, opt)
    BY DEF opening
  <2>3. EventsOf(k, i, names, opt)
    BY <1>1, <2>2, EventsWider
  <2> QED BY <2>1, <2>2, <2>3
<1>5. /\ <<e>> \in Seq(EventType) /\ rest \in Seq(EventType)
      /\ close \in Seq(EventType) /\ opt \in Seq(EventType)
  BY <1>2, <1>3, <1>4 DEF EventsOf
<1>6. Passes(k, i, "predict_redeem_closes", close, at, flat)
  <2>1. Passes(k, i, "predict_redeem_closes", <<e>>, at, flat)
    <3>1. at.qty \in Int
      BY IndexAssumption DEF KeyType, Amounts
    <3> QED BY <3>1, PassRedeem
  <2>2. Passes(k, i, "predict_redeem_closes", rest, flat, flat)
    <3>1. EventsOf(k, i, closed, rest)
      BY DEF closed
    <3> QED BY <1>1, <3>1, PassFlat DEF Kinds
  <2> QED BY <1>5, <2>1, <2>2, PassParts DEF Kinds
<1> HIDE DEF close
<1>7. EventsOf(k, i, names, events)
  BY <1>4, EventsJoin
<1>8. Passes(k, i, "predict_redeem_closes", events, at, flat)
  <2>1. Passes(k, i, "predict_redeem_closes", opt, flat, flat)
    BY <1>1, <1>4, QuietLoops
  <2> QED BY <1>5, <1>6, <2>1, PassParts DEF Kinds
<1>9. Passes(k, i, "positions_open", events, flat, after)
  <2>1. Passes(k, i, "positions_open", close, flat, flat)
    BY <1>1, <1>3, QuietLoops
  <2> QED BY <1>5, <2>1, PassParts DEF Kinds
<1> HIDE DEF events
<1>10. Passes(k, i, "position_closes", events, flat, flat)
  BY <1>1, <1>7, PassFlat DEF Kinds
<1>11. Passes(k, i, "key_borrow_patches", events, after, after)
  BY <1>7, PassPatch
<1>12. Passes(k, i, "liquidation_positions", events, after, after)
  BY <1>1, <1>7, QuietLoops
<1>13. Carries(k, i, at, after, events)
  BY <1>8, <1>9, <1>10, <1>11, <1>12, FivePasses
<1> QED BY <1>13 DEF events, close

(* Force-deleverage: a close, and a mint without leverage in the same transaction *)
LEMMA ForceDeleverageRuns ==
  ASSUME LogTyped, NEW k \in Keys, NEW price \in Prices, NEW again \in 0..MaxQty,
         ForceDeleverage(k, price, again)
  PROVE  Runs(k)
<1> DEFINE at == Ledger[k]
           i == Len(log) + 1
           q == at.qty
           paid == at.qty * price
           after == [at EXCEPT !.qty = again, !.debt = 0, !.held = 0]
           flat == [at EXCEPT !.qty = 0]
           e == Redeemed(k, q, paid)
           f == Opened(k, again, 0)
           opt == IF again > 0 THEN <<f>> ELSE << >>
           events == CloseEvents(k, q, paid, 0, FALSE) \o opt
           names == {"PositionRedeemed", "LeveragedPositionClosed", "KeyBorrowUpdated",
                     "LeveragedPositionOpened"}
<1>1. /\ at \in KeyType /\ i \in Nat /\ q \in Nat /\ q = at.qty /\ again \in Nat /\ again \in Amounts
      /\ 0 \in Amounts
  BY KeyFields DEF Amounts
<1>2. paid \in Nat
  <2>1. price \in {0, 1}
    BY DEF Prices
  <2>2. CASE price = 0
    BY <1>1, <2>2
  <2>3. CASE price = 1
    BY <1>1, <2>3
  <2> QED BY <2>1, <2>2, <2>3
<1>3. Emit(k, after, events) /\ q > 0
  BY DEF ForceDeleverage
<1> HIDE DEF paid, q
<1>4. /\ Emitted(e, "PositionRedeemed", k) /\ e.qty = q
      /\ \E rest : /\ EventsOf(k, i, CloseNames(FALSE), rest)
                   /\ CloseEvents(k, q, paid, 0, FALSE) = <<e>> \o rest
  <2> HIDE DEF at, after, flat, f, opt
  <2> DEFINE none == 0
             kept == FALSE
  <2>1. none \in Nat /\ q \in Nat /\ paid \in Nat /\ kept \in BOOLEAN
    BY <1>1, <1>2
  <2> HIDE DEF none, kept, e
  <2>2. CloseSplits(k, q, paid, none, kept)
    BY <2>1, CloseParts
  <2> QED BY <2>2 DEF none, kept, e, CloseSplits
<1>5. e \in EventType /\ e.type = "PositionRedeemed" /\ e.key = k /\ e.tx = i
  BY <1>4 DEF Emitted
<1>6. /\ f \in EventType /\ f.type = "LeveragedPositionOpened" /\ f.key = k /\ f.tx = i
      /\ f.qty = again
  <2>1. Emitted(f, "LeveragedPositionOpened", k) /\ f.qty = again
    BY <1>1, EventsTyped
  <2> QED BY <2>1 DEF Emitted
<1>7. CloseNames(FALSE) = {"LeveragedPositionClosed", "KeyBorrowUpdated"}
  BY DEF CloseNames
<1>8. (again > 0 => opt = <<f>>) /\ (again = 0 => opt = << >>)
  OBVIOUS
<1> HIDE DEF at, i, e, f, opt
<1>9. /\ after \in KeyType /\ after.qty = again
      /\ after.order = at.order
  BY <1>1 DEF KeyType
<1>10. flat \in KeyType /\ flat.qty = 0
  BY <1>1 DEF KeyType
<1> HIDE DEF after, flat
<1>11. PICK rest : /\ EventsOf(k, i, {"LeveragedPositionClosed", "KeyBorrowUpdated"}, rest)
                   /\ CloseEvents(k, q, paid, 0, FALSE) = <<e>> \o rest
  BY <1>4, <1>7
<1>12. EventsOf(k, i, {"LeveragedPositionOpened"}, opt)
       /\ Passes(k, i, "positions_open", opt, flat, after)
  <2>1. CASE again > 0
    <3>1. EventsOf(k, i, {"LeveragedPositionOpened"}, <<f>>)
      BY <1>6, EventAlone
    <3>2. Passes(k, i, "positions_open", <<f>>, flat, after)
      BY <1>1, <1>6, <1>9, <1>10, <2>1, PassOpen
    <3> QED BY <1>8, <2>1, <3>1, <3>2
  <2>2. CASE again = 0
    <3>1. EventsOf(k, i, {"LeveragedPositionOpened"}, << >>) /\ ToSet(<< >>) = {}
      BY EventsNone
    <3>2. Passes(k, i, "positions_open", << >>, flat, flat)
      BY <3>1, PassQuiet DEF Kinds
    <3>3. Passes(k, i, "positions_open", << >>, flat, after)
      BY <1>9, <1>10, <2>2, <3>2, PassSame
    <3> QED BY <1>8, <2>2, <3>1, <3>3
  <2> QED BY <1>1, <2>1, <2>2
<1> DEFINE whole == (<<e>> \o rest) \o opt
<1>13. Carries(k, i, at, after, whole)
  BY <1>1, <1>3, <1>4, <1>5, <1>9, <1>10, <1>11, <1>12, CarriesRemint
<1>14. EventsOf(k, i, names, whole) /\ names \subseteq Names /\ "LimitMintOrderPlaced" \notin names
  <2>1. EventsOf(k, i, {"PositionRedeemed"}, <<e>>)
    BY <1>5, EventAlone
  <2>2. /\ EventsOf(k, i, names, <<e>>) /\ EventsOf(k, i, names, rest)
        /\ EventsOf(k, i, names, opt)
    BY <1>11, <1>12, <2>1, EventsWider
  <2>3. EventsOf(k, i, names, <<e>> \o rest)
    BY <2>2, EventsJoin
  <2> DEFINE close == <<e>> \o rest
  <2> HIDE DEF close, names
  <2>4. EventsOf(k, i, names, close \o opt)
    BY <2>2, <2>3, EventsJoin DEF close
  <2> QED BY <2>4 DEF close, names, Names
<1>15. events = whole
  BY <1>11
<1> HIDE DEF whole, names, events
<1> QED BY <1>3, <1>9, <1>13, <1>14, <1>15, RunsIf DEF at, i

(* Whatever the chain does *)
LEMMA ChainRuns ==
  ASSUME LogTyped, NEW k \in Keys, Chain(k)
  PROVE  \/ Runs(k)
         \/ \E price \in Prices : MarketSettles(k, price)
<1>1. CASE \E q \in Quantities, b, surplus \in {0, 1} : Mint(k, q, b, surplus)
  BY <1>1, MintRuns
<1>2. CASE \E q \in Quantities, price \in Prices, writtenOff \in BOOLEAN :
             Close(k, q, price, writtenOff)
  BY <1>2, CloseRuns
<1>3. CASE \E price \in Prices, again \in 0..MaxQty : ForceDeleverage(k, price, again)
  BY <1>3, ForceDeleverageRuns
<1>4. CASE \E price \in Prices : Liquidate(k, price)
  BY <1>4, LiquidateRuns
<1>5. CASE \E q \in Quantities : ExternalRedeem(k, q)
  BY <1>5, ExternalRedeemRuns
<1>6. CASE \E amount \in 1..Manager : RecoverSurplus(k, amount)
  BY <1>6, RecoverSurplusRuns
<1>12. CASE RecoverKeyQuote(k)
  BY <1>12, RecoverKeyQuoteRuns
<1>7. CASE Repay(k)
  BY <1>7, RepayRuns
<1>8. CASE \E writtenOff \in BOOLEAN : WriteOffFlat(k, writtenOff)
  BY <1>8, WriteOffFlatRuns
<1>9. CASE \E x \in OrderExpiries : PlaceOrder(k, x)
  BY <1>9, PlaceOrderRuns
<1>10. CASE CancelOrder(k)
  BY <1>10, CancelOrderRuns
<1>11. CASE ExecuteOrder(k)
  BY <1>11, ExecuteOrderRuns
<1> QED BY <1>1, <1>2, <1>3, <1>4, <1>5, <1>6, <1>7, <1>8, <1>9, <1>10, <1>11, <1>12
        DEF Chain

-----------------------------------------------------------------------------
(* The inductive invariant *)

(* Every transaction of the log is one of a single key, whose events say when a
   resting order went and, unless they close a part of it, lead its row where
   the ledger went. *)
Transactions ==
  \A i \in 1..Len(log) : \E k \in Keys :
    /\ EventsOf(k, i, Names, log[i].events)
    /\ \A j \in Keys \ {k} : LedgerAt(i)[j] = LedgerAt(i - 1)[j]
    /\ OrderFollows(LedgerAt(i - 1)[k].order, LedgerAt(i)[k].order, log[i].events)
    /\ ClosesWhole(log[i].events, LedgerAt(i - 1)[k]) =>
         Carries(k, i, LedgerAt(i - 1)[k], LedgerAt(i)[k], log[i].events)

Counters == cursor \in 0..Len(log) /\ seen \in cursor..Len(log)

OrderRows(n) ==
  [tx : 1..n, expires : OrderExpiries, status : {"open", "executed", "cancelled"}]
TablesTyped == positions \in Rows /\ orders \in [Keys -> SUBSET OrderRows(seen)]

(* Every placement that was read has its row. *)
Recorded ==
  \A i \in 1..seen : \A e \in ToSet(log[i].events) :
    e.type = "LimitMintOrderPlaced" => \E o \in orders[e.key] : o.tx = i

IndexInv ==
  /\ LogTyped /\ Transactions /\ Counters /\ TablesTyped /\ Recorded /\ OrdersShownOpenRest
  /\ inverted \subseteq Keys

(* Before the first transaction *)
LEMMA InitIndex == Init => IndexInv
<1> SUFFICES ASSUME Init PROVE IndexInv
  OBVIOUS
<1>1. log = << >> /\ Len(log) = 0 /\ 1..Len(log) = {} /\ 1..0 = {}
  BY DEF Init
<1>2. LogTyped
  BY <1>1 DEF Init, LogTyped, Live
<1>3. Transactions
  BY <1>1 DEF Transactions
<1>4. Counters
  BY <1>1 DEF Init, Counters
<1>5. NoRow \in RowType
  BY DEF NoRow, RowType
<1>6. TablesTyped
  BY <1>5 DEF Init, TablesTyped, Rows
<1>7. Recorded
  BY <1>1 DEF Init, Recorded
<1>8. OrdersShownOpenRest
  BY DEF Init, OrdersShownOpenRest
<1>9. inverted \subseteq Keys
  BY DEF Init
<1> QED BY <1>2, <1>3, <1>4, <1>6, <1>7, <1>8, <1>9 DEF IndexInv

(* The log grows at its end. *)
LEMMA LogGrows ==
  ASSUME LogTyped, NEW k \in Keys, NEW after \in KeyType, NEW manager \in Nat,
         NEW events \in Seq(EventType),
         EmitMoving(k, after, manager, events), NEW m, m = Len(log)
  PROVE  /\ LogTyped'
         /\ m \in Nat /\ Len(log') = m + 1
         /\ \A i \in 1..m : log'[i] = log[i]
         /\ \A n \in 0..m : LedgerAt(n)' = LedgerAt(n)
         /\ log'[m + 1].events = events
         /\ LedgerAt(m + 1)'[k] = after
         /\ \A j \in Keys \ {k} : LedgerAt(m + 1)'[j] = LedgerAt(m)[j]
<1> DEFINE L == [Keys -> KeyType]
           E == Seq(EventType)
           R == [ledger : L, manager : Nat, events : E]
           ledger == [Ledger EXCEPT ![k] = after]
           tx == [ledger |-> ledger, manager |-> manager, events |-> events]
<1>1. log \in Seq(R) /\ m \in Nat
  BY DEF LogTyped
<1>2. Ledger \in L
  BY LedgersTyped
<1>3. ledger \in L /\ ledger[k] = after /\ \A j \in Keys \ {k} : ledger[j] = Ledger[j]
  BY <1>2
<1>4. log' = Append(log, tx) /\ settlement' = settlement
  BY DEF EmitMoving
<1> HIDE DEF ledger
<1>5. tx \in R /\ tx.ledger = ledger /\ tx.events = events
  BY <1>3
<1> HIDE DEF R, tx
<1>6. /\ log' \in Seq(R) /\ Len(log') = m + 1
      /\ \A i \in 1..m : log'[i] = log[i]
      /\ log'[m + 1] = tx
  BY <1>1, <1>4, <1>5
<1>7. LogTyped'
  <2>1. log' \in Seq([ledger : [Keys -> KeyType], manager : Nat, events : Seq(EventType)])
    BY <1>6 DEF R
  <2> QED BY <1>4, <2>1 DEF LogTyped
<1>8. \A n \in 0..m : LedgerAt(n)' = LedgerAt(n)
  BY <1>1, <1>6 DEF LedgerAt
<1>9. LedgerAt(m + 1)' = ledger
  BY <1>1, <1>5, <1>6 DEF LedgerAt
<1>10. \A j \in Keys \ {k} : LedgerAt(m + 1)'[j] = LedgerAt(m)[j]
  BY <1>3, <1>9 DEF Ledger
<1> QED BY <1>1, <1>3, <1>5, <1>6, <1>7, <1>8, <1>9, <1>10

(* A transaction keeps the invariant and what was there before it. *)
LEMMA RunKeepsIndex ==
  ASSUME IndexInv, NEW k \in Keys, Runs(k)
  PROVE  /\ IndexInv'
         /\ UNCHANGED indexVars
         /\ Len(log') = Len(log) + 1
         /\ \A i \in 1..Len(log) : log'[i] = log[i]
         /\ \A n \in 0..Len(log) : LedgerAt(n)' = LedgerAt(n)
<1>1. PICK m : m = Len(log)
  OBVIOUS
<1>2. PICK after \in KeyType, manager \in Nat, events \in Seq(EventType) :
        /\ EmitMoving(k, after, manager, events)
        /\ EventsOf(k, m + 1, Names, events)
        /\ OrderFollows(Ledger[k].order, after.order, events)
        /\ ClosesWhole(events, Ledger[k]) => Carries(k, m + 1, Ledger[k], after, events)
  BY <1>1 DEF Runs
<1>3. /\ LogTyped'
      /\ m \in Nat /\ Len(log') = m + 1
      /\ \A i \in 1..m : log'[i] = log[i]
      /\ \A n \in 0..m : LedgerAt(n)' = LedgerAt(n)
      /\ log'[m + 1].events = events
      /\ LedgerAt(m + 1)'[k] = after
      /\ \A j \in Keys \ {k} : LedgerAt(m + 1)'[j] = LedgerAt(m)[j]
  BY <1>1, <1>2, LogGrows DEF IndexInv
<1>4. /\ cursor' = cursor /\ seen' = seen /\ positions' = positions /\ orders' = orders
      /\ inverted' = inverted /\ UNCHANGED indexVars
  BY <1>2 DEF EmitMoving, indexVars
<1>5. PICK s \in 0..m : s = seen
  BY <1>1 DEF IndexInv, Counters
<1>6. LedgerAt(m)' = LedgerAt(m) /\ LedgerAt(s)' = LedgerAt(s) /\ Ledger = LedgerAt(m)
  BY <1>1, <1>3, <1>5 DEF Ledger
<1>7. Transactions'
  <2> SUFFICES ASSUME NEW i \in 1..m + 1
               PROVE  \E kk \in Keys :
                        /\ EventsOf(kk, i, Names, log'[i].events)
                        /\ \A j \in Keys \ {kk} : LedgerAt(i)'[j] = LedgerAt(i - 1)'[j]
                        /\ OrderFollows(LedgerAt(i - 1)'[kk].order, LedgerAt(i)'[kk].order,
                                        log'[i].events)
                        /\ ClosesWhole(log'[i].events, LedgerAt(i - 1)'[kk]) =>
                             Carries(kk, i, LedgerAt(i - 1)'[kk], LedgerAt(i)'[kk], log'[i].events)
    BY <1>3 DEF Transactions
  <2>1. CASE i \in 1..m
    <3>1. i \in 0..m /\ i - 1 \in 0..m
      BY <1>3, <2>1
    <3>2. /\ log'[i] = log[i] /\ LedgerAt(i)' = LedgerAt(i)
          /\ LedgerAt(i - 1)' = LedgerAt(i - 1)
      BY <1>3, <2>1, <3>1
    <3> QED BY <1>1, <2>1, <3>2 DEF IndexInv, Transactions
  <2>2. CASE i = m + 1
    <3>1. i - 1 = m
      BY <1>3, <2>2
    <3>2. /\ LedgerAt(i - 1)' = LedgerAt(m) /\ LedgerAt(i)'[k] = after /\ log'[i].events = events
          /\ \A j \in Keys \ {k} : LedgerAt(i)'[j] = LedgerAt(m)[j]
      BY <1>3, <1>6, <2>2, <3>1
    <3>3. /\ EventsOf(k, i, Names, events)
          /\ ClosesWhole(events, Ledger[k]) => Carries(k, i, Ledger[k], after, events)
      BY <1>2, <2>2
    <3> QED BY <1>2, <1>6, <3>2, <3>3
  <2> QED BY <1>3, <2>1, <2>2
<1>8. Counters' /\ TablesTyped'
  <2>1. cursor \in 0..m /\ seen \in cursor..m /\ TablesTyped
    BY <1>1 DEF IndexInv, Counters
  <2>2. cursor' \in 0..m + 1 /\ seen' \in cursor'..m + 1
    BY <1>3, <1>4, <2>1
  <2> QED BY <1>3, <1>4, <2>1, <2>2 DEF Counters, TablesTyped
<1>9. Recorded'
  <2>1. \A i \in 1..seen : log'[i] = log[i]
    BY <1>3, <1>5
  <2> QED BY <1>4, <2>1 DEF IndexInv, Recorded
<1>10. OrdersShownOpenRest'
  BY <1>4, <1>5, <1>6 DEF IndexInv, OrdersShownOpenRest
<1>11. IndexInv'
  BY <1>3, <1>4, <1>7, <1>8, <1>9, <1>10 DEF IndexInv
<1> QED BY <1>1, <1>3, <1>4, <1>11

(* An oracle that settles, a restart *)
LEMMA SettlementKeepsIndex ==
  ASSUME IndexInv, NEW k \in Keys, NEW price \in Prices, MarketSettles(k, price)
  PROVE  IndexInv' /\ UNCHANGED <<log, indexVars>>
<1>1. /\ log' = log /\ cursor' = cursor /\ seen' = seen /\ positions' = positions
      /\ orders' = orders /\ inverted' = inverted /\ UNCHANGED indexVars
  BY DEF MarketSettles, indexVars
<1>2. LogTyped'
  BY <1>1 DEF IndexInv, LogTyped, MarketSettles
<1>3. \A n : LedgerAt(n)' = LedgerAt(n)
  BY <1>1 DEF LedgerAt
<1>4. Transactions'
  BY <1>1, <1>3 DEF IndexInv, Transactions
<1>5. Counters' /\ TablesTyped' /\ Recorded'
  BY <1>1 DEF IndexInv, Counters, TablesTyped, Recorded
<1>6. OrdersShownOpenRest'
  BY <1>1, <1>3 DEF IndexInv, OrdersShownOpenRest
<1> QED BY <1>1, <1>2, <1>4, <1>5, <1>6 DEF IndexInv

(* A restart only moves the cursor back. *)
LEMMA RewindKeepsIndex ==
  ASSUME IndexInv, NEW c \in 0..MaxTxs, Rewind(c)
  PROVE  IndexInv' /\ UNCHANGED <<log, seen, positions, orders>>
<1>1. /\ log' = log /\ settlement' = settlement /\ cursor' = c /\ seen' = seen
      /\ positions' = positions /\ orders' = orders /\ inverted' = inverted /\ c < cursor
  BY DEF Rewind, chainVars
<1>2. \A n : LedgerAt(n)' = LedgerAt(n)
  BY <1>1 DEF LedgerAt
<1>3. LogTyped' /\ Transactions'
  BY <1>1, <1>2 DEF IndexInv, LogTyped, Transactions
<1>4. Counters'
  <2>1. /\ cursor \in 0..Len(log) /\ seen \in cursor..Len(log) /\ Len(log) \in Nat
        /\ MaxTxs \in Nat
    BY LedgersTyped, IndexAssumption DEF IndexInv, Counters
  <2>2. c \in 0..Len(log) /\ seen \in c..Len(log)
    BY <1>1, <2>1
  <2> QED BY <1>1, <2>2 DEF Counters
<1>5. TablesTyped' /\ Recorded' /\ OrdersShownOpenRest'
  BY <1>1, <1>2 DEF IndexInv, TablesTyped, Recorded, OrdersShownOpenRest
<1> QED BY <1>1, <1>3, <1>4, <1>5 DEF IndexInv

-----------------------------------------------------------------------------
(* A commit *)

(* What a batch holds: the events of the transactions it takes in. *)
LEMMA Batches ==
  ASSUME IndexInv, NEW n \in Nat \ {0}, cursor + n <= Len(log)
  PROVE  /\ BatchOf(n) \in Seq(EventType)
         /\ \A e : e \in ToSet(BatchOf(n)) <=>
                     \E i \in cursor + 1 .. cursor + n : e \in ToSet(log[i].events)
         /\ n = 1 => BatchOf(n) = log[cursor + 1].events
<1> DEFINE E == Seq(EventType)
           L == [Keys -> KeyType]
           R == [ledger : L, manager : Nat, events : E]
           parts == [i \in 1..n |-> log[cursor + i].events]
<1>1. log \in Seq(R) /\ Len(log) \in Nat /\ cursor \in 0..Len(log)
  BY LedgersTyped DEF IndexInv, LogTyped, Counters
<1>2. \A i \in 1..n : cursor + i \in 1..Len(log)
  BY <1>1
<1>3. \A i \in 1..n : log[cursor + i].events \in E
  <2> HIDE DEF R
  <2>1. \A i \in 1..n : log[cursor + i] \in R
    BY <1>1, <1>2
  <2> USE DEF R
  <2> HIDE DEF L, E
  <2> QED BY <2>1
<1>4. parts \in Seq(E) /\ Len(parts) = n /\ \A i \in 1..n : parts[i] = log[cursor + i].events
  <2> HIDE DEF E
  <2> QED BY <1>3
<1>5. BatchOf(n) = FlattenSeq(parts)
  BY DEF BatchOf
<1> HIDE DEF parts
<1>6. /\ FlattenSeq(parts) \in Seq(EventType)
      /\ ToSet(FlattenSeq(parts)) = UNION {ToSet(parts[i]) : i \in 1..Len(parts)}
      /\ Len(parts) = 1 => FlattenSeq(parts) = parts[1]
  <2>1. parts \in Seq(Seq(EventType)) /\ Len(parts) > 0
    BY <1>4
  <2> QED BY <2>1, Flattened
<1>7. \A e : e \in ToSet(BatchOf(n)) <=> \E i \in 1..n : e \in ToSet(log[cursor + i].events)
  BY <1>4, <1>5, <1>6
<1>8. \A e : e \in ToSet(BatchOf(n)) <=>
              \E i \in cursor + 1 .. cursor + n : e \in ToSet(log[i].events)
  <2> SUFFICES ASSUME NEW e
               PROVE  (\E i \in 1..n : e \in ToSet(log[cursor + i].events))
                        <=> \E i \in cursor + 1 .. cursor + n : e \in ToSet(log[i].events)
    BY <1>7
  <2>1. ASSUME NEW i \in 1..n PROVE cursor + i \in cursor + 1 .. cursor + n
    BY <1>1
  <2>2. ASSUME NEW i \in cursor + 1 .. cursor + n
        PROVE  i - cursor \in 1..n /\ cursor + (i - cursor) = i
    BY <1>1
  <2> QED BY <2>1, <2>2
<1>9. n = 1 => BatchOf(n) = log[cursor + 1].events
  BY <1>4, <1>5, <1>6
<1> QED BY <1>5, <1>6, <1>8, <1>9

(* Each event of the log belongs to the transaction and the key it names. *)
LEMMA LogEvents ==
  ASSUME IndexInv, NEW i \in 1..Len(log), NEW e \in ToSet(log[i].events)
  PROVE  e \in EventType /\ e.tx = i /\ e.key \in Keys /\ e.type \in Names
<1>1. PICK k \in Keys : EventsOf(k, i, Names, log[i].events)
  BY DEF IndexInv, Transactions
<1>2. e \in EventType
  BY <1>1 DEF EventsOf, ToSet
<1> QED BY <1>1, <1>2 DEF EventsOf

(* A loop leaves tables tables. *)
LEMMA LoopTyped ==
  ASSUME NEW table \in Rows, NEW kind \in Kinds, NEW events \in Seq(EventType), NEW stored
  PROVE  ApplyKind(table, kind, events, stored) \in Rows
<1>1. ASSUME NEW u \in Rows \cap Rows, NEW i \in 1..Len(events)
      PROVE  Turn(u, kind, events[i], stored) \in Rows
  BY TurnTypes
<1>2. ApplyKind(table, kind, events, stored) \in Rows \cap Rows
  BY <1>1, LoopStays
<1> QED BY <1>2

(* The loops leave rows rows. *)
LEMMA PositionsTyped ==
  ASSUME NEW table \in Rows, NEW events \in Seq(EventType), NEW stored
  PROVE  ApplyPositions(table, events, stored) \in Rows
<1>1. ASSUME NEW t \in Rows, NEW kind \in Kinds
      PROVE  ApplyKind(t, kind, events, stored) \in Rows
  BY LoopTyped
<1> DEFINE t1 == ApplyKind(table, "predict_redeem_closes", events, stored)
           t2 == ApplyKind(t1, "position_closes", events, stored)
           t3 == ApplyKind(t2, "positions_open", events, stored)
           t4 == ApplyKind(t3, "key_borrow_patches", events, stored)
           t5 == ApplyKind(t4, "liquidation_positions", events, stored)
<1>2. t1 \in Rows
  BY <1>1 DEF Kinds
<1> HIDE DEF t1
<1>3. t2 \in Rows
  BY <1>1, <1>2 DEF Kinds
<1> HIDE DEF t2
<1>4. t3 \in Rows
  BY <1>1, <1>3 DEF Kinds
<1> HIDE DEF t3
<1>5. t4 \in Rows
  BY <1>1, <1>4 DEF Kinds
<1> HIDE DEF t4
<1>6. t5 \in Rows
  BY <1>1, <1>5 DEF Kinds
<1>7. ApplyPositions(table, events, stored) = t5
  BY DEF ApplyPositions, t1, t2, t3, t4
<1> QED BY <1>6, <1>7

(* Events that are all on record change no row. *)
LEMMA StaleLoops ==
  ASSUME NEW table \in Rows, NEW events \in Seq(EventType), NEW stored,
         \A e \in ToSet(events) : ~Fresh(e, stored)
  PROVE  ApplyPositions(table, events, stored) = table
<1>1. ASSUME NEW kind \in Kinds PROVE ApplyKind(table, kind, events, stored) = table
  <2>1. ASSUME NEW u \in {table} \cap Rows, NEW i \in 1..Len(events)
        PROVE  Turn(u, kind, events[i], stored) \in {table}
    <3>1. ~Fresh(events[i], stored)
      BY DEF ToSet
    <3> QED BY <3>1 DEF Turn
  <2>2. ApplyKind(table, kind, events, stored) \in {table} \cap Rows
    BY <2>1, LoopStays
  <2> QED BY <2>2
<1> QED BY <1>1 DEF ApplyPositions, Kinds

(* A resting order stays where no event ends it. *)
LEMMA OrderStays ==
  ASSUME IndexInv, NEW k \in Keys, NEW from \in 0..Len(log), NEW to \in from..Len(log),
         LedgerAt(from)[k].order # 0,
         \A i \in from + 1 .. to : \A e \in ToSet(log[i].events) :
            e.key = k => ~Ends(e, LedgerAt(from)[k].order)
  PROVE  LedgerAt(to)[k].order = LedgerAt(from)[k].order
<1> DEFINE x == LedgerAt(from)[k].order
           T == {i \in from..to : LedgerAt(i)[k].order # x}
<1>1. Len(log) \in Nat
  BY LedgersTyped DEF IndexInv
<1>2. T = {}
  <2> SUFFICES ASSUME T # {} PROVE FALSE
    OBVIOUS
  <2>1. PICK i \in T : \A j \in T : i <= j
    <3>1. T \subseteq Nat
      BY <1>1
    <3> HIDE DEF T
    <3> QED BY <3>1, LeastNumber
  <2>2. i # from /\ i \in from..to
    BY <2>1
  <2>3. i \in from + 1 .. to /\ i \in 1..Len(log) /\ i - 1 \in from..to
    BY <1>1, <2>2
  <2>4. LedgerAt(i - 1)[k].order = x /\ LedgerAt(i)[k].order # x
    BY <2>1, <2>3
  <2> HIDE DEF x, T
  <2>5. PICK kk \in Keys :
          /\ EventsOf(kk, i, Names, log[i].events)
          /\ \A j \in Keys \ {kk} : LedgerAt(i)[j] = LedgerAt(i - 1)[j]
          /\ OrderFollows(LedgerAt(i - 1)[kk].order, LedgerAt(i)[kk].order, log[i].events)
    BY <2>3 DEF IndexInv, Transactions
  <2>6. kk = k
    BY <2>4, <2>5
  <2>7. x # 0
    BY DEF x
  <2>8. PICK e \in ToSet(log[i].events) : Ends(e, x)
    BY <2>4, <2>5, <2>6, <2>7 DEF OrderFollows
  <2>9. e.key = k
    BY <2>5, <2>6, <2>8 DEF EventsOf
  <2> QED BY <2>3, <2>8, <2>9 DEF x
<1>3. to \in from..to
  BY <1>1
<1> QED BY <1>2, <1>3

(* What one commit makes of an order row: the row keeps its placement, and is
   left open only by a batch that ends no such order. *)
LEMMA RowAfter ==
  ASSUME NEW m, NEW k, NEW o \in OrderRows(m), NEW events, NEW stored
  PROVE  /\ AfterOrders(k, o, events, stored) \in OrderRows(m)
         /\ AfterOrders(k, o, events, stored).tx = o.tx
         /\ AfterOrders(k, o, events, stored).expires = o.expires
         /\ AfterOrders(k, o, events, stored).status = "open" =>
              /\ o.status = "open"
              /\ ~Ended("limit_executed", k, o, events)
              /\ ~Ended("limit_cancelled", k, o, events)
              /\ ~CancelOnLiquidation(k, events, stored)
<1> DEFINE after == AfterOrders(k, o, events, stored)
           filled == Ended("limit_executed", k, o, events)
           dropped == Ended("limit_cancelled", k, o, events)
           swept == CancelOnLiquidation(k, events, stored)
<1>1. after = IF o.status # "open" THEN o
              ELSE IF filled THEN [o EXCEPT !.status = "executed"]
              ELSE IF dropped \/ swept THEN [o EXCEPT !.status = "cancelled"]
              ELSE o
  BY DEF AfterOrders
<1>0. filled \in BOOLEAN /\ dropped \in BOOLEAN /\ swept \in BOOLEAN
  BY DEF Ended, CancelOnLiquidation
<1> HIDE DEF after, filled, dropped, swept
<1>2. CASE o.status # "open"
  <2>1. after = o
    BY <1>0, <1>1, <1>2
  <2> QED BY <1>2, <2>1 DEF after
<1>3. CASE o.status = "open" /\ filled
  <2>1. after = [o EXCEPT !.status = "executed"]
    BY <1>0, <1>1, <1>3
  <2>2. after \in OrderRows(m) /\ after.tx = o.tx /\ after.expires = o.expires /\ after.status # "open"
    BY <2>1 DEF OrderRows
  <2> QED BY <2>2 DEF after
<1>4. CASE o.status = "open" /\ ~filled /\ (dropped \/ swept)
  <2>1. after = [o EXCEPT !.status = "cancelled"]
    BY <1>0, <1>1, <1>4
  <2>2. after \in OrderRows(m) /\ after.tx = o.tx /\ after.expires = o.expires /\ after.status # "open"
    BY <2>1 DEF OrderRows
  <2> QED BY <2>2 DEF after
<1>5. CASE o.status = "open" /\ ~filled /\ ~dropped /\ ~swept
  <2>1. after = o
    BY <1>0, <1>1, <1>5
  <2> QED BY <1>5, <2>1 DEF after, filled, dropped, swept
<1> QED BY <1>2, <1>3, <1>4, <1>5

(* An order that rests somewhere in the new part of a batch, and that no event
   of the batch ends, rests where the batch leaves off. *)
LEMMA OrderOutlastsBatch ==
  ASSUME IndexInv, NEW n \in Nat \ {0}, cursor + n <= Len(log),
         NEW k \in Keys, NEW from \in seen..cursor + n,
         NEW o, o.expires # 0, LedgerAt(from)[k].order = o.expires,
         ~Ended("limit_executed", k, o, BatchOf(n)),
         ~Ended("limit_cancelled", k, o, BatchOf(n)),
         ~CancelOnLiquidation(k, BatchOf(n), seen)
  PROVE  LedgerAt(cursor + n)[k].order = o.expires
<1> DEFINE to == cursor + n
           batch == BatchOf(n)
<1>1. /\ cursor \in Nat /\ seen \in Nat /\ cursor <= seen /\ Len(log) \in Nat
      /\ to \in 0..Len(log) /\ from \in 0..Len(log) /\ to \in from..Len(log) /\ from >= seen
  BY LedgersTyped DEF IndexInv, Counters
<1>2. ASSUME NEW i \in from + 1 .. to, NEW e \in ToSet(log[i].events), e.key = k
      PROVE  ~Ends(e, o.expires)
  <2>1. i \in 1..Len(log) /\ i \in cursor + 1 .. cursor + n /\ i > seen
    BY <1>1, <1>2
  <2>2. e \in ToSet(batch) /\ e.tx = i
    BY <1>2, <2>1, Batches, LogEvents
  <2>3. CASE e.type = "LimitMintOrderExecuted" /\ e.expires = o.expires
    <3>1. "limit_executed" \in KindsOf(e)
      BY <2>3, KindsOfEvents
    <3> QED BY <1>2, <2>2, <2>3, <3>1 DEF Ended, OfKind
  <2>4. CASE e.type = "LimitMintOrderCancelled" /\ e.expires = o.expires
    <3>1. "limit_cancelled" \in KindsOf(e)
      BY <2>4, KindsOfEvents
    <3> QED BY <1>2, <2>2, <2>4, <3>1 DEF Ended, OfKind
  <2>5. CASE e.type = "PositionLiquidated"
    <3>1. "liquidation_positions" \in KindsOf(e)
      BY <2>5, KindsOfEvents
    <3>2. Fresh(e, seen)
      BY <2>1, <2>2 DEF Fresh
    <3> QED BY <1>2, <2>2, <3>1, <3>2 DEF CancelOnLiquidation, OfKind
  <2> QED BY <2>3, <2>4, <2>5 DEF Ends
<1> HIDE DEF to, batch
<1>3. LedgerAt(to)[k].order = LedgerAt(from)[k].order
  BY <1>1, <1>2, OrderStays
<1> QED BY <1>3 DEF to

(* A row the batch places is of one of its new transactions, where the order rests. *)
LEMMA PlacedRows ==
  ASSUME IndexInv, NEW n \in Nat \ {0}, cursor + n <= Len(log),
         NEW k \in Keys, NEW o \in Placed(k, orders[k], BatchOf(n))
  PROVE  /\ o.tx \in seen + 1 .. cursor + n
         /\ o \in OrderRows(cursor + n)
         /\ o.expires # 0 /\ LedgerAt(o.tx)[k].order = o.expires
<1>1. PICK e \in OfKind("limit_placed", k, BatchOf(n)) :
        /\ \A r \in orders[k] : r.tx # e.tx
        /\ o = [tx |-> e.tx, expires |-> e.expires, status |-> "open"]
  BY DEF Placed
<1>2. e \in ToSet(BatchOf(n)) /\ e.key = k /\ "limit_placed" \in KindsOf(e)
  BY <1>1 DEF OfKind
<1>3. cursor \in Nat /\ seen \in Nat /\ cursor <= seen /\ seen <= Len(log) /\ Len(log) \in Nat
  BY LedgersTyped DEF IndexInv, Counters
<1>4. PICK i \in cursor + 1 .. cursor + n : e \in ToSet(log[i].events)
  BY <1>2, Batches
<1>5. i \in 1..Len(log)
  BY <1>3
<1>6. e \in EventType /\ e.tx = i /\ e.type \in Names
  BY <1>4, <1>5, LogEvents
<1>7. e.type = "LimitMintOrderPlaced"
  BY <1>2, <1>6, KindsOfEvents DEF Names
<1>8. i > seen
  <2> SUFFICES ASSUME i <= seen PROVE FALSE
    BY <1>3
  <2>1. i \in 1..seen
    BY <1>3
  <2> QED BY <1>1, <1>2, <1>4, <1>6, <1>7, <2>1 DEF IndexInv, Recorded
<1>9. PICK kk \in Keys :
        /\ EventsOf(kk, i, Names, log[i].events)
        /\ OrderFollows(LedgerAt(i - 1)[kk].order, LedgerAt(i)[kk].order, log[i].events)
  BY <1>5 DEF IndexInv, Transactions
<1>10. kk = k
  BY <1>2, <1>4, <1>9 DEF EventsOf
<1>11. LedgerAt(i)[k].order = e.expires /\ e.expires # 0
  BY <1>4, <1>7, <1>9, <1>10 DEF OrderFollows
<1>12. o.tx = i /\ o.expires = e.expires /\ o.status = "open"
  BY <1>1, <1>6
<1>13. e.expires \in OrderExpiries
  BY <1>6, <1>11 DEF EventType
<1>14. i \in 1..cursor + n /\ i \in seen + 1 .. cursor + n
  BY <1>3, <1>8
<1>15. o \in OrderRows(cursor + n)
  BY <1>1, <1>6, <1>13, <1>14 DEF OrderRows
<1> QED BY <1>11, <1>12, <1>14, <1>15

(* The batch lies within the log. *)
LEMMA CommitMoves ==
  ASSUME IndexInv, NEW n \in Nat \ {0}, Commit(n)
  PROVE  /\ log' = log /\ settlement' = settlement /\ UNCHANGED chainVars
         /\ cursor' = cursor + n /\ cursor + n <= Len(log)
         /\ cursor \in Nat /\ seen \in Nat /\ cursor <= seen /\ seen <= Len(log) /\ Len(log) \in Nat
         /\ \/ seen' = seen /\ cursor + n <= seen
            \/ seen' = cursor + n /\ seen < cursor + n
         /\ positions' = ApplyPositions(positions, BatchOf(n), seen)
         /\ orders' = ApplyOrders(orders, BatchOf(n), seen)
         /\ inverted \subseteq inverted' /\ inverted' \subseteq Keys
         /\ \A k \in Keys \ inverted' : \A i, j \in seen + 1 .. cursor + n :
               i < j => ~Inverts(k, i, j)
         /\ \A i : LedgerAt(i)' = LedgerAt(i)
<1>1. cursor \in Nat /\ seen \in Nat /\ cursor <= seen /\ seen <= Len(log) /\ Len(log) \in Nat
  BY LedgersTyped DEF IndexInv, Counters
<1>2. /\ log' = log /\ settlement' = settlement /\ cursor' = cursor + n
      /\ cursor + n <= Len(log) /\ seen' = Larger(seen, cursor + n)
      /\ positions' = ApplyPositions(positions, BatchOf(n), seen)
      /\ orders' = ApplyOrders(orders, BatchOf(n), seen)
  BY DEF Commit, chainVars
<1>3. \/ seen' = seen /\ cursor + n <= seen
      \/ seen' = cursor + n /\ seen < cursor + n
  BY <1>1, <1>2 DEF Larger
<1>4. \A i : LedgerAt(i)' = LedgerAt(i)
  BY <1>2 DEF LedgerAt
<1>5. /\ inverted \subseteq inverted' /\ inverted' \subseteq Keys
      /\ \A k \in Keys \ inverted' : \A i, j \in seen + 1 .. cursor + n :
            i < j => ~Inverts(k, i, j)
  <2>1. inverted' = inverted \cup {k \in Keys : \E i, j \in seen + 1 .. cursor + n :
                                      i < j /\ Inverts(k, i, j)}
    BY DEF Commit
  <2> QED BY <2>1 DEF IndexInv
<1> QED BY <1>1, <1>2, <1>3, <1>4, <1>5 DEF chainVars

(* A commit keeps the invariant: its fresh placements get rows, and the rows it
   leaves open are of orders that no event of the batch ended. *)
LEMMA CommitKeepsIndex ==
  ASSUME IndexInv, NEW n \in Nat \ {0}, Commit(n)
  PROVE  IndexInv'
<1> DEFINE batch == BatchOf(n)
           after(k, o) == AfterOrders(k, o, batch, seen)
           before(k) == orders[k] \cup Placed(k, orders[k], batch)
<1>1. /\ log' = log /\ settlement' = settlement
      /\ cursor' = cursor + n /\ cursor + n <= Len(log)
      /\ cursor \in Nat /\ seen \in Nat /\ cursor <= seen /\ seen <= Len(log) /\ Len(log) \in Nat
      /\ \/ seen' = seen /\ cursor + n <= seen
         \/ seen' = cursor + n /\ seen < cursor + n
      /\ positions' = ApplyPositions(positions, batch, seen)
      /\ orders' = ApplyOrders(orders, batch, seen)
      /\ inverted' \subseteq Keys
      /\ \A i : LedgerAt(i)' = LedgerAt(i)
  BY CommitMoves
<1>2. batch \in Seq(EventType)
  BY <1>1, Batches
<1>3. orders' = [k \in Keys |-> {after(k, o) : o \in before(k)}]
  BY <1>1 DEF ApplyOrders
<1>4. ASSUME NEW k \in Keys, NEW o \in before(k)
      PROVE  o \in OrderRows(seen') /\ o.expires # 0
  <2>1. CASE o \in orders[k]
    <3>1. o \in OrderRows(seen)
      BY <2>1 DEF IndexInv, TablesTyped
    <3>2. 1..seen \subseteq 1..seen'
      BY <1>1
    <3> QED BY <3>1, <3>2, IndexAssumption DEF OrderRows
  <2>2. CASE o \in Placed(k, orders[k], batch)
    <3>1. /\ o.tx \in seen + 1 .. cursor + n
          /\ o \in OrderRows(cursor + n) /\ o.expires # 0
      BY <1>1, <2>2, PlacedRows
    <3>2. seen' = cursor + n
      BY <1>1, <3>1
    <3> QED BY <3>1, <3>2
  <2> QED BY <1>4, <2>1, <2>2
<1>5. ASSUME NEW k \in Keys, NEW o \in before(k)
      PROVE  /\ after(k, o) \in OrderRows(seen')
             /\ after(k, o).tx = o.tx /\ after(k, o).expires = o.expires
             /\ after(k, o).status = "open" =>
                  /\ o.status = "open"
                  /\ ~Ended("limit_executed", k, o, batch)
                  /\ ~Ended("limit_cancelled", k, o, batch)
                  /\ ~CancelOnLiquidation(k, batch, seen)
  <2>1. o \in OrderRows(seen')
    BY <1>4, <1>5
  <2> HIDE DEF batch
  <2> QED BY <2>1, RowAfter
<1>6. ASSUME NEW k \in Keys, NEW r \in orders'[k]
      PROVE  \E o \in before(k) : r = after(k, o)
  <2> HIDE DEF after, before
  <2> QED BY <1>3, <1>6
<1>7. ASSUME NEW k \in Keys, NEW o \in before(k)
      PROVE  after(k, o) \in orders'[k]
  <2> HIDE DEF after, before
  <2> QED BY <1>3, <1>7
<1>8. orders' \in [Keys -> SUBSET OrderRows(seen')]
  <2>1. ASSUME NEW k \in Keys PROVE {after(k, o) : o \in before(k)} \subseteq OrderRows(seen')
    <3> HIDE DEF after, before
    <3> QED BY <1>5, <2>1
  <2> HIDE DEF after, before
  <2> QED BY <1>3, <2>1
<1>9. LogTyped' /\ Transactions'
  BY <1>1 DEF IndexInv, LogTyped, Transactions
<1>10. Counters'
  <2>1. cursor' \in 0..Len(log) /\ seen' \in cursor'..Len(log)
    BY <1>1
  <2> QED BY <1>1, <2>1 DEF Counters
<1>11. TablesTyped'
  <2>1. positions' \in Rows
    BY <1>1, <1>2, PositionsTyped DEF IndexInv, TablesTyped
  <2> QED BY <1>8, <2>1 DEF TablesTyped
<1>12. Recorded'
  <2> SUFFICES ASSUME NEW i \in 1..seen', NEW e \in ToSet(log[i].events),
                      e.type = "LimitMintOrderPlaced"
               PROVE  \E r \in orders'[e.key] : r.tx = i
    BY <1>1 DEF Recorded
  <2>1. i \in 1..Len(log)
    BY <1>1
  <2>2. e.tx = i /\ e.key \in Keys /\ e.type \in Names
    BY <2>1, LogEvents
  <2>3. \E o \in before(e.key) : o.tx = i
    <3>1. CASE \E o \in orders[e.key] : o.tx = i
      BY <3>1
    <3>2. CASE ~ \E o \in orders[e.key] : o.tx = i
      <4>1. i \notin 1..seen
        BY <3>2 DEF IndexInv, Recorded
      <4>2. i \in cursor + 1 .. cursor + n
        BY <1>1, <4>1
      <4>3. e \in ToSet(batch)
        BY <1>1, <4>2, Batches
      <4>4. "limit_placed" \in KindsOf(e)
        BY KindsOfEvents
      <4>5. [tx |-> e.tx, expires |-> e.expires, status |-> "open"]
              \in Placed(e.key, orders[e.key], batch)
        BY <2>2, <3>2, <4>3, <4>4 DEF Placed, OfKind
      <4> QED BY <2>2, <4>5
    <3> QED BY <3>1, <3>2
  <2>4. PICK o \in before(e.key) : o.tx = i
    BY <2>3
  <2> QED BY <1>5, <1>7, <2>2, <2>4
<1>13. OrdersShownOpenRest'
  <2> SUFFICES ASSUME NEW k \in Keys, NEW r \in orders'[k], r.status = "open"
               PROVE  LedgerAt(seen')[k].order = r.expires
    <3>1. PICK s : s = seen'
      OBVIOUS
    <3>2. LedgerAt(s)' = LedgerAt(s)
      BY <1>1
    <3> QED BY <1>1, <3>1, <3>2 DEF OrdersShownOpenRest, LedgerAt
  <2>1. PICK o \in before(k) : r = after(k, o)
    BY <1>6
  <2>2. /\ r.expires = o.expires /\ o.status = "open" /\ o.expires # 0
        /\ ~Ended("limit_executed", k, o, batch)
        /\ ~Ended("limit_cancelled", k, o, batch)
        /\ ~CancelOnLiquidation(k, batch, seen)
    BY <1>4, <1>5, <2>1
  <2> HIDE DEF after
  <2>3. CASE o \in orders[k]
    <3>1. LedgerAt(seen)[k].order = o.expires
      BY <2>2, <2>3 DEF IndexInv, OrdersShownOpenRest
    <3>2. CASE seen' = seen
      BY <2>2, <3>1, <3>2
    <3>3. CASE seen' = cursor + n /\ seen < cursor + n
      <4>1. seen \in seen..cursor + n
        BY <1>1, <3>3
      <4>2. LedgerAt(cursor + n)[k].order = o.expires
        BY <1>1, <2>2, <3>1, <4>1, OrderOutlastsBatch
      <4> QED BY <2>2, <3>3, <4>2
    <3> QED BY <1>1, <3>2, <3>3
  <2>4. CASE o \in Placed(k, orders[k], batch)
    <3>1. o.tx \in seen + 1 .. cursor + n /\ LedgerAt(o.tx)[k].order = o.expires
      BY <1>1, <2>4, PlacedRows
    <3>2. seen' = cursor + n /\ o.tx \in seen..cursor + n
      BY <1>1, <3>1
    <3>3. LedgerAt(cursor + n)[k].order = o.expires
      BY <1>1, <2>2, <3>1, <3>2, OrderOutlastsBatch
    <3> QED BY <2>2, <3>2, <3>3
  <2> QED BY <2>1, <2>3, <2>4
<1> QED BY <1>1, <1>9, <1>10, <1>11, <1>12, <1>13 DEF IndexInv

-----------------------------------------------------------------------------
(* What holds for any batches, partial closes and restarts *)

(* The events of the log belong to one key and transaction each and follow its
   resting order, the rows have their types, every placement read has its row
   and an order shown open rests. *)
THEOREM IndexInvariant == Spec => []IndexInv
<1>1. Init => IndexInv
  BY InitIndex
<1>2. IndexInv /\ [Next]_vars => IndexInv'
  <2> SUFFICES ASSUME IndexInv, [Next]_vars PROVE IndexInv'
    OBVIOUS
  <2>1. ASSUME NEW k \in Keys, Chain(k) PROVE IndexInv'
    <3>1. LogTyped
      BY DEF IndexInv
    <3>2. CASE Runs(k)
      BY <3>2, RunKeepsIndex
    <3>3. CASE \E price \in Prices : MarketSettles(k, price)
      BY <3>3, SettlementKeepsIndex
    <3> QED BY <2>1, <3>1, <3>2, <3>3, ChainRuns
  <2>2. ASSUME NEW n \in 1..MaxBatch, Commit(n) PROVE IndexInv'
    <3>1. n \in Nat \ {0}
      BY IndexAssumption
    <3> QED BY <2>2, <3>1, CommitKeepsIndex
  <2>3. ASSUME NEW c \in 0..MaxTxs, Rewind(c) PROVE IndexInv'
    BY <2>3, RewindKeepsIndex
  <2>4. CASE UNCHANGED vars
    <3>1. \A i : LedgerAt(i)' = LedgerAt(i)
      BY <2>4 DEF LedgerAt, vars, chainVars
    <3> QED BY <2>4, <3>1 DEF vars, chainVars, indexVars, IndexInv, LogTyped, Transactions, Counters,
              TablesTyped, Recorded, OrdersShownOpenRest
  <2> QED BY <2>1, <2>2, <2>3, <2>4 DEF Next
<1> QED BY <1>1, <1>2, PTL DEF Spec

(* The rows of positions and orders keep their types: no amount of a row falls
   below zero and a key never holds more than its bound. *)
THEOREM IndexKeepsItsTypes == Spec => []TypeOK
<1>1. IndexInv => TypeOK
  <2> SUFFICES ASSUME IndexInv PROVE TypeOK
    OBVIOUS
  <2>1. settlement \in [Keys -> Prices \cup {Live}] /\ Ledger \in [Keys -> KeyType]
    BY LedgersTyped DEF IndexInv, LogTyped
  <2>2. \A k \in Keys : Ledger[k].qty \in 0..MaxQty
    BY <2>1 DEF KeyType, Amounts
  <2>3. cursor \in 0..Len(log) /\ seen \in cursor..Len(log)
    BY DEF IndexInv, Counters
  <2>4. positions \in [Keys -> RowType]
    BY DEF IndexInv, TablesTyped, Rows
  <2>5. \A k \in Keys : \A o \in orders[k] :
          /\ o.tx \in 1..seen /\ o.expires \in OrderExpiries
          /\ o.status \in {"open", "executed", "cancelled"}
    BY DEF IndexInv, TablesTyped, OrderRows
  <2>6. inverted \subseteq Keys
    BY DEF IndexInv
  <2> QED BY <2>1, <2>2, <2>3, <2>4, <2>5, <2>6 DEF TypeOK
<1> QED BY <1>1, IndexInvariant, PTL

(* An order the index shows as open rests on the chain, however many
   transactions a commit takes in and wherever the indexer is restarted. *)
THEOREM OpenOrdersRest == Spec => []OrdersShownOpenRest
<1>1. IndexInv => OrdersShownOpenRest
  BY DEF IndexInv
<1> QED BY <1>1, IndexInvariant, PTL

(* A commit of transactions that are all on record changes no position. *)
LEMMA StaleCommit ==
  ASSUME IndexInv, NEW n \in Nat \ {0}, Commit(n), cursor' <= seen
  PROVE  positions' = positions
<1>1. /\ positions' = ApplyPositions(positions, BatchOf(n), seen)
      /\ cursor + n <= Len(log) /\ cursor' = cursor + n
      /\ cursor \in Nat /\ seen \in Nat /\ Len(log) \in Nat
  BY CommitMoves
<1>2. BatchOf(n) \in Seq(EventType) /\ positions \in Rows
  BY <1>1, Batches DEF IndexInv, TablesTyped
<1>3. ASSUME NEW e \in ToSet(BatchOf(n)) PROVE ~Fresh(e, seen)
  <2>1. PICK i \in cursor + 1 .. cursor + n : e \in ToSet(log[i].events)
    BY <1>1, <1>3, Batches
  <2>2. i \in 1..Len(log) /\ i <= seen
    BY <1>1
  <2>3. e.tx = i
    BY <2>1, <2>2, LogEvents
  <2> QED BY <1>1, <2>2, <2>3 DEF Fresh
<1>4. ApplyPositions(positions, BatchOf(n), seen) = positions
  BY <1>2, <1>3, StaleLoops
<1> QED BY <1>1, <1>4

(* Reading a checkpoint again changes no position: every loop over positions
   asks whether the digest of the event is new. *)
THEOREM ReplayIsIdempotent == Spec => ReplayChangesNothing
<1>1. IndexInv /\ [Next]_vars =>
        [cursor' > cursor /\ cursor' <= seen => positions' = positions]_vars
  <2> SUFFICES ASSUME IndexInv, Next, cursor' > cursor, cursor' <= seen
               PROVE  positions' = positions
    OBVIOUS
  <2>1. ASSUME NEW k \in Keys, Chain(k) PROVE FALSE
    <3>1. cursor' = cursor
      <4>1. LogTyped
        BY DEF IndexInv
      <4>2. CASE Runs(k)
        BY <4>2, RunKeepsIndex DEF indexVars
      <4>3. CASE \E price \in Prices : MarketSettles(k, price)
        BY <4>3 DEF MarketSettles, indexVars
      <4> QED BY <2>1, <4>1, <4>2, <4>3, ChainRuns
    <3> QED BY <3>1 DEF IndexInv, Counters
  <2>2. ASSUME NEW n \in 1..MaxBatch, Commit(n) PROVE positions' = positions
    <3>1. n \in Nat \ {0}
      BY IndexAssumption
    <3> QED BY <2>2, <3>1, StaleCommit
  <2>3. ASSUME NEW c \in 0..MaxTxs, Rewind(c) PROVE positions' = positions
    BY <2>3 DEF Rewind
  <2> QED BY <2>1, <2>2, <2>3 DEF Next
<1> QED BY <1>1, IndexInvariant, PTL DEF Spec, ReplayChangesNothing

-----------------------------------------------------------------------------
(* The row of one key: what a commit makes of it depends on that row and on the
   new events of the key, and transactions that no commit applies the wrong way
   round are applied as if each had been committed by itself. *)

(* No new event of k takes part in the loop. *)
Quiet(k, kind, events, stored) ==
  \A e \in ToSet(events) : ~(e.key = k /\ kind \in KindsOf(e) /\ Fresh(e, stored))

(* A turn makes of a row what the row and the event say. *)
LEMMA TurnLocal ==
  ASSUME NEW k \in Keys, NEW t \in Rows, NEW u \in Rows, t[k] = u[k],
         NEW kind, NEW e \in EventType, NEW stored
  PROVE  Turn(t, kind, e, stored)[k] = Turn(u, kind, e, stored)[k]
<1>1. e.key \in Keys
  BY DEF EventType
<1>2. CASE kind \in KindsOf(e) /\ Fresh(e, stored)
  <2>1. CASE e.key = k
    <3> DEFINE new == Apply(kind, t[k], e)
    <3>1. new = Apply(kind, u[k], e)
      OBVIOUS
    <3>2. Turn(t, kind, e, stored) = [t EXCEPT ![k] = new]
      BY <1>2, <2>1 DEF Turn
    <3>3. Turn(u, kind, e, stored) = [u EXCEPT ![k] = new]
      BY <1>2, <2>1, <3>1 DEF Turn
    <3> HIDE DEF new
    <3> QED BY <3>2, <3>3 DEF Rows
  <2>2. CASE e.key # k
    <3> DEFINE new(v) == Apply(kind, v[e.key], e)
    <3>1. /\ Turn(t, kind, e, stored) = [t EXCEPT ![e.key] = new(t)]
          /\ Turn(u, kind, e, stored) = [u EXCEPT ![e.key] = new(u)]
      BY <1>2 DEF Turn
    <3> HIDE DEF new
    <3> QED BY <1>1, <2>2, <3>1 DEF Rows
  <2> QED BY <2>1, <2>2
<1>3. CASE ~(kind \in KindsOf(e) /\ Fresh(e, stored))
  BY <1>3 DEF Turn
<1> QED BY <1>2, <1>3

(* So does a loop. *)
LEMMA RowLocal ==
  ASSUME NEW k \in Keys, NEW t \in Rows, NEW u \in Rows, t[k] = u[k],
         NEW kind \in Kinds, NEW events \in Seq(EventType), NEW stored
  PROVE  ApplyKind(t, kind, events, stored)[k] = ApplyKind(u, kind, events, stored)[k]
<1> DEFINE m == Len(events)
<1>1. m \in Nat
  OBVIOUS
<1>2. PICK g : IsLoop(g, t, kind, events, stored) /\ ApplyKind(t, kind, events, stored) = g[m]
  BY Loops
<1>3. PICK h : IsLoop(h, u, kind, events, stored) /\ ApplyKind(u, kind, events, stored) = h[m]
  BY Loops
<1>4. /\ g \in [0..m -> Rows] /\ g[0] = t
      /\ \A n \in 1..m : g[n] = Turn(g[n - 1], kind, events[n], stored)
      /\ h \in [0..m -> Rows] /\ h[0] = u
      /\ \A n \in 1..m : h[n] = Turn(h[n - 1], kind, events[n], stored)
  BY <1>2, <1>3 DEF IsLoop
<1> DEFINE T == {n \in 0..m : g[n][k] # h[n][k]}
<1>5. T = {}
  <2> SUFFICES ASSUME T # {} PROVE FALSE
    OBVIOUS
  <2>1. PICK n \in T : \A i \in T : n <= i
    <3>1. T \subseteq Nat
      OBVIOUS
    <3> HIDE DEF T
    <3> QED BY <3>1, LeastNumber
  <2>2. n \in 1..m /\ n - 1 \in 0..m /\ n - 1 \notin T
    BY <1>4, <2>1
  <2>3. g[n - 1] \in Rows /\ h[n - 1] \in Rows /\ g[n - 1][k] = h[n - 1][k]
    BY <1>4, <2>2
  <2>4. events[n] \in EventType
    BY <2>2
  <2>5. g[n][k] = h[n][k]
    BY <1>4, <2>2, <2>3, <2>4, TurnLocal
  <2> QED BY <2>1, <2>5
<1>6. m \in 0..m
  BY <1>1
<1> QED BY <1>2, <1>3, <1>5, <1>6

(* A loop without a new event of k leaves the row of k alone. *)
LEMMA RowQuiet ==
  ASSUME NEW k \in Keys, NEW table \in Rows, NEW kind \in Kinds,
         NEW events \in Seq(EventType), NEW stored, Quiet(k, kind, events, stored)
  PROVE  ApplyKind(table, kind, events, stored)[k] = table[k]
<1> DEFINE S == {t \in Rows : t[k] = table[k]}
<1>1. ASSUME NEW u \in S \cap Rows, NEW i \in 1..Len(events)
      PROVE  Turn(u, kind, events[i], stored) \in S
  <2> DEFINE e == events[i]
  <2>1. e \in EventType /\ e \in ToSet(events)
    BY DEF ToSet
  <2>2. Turn(u, kind, e, stored) \in Rows
    BY <2>1, TurnTypes
  <2>3. ~(e.key = k /\ kind \in KindsOf(e) /\ Fresh(e, stored))
    BY <2>1 DEF Quiet
  <2> HIDE DEF e
  <2>4. Turn(u, kind, e, stored)[k] = u[k]
    <3>1. CASE kind \in KindsOf(e) /\ Fresh(e, stored)
      <4> DEFINE new == Apply(kind, u[e.key], e)
      <4>1. Turn(u, kind, e, stored) = [u EXCEPT ![e.key] = new]
        BY <3>1 DEF Turn
      <4>2. e.key # k
        BY <2>3, <3>1
      <4> HIDE DEF new
      <4> QED BY <4>1, <4>2 DEF Rows
    <3>2. CASE ~(kind \in KindsOf(e) /\ Fresh(e, stored))
      BY <3>2 DEF Turn
    <3> QED BY <3>1, <3>2
  <2> QED BY <2>2, <2>4 DEF e
<1>2. table \in S
  OBVIOUS
<1> HIDE DEF S
<1>3. ApplyKind(table, kind, events, stored) \in S \cap Rows
  BY <1>1, <1>2, LoopStays
<1> QED BY <1>3 DEF S

(* One loop over first \o second, from b, against the loop over first, from a,
   and the loop over second, from c. *)
Joins(a, aa, b, bb, c, cc, still, calm) ==
  /\ still => aa = a
  /\ calm => cc = c
  /\ b = a /\ calm => bb = aa
  /\ b = a /\ aa = c => bb = cc
  /\ still /\ b = c => bb = cc

(* The loops over two parts, row by row. *)
LEMMA LoopJoins ==
  ASSUME NEW k \in Keys, NEW a \in Rows, NEW b \in Rows, NEW c \in Rows, NEW kind \in Kinds,
         NEW first \in Seq(EventType), NEW second \in Seq(EventType), NEW stored
  PROVE  Joins(a[k], ApplyKind(a, kind, first, stored)[k],
               b[k], ApplyKind(b, kind, first \o second, stored)[k],
               c[k], ApplyKind(c, kind, second, stored)[k],
               Quiet(k, kind, first, stored), Quiet(k, kind, second, stored))
<1> DEFINE aa == ApplyKind(a, kind, first, stored)
           mid == ApplyKind(b, kind, first, stored)
           bb == ApplyKind(b, kind, first \o second, stored)
           cc == ApplyKind(c, kind, second, stored)
           still == Quiet(k, kind, first, stored)
           calm == Quiet(k, kind, second, stored)
<1>1. aa \in Rows /\ mid \in Rows
  BY LoopTyped
<1>2. bb = ApplyKind(mid, kind, second, stored)
  BY LoopParts
<1>3. still => aa[k] = a[k] /\ mid[k] = b[k]
  BY RowQuiet
<1>4. calm => cc[k] = c[k] /\ ApplyKind(mid, kind, second, stored)[k] = mid[k]
  BY <1>1, RowQuiet
<1>5. b[k] = a[k] => mid[k] = aa[k]
  BY RowLocal
<1>6. mid[k] = c[k] => ApplyKind(mid, kind, second, stored)[k] = cc[k]
  BY <1>1, RowLocal
<1>7. still \in BOOLEAN /\ calm \in BOOLEAN
  BY DEF Quiet
<1> DEFINE after == ApplyKind(mid, kind, second, stored)
<1> HIDE DEF aa, mid, bb, cc, still, calm, after
<1>8. Joins(a[k], aa[k], b[k], bb[k], c[k], cc[k], still, calm)
  <2>1. bb = after
    BY <1>2 DEF after
  <2>2. calm => cc[k] = c[k] /\ after[k] = mid[k]
    BY <1>4 DEF after
  <2>3. mid[k] = c[k] => after[k] = cc[k]
    BY <1>6 DEF after
  <2> QED BY <1>3, <1>5, <1>7, <2>1, <2>2, <2>3 DEF Joins
<1> QED BY <1>8 DEF aa, bb, cc, still, calm

(* Five of them, where no loop over second is disturbed that comes before a loop
   over first that is: the order of the two makes no difference. *)
LEMMA FiveJoin ==
  ASSUME NEW a0, NEW a1, NEW a2, NEW a3, NEW a4, NEW a5,
         NEW b1, NEW b2, NEW b3, NEW b4, NEW b5, NEW c1, NEW c2, NEW c3, NEW c4, NEW c5,
         NEW s1 \in BOOLEAN, NEW s2 \in BOOLEAN, NEW s3 \in BOOLEAN, NEW s4 \in BOOLEAN,
         NEW s5 \in BOOLEAN, NEW q1 \in BOOLEAN, NEW q2 \in BOOLEAN, NEW q3 \in BOOLEAN,
         NEW q4 \in BOOLEAN, NEW q5 \in BOOLEAN,
         Joins(a0, a1, a0, b1, a5, c1, s1, q1), Joins(a1, a2, b1, b2, c1, c2, s2, q2),
         Joins(a2, a3, b2, b3, c2, c3, s3, q3), Joins(a3, a4, b3, b4, c3, c4, s4, q4),
         Joins(a4, a5, b4, b5, c4, c5, s5, q5),
         s2 \/ q1, s3 \/ (q1 /\ q2), s4 \/ (q1 /\ q2 /\ q3), s5 \/ (q1 /\ q2 /\ q3 /\ q4)
  PROVE  b5 = c5
<1>1. CASE ~s5
  BY <1>1 DEF Joins
<1>2. CASE s5 /\ ~s4
  BY <1>2 DEF Joins
<1>3. CASE s5 /\ s4 /\ ~s3
  BY <1>3 DEF Joins
<1>4. CASE s5 /\ s4 /\ s3
  BY <1>4 DEF Joins
<1> QED BY <1>1, <1>2, <1>3, <1>4

(* Nothing of second is applied to the row of k before something of first. *)
Apart(k, first, second, stored) ==
  \A early, late \in 1..Len(CommitOrder) : early < late =>
    \/ Quiet(k, CommitOrder[late], first, stored)
    \/ Quiet(k, CommitOrder[early], second, stored)

(* Two parts that are apart may as well be committed one after the other. *)
LEMMA AppliedInTurn ==
  ASSUME NEW k \in Keys, NEW table \in Rows, NEW first \in Seq(EventType),
         NEW second \in Seq(EventType), NEW stored, Apart(k, first, second, stored)
  PROVE  ApplyPositions(table, first \o second, stored)[k]
           = ApplyPositions(ApplyPositions(table, first, stored), second, stored)[k]
<1> DEFINE k1 == "predict_redeem_closes"
           k2 == "position_closes"
           k3 == "positions_open"
           k4 == "key_borrow_patches"
           k5 == "liquidation_positions"
           both == first \o second
           a1 == ApplyKind(table, k1, first, stored)
           a2 == ApplyKind(a1, k2, first, stored)
           a3 == ApplyKind(a2, k3, first, stored)
           a4 == ApplyKind(a3, k4, first, stored)
           a5 == ApplyKind(a4, k5, first, stored)
           b1 == ApplyKind(table, k1, both, stored)
           b2 == ApplyKind(b1, k2, both, stored)
           b3 == ApplyKind(b2, k3, both, stored)
           b4 == ApplyKind(b3, k4, both, stored)
           b5 == ApplyKind(b4, k5, both, stored)
           c1 == ApplyKind(a5, k1, second, stored)
           c2 == ApplyKind(c1, k2, second, stored)
           c3 == ApplyKind(c2, k3, second, stored)
           c4 == ApplyKind(c3, k4, second, stored)
           c5 == ApplyKind(c4, k5, second, stored)
           s(kind) == Quiet(k, kind, first, stored)
           q(kind) == Quiet(k, kind, second, stored)
<1>1. /\ ApplyPositions(table, first, stored) = a5
      /\ ApplyPositions(table, both, stored) = b5
      /\ ApplyPositions(a5, second, stored) = c5
  BY DEF ApplyPositions
<1>2. k1 \in Kinds /\ k2 \in Kinds /\ k3 \in Kinds /\ k4 \in Kinds /\ k5 \in Kinds
  BY DEF Kinds
<1>3. /\ s(k2) \/ q(k1)
      /\ s(k3) \/ q(k1)
      /\ s(k3) \/ q(k2)
      /\ s(k4) \/ q(k1)
      /\ s(k4) \/ q(k2)
      /\ s(k4) \/ q(k3)
      /\ s(k5) \/ q(k1)
      /\ s(k5) \/ q(k2)
      /\ s(k5) \/ q(k3)
      /\ s(k5) \/ q(k4)
  <2>1. /\ Len(CommitOrder) = 5
        /\ CommitOrder[1] = k1 /\ CommitOrder[2] = k2 /\ CommitOrder[3] = k3
        /\ CommitOrder[4] = k4 /\ CommitOrder[5] = k5
    BY DEF CommitOrder
  <2> HIDE DEF k1, k2, k3, k4, k5
  <2>2. \A early, late \in 1..5 : early < late => s(CommitOrder[late]) \/ q(CommitOrder[early])
    BY <2>1 DEF Apart
  <2> HIDE DEF s, q
  <2> QED BY <2>1, <2>2
<1>4. \A kind : s(kind) \in BOOLEAN /\ q(kind) \in BOOLEAN
  BY DEF Quiet
<1>5. both \in Seq(EventType)
  BY ElementsOfParts
<1> HIDE DEF k1, k2, k3, k4, k5, both, s, q
<1>6. a1 \in Rows /\ b1 \in Rows
  BY <1>2, <1>5, LoopTyped
<1> HIDE DEF a1, b1
<1>7. a2 \in Rows /\ b2 \in Rows
  BY <1>2, <1>5, <1>6, LoopTyped
<1> HIDE DEF a2, b2
<1>8. a3 \in Rows /\ b3 \in Rows
  BY <1>2, <1>5, <1>7, LoopTyped
<1> HIDE DEF a3, b3
<1>9. a4 \in Rows /\ b4 \in Rows
  BY <1>2, <1>5, <1>8, LoopTyped
<1> HIDE DEF a4, b4
<1>10. a5 \in Rows /\ b5 \in Rows
  BY <1>2, <1>5, <1>9, LoopTyped
<1> HIDE DEF a5, b5
<1>11. c1 \in Rows
  BY <1>2, <1>10, LoopTyped
<1> HIDE DEF c1
<1>12. c2 \in Rows
  BY <1>2, <1>11, LoopTyped
<1> HIDE DEF c2
<1>13. c3 \in Rows
  BY <1>2, <1>12, LoopTyped
<1> HIDE DEF c3
<1>14. c4 \in Rows
  BY <1>2, <1>13, LoopTyped
<1> HIDE DEF c4, c5
<1>15. Joins(table[k], a1[k], table[k], b1[k], a5[k], c1[k], s(k1), q(k1))
  BY <1>2, <1>10, LoopJoins DEF a1, b1, c1, s, q, both
<1>16. Joins(a1[k], a2[k], b1[k], b2[k], c1[k], c2[k], s(k2), q(k2))
  BY <1>2, <1>6, <1>11, LoopJoins DEF a2, b2, c2, s, q, both
<1>17. Joins(a2[k], a3[k], b2[k], b3[k], c2[k], c3[k], s(k3), q(k3))
  BY <1>2, <1>7, <1>12, LoopJoins DEF a3, b3, c3, s, q, both
<1>18. Joins(a3[k], a4[k], b3[k], b4[k], c3[k], c4[k], s(k4), q(k4))
  BY <1>2, <1>8, <1>13, LoopJoins DEF a4, b4, c4, s, q, both
<1>19. Joins(a4[k], a5[k], b4[k], b5[k], c4[k], c5[k], s(k5), q(k5))
  BY <1>2, <1>9, <1>14, LoopJoins DEF a5, b5, c5, s, q, both
<1>20. b5[k] = c5[k]
  <2>1. /\ s(k1) \in BOOLEAN /\ s(k2) \in BOOLEAN /\ s(k3) \in BOOLEAN /\ s(k4) \in BOOLEAN
        /\ s(k5) \in BOOLEAN /\ q(k1) \in BOOLEAN /\ q(k2) \in BOOLEAN /\ q(k3) \in BOOLEAN
        /\ q(k4) \in BOOLEAN /\ q(k5) \in BOOLEAN
    BY <1>4
  <2>2. /\ s(k2) \/ q(k1)
        /\ s(k3) \/ (q(k1) /\ q(k2))
        /\ s(k4) \/ (q(k1) /\ q(k2) /\ q(k3))
        /\ s(k5) \/ (q(k1) /\ q(k2) /\ q(k3) /\ q(k4))
    BY <1>3
  <2> QED BY <1>15, <1>16, <1>17, <1>18, <1>19, <2>1, <2>2, FiveJoin
<1> QED BY <1>1, <1>20 DEF both

(* Events that disturb no loop leave the row alone, and are apart from anything. *)
LEMMA QuietBatch ==
  ASSUME NEW k \in Keys, NEW table \in Rows, NEW events \in Seq(EventType), NEW stored,
         \A e \in ToSet(events) : ~(e.key = k /\ Fresh(e, stored))
  PROVE  /\ ApplyPositions(table, events, stored)[k] = table[k]
         /\ \A first : Apart(k, first, events, stored)
<1>1. \A kind : Quiet(k, kind, events, stored)
  BY DEF Quiet
<1> DEFINE a1 == ApplyKind(table, "predict_redeem_closes", events, stored)
           a2 == ApplyKind(a1, "position_closes", events, stored)
           a3 == ApplyKind(a2, "positions_open", events, stored)
           a4 == ApplyKind(a3, "key_borrow_patches", events, stored)
           a5 == ApplyKind(a4, "liquidation_positions", events, stored)
<1>2. ApplyPositions(table, events, stored) = a5
  BY DEF ApplyPositions
<1>3. a1 \in Rows /\ a1[k] = table[k]
  BY <1>1, LoopTyped, RowQuiet DEF Kinds
<1> HIDE DEF a1
<1>4. a2 \in Rows /\ a2[k] = table[k]
  BY <1>1, <1>3, LoopTyped, RowQuiet DEF Kinds
<1> HIDE DEF a2
<1>5. a3 \in Rows /\ a3[k] = table[k]
  BY <1>1, <1>4, LoopTyped, RowQuiet DEF Kinds
<1> HIDE DEF a3
<1>6. a4 \in Rows /\ a4[k] = table[k]
  BY <1>1, <1>5, LoopTyped, RowQuiet DEF Kinds
<1> HIDE DEF a4
<1>7. a5[k] = table[k]
  BY <1>1, <1>6, RowQuiet DEF Kinds
<1>8. \A first : Apart(k, first, events, stored)
  BY <1>1 DEF Apart
<1> QED BY <1>2, <1>7, <1>8

-----------------------------------------------------------------------------
(* A batch grows by one transaction. *)

(* Joining one part more. *)
LEMMA FlattenGrows ==
  ASSUME NEW S, NEW parts \in Seq(Seq(S)), NEW last \in Seq(S), NEW longer,
         longer \in Seq(Seq(S)), Len(longer) = Len(parts) + 1, longer[Len(parts) + 1] = last,
         \A i \in 1..Len(parts) : longer[i] = parts[i]
  PROVE  FlattenSeq(longer) = FlattenSeq(parts) \o last
<1> DEFINE m == Len(parts)
<1>1. m \in Nat
  OBVIOUS
<1>2. PICK g : IsFlat(g, longer) /\ FlattenSeq(longer) = g[m + 1]
  <2>1. Len(longer) > 0 /\ Len(longer) = m + 1
    BY <1>1
  <2>2. \E g : IsFlat(g, longer) /\ FlattenSeq(longer) = g[Len(longer)]
    BY <2>1, FlattenLoop
  <2> QED BY <2>1, <2>2
<1>3. CASE m = 0
  <2>1. FlattenSeq(parts) = << >>
    BY <1>3 DEF FlattenSeq
  <2>2. g[1] = last
    BY <1>2, <1>3 DEF IsFlat
  <2>3. << >> \o last = last
    OBVIOUS
  <2> QED BY <1>2, <1>3, <2>1, <2>2, <2>3
<1>4. CASE m # 0
  <2>1. PICK h : IsFlat(h, parts) /\ FlattenSeq(parts) = h[m]
    BY <1>1, <1>4, FlattenLoop
  <2> DEFINE T == {n \in 1..m : g[n] # h[n]}
  <2>2. T = {}
    <3> SUFFICES ASSUME T # {} PROVE FALSE
      OBVIOUS
    <3>1. PICK n \in T : \A i \in T : n <= i
      <4>1. T \subseteq Nat
        OBVIOUS
      <4> HIDE DEF T
      <4> QED BY <4>1, LeastNumber
    <3>2. n \in 1..m /\ n \in 1..m + 1 /\ longer[n] = parts[n]
      BY <1>1, <3>1
    <3>3. CASE n = 1
      <4>1. g[n] = longer[n] /\ h[n] = parts[n]
        BY <1>2, <2>1, <3>2, <3>3 DEF IsFlat
      <4> QED BY <3>1, <3>2, <4>1
    <3>4. CASE n # 1
      <4>1. g[n] = g[n - 1] \o longer[n] /\ h[n] = h[n - 1] \o parts[n]
        BY <1>2, <2>1, <3>2, <3>4 DEF IsFlat
      <4>2. n - 1 \in 1..m /\ n - 1 \notin T
        BY <1>1, <3>1, <3>2, <3>4
      <4>3. g[n - 1] = h[n - 1]
        BY <4>2
      <4> QED BY <3>1, <3>2, <4>1, <4>3
    <3> QED BY <3>3, <3>4
  <2>3. g[m] = h[m]
    <3>1. m \in 1..m
      BY <1>1, <1>4
    <3> HIDE DEF m
    <3> QED BY <2>2, <3>1
  <2>4. m + 1 \in 1..Len(longer) /\ m + 1 # 1 /\ (m + 1) - 1 = m
    BY <1>1, <1>4
  <2>5. g[m + 1] = g[m] \o longer[m + 1]
    BY <1>2, <2>4 DEF IsFlat
  <2> QED BY <1>2, <2>1, <2>3, <2>5
<1> QED BY <1>3, <1>4

(* What the batch of one transaction more adds. *)
LEMMA BatchGrows ==
  ASSUME IndexInv, NEW m \in Nat, cursor + m + 1 <= Len(log)
  PROVE  /\ BatchOf(m) \in Seq(EventType)
         /\ log[cursor + m + 1].events \in Seq(EventType)
         /\ BatchOf(m + 1) = BatchOf(m) \o log[cursor + m + 1].events
         /\ \A e \in ToSet(BatchOf(m)) : e.tx \in cursor + 1 .. cursor + m /\ e \in ToSet(log[e.tx].events)
<1>1. cursor \in Nat /\ Len(log) \in Nat
  BY LedgersTyped DEF IndexInv, Counters
<1>2. ASSUME NEW i \in 1..Len(log) PROVE log[i].events \in Seq(EventType)
  BY DEF IndexInv, Transactions, EventsOf
<1> DEFINE E == Seq(EventType)
           parts == [i \in 1..m |-> log[cursor + i].events]
           longer == [i \in 1..m + 1 |-> log[cursor + i].events]
           last == log[cursor + m + 1].events
<1>3. \A i \in 1..m + 1 : cursor + i \in 1..Len(log) /\ log[cursor + i].events \in E
  <2>1. \A i \in 1..m + 1 : cursor + i \in 1..Len(log)
    BY <1>1
  <2> HIDE DEF E
  <2> QED BY <1>2, <2>1 DEF E
<1>4. /\ parts \in Seq(E) /\ Len(parts) = m
      /\ longer \in Seq(E) /\ Len(longer) = m + 1
      /\ longer[m + 1] = last
      /\ \A i \in 1..m : longer[i] = parts[i]
      /\ last \in E
  <2> HIDE DEF E
  <2>1. m + 1 \in 1..m + 1 /\ cursor + (m + 1) = cursor + m + 1 /\ \A i \in 1..m : i \in 1..m + 1
    BY <1>1
  <2> QED BY <1>3, <2>1
<1>5. BatchOf(m) = FlattenSeq(parts) /\ BatchOf(m + 1) = FlattenSeq(longer)
  BY DEF BatchOf
<1> HIDE DEF parts, longer, last
<1>6. FlattenSeq(longer) = FlattenSeq(parts) \o last
  BY <1>4, FlattenGrows
<1>7. /\ BatchOf(m) \in Seq(EventType)
      /\ \A e \in ToSet(BatchOf(m)) : \E i \in cursor + 1 .. cursor + m : e \in ToSet(log[i].events)
  <2>1. CASE m = 0
    <3>1. FlattenSeq(parts) = << >>
      BY <1>4, <2>1 DEF FlattenSeq
    <3>2. << >> \in Seq(EventType) /\ ToSet(<< >>) = {}
      BY DEF ToSet
    <3> QED BY <1>5, <3>1, <3>2
  <2>2. CASE m # 0
    <3>1. m \in Nat \ {0} /\ cursor + m <= Len(log)
      BY <1>1, <2>2
    <3> QED BY <3>1, Batches
  <2> QED BY <2>1, <2>2
<1>8. ASSUME NEW e \in ToSet(BatchOf(m))
      PROVE  e.tx \in cursor + 1 .. cursor + m /\ e \in ToSet(log[e.tx].events)
  <2>1. PICK i \in cursor + 1 .. cursor + m : e \in ToSet(log[i].events)
    BY <1>7
  <2>2. i \in 1..Len(log)
    BY <1>1
  <2>3. e.tx = i
    BY <2>1, <2>2, LogEvents
  <2> QED BY <2>1, <2>3
<1> QED BY <1>4, <1>5, <1>6, <1>7, <1>8 DEF last

(* Before its first transaction a batch holds nothing. *)
LEMMA BatchStarts ==
  BatchOf(0) = << >> /\ << >> \in Seq(EventType) /\ ToSet(<< >>) = {}
<1> DEFINE parts == [i \in 1..0 |-> log[cursor + i].events]
<1>1. parts = << >> /\ Len(parts) = 0
  OBVIOUS
<1>2. BatchOf(0) = FlattenSeq(parts)
  BY DEF BatchOf
<1> QED BY <1>1, <1>2 DEF FlattenSeq, ToSet

-----------------------------------------------------------------------------
(* The rows mirror the keys the index follows. *)

(* Each row mirrors its key after the last transaction that was read, unless a
   commit applied the key the wrong way round or LeverX closed it in part. *)
Mirrored == \A k \in Keys \ Unsure : Mirrors(positions[k], LedgerAt(seen)[k])

(* Before the first transaction no row shows anything. *)
LEMMA InitMirrors == Init => Mirrored
<1> SUFFICES ASSUME Init, NEW k \in Keys PROVE Mirrors(positions[k], LedgerAt(seen)[k])
  BY DEF Mirrored
<1>1. positions[k] = NoRow /\ LedgerAt(seen)[k] = EmptyKey
  BY DEF Init, LedgerAt, GenesisLedger
<1> QED BY <1>1 DEF Mirrors, NoRow, EmptyKey

(* The first m transactions of a commit take the row of k where they take the key. *)
FollowsFor(k, m) ==
  Mirrors(ApplyPositions(positions, BatchOf(m), seen)[k], LedgerAt(Larger(seen, cursor + m))[k])

(* One transaction more: it is on record already, it is of another key, or it
   is of k, closes none of it in part and is applied after what came before. *)
LEMMA FollowsOneMore ==
  ASSUME IndexInv, NEW m \in Nat, cursor + m + 1 <= Len(log), NEW k \in Keys,
         \A i, j \in seen + 1 .. cursor + m + 1 : i < j => ~Inverts(k, i, j),
         \A e \in ToSet(log[cursor + m + 1].events) :
            ~(e.type = "LeveragedPositionClosed" /\ e.key = k /\ e.qty < LedgerAt(cursor + m)[k].qty),
         FollowsFor(k, m)
  PROVE  FollowsFor(k, m + 1)
<1> DEFINE j == cursor + m + 1
           batch == BatchOf(m)
           events == log[j].events
           table == ApplyPositions(positions, batch, seen)
<1>1. cursor \in Nat /\ seen \in Nat /\ cursor <= seen /\ Len(log) \in Nat /\ j \in 1..Len(log)
      /\ j - 1 = cursor + m /\ cursor + (m + 1) = j
  BY LedgersTyped DEF IndexInv, Counters
<1>2. /\ batch \in Seq(EventType) /\ events \in Seq(EventType)
      /\ BatchOf(m + 1) = batch \o events
      /\ \A e \in ToSet(batch) : e.tx \in cursor + 1 .. cursor + m /\ e \in ToSet(log[e.tx].events)
  BY BatchGrows
<1>3. positions \in Rows /\ table \in Rows
  BY <1>2, PositionsTyped DEF IndexInv, TablesTyped
<1>4. \A e \in ToSet(events) : e.tx = j
  BY <1>1, LogEvents
<1>5. Mirrors(table[k], LedgerAt(Larger(seen, cursor + m))[k])
  BY DEF FollowsFor
<1>6. ASSUME Apart(k, batch, events, seen)
      PROVE  ApplyPositions(positions, BatchOf(m + 1), seen)[k]
               = ApplyPositions(table, events, seen)[k]
  <2>1. positions \in Rows /\ Apart(k, batch, events, seen)
    BY <1>3, <1>6
  <2> HIDE DEF batch, events, table
  <2>2. ApplyPositions(positions, batch \o events, seen)[k]
          = ApplyPositions(ApplyPositions(positions, batch, seen), events, seen)[k]
    BY <1>2, <2>1, AppliedInTurn
  <2> QED BY <1>2, <2>2 DEF table
<1> HIDE DEF batch, table
<1>7. CASE j <= seen
  <2>1. \A e \in ToSet(events) : ~(e.key = k /\ Fresh(e, seen))
    BY <1>1, <1>4, <1>7 DEF Fresh
  <2>2. ApplyPositions(positions, BatchOf(m + 1), seen)[k] = table[k]
    BY <1>2, <1>3, <1>6, <2>1, QuietBatch
  <2>3. Larger(seen, cursor + (m + 1)) = seen /\ Larger(seen, cursor + m) = seen
    BY <1>1, <1>7 DEF Larger
  <2> QED BY <1>5, <2>2, <2>3 DEF FollowsFor
<1>8. CASE seen < j
  <2>1. Larger(seen, cursor + (m + 1)) = j /\ Larger(seen, cursor + m) = j - 1
    BY <1>1, <1>8 DEF Larger
  <2>2. Mirrors(table[k], LedgerAt(j - 1)[k])
    BY <1>5, <2>1
  <2>3. PICK kk \in Keys :
          /\ EventsOf(kk, j, Names, events)
          /\ \A i \in Keys \ {kk} : LedgerAt(j)[i] = LedgerAt(j - 1)[i]
          /\ ClosesWhole(events, LedgerAt(j - 1)[kk]) =>
               Carries(kk, j, LedgerAt(j - 1)[kk], LedgerAt(j)[kk], events)
    BY <1>1 DEF IndexInv, Transactions
  <2>4. CASE kk # k
    <3>1. \A e \in ToSet(events) : ~(e.key = k /\ Fresh(e, seen))
      BY <2>3, <2>4 DEF EventsOf
    <3>2. ApplyPositions(positions, BatchOf(m + 1), seen)[k] = table[k]
      BY <1>2, <1>3, <1>6, <3>1, QuietBatch
    <3>3. LedgerAt(j)[k] = LedgerAt(j - 1)[k]
      BY <2>3, <2>4
    <3> QED BY <2>1, <2>2, <3>2, <3>3 DEF FollowsFor
  <2>5. CASE kk = k
    <3>1. Apart(k, batch, events, seen)
      <4> SUFFICES ASSUME NEW early \in 1..Len(CommitOrder), NEW late \in 1..Len(CommitOrder),
                          early < late,
                          ~Quiet(k, CommitOrder[late], batch, seen),
                          ~Quiet(k, CommitOrder[early], events, seen)
                   PROVE  FALSE
        BY DEF Apart
      <4>1. PICK e \in ToSet(batch) :
              e.key = k /\ CommitOrder[late] \in KindsOf(e) /\ Fresh(e, seen)
        BY DEF Quiet
      <4>2. PICK f \in ToSet(events) :
              f.key = k /\ CommitOrder[early] \in KindsOf(f) /\ Fresh(f, seen)
        BY DEF Quiet
      <4>3. e.tx \in cursor + 1 .. cursor + m /\ e \in ToSet(log[e.tx].events)
        BY <1>2, <4>1
      <4>4. /\ e.tx \in seen + 1 .. cursor + m + 1 /\ j \in seen + 1 .. cursor + m + 1
            /\ e.tx < j
        <5> DEFINE t == e.tx
        <5>1. t \in cursor + 1 .. cursor + m /\ t > seen
          BY <4>1, <4>3 DEF Fresh
        <5> HIDE DEF t
        <5>2. t \in seen + 1 .. cursor + m + 1 /\ j \in seen + 1 .. cursor + m + 1 /\ t < j
          BY <1>1, <1>8, <5>1
        <5> QED BY <5>2 DEF t
      <4>5. Feeds(k, e.tx, CommitOrder[late]) /\ Feeds(k, j, CommitOrder[early])
        BY <4>1, <4>2, <4>3 DEF Feeds
      <4>6. Inverts(k, e.tx, j)
        BY <4>5 DEF Inverts
      <4> QED BY <4>4, <4>6
    <3>2. ClosesWhole(events, LedgerAt(j - 1)[k])
      BY <1>1, <2>3, <2>5 DEF ClosesWhole, EventsOf
    <3>3. Carries(k, j, LedgerAt(j - 1)[k], LedgerAt(j)[k], events)
      BY <2>3, <2>5, <3>2
    <3>4. ApplyPositions(table, events, seen) \in Mirroring(k, table, LedgerAt(j)[k])
      BY <1>1, <1>3, <1>8, <2>2, <3>3 DEF Carries
    <3>5. Mirrors(ApplyPositions(table, events, seen)[k], LedgerAt(j)[k])
      BY <3>4 DEF Mirroring
    <3> QED BY <1>6, <2>1, <3>1, <3>5 DEF FollowsFor
  <2> QED BY <2>4, <2>5
<1> QED BY <1>1, <1>7, <1>8

(* What the index no longer follows it never follows again. *)
LEMMA UnsureGrows ==
  ASSUME IndexInv, NEW n \in Nat \ {0}, Commit(n)
  PROVE  /\ Unsure \subseteq Unsure' /\ Unsure' \subseteq Keys
         /\ cursor + n <= seen => Unsure' = Unsure
         /\ \A k \in Keys \ Unsure' :
              /\ \A i, j \in seen + 1 .. cursor + n : i < j => ~Inverts(k, i, j)
              /\ \A i \in cursor + 1 .. cursor + n : \A e \in ToSet(log[i].events) :
                   ~(e.type = "LeveragedPositionClosed" /\ e.key = k
                       /\ e.qty < LedgerAt(i - 1)[k].qty)
<1>1. /\ log' = log /\ cursor \in Nat /\ seen \in Nat /\ cursor <= seen
      /\ \/ seen' = seen /\ cursor + n <= seen
         \/ seen' = cursor + n /\ seen < cursor + n
      /\ inverted \subseteq inverted' /\ inverted' \subseteq Keys
      /\ \A k \in Keys \ inverted' : \A i, j \in seen + 1 .. cursor + n :
            i < j => ~Inverts(k, i, j)
      /\ \A i : LedgerAt(i)' = LedgerAt(i)
  BY CommitMoves
<1>2. PICK s : s = seen'
  OBVIOUS
<1>3. PartlyClosed(seen)' = PartlyClosed(s)
  BY <1>1, <1>2 DEF PartlyClosed, LedgerAt
<1>4. s \in Nat /\ 1..seen \subseteq 1..s /\ cursor + 1 .. cursor + n \subseteq 1..s
  BY <1>1, <1>2
<1>5. PartlyClosed(seen) \subseteq PartlyClosed(s) /\ PartlyClosed(s) \subseteq Keys
  BY <1>4 DEF PartlyClosed
<1>6. Unsure' = inverted' \cup PartlyClosed(s)
  BY <1>3 DEF Unsure
<1>7. cursor + n <= seen => Unsure' = Unsure
  <2> SUFFICES ASSUME cursor + n <= seen PROVE Unsure' = Unsure
    OBVIOUS
  <2>1. s = seen /\ seen + 1 .. cursor + n = {}
    BY <1>1, <1>2
  <2>2. inverted' = inverted
    BY <2>1 DEF Commit
  <2> QED BY <1>6, <2>1, <2>2 DEF Unsure
<1>8. ASSUME NEW k \in Keys \ Unsure', NEW i \in cursor + 1 .. cursor + n,
             NEW e \in ToSet(log[i].events)
      PROVE  ~(e.type = "LeveragedPositionClosed" /\ e.key = k /\ e.qty < LedgerAt(i - 1)[k].qty)
  BY <1>4, <1>6, <1>8 DEF PartlyClosed
<1> QED BY <1>1, <1>5, <1>6, <1>7, <1>8 DEF Unsure

(* A commit takes every row it still follows where the batch took its key. *)
LEMMA CommitMirrors ==
  ASSUME IndexInv, Mirrored, NEW n \in Nat \ {0}, Commit(n)
  PROVE  Mirrored'
<1>1. /\ cursor \in Nat /\ seen \in Nat /\ cursor <= seen /\ Len(log) \in Nat
      /\ cursor + n <= Len(log) /\ log' = log
      /\ \/ seen' = seen /\ cursor + n <= seen
         \/ seen' = cursor + n /\ seen < cursor + n
      /\ positions' = ApplyPositions(positions, BatchOf(n), seen)
      /\ \A i : LedgerAt(i)' = LedgerAt(i)
  BY CommitMoves
<1>2. PICK s : s = seen'
  OBVIOUS
<1>3. s = Larger(seen, cursor + n)
  BY <1>1, <1>2 DEF Larger
<1>4. LedgerAt(seen)' = LedgerAt(s)
  BY <1>1, <1>2 DEF LedgerAt
<1> SUFFICES ASSUME NEW k \in Keys \ Unsure' PROVE Mirrors(positions'[k], LedgerAt(s)[k])
  BY <1>4 DEF Mirrored, Mirrors
<1>5. /\ k \notin Unsure
      /\ \A i, j \in seen + 1 .. cursor + n : i < j => ~Inverts(k, i, j)
      /\ \A i \in cursor + 1 .. cursor + n : \A e \in ToSet(log[i].events) :
           ~(e.type = "LeveragedPositionClosed" /\ e.key = k /\ e.qty < LedgerAt(i - 1)[k].qty)
  BY UnsureGrows
<1> DEFINE T == {m \in 0..n : ~FollowsFor(k, m)}
<1>6. FollowsFor(k, 0)
  <2>1. positions \in Rows
    BY DEF IndexInv, TablesTyped
  <2>2. ApplyPositions(positions, << >>, seen) = positions
    BY <2>1, BatchStarts, StaleLoops
  <2>3. Larger(seen, cursor + 0) = seen
    BY <1>1 DEF Larger
  <2> QED BY <1>5, <2>2, <2>3, BatchStarts DEF FollowsFor, Mirrored
<1>7. T = {}
  <2> SUFFICES ASSUME T # {} PROVE FALSE
    OBVIOUS
  <2>1. PICK m \in T : \A i \in T : m <= i
    <3>1. T \subseteq Nat
      OBVIOUS
    <3> HIDE DEF T
    <3> QED BY <3>1, LeastNumber
  <2>2. m \in 1..n /\ m - 1 \in 0..n /\ m - 1 \notin T /\ m - 1 \in Nat
    BY <1>6, <2>1
  <2> DEFINE p == m - 1
  <2>3. FollowsFor(k, p) /\ p \in Nat
    BY <2>2
  <2>4. /\ cursor + p + 1 <= cursor + n /\ cursor + p + 1 \in cursor + 1 .. cursor + n
        /\ (cursor + p + 1) - 1 = cursor + p /\ p + 1 = m
        /\ cursor + p + 1 <= Len(log)
    BY <1>1, <2>2
  <2> HIDE DEF p
  <2>5. \A i \in seen + 1 .. cursor + p + 1 : i \in seen + 1 .. cursor + n
    BY <1>1, <2>3, <2>4
  <2>6. FollowsFor(k, p + 1)
    <3>1. \A i, j \in seen + 1 .. cursor + p + 1 : i < j => ~Inverts(k, i, j)
      BY <1>5, <2>5
    <3>2. \A e \in ToSet(log[cursor + p + 1].events) :
            ~(e.type = "LeveragedPositionClosed" /\ e.key = k /\ e.qty < LedgerAt(cursor + p)[k].qty)
      BY <1>5, <2>4
    <3> QED BY <2>3, <2>4, <3>1, <3>2, FollowsOneMore
  <2> QED BY <2>1, <2>4, <2>6
<1>8. FollowsFor(k, n)
  <2>1. n \in 0..n
    OBVIOUS
  <2> QED BY <1>7, <2>1
<1> QED BY <1>1, <1>3, <1>8 DEF FollowsFor

(* The rows, the restarts and the chain, step by step: the chain leaves the rows
   alone and adds to the log, and a commit takes the rows on or changes nothing. *)
LEMMA MirrorSteps ==
  ASSUME IndexInv, Mirrored, [Next]_vars
  PROVE  /\ Mirrored'
         /\ \/ /\ Len(log') = Len(log) + 1 /\ \A i \in 1..Len(log) : log'[i] = log[i]
               /\ UNCHANGED <<seen, positions>> /\ Unsure' = Unsure
            \/ /\ seen' \in seen + 1 .. Len(log) /\ log' = log
               /\ Unsure \subseteq Unsure' /\ Unsure' \subseteq Keys
            \/ UNCHANGED <<log, seen, positions>> /\ Unsure' = Unsure
<1>0. PICK s \in 0..Len(log) : s = seen
  BY DEF IndexInv, Counters
<1>1. ASSUME NEW k \in Keys, Runs(k)
      PROVE  /\ Mirrored'
             /\ Len(log') = Len(log) + 1 /\ \A i \in 1..Len(log) : log'[i] = log[i]
             /\ UNCHANGED <<seen, positions>> /\ Unsure' = Unsure
  <2>1. /\ seen' = seen /\ positions' = positions /\ inverted' = inverted
        /\ \A n \in 0..Len(log) : LedgerAt(n)' = LedgerAt(n)
        /\ Len(log') = Len(log) + 1 /\ \A i \in 1..Len(log) : log'[i] = log[i]
    BY <1>1, RunKeepsIndex DEF indexVars
  <2>2. LedgerAt(seen)' = LedgerAt(s)
    <3>1. LedgerAt(s)' = LedgerAt(s)
      BY <1>0, <2>1
    <3> QED BY <1>0, <2>1, <3>1 DEF LedgerAt
  <2>3. \A i \in 1..s : i \in 1..Len(log) /\ i - 1 \in 0..Len(log)
    BY <1>0, LedgersTyped DEF IndexInv
  <2>4. \A i \in 1..s : log'[i] = log[i] /\ LedgerAt(i - 1)' = LedgerAt(i - 1)
    BY <2>1, <2>3
  <2>5. PartlyClosed(seen)' = PartlyClosed(s)
    <3>1. PartlyClosed(s)' = PartlyClosed(s)
      BY <2>4 DEF PartlyClosed
    <3> QED BY <1>0, <2>1, <3>1 DEF PartlyClosed, LedgerAt
  <2>6. Unsure' = Unsure
    BY <1>0, <2>1, <2>5 DEF Unsure
  <2> QED BY <1>0, <2>1, <2>2, <2>6 DEF Mirrored
<1>2. ASSUME UNCHANGED <<log, seen, positions, inverted>>
      PROVE  Mirrored' /\ UNCHANGED <<log, seen, positions>> /\ Unsure' = Unsure
  <2>1. \A i : LedgerAt(i)' = LedgerAt(i)
    BY <1>2 DEF LedgerAt
  <2>2. LedgerAt(seen)' = LedgerAt(seen)
    BY <1>2 DEF LedgerAt
  <2>3. Unsure' = Unsure
    BY <1>2, <2>1 DEF Unsure, PartlyClosed
  <2> QED BY <1>2, <2>2, <2>3 DEF Mirrored
<1>3. ASSUME NEW k \in Keys, NEW price \in Prices, MarketSettles(k, price)
      PROVE  UNCHANGED <<log, seen, positions, inverted>>
  BY <1>3 DEF MarketSettles, indexVars
<1>4. ASSUME NEW n \in 1..MaxBatch, Commit(n)
      PROVE  /\ Mirrored' /\ log' = log
             /\ \/ positions' = positions /\ seen' = seen /\ Unsure' = Unsure
                \/ seen' \in seen + 1 .. Len(log) /\ Unsure \subseteq Unsure' /\ Unsure' \subseteq Keys
  <2>1. n \in Nat \ {0}
    BY IndexAssumption
  <2>2. Mirrored'
    BY <1>4, <2>1, CommitMirrors
  <2>3. /\ log' = log /\ cursor' = cursor + n /\ cursor + n <= Len(log)
        /\ cursor \in Nat /\ seen \in Nat /\ Len(log) \in Nat
        /\ \/ seen' = seen /\ cursor + n <= seen
           \/ seen' = cursor + n /\ seen < cursor + n
    BY <1>4, <2>1, CommitMoves
  <2>4. /\ Unsure \subseteq Unsure' /\ Unsure' \subseteq Keys
        /\ cursor + n <= seen => Unsure' = Unsure
    BY <1>4, <2>1, UnsureGrows
  <2>5. cursor + n <= seen => positions' = positions
    BY <1>4, <2>1, <2>3, StaleCommit
  <2>6. seen < cursor + n /\ seen' = cursor + n => seen' \in seen + 1 .. Len(log)
    BY <2>1, <2>3
  <2> QED BY <2>2, <2>3, <2>4, <2>5, <2>6
<1>5. ASSUME NEW c \in 0..MaxTxs, Rewind(c) PROVE UNCHANGED <<log, seen, positions, inverted>>
  BY <1>5 DEF Rewind, chainVars
<1>6. ASSUME NEW k \in Keys, Chain(k)
      PROVE  Runs(k) \/ \E price \in Prices : MarketSettles(k, price)
  <2>1. LogTyped
    BY DEF IndexInv
  <2> QED BY <1>6, <2>1, ChainRuns
<1>7. UNCHANGED vars => UNCHANGED <<log, seen, positions, inverted>>
  BY DEF vars, chainVars, indexVars
<1>8. CASE UNCHANGED vars
  BY <1>2, <1>7, <1>8
<1>9. CASE \E k \in Keys : Chain(k)
  BY <1>1, <1>2, <1>3, <1>6, <1>9
<1>10. CASE \E n \in 1..MaxBatch : Commit(n)
  BY <1>4, <1>10
<1>11. CASE \E c \in 0..MaxTxs : Rewind(c)
  BY <1>2, <1>5, <1>11
<1> QED BY <1>8, <1>9, <1>10, <1>11 DEF Next

(* Commit by commit, every row the index still follows shows the contracts of its
   key and is open while there are any, for batches and restarts of any size. *)
THEOREM RowsMirrorKeys == Spec => []Mirrored
<1>1. Init => Mirrored
  BY InitMirrors
<1>2. IndexInv /\ Mirrored /\ [Next]_vars => Mirrored'
  BY MirrorSteps
<1> QED BY <1>1, <1>2, IndexInvariant, PTL DEF Spec

(* A sequence that grew at its end still starts as it did. *)
LEMMA StartOfLonger ==
  ASSUME NEW S, NEW T, NEW s \in Seq(S), NEW t \in Seq(T), Len(t) = Len(s) + 1,
         \A i \in 1..Len(s) : t[i] = s[i]
  PROVE  SubSeq(t, 1, Len(s)) = s
<1>1. Len(s) \in Nat /\ s = [i \in 1..Len(s) |-> s[i]]
  OBVIOUS
<1>2. SubSeq(t, 1, Len(s)) = [i \in 1..Len(s) |-> t[i]]
  BY <1>1
<1>3. [i \in 1..Len(s) |-> t[i]] = [i \in 1..Len(s) |-> s[i]]
  OBVIOUS
<1> QED BY <1>1, <1>2, <1>3

(* The contracts the rows show are a copy of the ledger that only moves forward
   and marks the keys it no longer follows: LedgerReplica is implemented, step by
   step, whatever transactions a commit takes in together. *)
THEOREM RowsShowTheLedger == Spec => ShowsTheLedger
<1> DEFINE history == [i \in 1..Len(log) |-> [k \in Keys |-> log[i].ledger[k].qty]]
           shown == [k \in Keys |-> IF k \in Unsure THEN Unknown ELSE positions[k].qty]
           genesis == [k \in Keys |-> 0]
<1>1. Init => Replica!Init
  <2> SUFFICES ASSUME Init PROVE Replica!Init
    OBVIOUS
  <2>1. /\ log = << >> /\ seen = 0 /\ positions = [k \in Keys |-> NoRow] /\ Len(log) = 0
        /\ inverted = {}
    BY DEF Init
  <2>2. history = << >>
    BY <2>1
  <2>3. Unsure = {}
    <3>1. 1..seen = {}
      BY <2>1
    <3> QED BY <2>1, <3>1 DEF Unsure, PartlyClosed
  <2>4. shown = genesis
    BY <2>1, <2>3 DEF NoRow
  <2> QED BY <2>1, <2>2, <2>3, <2>4 DEF Replica!Init
<1>2. IndexInv /\ Mirrored /\ [Next]_vars => [Replica!Next]_<<history, seen, Unsure, shown>>
  <2> SUFFICES ASSUME IndexInv, Mirrored, [Next]_vars
               PROVE  [Replica!Next]_<<history, seen, Unsure, shown>>
    OBVIOUS
  <2>1. Len(log) \in Nat /\ history \in Seq([Keys -> Amounts]) /\ Len(history) = Len(log)
    <3>1. Len(log) \in Nat
      BY LedgersTyped DEF IndexInv
    <3>2. ASSUME NEW i \in 1..Len(log) PROVE [k \in Keys |-> log[i].ledger[k].qty] \in [Keys -> Amounts]
      <4>1. LedgerAt(i) \in [Keys -> KeyType] /\ LedgerAt(i) = log[i].ledger
        BY <3>1, LedgersTyped DEF IndexInv, LedgerAt
      <4> QED BY <4>1 DEF KeyType
    <3> QED BY <3>1, <3>2
  <2>2. CASE /\ Len(log') = Len(log) + 1 /\ \A i \in 1..Len(log) : log'[i] = log[i]
             /\ UNCHANGED <<seen, positions>> /\ Unsure' = Unsure
    <3>1. Len(history') = Len(history) + 1
      BY <2>1, <2>2
    <3>2. \A i \in 1..Len(history) : history'[i] = history[i]
      BY <2>1, <2>2
    <3> DEFINE T == {[k \in Keys |-> log'[i].ledger[k].qty] : i \in 1..Len(log')}
    <3>5. history' \in Seq(T)
      BY <2>1, <2>2
    <3> HIDE DEF history, T
    <3>3. SubSeq(history', 1, Len(history)) = history
      BY <2>1, <3>1, <3>2, <3>5, StartOfLonger
    <3> USE DEF history
    <3>4. seen' = seen /\ Unsure' = Unsure /\ shown' = shown
      BY <2>2
    <3> QED BY <3>1, <3>3, <3>4 DEF Replica!Next, Replica!Extend
  <2>3. CASE seen' \in seen + 1 .. Len(log) /\ log' = log
             /\ Unsure \subseteq Unsure' /\ Unsure' \subseteq Keys
    <3>1. Mirrored'
      BY MirrorSteps
    <3>2. history' = history
      BY <2>3
    <3>4. seen' \in seen + 1 .. Len(history) /\ seen' # 0 /\ seen' \in 1..Len(log)
      BY <2>1, <2>3 DEF IndexInv, Counters
    <3>3. shown' = [k \in Keys |-> IF k \in Unsure' THEN Unknown ELSE history[seen'][k]]
      <4>1. ASSUME NEW k \in Keys \ Unsure' PROVE positions'[k].qty = log[seen'].ledger[k].qty
        <5>1. LedgerAt(seen)' = log[seen'].ledger
          BY <2>3, <3>4 DEF LedgerAt
        <5> QED BY <3>1, <5>1 DEF Mirrored, Mirrors
      <4>2. history[seen'] = [k \in Keys |-> log[seen'].ledger[k].qty]
        BY <3>4
      <4> QED BY <4>1, <4>2
    <3>5. DOMAIN genesis = Keys /\ Unsure' \in SUBSET DOMAIN genesis
      BY <2>3
    <3>6. shown' = Replica!View(seen', Unsure')
      BY <3>3, <3>4, <3>5 DEF Replica!View, Replica!StateAt
    <3>7. Replica!Advance
      BY <2>3, <3>2, <3>4, <3>5, <3>6 DEF Replica!Advance
    <3> QED BY <3>7 DEF Replica!Next
  <2>4. CASE UNCHANGED <<log, seen, positions>> /\ Unsure' = Unsure
    BY <2>4
  <2> QED BY <2>2, <2>3, <2>4, MirrorSteps
<1> QED BY <1>1, <1>2, IndexInvariant, RowsMirrorKeys, PTL DEF Spec, ShowsTheLedger, Replica!Spec

=============================================================================
