---------------------------- MODULE LedgerReplica ----------------------------
(***************************************************************************)
(* What a read model of the chain promises: of every key it answers for it *)
(* shows what the ledger really held after the transactions it has taken   *)
(* in, it only moves forward, re-reading what it has already read leaves   *)
(* it alone, and a key it has lost track of stays marked as such.          *)
(* IndexProjection is shown to implement this for the contracts each       *)
(* market key holds.                                                       *)
(***************************************************************************)
EXTENDS Integers, Sequences

VARIABLES
  history,   \* the ledger after each transaction, oldest first
  position,  \* how many transactions the replica has taken in
  lost,      \* keys the replica does not answer for any more
  shown      \* the ledger the replica shows

CONSTANTS
  Genesis,  \* the ledger before the first transaction
  Unknown   \* what is shown of a lost key

StateAt(n) == IF n = 0 THEN Genesis ELSE history[n]

View(n, without) ==
  [k \in DOMAIN Genesis |-> IF k \in without THEN Unknown ELSE StateAt(n)[k]]

Init ==
  /\ history = << >>
  /\ position = 0
  /\ lost = {}
  /\ shown = Genesis

(* The chain runs one more transaction. *)
Extend ==
  /\ Len(history') = Len(history) + 1
  /\ SubSeq(history', 1, Len(history)) = history
  /\ UNCHANGED <<position, lost, shown>>

(* The replica takes in one or more transactions it has not seen.  It may lose
   track of keys, and then says so. *)
Advance ==
  /\ position' \in position + 1 .. Len(history)
  /\ lost' \in SUBSET DOMAIN Genesis /\ lost \subseteq lost'
  /\ shown' = View(position', lost')
  /\ UNCHANGED history

Next == Extend \/ Advance

Spec == Init /\ [][Next]_<<history, position, lost, shown>>
=============================================================================
