----------------------------- MODULE Transaction ------------------------------
(***************************************************************************)
(* A Move entry function is a transaction: it either runs to its end or    *)
(* aborts and changes nothing.  A transaction context t is a record of     *)
(* what one transaction reads and writes; each module says which fields it *)
(* uses.  Two of them belong to every context:                             *)
(*                                                                         *)
(*   now   the clock, constant within a transaction                        *)
(*   ok    FALSE once an assertion or an unsigned subtraction failed       *)
(*                                                                         *)
(* An operator maps a context to the context after the call; an action     *)
(* takes effect only when the final context is ok.                         *)
(***************************************************************************)

\* A call that asserts cond: it leads to context after, or the transaction
\* aborts (and after is never computed).
Require(t, cond, after) == IF t.ok /\ cond THEN after ELSE [t EXCEPT !.ok = FALSE]
=============================================================================
