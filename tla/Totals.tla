------------------------------- MODULE Totals -------------------------------
(***************************************************************************)
(* Sums over the rows of a table.  The ledgers of the backend accumulate a *)
(* running balance over the listed transactions (ppms/app/api/ledger.py,   *)
(* "balance += t['amount']"); Total is the last of those running balances. *)
(* It is written as a recursive function over the row numbers, so that the *)
(* proofs of TotalsProofs can reason about it.                             *)
(***************************************************************************)
EXTENDS Integers, Sequences

\* The final running balance of a sequence of integer amounts.
Total(v) ==
  LET running[k \in 0..Len(v)] == IF k = 0 THEN 0 ELSE running[k-1] + v[k]
  IN  running[Len(v)]

=============================================================================
