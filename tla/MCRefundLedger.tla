--------------------------- MODULE MCRefundLedger ---------------------------
(* RefundLedger for TLC: the refunds and their amounts. *)
EXTENDS RefundLedger, TLC

(* Every refund is half of an order of 2 cents. *)
Halves == [r \in Refunds |-> 1]

WorkerSymmetry == Permutations(Workers)
=============================================================================
