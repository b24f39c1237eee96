--------------------------- MODULE MCQuotaLedger ---------------------------
(* QuotaLedger for TLC: the Plus rows that a run lets the ledger observe, and   *)
(* the symmetry of captures, which no action tells apart.                       *)
EXTENDS QuotaLedger, TLC

(* A plan paid up to the middle of a day, and its renewal. *)
RenewedPlan == {[from |-> 0, until |-> 2, ended |-> FALSE],
                [from |-> 0, until |-> 3, ended |-> FALSE]}
NoPlans == {}

CaptureSymmetry == Permutations(Captures)
=============================================================================
