------------------------ MODULE QuestionEntitlement ------------------------
(***************************************************************************)
(* What the question ledger promises the user, with no balance, no clock,  *)
(* no refund policy and no daily window (HANDOVER.md INV-BILL-001 and      *)
(* INV-BILL-002): a capture takes at most one question, from one lot; the  *)
(* question is charged or given back exactly once, and the answer to which *)
(* is final; and however grants, expiries and refunds move a lot's         *)
(* entitlement, it always covers what is charged and held in that lot.     *)
(***************************************************************************)
EXTENDS Integers, FiniteSets

CONSTANTS Captures, Lots, None

VARIABLES
  entitled,  \* lot -> the questions it still entitles to
  status,    \* capture -> "none", "held", "charged" or "released"
  from       \* capture -> the lot its question is taken from, or None

vars == <<entitled, status, from>>

TakenFrom(l) == {c \in Captures : from[c] = l /\ status[c] \in {"held", "charged"}}

Covered == \A l \in Lots : Cardinality(TakenFrom(l)) <= entitled[l]

Init ==
  /\ entitled \in [Lots -> Nat]
  /\ status = [c \in Captures |-> "none"]
  /\ from = [c \in Captures |-> None]

Hold(c) ==
  /\ status[c] = "none"
  /\ status' = [status EXCEPT ![c] = "held"]
  /\ \E l \in Lots : from' = [from EXCEPT ![c] = l]

End(c) ==
  /\ status[c] = "held"
  /\ \E outcome \in {"charged", "released"} : status' = [status EXCEPT ![c] = outcome]
  /\ UNCHANGED from

(* Entitlements may change in any step, but never below what is taken. *)
Next ==
  /\ \/ \E c \in Captures : Hold(c) \/ End(c)
     \/ UNCHANGED <<status, from>>
  /\ entitled' \in [Lots -> Nat]
  /\ Covered'

Spec == Init /\ [][Next]_vars
=============================================================================
