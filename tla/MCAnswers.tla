----------------------------- MODULE MCAnswers -----------------------------
(***************************************************************************)
(* Two parts of the server that share no state, checked in one run: the    *)
(* questions of a device and the money facts of an order.  A behaviour is  *)
(* one of a single part, chosen at its start; the other rests.             *)
(***************************************************************************)
EXTENDS MCQuotaLedger, PaymentFinance

VARIABLE part

PartInit == Init /\ FinanceInit /\ part \in {"questions", "finance"}

PartNext ==
  \/ part = "questions" /\ Next /\ UNCHANGED <<part, financeVars>>
  \/ part = "finance" /\ FinanceNext /\ UNCHANGED <<part, ledgerVars>>

(* Fairness and that of the facts, each for its own part. *)
PartSpec ==
  /\ PartInit /\ [][PartNext]_<<part, ledgerVars, financeVars>>
  /\ WF_ledgerVars(part = "questions" /\ Tick)
  /\ WF_ledgerVars(part = "questions" /\ ReapSelect)
  /\ \A c \in Captures : WF_ledgerVars(part = "questions" /\ ReapVisit(c))
  /\ WF_financeVars(part = "finance" /\ Observes)
  /\ WF_financeVars(part = "finance" /\ LeaseEnds)
  /\ WF_financeVars(part = "finance" /\ FallsDue)
  /\ WF_financeVars(part = "finance" /\ Claims)
  /\ \A w \in Readers : WF_financeVars(part = "finance" /\ Ends(w))
=============================================================================
