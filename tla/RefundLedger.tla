---------------------------- MODULE RefundLedger ----------------------------
(***************************************************************************)
(* Refunds of one paid order (server/src/payment-ledger-sql.ts, with       *)
(* stripe.ts reconcileStripeRefund and the recheck queue of                *)
(* payment-finance.ts).                                                    *)
(*                                                                         *)
(* A notice says only which refund changed; a worker claims the refund     *)
(* under a new generation, reads its current state from the provider and   *)
(* applies what it read, unless the refund was claimed again meanwhile.    *)
(* Notices come late, in any order and repeatedly; workers run in several  *)
(* processes and may be lost between two steps.  The order may be credited *)
(* after its refunds.  What the policy does to the lot of the order is     *)
(* QuotaLedger's RefreshOrder.                                             *)
(*                                                                         *)
(* Each operation of the ledger holds payment_processing_lock, so each is  *)
(* one action.  retry_after is left out: Claim says when a claim may be    *)
(* repeated.                                                               *)
(***************************************************************************)
EXTENDS Integers, FiniteSets, FiniteSetsExt, Null

CONSTANTS
  Refunds,      \* refund resources (re_...) linked to the order
  Amount,       \* amountCents of each
  OrderAmount,  \* amountCents of the order
  Questions,    \* questions of the order
  Workers,      \* webhook handlers and scheduled reconcilers
  Decisions,    \* decision_ref of the owner's reviews of partial refunds
  MaxVersion,   \* bound on the states a refund goes through
  MaxRechecks,  \* bound on finance reconciliations
  MaxAgain,     \* bound on claims that overlap another of the same refund
  MaxLost       \* bound on failed provider reads and lost workers

ASSUME RefundAssumption ==
  /\ IsFiniteSet(Refunds) /\ Amount \in [Refunds -> Nat \ {0}]
  /\ OrderAmount \in Nat \ {0} /\ Questions \in Nat \ {0}
  /\ {MaxVersion, MaxRechecks, MaxAgain, MaxLost} \subseteq Nat

VARIABLES
  provider,  \* the refunds at the provider: status, and how often it changed
  inbox,     \* webhook_inbox: processing_state and resource_generation of each event,
             \* and the version it was caused by
  refund,    \* payment_refunds: generation and the last applied snapshot
  worker,    \* the claim a worker holds and what it read
  order,     \* payment_orders: credited, the owner's decision, the policy
  decided,   \* payment_refund_decisions
  finance,   \* the running finance reconciliation: number, refunds it read, those that differ
  budget     \* how many overlapping claims and losses remain

vars == <<provider, inbox, refund, worker, order, decided, finance, budget>>

(* requires_action counts as pending, canceled as failed: the policy treats them alike. *)
Statuses == {"none", "pending", "succeeded", "failed"}
Snapshots == [version : 0..MaxVersion, status : Statuses]
NoSnapshot == [version |-> 0, status |-> "none"]

(* refund.* notices of the provider, and the ledger's own recheck requests. *)
Events == [refund : Refunds, kind : {"notice"}, n : 1..MaxVersion] \cup
          [refund : Refunds, kind : {"recheck"}, n : 1..MaxRechecks]

(* None differs from every value it stands in for. *)
ASSUME NoneIsNoValue ==
  /\ None \notin Events
  /\ None \notin [fingerprint : [Refunds -> Statuses], questions : 0..Questions]

Idle == [pc |-> "idle", event |-> None, generation |-> 0, snapshot |-> NoSnapshot]
(* The finance job between two reconciliations. *)
NotReading ==
  [pc |-> "idle", n |-> 0, seen |-> [r \in Refunds |-> NoSnapshot], differ |-> {}]
-----------------------------------------------------------------------------
(* payment-ledger.ts refundPolicy.  The fingerprint is the refunds with their   *)
(* statuses.                                                                    *)

Facts(rows) == [r \in Refunds |-> rows[r].snapshot.status]

Cents(facts, status) == MapThenSumSet(LAMBDA r : Amount[r], {r \in Refunds : facts[r] = status})

(* Defective variant: a pending refund does not stop spending. *)
RefundPolicyIgnoringPending(facts, decision) ==
  LET succeeded == Cents(facts, "succeeded")
      full      == succeeded = OrderAmount
      partial   == succeeded > 0 /\ ~full
      approved  == decision # None /\ decision.fingerprint = facts
  IN [frozen |-> full \/ (partial /\ ~approved),
      target |-> IF full THEN Questions ELSE IF partial /\ approved THEN decision.questions ELSE 0,
      review |-> IF partial /\ ~approved THEN "partial" ELSE "none",
      fingerprint |-> facts]

RefundPolicy(facts, decision) ==
  LET succeeded == Cents(facts, "succeeded")
      pending   == Cents(facts, "pending")
      integrity == succeeded + pending > OrderAmount
      full      == succeeded = OrderAmount
      partial   == succeeded > 0 /\ ~full
      approved  == decision # None /\ decision.fingerprint = facts
  IN [frozen |-> integrity \/ pending > 0 \/ full \/ (partial /\ ~approved),
      target |-> IF integrity THEN 0 ELSE IF full THEN Questions
                 ELSE IF partial /\ approved THEN decision.questions ELSE 0,
      review |-> IF integrity THEN "integrity" ELSE IF partial /\ ~approved THEN "partial" ELSE "none",
      fingerprint |-> facts]

(* refreshOrder, for the refund rows given. *)
Refreshed(x, rows) ==
  IF x.credited THEN [x EXCEPT !.policy = RefundPolicy(Facts(rows), x.decision)] ELSE x

NoPolicy == RefundPolicy([r \in Refunds |-> "none"], None)

Init ==
  /\ provider = [r \in Refunds |-> NoSnapshot]
  /\ inbox = [e \in Events |-> [state |-> "none", generation |-> 0, since |-> 0]]
  /\ refund = [r \in Refunds |-> [generation |-> 0, snapshot |-> NoSnapshot]]
  /\ worker = [w \in Workers |-> Idle]
  /\ order = [credited |-> FALSE, decision |-> None, policy |-> NoPolicy]
  /\ decided = {}
  /\ finance = NotReading
  /\ budget = [again |-> MaxAgain, lost |-> MaxLost]
-----------------------------------------------------------------------------
(* The provider *)

Changes == {<<"none", "pending">>, <<"none", "succeeded">>, <<"pending", "succeeded">>,
            <<"pending", "failed">>, <<"succeeded", "failed">>}

Successors(status) == {s \in Statuses : <<status, s>> \in Changes}

ProviderChange(r) ==
  /\ provider[r].version < MaxVersion
  /\ \E s \in Successors(provider[r].status) :
       provider' = [provider EXCEPT ![r] = [version |-> @.version + 1, status |-> s]]
  /\ UNCHANGED <<inbox, refund, worker, order, decided, finance, budget>>
-----------------------------------------------------------------------------
(* Reconciliation *)

Working(r) == {w \in Workers : worker[w].pc # "idle" /\ worker[w].event.refund = r}

(* A notice can arrive once its change has happened, a recheck once it is       *)
(* queued; neither is claimed again once processed.                             *)
Claimable(e) ==
  IF e.kind = "notice" THEN e.n <= provider[e.refund].version /\ inbox[e].state # "processed"
  ELSE inbox[e].state \in {"received", "processing"}

(* claimRefund.  An event already being processed is claimed again after its    *)
(* retry_after of 60 s, when the 8 s read of any other claim is over; sooner,   *)
(* beside another claim, only if the provider delivers it again.                *)
Claim(w, e) ==
  LET next == refund[e.refund].generation + 1
      again == inbox[e].state = "processing" /\ Working(e.refund) # {}
  IN /\ worker[w].pc = "idle" /\ Claimable(e)
     /\ again => budget.again > 0
     /\ budget' = IF again THEN [budget EXCEPT !.again = @ - 1] ELSE budget
     /\ refund' = [refund EXCEPT ![e.refund].generation = next]
     /\ inbox' = [inbox EXCEPT ![e] =
          [state |-> "processing", generation |-> next,
           since |-> IF e.kind = "notice" THEN e.n ELSE inbox[e].since]]
     /\ worker' = [worker EXCEPT ![w] =
          [pc |-> "claimed", event |-> e, generation |-> next, snapshot |-> NoSnapshot]]
     /\ UNCHANGED <<provider, order, decided, finance>>

(* GET /v1/refunds/:id *)
Read(w) ==
  /\ worker[w].pc = "claimed"
  /\ worker' = [worker EXCEPT ![w].pc = "read", ![w].snapshot = provider[worker[w].event.refund]]
  /\ UNCHANGED <<provider, inbox, refund, order, decided, finance, budget>>

(* The read or the apply fails (deferRefund sets only retry_after), or the      *)
(* process is lost: the event stays in processing.                              *)
Lose(w) ==
  /\ worker[w].pc # "idle" /\ budget.lost > 0
  /\ budget' = [budget EXCEPT !.lost = @ - 1]
  /\ worker' = [worker EXCEPT ![w] = Idle]
  /\ UNCHANGED <<provider, inbox, refund, order, decided, finance>>

(* Defective variant: the claim is not compared again after the read. *)
CurrentUnchecked(w) == worker[w].pc = "read"

(* Defective variant: only the state of the event is looked at. *)
CurrentByState(w) == inbox[worker[w].event].state = "processing"

Current(w) ==
  /\ inbox[worker[w].event].state = "processing"
  /\ inbox[worker[w].event].generation = worker[w].generation
  /\ refund[worker[w].event.refund].generation = worker[w].generation

(* The events that a successful apply closes: all that are open for the refund. *)
Closed(r) ==
  [e \in Events |-> IF e.refund = r /\ inbox[e].state \in {"received", "processing"}
                    THEN [inbox[e] EXCEPT !.state = "processed"] ELSE inbox[e]]

(* applyRefund *)
Apply(w) ==
  LET r == worker[w].event.refund
      rows == [refund EXCEPT ![r].snapshot = worker[w].snapshot]
  IN /\ worker[w].pc = "read"
     /\ IF Current(w)
        THEN refund' = rows /\ order' = Refreshed(order, rows) /\ inbox' = Closed(r)
        ELSE UNCHANGED <<refund, order, inbox>>
     /\ worker' = [worker EXCEPT ![w] = Idle]
     /\ UNCHANGED <<provider, decided, finance, budget>>
-----------------------------------------------------------------------------
(* The order *)

(* Defective variant: refunds known before the payment are forgotten. *)
CreditPaidOrderUnrefreshed ==
  /\ order' = [order EXCEPT !.credited = TRUE]
  /\ UNCHANGED <<provider, inbox, refund, worker, decided, finance, budget>>

(* creditPaidOrder: refreshes the order also when it is a repetition. *)
CreditPaidOrder ==
  /\ order' = Refreshed([order EXCEPT !.credited = TRUE], refund)
  /\ UNCHANGED <<provider, inbox, refund, worker, decided, finance, budget>>

(* decidePartial.  A decision for another fingerprint, or a used reference,     *)
(* changes nothing.                                                             *)
DecidePartial(d, questions) ==
  /\ order.credited /\ d \notin decided /\ order.policy.review = "partial"
  /\ decided' = decided \cup {d}
  /\ order' = Refreshed([order EXCEPT !.decision =
       [fingerprint |-> order.policy.fingerprint, questions |-> questions]], refund)
  /\ UNCHANGED <<provider, inbox, refund, worker, finance, budget>>
-----------------------------------------------------------------------------
(* reconcilePaymentFinance lists the refunds of a credited order, compares them *)
(* with the ledger and queues a recheck of those that differ: three steps.      *)
FinanceRead ==
  /\ order.credited /\ finance.pc = "idle" /\ finance.n < MaxRechecks
  /\ finance' = [finance EXCEPT !.pc = "read", !.n = @ + 1, !.seen = provider]
  /\ UNCHANGED <<provider, inbox, refund, worker, order, decided, budget>>

Differing(seen) ==
  {r \in Refunds : seen[r].status \notin {"none", refund[r].snapshot.status}}

FinanceCompare ==
  /\ finance.pc = "read"
  /\ finance' = [finance EXCEPT !.pc = "compared", !.differ = Differing(finance.seen)]
  /\ UNCHANGED <<provider, inbox, refund, worker, order, decided, budget>>

QueueRefunds ==
  /\ finance.pc = "compared"
  /\ inbox' = [e \in Events |->
       IF e.kind = "recheck" /\ e.n = finance.n /\ e.refund \in finance.differ
       THEN [inbox[e] EXCEPT !.state = "received", !.since = finance.seen[e.refund].version]
       ELSE inbox[e]]
  /\ finance' = [NotReading EXCEPT !.n = finance.n]
  /\ UNCHANGED <<provider, refund, worker, order, decided, budget>>
-----------------------------------------------------------------------------
Next ==
  \/ \E r \in Refunds : ProviderChange(r)
  \/ \E w \in Workers : Read(w) \/ Lose(w) \/ Apply(w) \/ \E e \in Events : Claim(w, e)
  \/ CreditPaidOrder
  \/ \E d \in Decisions, q \in 0..Questions : DecidePartial(d, q)
  \/ FinanceRead \/ FinanceCompare \/ QueueRefunds

Spec == Init /\ [][Next]_vars

(* The provider repeats a notice until it is answered with success, the         *)
(* scheduler retries open events every minute, and a worker's read ends.        *)
Fairness ==
  /\ \A e \in Events : WF_vars(\E w \in Workers : Claim(w, e))
  /\ \A w \in Workers : WF_vars(Read(w)) /\ WF_vars(Apply(w))

FairSpec == Spec /\ Fairness
-----------------------------------------------------------------------------
(* Properties *)

(* A slow answer of the provider never overwrites a later one, however claims   *)
(* of one refund overlap (docs/official-api.md: the persisted generation).      *)
SnapshotsNeverGoBack ==
  [][\A r \in Refunds : refund'[r].snapshot.version >= refund[r].snapshot.version]_vars

(* A notice is closed only when the ledger holds the state it announced or a    *)
(* later one: no restart, repetition or overlap loses it.                       *)
ClosedNoticesAreReflected ==
  \A e \in Events : e.kind = "notice" /\ inbox[e].state = "processed" =>
    refund[e.refund].snapshot.version >= e.n

(* Spendable questions follow the money on record: while a refund is pending,   *)
(* or a partial one is not reviewed in its present state, none can be spent;    *)
(* a full refund revokes all; without a refund none is revoked or frozen.       *)
QuestionsFollowMoney ==
  LET facts == Facts(refund)
      returned == Cents(facts, "succeeded")
      underway == Cents(facts, "pending")
  IN order.credited =>
       /\ underway > 0 => order.policy.frozen
       /\ returned = OrderAmount /\ underway = 0 => order.policy.target = Questions
       /\ returned = 0 /\ underway = 0 => ~order.policy.frozen /\ order.policy.target = 0
       /\ returned > 0 /\ ~order.policy.frozen =>
            order.decision # None /\ order.decision.fingerprint = facts
            /\ order.policy.target = order.decision.questions

(* Once the provider is quiet, and its changes are bounded, the ledger comes to  *)
(* hold what the provider says of every refund, and keeps it.                   *)
RefundsConverge == <>[](\A r \in Refunds : refund[r].snapshot.status = provider[r].status)

(* "The refund worker claims a new generation BEFORE re-reading" (payment-      *)
(* finance.ts, of a queued recheck): a closed recheck has been followed by a    *)
(* read.  Violated: see the README.                                             *)
RechecksReadAgain ==
  \A e \in Events : e.kind = "recheck" /\ inbox[e].state = "processed" =>
    refund[e.refund].snapshot.version >= inbox[e].since
=============================================================================
