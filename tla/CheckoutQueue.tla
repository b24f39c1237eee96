---------------------------- MODULE CheckoutQueue ----------------------------
(***************************************************************************)
(* One-time purchases from the app's request to the credited order         *)
(* (server/src/purchase-session-sql.ts, checkout-sql.ts,                   *)
(* checkout-reconciliation.ts, checkout-service.ts, purchase-progress.ts,  *)
(* the purchase and webhook routes of routes.ts, and creditPaidOrder of    *)
(* payment-ledger-sql.ts).                                                 *)
(*                                                                         *)
(* Stripe says that a Checkout was paid in signed events, which may come   *)
(* late, twice, or with other metadata than the Checkout has now; polls of *)
(* the app and scheduled sweeps read the Checkout itself.  A checkout case *)
(* is worked on by one worker at a time, under a generation and a lease of *)
(* 60 seconds, and ends credited or in the owner's review.                 *)
(*                                                                         *)
(* Each operation of the queue holds the payments lock, so each is one     *)
(* action; a handler is several, and may be lost between two of them.      *)
(* A pack stands for its id, its questions and its catalog version.  The   *)
(* one-time secret of a purchase link, evidence digests and the topups     *)
(* older than payment orders are left out.                                 *)
(***************************************************************************)
EXTENDS Integers, Sequences, FiniteSetsExt

CONSTANTS
  Workers,     \* webhook handlers, polls, sweeps and administrators' requests
  Checkouts,   \* Checkout sessions (cs_...); each has one payment intent, named alike
  Purchases,   \* purchase sessions (UUIDs)
  Devices,     \* token hashes a metadata field may name
  Registered,  \* the devices that exist
  Packs,       \* packs on sale
  Price,       \* amountCents of each, in the one currency of the catalog
  Events,      \* signed events Stripe may send
  References,  \* review_reference of the owner's decisions
  None,        \* null
  Edits,       \* metadata a Checkout may be given at Stripe
  MaxAttempts, \* claims before a retryable reason becomes a review (5 in the code)
  Budgets      \* the bounds a behaviour may have: Checkouts made, metadata changes at Stripe,
               \* slips (lost handlers, failed reads and transactions, leases overrun), and
               \* visits of the owner (rechecks and decisions)

ASSUME CheckoutAssumption ==
  /\ Registered \subseteq Devices
  /\ Price \in [Packs -> Nat \ {0}]
  /\ Edits \subseteq [purchase : Purchases \cup {None}, pack : Packs \cup {None},
                    device : Devices \cup {None}, invalid : BOOLEAN]
  /\ MaxAttempts \in Nat
  /\ Budgets \subseteq [{"checkouts", "edits", "slips", "visits"} -> Nat]
  /\ None \notin Purchases \cup Devices \cup Packs \cup Checkouts \cup References

(* What a Checkout, an order, a case and an owner's decision may say. *)
Opt(S) == S \cup {None}

Snapshot == [mode : {"payment", "other", "unknown"}, paid : BOOLEAN, money : Opt(Nat), intent : Opt(Checkouts),
             purchase : Opt(Purchases), pack : Opt(Packs), device : Opt(Devices), invalid : BOOLEAN]

Purchase == [device : Registered, pack : Packs, money : Nat, checkout : Opt(Checkouts),
             expired : BOOLEAN, consumed : BOOLEAN]

Order == [device : Devices, pack : Packs, purchase : Opt(Purchases), intent : Opt(Checkouts), money : Nat]

Reasons == {"metadata_invalid", "unsupported_mode", "not_paid", "financial_mismatch",
            "purchase_missing", "purchase_mismatch", "device_missing", "catalog_mismatch",
            "conflicting_events", "provider_unavailable", "order_conflict", "review_changed"}
Retryable == {"purchase_missing", "device_missing", "provider_unavailable"}

Verdict == [reference : References, device : Devices, pack : Packs]

Case == [signed : Snapshot, observed : Opt(Snapshot), source : Opt({"signed_event", "stripe_api"}),
         conflicting : BOOLEAN, state : {"queued", "processing", "review", "credited"}, reason : Opt(Reasons),
         generation : Nat, attempts : Nat, retry : Opt({"later", "due"}), resolved : Opt(Devices),
         decision : Opt(Verdict)]

ASSUME NoneAssumption ==
  None \notin Reasons \cup Snapshot \cup Purchase \cup Order \cup Verdict \cup Case
             \cup [device : Devices, pack : Packs, purchase : Opt(Purchases)]

VARIABLES
  purchases,  \* purchase_sessions
  provider,   \* Stripe's Checkouts, as checkoutSnapshot reads them
  made,       \* Stripe's idempotency keys: the Checkout made for a purchase
  sent,       \* the signed events: Checkout and snapshot
  cases,      \* checkout_cases
  deliveries, \* checkout_deliveries: events of each case
  processed,  \* events of webhook_inbox whose processing_state is processed
  orders,     \* payment_orders, each with its paid lot
  decided,    \* checkout_decisions by review_reference
  desk,       \* the fingerprint of each case the owner looked at last
  worker,     \* where each handler is
  budget      \* what is left of the bounds

tables == <<purchases, cases, deliveries, processed, orders, decided>>
stripe == <<provider, made, sent>>
vars == <<tables, stripe, desk, worker, budget>>

-----------------------------------------------------------------------------
(* Evidence: what a case and the tables say about one observed snapshot. *)

Exists(d) == d # None /\ d \in Registered
DeviceOf(s) == IF Exists(s.device) THEN s.device ELSE None
PurchaseOf(s) == IF s.purchase = None THEN None ELSE purchases[s.purchase]
Owners(c) == {p \in Purchases : purchases[p] # None /\ purchases[p].checkout = c}

FirstReason(checks) ==
  LET failing == {i \in DOMAIN checks : checks[i].when}
  IN IF failing = {} THEN None ELSE checks[Min(failing)].then

(* Defective variant: the owner may name another device than the first evidence. *)
OtherDeviceObserved(c, s, d) ==
  DeviceOf(cases[c].signed) # None /\ DeviceOf(s) \notin {None, DeviceOf(cases[c].signed)}

(* The device the first evidence named may be neither overridden nor sealed for another. *)
OtherDevice(c, s, d) ==
  LET kept == DeviceOf(cases[c].signed)
      p == PurchaseOf(s)
  IN /\ kept # None
     /\ \/ d # None /\ d.device # kept
        \/ DeviceOf(s) \notin {None, kept}
        \/ p # None /\ p.device # kept

(* The device, sealed purchase and money of the first evidence are never overridden. *)
EvidenceReason(c, s, d) ==
  LET k == cases[c]
      o == k.signed
      taken == {x \in Checkouts : orders[x] # None /\ s.intent # None /\ orders[x].intent = s.intent}
  IN FirstReason(<<
       [when |-> s.mode # "payment" \/ o.mode \notin {"unknown", s.mode}, then |-> "unsupported_mode"],
       [when |-> ~s.paid \/ s.money = None, then |-> "not_paid"],
       [when |-> o.money \notin {None, s.money} \/ o.intent \notin {None, s.intent},
        then |-> "financial_mismatch"],
       [when |-> o.purchase \notin {None, s.purchase} \/ ~Owners(c) \subseteq {s.purchase},
        then |-> "purchase_mismatch"],
       [when |-> OtherDevice(c, s, d), then |-> "device_missing"],
       [when |-> d = None /\ (k.conflicting \/ o.purchase # s.purchase \/ o.pack # s.pack \/ o.device # s.device),
        then |-> "conflicting_events"],
       [when |-> d = None /\ (s.invalid \/ o.invalid), then |-> "metadata_invalid"],
       [when |-> ~taken \subseteq {c}, then |-> "order_conflict"]>>)

Overrides(d, order) == d # None /\ (d.device # order.device \/ d.pack # order.pack)

(* An order exists: it is adopted, and may only gain the purchase it belongs to. *)
ExistingReason(c, s, d) ==
  LET e == orders[c]
      p == PurchaseOf(s)
  IN FirstReason(<<
       [when |-> \/ e.money # s.money \/ e.intent \notin {None, s.intent}
                 \/ d = None /\ DeviceOf(s) \notin {None, e.device}
                 \/ Overrides(d, e),
        then |-> "order_conflict"],
       [when |-> /\ s.purchase # None \/ e.purchase # None
                 /\ \/ p = None
                    \/ p.device # e.device \/ p.money # e.money \/ p.pack # e.pack
                    \/ p.checkout \notin {None, c},
        then |-> "purchase_mismatch"]>>)

(* The sealed purchase decides what is granted. *)
PurchaseReason(c, s, d) ==
  LET p == PurchaseOf(s)
  IN FirstReason(<<
       [when |-> \/ p.checkout \notin {None, c} \/ p.consumed
                 \/ p.money # s.money \/ p.pack # s.pack
                 \/ Overrides(d, p),
        then |-> "purchase_mismatch"]>>)

(* No purchase: the owner's decision, or the device and pack of an old payment page. *)
UnsealedReason(s, d) ==
  FirstReason(<<
    [when |-> d # None /\ (~Exists(d.device) \/ DeviceOf(s) \notin {None, d.device}), then |-> "device_missing"],
    [when |-> d = None /\ s.purchase # None, then |-> "purchase_missing"],
    [when |-> d = None /\ DeviceOf(s) = None, then |-> "device_missing"],
    [when |-> d = None /\ (s.pack = None \/ Price[s.pack] # s.money),
     then |-> "catalog_mismatch"]>>)

Evaluate(c, s, d) ==
  LET evidence == EvidenceReason(c, s, d)
  IN CASE evidence # None -> evidence
       [] evidence = None /\ orders[c] # None -> ExistingReason(c, s, d)
       [] evidence = None /\ orders[c] = None /\ PurchaseOf(s) # None -> PurchaseReason(c, s, d)
       [] OTHER -> UnsealedReason(s, d)

(* The order evaluateCheckout grants when it finds no reason against it. *)
Beneficiary(s, d) ==
  CASE PurchaseOf(s) # None -> PurchaseOf(s)
    [] PurchaseOf(s) = None /\ d # None -> d
    [] OTHER -> s

OrderFor(c, s, d) ==
  IF orders[c] # None
  THEN [orders[c] EXCEPT !.purchase = s.purchase]
  ELSE [device |-> Beneficiary(s, d).device, pack |-> Beneficiary(s, d).pack,
        purchase |-> IF PurchaseOf(s) = None THEN None ELSE s.purchase,
        intent |-> s.intent, money |-> s.money]

(* checkoutFingerprint: what the owner's decision must have seen. *)
Fingerprint(k) ==
  [signed |-> k.signed, observed |-> k.observed, source |-> k.source, conflicting |-> k.conflicting,
   reason |-> k.reason, resolved |-> k.resolved, decision |-> k.decision]

DecisionCurrent(k, s, source, d) ==
  /\ source = "stripe_api" /\ k.source = "stripe_api"
  /\ k.observed = s
  /\ Fingerprint(k) = d.seen

(* checkoutReview: another try for what may still turn up, else the owner. *)
Reviewed(k, reason) ==
  LET again == reason \in Retryable /\ k.attempts < MaxAttempts
  IN [k EXCEPT !.reason = reason,
               !.state = IF again THEN "queued" ELSE "review",
               !.retry = IF again THEN "later" ELSE None]

-----------------------------------------------------------------------------
NoWork == [pc |-> "idle", checkout |-> None, purchase |-> None, snap |-> None,
           source |-> None, generation |-> 0, decision |-> None]

Init ==
  /\ purchases = [p \in Purchases |-> None]
  /\ provider = [c \in Checkouts |-> None]
  /\ made = [p \in Purchases |-> None]
  /\ sent = [e \in Events |-> None]
  /\ cases = [c \in Checkouts |-> None]
  /\ deliveries = [c \in Checkouts |-> {}]
  /\ processed = {}
  /\ orders = [c \in Checkouts |-> None]
  /\ decided = [r \in References |-> None]
  /\ desk = [c \in Checkouts |-> None]
  /\ worker = [w \in Workers |-> NoWork]
  /\ budget \in Budgets

Spend(what) == /\ budget[what] > 0
               /\ budget' = [budget EXCEPT ![what] = @ - 1]

Begin(w, job) == /\ worker[w].pc = "idle"
                 /\ worker' = [worker EXCEPT ![w] = job]
At(w, pc) == worker[w].pc = pc
Goto(w, pc) == worker' = [worker EXCEPT ![w].pc = pc]
Return(w) == worker' = [worker EXCEPT ![w] = NoWork]

-----------------------------------------------------------------------------
(* The purchase page. *)

(* POST /v1/purchase-sessions: a new session.  A retry only changes the secret of the link. *)
CreatePurchase(p, d, k) ==
  /\ purchases[p] = None
  /\ \A c \in Checkouts : provider[c] # None => provider[c].purchase # p
  /\ purchases' = [purchases EXCEPT ![p] =
       [device |-> d, pack |-> k, money |-> Price[k], checkout |-> None, expired |-> FALSE, consumed |-> FALSE]]
  /\ UNCHANGED <<cases, deliveries, processed, orders, decided, stripe, desk, worker, budget>>

(* The 10 minutes of a session are over. *)
PurchaseExpires(p) ==
  /\ purchases[p] # None /\ ~purchases[p].expired
  /\ purchases' = [purchases EXCEPT ![p].expired = TRUE]
  /\ UNCHANGED <<cases, deliveries, processed, orders, decided, stripe, desk, worker, budget>>

Unpaid(k) == [mode |-> "payment", paid |-> FALSE, money |-> Price[k], intent |-> None,
              purchase |-> None, pack |-> k, device |-> None, invalid |-> FALSE]

(* POST /purchase/checkout, unless the Checkout attached before is handed out again.          *)
(* createCheckoutSession sends the key 'purchase:' + session: Stripe repeats its first answer. *)
StartCheckout(w, p, c) ==
  /\ purchases[p] # None /\ ~purchases[p].expired /\ ~purchases[p].consumed
  /\ purchases[p].checkout = None
  /\ IF made[p] # None THEN c = made[p] /\ UNCHANGED <<provider, budget>>
     ELSE /\ provider[c] = None /\ Spend("checkouts")
          /\ provider' = [provider EXCEPT ![c] = [Unpaid(purchases[p].pack) EXCEPT !.purchase = p]]
  /\ made' = [made EXCEPT ![p] = c]
  /\ Begin(w, [NoWork EXCEPT !.pc = "attach", !.purchase = p, !.checkout = c])
  /\ UNCHANGED <<tables, sent, desk>>

(* Defective variant: the answer of Stripe is attached to whatever the purchase became meanwhile. *)
AttachableUnless(p, c) == Owners(c) \subseteq {p} /\ ~purchases[p].expired

(* attachPurchaseCheckout: refused for a session that is over or bound to another Checkout. *)
Attachable(p, c) ==
  /\ Owners(c) \subseteq {p}
  /\ ~purchases[p].expired /\ ~purchases[p].consumed
  /\ purchases[p].checkout \in {None, c}

Attach(w) ==
  LET p == worker[w].purchase
      c == worker[w].checkout IN
  /\ At(w, "attach")
  /\ purchases' = IF Attachable(p, c)
                  THEN [purchases EXCEPT ![p].checkout = c] ELSE purchases
  /\ Return(w)
  /\ UNCHANGED <<cases, deliveries, processed, orders, decided, stripe, desk, budget>>

(* POST /topup/checkout, the payment page of old apps: the device is named in the metadata. *)
LegacyCheckout(c, d, k) ==
  /\ d \in Registered
  /\ provider[c] = None /\ Spend("checkouts")
  /\ provider' = [provider EXCEPT ![c] = [Unpaid(k) EXCEPT !.device = d]]
  /\ UNCHANGED <<tables, made, sent, desk, worker>>

-----------------------------------------------------------------------------
(* Stripe. *)

Pay(c) ==
  /\ provider[c] # None /\ ~provider[c].paid
  /\ provider' = [provider EXCEPT ![c].paid = TRUE, ![c].intent = c]
  /\ UNCHANGED <<tables, made, sent, desk, worker, budget>>

(* Metadata is not immutable at Stripe; money is. *)
EditMetadata(c, m) ==
  /\ provider[c] # None
  /\ m.purchase # None => purchases[m.purchase] # None
  /\ Spend("edits")
  /\ provider' = [provider EXCEPT ![c].purchase = m.purchase, ![c].pack = m.pack,
                                  ![c].device = m.device, ![c].invalid = m.invalid]
  /\ provider' # provider
  /\ UNCHANGED <<tables, made, sent, desk, worker>>

(* checkout.session.completed or .async_payment_succeeded of a paid Checkout. *)
Emit(e, c) ==
  /\ sent[e] = None
  /\ provider[c] # None /\ provider[c].paid
  /\ sent' = [sent EXCEPT ![e] = [checkout |-> c, snap |-> provider[c]]]
  /\ UNCHANGED <<tables, provider, made, desk, worker, budget>>

-----------------------------------------------------------------------------
(* The ways into the queue. *)

NewCase(s) == [signed |-> s, observed |-> None, source |-> None, conflicting |-> FALSE,
               state |-> "queued", reason |-> None, generation |-> 0, attempts |-> 0,
               retry |-> None, resolved |-> None, decision |-> None]

(* Defective variant: a contradiction is noted, and the case goes on as it was. *)
ConflictingOnly(k) == [k EXCEPT !.conflicting = TRUE]

Conflicting(k) == [k EXCEPT !.conflicting = TRUE, !.state = "review",
                            !.reason = "conflicting_events", !.retry = None]

(* receive: the evidence is kept before anything is decided; a repeated event changes nothing. *)
Receive(event, c, s) ==
  LET k == cases[c]
      new == \A x \in deliveries[c] : x.event # event
  IN /\ cases' = IF ~new THEN cases
                 ELSE [cases EXCEPT ![c] = CASE k = None -> NewCase(s)
                                             [] k # None /\ k.signed # s -> Conflicting(k)
                                             [] OTHER -> k]
     /\ deliveries' = IF new THEN [deliveries EXCEPT ![c] = @ \cup {[event |-> event, snap |-> s]}]
                      ELSE deliveries
     /\ processed' = IF new /\ k # None /\ k.signed = s /\ k.state = "credited"
                     THEN processed \cup {event} ELSE processed

(* POST /webhooks/stripe, as often as Stripe delivers the event. *)
Webhook(w, e) ==
  /\ sent[e] # None
  /\ Receive(e, sent[e].checkout, sent[e].snap)
  /\ Begin(w, [NoWork EXCEPT !.pc = "claim", !.checkout = sent[e].checkout, !.source = "signed_event"])
  /\ UNCHANGED <<purchases, orders, decided, stripe, desk, budget>>

(* GET /v1/purchase-sessions/:id of an attached purchase reads its Checkout; only one that is *)
(* paid and as the purchase was sealed goes on to the queue.  Every other answer changes nothing. *)
Poll(w, p) ==
  LET c == purchases[p].checkout
      s == provider[c]
  IN /\ purchases[p] # None /\ ~purchases[p].consumed /\ purchases[p].checkout # None
     /\ s.purchase = p /\ ~s.invalid /\ s.mode = "payment" /\ s.pack = purchases[p].pack
     /\ s.money = purchases[p].money /\ s.paid
     /\ Begin(w, [NoWork EXCEPT !.pc = IF cases[c] = None THEN "receive" ELSE "claim",
                                !.checkout = c, !.snap = s, !.source = "stripe_api"])
     /\ UNCHANGED <<tables, stripe, desk, budget>>

(* purchaseProgress found no case: its read becomes evidence, named by its own hash. *)
ReceiveRead(w) ==
  /\ At(w, "receive")
  /\ Receive(worker[w].snap, worker[w].checkout, worker[w].snap)
  /\ Goto(w, "claim")
  /\ UNCHANGED <<purchases, orders, decided, stripe, desk, budget>>

(* The owner opens the record of a case. *)
Inspect(c) ==
  /\ cases[c] # None /\ desk[c] # Fingerprint(cases[c])
  /\ budget.visits > 0
  /\ desk' = [desk EXCEPT ![c] = Fingerprint(cases[c])]
  /\ UNCHANGED <<tables, stripe, worker, budget>>

-----------------------------------------------------------------------------
(* Working on a case. *)

(* Defective variant: a case in work is never claimed again. *)
ClaimableOnce(k, interactive) ==
  /\ k # None /\ k.state \notin {"credited", "processing"}
  /\ interactive \/ (k.state # "review" /\ k.retry # "later")

Claimable(k, interactive) ==
  /\ k # None /\ k.state # "credited"
  /\ k.state = "processing" => k.retry # "later"
  /\ interactive \/ (k.state # "review" /\ (k.state = "queued" => k.retry # "later"))

Claimed(k) == [k EXCEPT !.generation = @ + 1, !.attempts = @ + 1, !.state = "processing", !.retry = "later"]

(* A webhook handler works with the case's first evidence, a poll with what it read. *)
Claim(w) ==
  LET c == worker[w].checkout
      k == cases[c]
  IN /\ At(w, "claim")
     /\ IF Claimable(k, FALSE)
        THEN /\ cases' = [cases EXCEPT ![c] = Claimed(k)]
             /\ worker' = [worker EXCEPT ![w].pc = "finish", ![w].generation = k.generation + 1,
                             ![w].snap = IF worker[w].source = "signed_event" THEN k.signed ELSE @]
        ELSE UNCHANGED cases /\ Return(w)
     /\ UNCHANGED <<purchases, deliveries, processed, orders, decided, stripe, desk, budget>>

(* reconcileCheckout: the claim comes first, the read after it. *)
Reconcile(w, c, d, interactive) ==
  /\ Claimable(cases[c], interactive)
  /\ cases' = [cases EXCEPT ![c] = Claimed(@)]
  /\ Begin(w, [NoWork EXCEPT !.pc = "read", !.checkout = c, !.source = "stripe_api",
                             !.generation = cases[c].generation + 1, !.decision = d])
  /\ UNCHANGED <<purchases, deliveries, processed, orders, decided, stripe, desk>>

(* The scheduled sweep: a case that is waiting, or whose worker's lease is over. *)
Sweep(w, c) == Reconcile(w, c, None, FALSE) /\ UNCHANGED budget

(* POST .../recheck *)
Recheck(w, c) == Reconcile(w, c, None, TRUE) /\ Spend("visits")

(* POST .../decision, about the record the owner looked at. *)
Decide(w, c, r, d, k) ==
  /\ desk[c] # None
  /\ Reconcile(w, c, [reference |-> r, device |-> d, pack |-> k, seen |-> desk[c]], TRUE)
  /\ Spend("visits")

(* retrieveStripeCheckout *)
ReadCheckout(w) ==
  /\ At(w, "read")
  /\ worker' = [worker EXCEPT ![w].snap = provider[worker[w].checkout], ![w].pc = "finish"]
  /\ UNCHANGED <<tables, stripe, desk, budget>>

Holds(w) == LET k == cases[worker[w].checkout]
            IN k # None /\ k.state = "processing" /\ k.generation = worker[w].generation

(* A worker whose claim was taken over, or whose case turned to review, changes nothing. *)
FinishStale(w) ==
  /\ At(w, "finish") /\ ~Holds(w)
  /\ Return(w)
  /\ UNCHANGED <<tables, stripe, desk, budget>>

Observed(w) ==
  LET s == worker[w].snap
      p == PurchaseOf(s)
      k == cases[worker[w].checkout]
      resolved == CASE p # None -> p.device
                    [] p = None /\ DeviceOf(k.signed) # None -> DeviceOf(k.signed)
                    [] OTHER -> DeviceOf(s)
  IN [k EXCEPT !.observed = s, !.source = worker[w].source, !.resolved = resolved]

(* A decision that was used, or that did not see the case as it is: nothing is granted. *)
Outdated(w) ==
  LET d == worker[w].decision IN
  /\ d # None
  /\ \/ decided[d.reference] # None
     \/ ~DecisionCurrent(cases[worker[w].checkout], worker[w].snap, worker[w].source, d)

FinishReview(w) ==
  LET c == worker[w].checkout
      reason == Evaluate(c, worker[w].snap, worker[w].decision)
  IN /\ At(w, "finish") /\ Holds(w)
     /\ Outdated(w) \/ reason # None
     /\ cases' = [cases EXCEPT ![c] =
          IF Outdated(w)
          THEN Reviewed([@ EXCEPT !.observed = worker[w].snap, !.source = worker[w].source], "review_changed")
          ELSE Reviewed(Observed(w), reason)]
     /\ Return(w)
     /\ UNCHANGED <<purchases, deliveries, processed, orders, decided, stripe, desk, budget>>

Linked(c, order) == IF order.purchase = None THEN purchases
                    ELSE [purchases EXCEPT ![order.purchase].checkout = IF @ = None THEN c ELSE @]

(* Defective variant: the order is linked to its purchase, which stays open. *)
ConsumedLater(c, order) == Linked(c, order)

(* The purchase of an order is linked to its Checkout, and consumed. *)
Consumed(c, order) ==
  IF order.purchase = None THEN purchases
  ELSE [Linked(c, order) EXCEPT ![order.purchase].consumed = TRUE]

(* creditPaidOrder: validatePurchaseOrder and sameOrder; a mismatch rolls everything back. *)
Creditable(c, order) ==
  /\ order.device \in Registered
  /\ order.purchase # None =>
       LET p == Linked(c, order)[order.purchase]
       IN p.device = order.device /\ p.checkout = c /\ p.money = order.money /\ p.pack = order.pack
  /\ orders[c] # None => /\ orders[c].purchase \in {None, order.purchase}
                         /\ order = [orders[c] EXCEPT !.purchase = order.purchase]

(* The order, its lot, the purchase's consumption, the inbox and the case in one transaction. *)
FinishCredit(w) ==
  LET c == worker[w].checkout
      d == worker[w].decision
      order == OrderFor(c, worker[w].snap, d)
  IN /\ At(w, "finish") /\ Holds(w) /\ ~Outdated(w)
     /\ Evaluate(c, worker[w].snap, d) = None
     /\ Creditable(c, order)
     /\ orders' = [orders EXCEPT ![c] = order]
     /\ purchases' = Consumed(c, order)
     /\ cases' = [cases EXCEPT ![c] =
          [Observed(w) EXCEPT !.state = "credited", !.reason = None, !.retry = None,
             !.decision = IF d = None THEN @ ELSE [reference |-> d.reference, device |-> d.device, pack |-> d.pack]]]
     /\ decided' = IF d = None THEN decided ELSE [decided EXCEPT ![d.reference] = c]
     /\ processed' = processed \cup {x.event : x \in deliveries[c]}
     /\ Return(w)
     /\ UNCHANGED <<deliveries, stripe, desk, budget>>

(* The read fails, or the transaction of finish does. *)
Fails(w) ==
  /\ \/ (At(w, "read") \/ (At(w, "finish") /\ Holds(w))) /\ Spend("slips")
     \/ /\ At(w, "finish") /\ Holds(w) /\ ~Outdated(w)
        /\ Evaluate(worker[w].checkout, worker[w].snap, worker[w].decision) = None
        /\ ~Creditable(worker[w].checkout, OrderFor(worker[w].checkout, worker[w].snap, worker[w].decision))
        /\ UNCHANGED budget
  /\ Goto(w, "defer")
  /\ UNCHANGED <<tables, stripe, desk>>

Defer(w) ==
  LET c == worker[w].checkout IN
  /\ At(w, "defer")
  /\ cases' = IF Holds(w) THEN [cases EXCEPT ![c] = Reviewed(@, "provider_unavailable")] ELSE cases
  /\ Return(w)
  /\ UNCHANGED <<purchases, deliveries, processed, orders, decided, stripe, desk, budget>>

(* The handler is lost between two of its steps. *)
Lost(w) ==
  /\ ~At(w, "idle")
  /\ Spend("slips")
  /\ Return(w)
  /\ UNCHANGED <<tables, stripe, desk>>

(* The minute of a retry is over. *)
RetryDue(c) ==
  /\ cases[c] # None /\ cases[c].state = "queued" /\ cases[c].retry = "later"
  /\ cases' = [cases EXCEPT ![c].retry = "due"]
  /\ UNCHANGED <<purchases, deliveries, processed, orders, decided, stripe, desk, worker, budget>>

(* The minute of a lease is over.  Reads end after 8 seconds, so its worker is lost or was suspended. *)
LeaseOver(c) ==
  /\ cases[c] # None /\ cases[c].state = "processing" /\ cases[c].retry = "later"
  /\ IF \E w \in Workers : worker[w].checkout = c /\ Holds(w) THEN Spend("slips") ELSE UNCHANGED budget
  /\ cases' = [cases EXCEPT ![c].retry = "due"]
  /\ UNCHANGED <<purchases, deliveries, processed, orders, decided, stripe, desk, worker>>

-----------------------------------------------------------------------------
Next ==
  \/ \E p \in Purchases, d \in Registered, k \in Packs : CreatePurchase(p, d, k)
  \/ \E p \in Purchases : PurchaseExpires(p)
  \/ \E c \in Checkouts, d \in Registered, k \in Packs : LegacyCheckout(c, d, k)
  \/ \E c \in Checkouts : Pay(c) \/ Inspect(c) \/ RetryDue(c) \/ LeaseOver(c)
  \/ \E c \in Checkouts, m \in Edits : EditMetadata(c, m)
  \/ \E e \in Events, c \in Checkouts : Emit(e, c)
  \/ \E w \in Workers :
       \/ \E p \in Purchases, c \in Checkouts : StartCheckout(w, p, c)
       \/ \E p \in Purchases : Poll(w, p)
       \/ \E e \in Events : Webhook(w, e)
       \/ \E c \in Checkouts : Sweep(w, c) \/ Recheck(w, c)
       \/ \E c \in Checkouts, r \in References, d \in Devices, k \in Packs : Decide(w, c, r, d, k)
       \/ Attach(w) \/ ReceiveRead(w) \/ Claim(w) \/ ReadCheckout(w)
       \/ FinishStale(w) \/ FinishReview(w) \/ FinishCredit(w) \/ Fails(w) \/ Defer(w) \/ Lost(w)

Spec == Init /\ [][Next]_vars

(* Time passes, handlers that run come to an end, and the minute sweep comes round. *)
Works(w) == Attach(w) \/ ReceiveRead(w) \/ Claim(w) \/ ReadCheckout(w)
            \/ FinishStale(w) \/ FinishReview(w) \/ FinishCredit(w) \/ Fails(w) \/ Defer(w)

Fairness ==
  /\ \A c \in Checkouts : WF_vars(RetryDue(c)) /\ WF_vars(LeaseOver(c))
  /\ \A w \in Workers : WF_vars(Works(w))
  /\ \A c \in Checkouts : SF_vars(\E w \in Workers : Sweep(w, c))

FairSpec == Spec /\ Fairness

-----------------------------------------------------------------------------
(* Properties. *)

Waiting(c) == cases[c] # None /\ cases[c].state \in {"queued", "processing"}

(* A purchase is consumed by exactly the order that granted it, and both tell of the same     *)
(* device, pack, money and Checkout, however webhooks, polls, attachments and decisions race. *)
OrdersMatchPurchases ==
  /\ \A c \in Checkouts : orders[c] # None /\ orders[c].purchase # None =>
       LET p == purchases[orders[c].purchase]
       IN /\ p # None /\ p.consumed /\ p.checkout = c
          /\ p.device = orders[c].device /\ p.pack = orders[c].pack /\ p.money = orders[c].money
  /\ \A p \in Purchases : purchases[p] # None /\ purchases[p].consumed =>
       \E c \in Checkouts : orders[c] # None /\ orders[c].purchase = p

(* The first evidence is kept: whatever Stripe says later and whatever the owner decides, the *)
(* questions go to the device and the purchase that evidence named, for the money it named.   *)
BeneficiaryIsKept ==
  \A c \in Checkouts : orders[c] # None =>
    LET o == cases[c].signed
    IN /\ DeviceOf(o) # None => orders[c].device = o.device
       /\ PurchaseOf(o) # None => orders[c].purchase = o.purchase
       /\ o.money # None => orders[c].money = o.money

(* A credited case has its order, every event received about it is closed in the inbox, and   *)
(* contradictory events were not credited without the owner.                                  *)
CreditedIsSettled ==
  \A c \in Checkouts : cases[c] # None /\ cases[c].state = "credited" =>
    /\ orders[c] # None
    /\ {x.event : x \in deliveries[c]} \subseteq processed
    /\ cases[c].conflicting => cases[c].decision # None

(* The abstract promise: one grant per payment and per purchase, never changed. *)
Promise == INSTANCE PaidGrants WITH
  Payments <- Checkouts,
  paid <- {c \in Checkouts : provider[c] # None /\ provider[c].paid},
  grants <- [c \in Checkouts |-> IF orders[c] = None THEN None
             ELSE [device |-> orders[c].device, pack |-> orders[c].pack, purchase |-> orders[c].purchase]],
  closed <- {p \in Purchases : purchases[p] # None /\ purchases[p].consumed}

KeepsPromise == Promise!Spec

(* A payment Stripe told the server about ends credited or before the owner: no failure,      *)
(* lost handler or overrun lease leaves it waiting for ever.                                  *)
PaymentsResolve == \A c \in Checkouts : Waiting(c) ~> ~Waiting(c)
=============================================================================
