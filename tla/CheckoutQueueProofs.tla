------------------------ MODULE CheckoutQueueProofs ------------------------
(***************************************************************************)
(* However webhooks, polls, sweeps, attachments and owner decisions race,  *)
(* a payment is granted once, to the device and the purchase that its      *)
(* first evidence named, and a purchase is consumed by one payment.  What  *)
(* makes it work: evidence is kept as it came and only ever says what the  *)
(* Checkout may have said, every finish weighs what it read against the    *)
(* tables of its own transaction, and the order and its purchase change    *)
(* together.                                                               *)
(***************************************************************************)
EXTENDS CheckoutQueue, WellFoundedInduction, TLAPS

Seen == [signed : Snapshot, observed : Opt(Snapshot), source : Opt({"signed_event", "stripe_api"}),
         conflicting : BOOLEAN, reason : Opt(Reasons), resolved : Opt(Devices), decision : Opt(Verdict)]

Decision == [reference : References, device : Devices, pack : Packs, seen : Seen]

Job == [pc : {"idle", "attach", "receive", "claim", "read", "finish", "defer"},
        checkout : Opt(Checkouts), purchase : Opt(Purchases), snap : Opt(Snapshot),
        source : Opt({"signed_event", "stripe_api"}), generation : Nat, decision : Opt(Decision)]

Delivery == [event : Events \cup Snapshot, snap : Snapshot]

Sent == [checkout : Checkouts, snap : Snapshot]

(* A purchase that is named exists. *)
Named(s) == s.purchase # None => purchases[s.purchase] # None

(* What has been said of a Checkout: it was made, and a payment that was told of has come. *)
Told(c, s) == provider[c] # None /\ Named(s) /\ (s.paid => provider[c].paid)

Evidence ==
  /\ \A c \in Checkouts : provider[c] # None => Named(provider[c])
  /\ \A p \in Purchases : made[p] # None => provider[made[p]] # None
  /\ \A e \in Events : sent[e] # None => Told(sent[e].checkout, sent[e].snap)
  /\ \A c \in Checkouts : cases[c] # None => Told(c, cases[c].signed)

Attached == \A p \in Purchases : purchases[p] # None /\ purchases[p].checkout # None =>
              provider[purchases[p].checkout] # None

OrdersHaveCases == \A c \in Checkouts : orders[c] # None => cases[c] # None /\ provider[c].paid

TablesInv ==
  /\ purchases \in [Purchases -> Opt(Purchase)]
  /\ provider \in [Checkouts -> Opt(Snapshot)]
  /\ made \in [Purchases -> Opt(Checkouts)]
  /\ sent \in [Events -> Opt(Sent)]
  /\ cases \in [Checkouts -> Opt(Case)]
  /\ orders \in [Checkouts -> Opt(Order)]
  /\ desk \in [Checkouts -> Opt(Seen)]
  /\ Evidence /\ Attached /\ OrdersHaveCases
  /\ OrdersMatchPurchases /\ BeneficiaryIsKept

(* A handler works on a Checkout of which it was told. *)
Informed(j) ==
  /\ j.pc # "idle" => j.checkout # None /\ provider[j.checkout] # None
  /\ j.pc = "attach" => j.purchase # None /\ purchases[j.purchase] # None
  /\ j.pc \in {"receive", "finish"} \/ (j.pc = "claim" /\ j.source # "signed_event")
       => j.snap # None /\ Told(j.checkout, j.snap)

HandlersInv ==
  /\ worker \in [Workers -> Job]
  /\ \A w \in Workers : Informed(worker[w])

QueueInv == TablesInv /\ HandlersInv

(* Purchases and Checkouts are never taken back, nor is a payment. *)
Grows ==
  /\ \A p \in Purchases : purchases[p] # None => purchases'[p] # None
  /\ \A c \in Checkouts : provider[c] # None =>
       provider'[c] # None /\ (provider[c].paid => provider'[c].paid)

-----------------------------------------------------------------------------
(* Verdicts: no reason is found only if none of the checks fails. *)

LEMMA FirstReasonSound ==
  ASSUME NEW n \in Nat, NEW checks, DOMAIN checks = 1 .. n,
         \A i \in 1 .. n : checks[i].then \in Reasons
  PROVE  /\ FirstReason(checks) \in Opt(Reasons)
         /\ FirstReason(checks) = None => \A i \in 1 .. n : ~checks[i].when
<1>. DEFINE failing == {i \in 1 .. n : checks[i].when}
<1>1. CASE failing = {}
  BY <1>1 DEF FirstReason, Opt
<1>2. CASE failing # {}
  <2>1. failing \subseteq Nat
    OBVIOUS
  <2>2. PICK i \in failing : \A j \in failing : i <= j
    <3>. DEFINE less == OpToRel(<, Nat)
    <3>1. IsWellFoundedOn(less, Nat)
      BY NatLessThanWellFounded
    <3>2. \A x, y \in Nat : <<x, y>> \in less <=> x < y
      BY DEF OpToRel
    <3>. HIDE DEF less, failing
    <3>3. PICK i \in failing : \A j \in failing : <<j, i>> \notin less
      BY <1>2, <2>1, <3>1, WFMin
    <3>4. i \in Nat /\ \A j \in failing : j \in Nat
      BY <2>1, <3>3
    <3>5. \A j \in failing : ~(j < i)
      BY <3>2, <3>3, <3>4
    <3>6. \A j \in failing : i <= j
      BY <3>4, <3>5
    <3>. QED  BY <3>3, <3>6
  <2>3. Min(failing) \in failing
    BY <2>2 DEF Min
  <2>4. FirstReason(checks) = checks[Min(failing)].then
    BY <1>2 DEF FirstReason
  <2>. QED  BY <2>3, <2>4, NoneAssumption DEF Opt
<1>. QED  BY <1>1, <1>2

LEMMA EvidenceClear ==
  ASSUME NEW c, NEW s, NEW d
  PROVE  /\ EvidenceReason(c, s, d) \in Opt(Reasons)
         /\ EvidenceReason(c, s, d) = None =>
              LET o == cases[c].signed IN
              /\ d = None => ~cases[c].conflicting
              /\ s.paid /\ s.money # None
              /\ o.money \in {None, s.money} /\ o.intent \in {None, s.intent}
              /\ o.purchase \in {None, s.purchase} /\ Owners(c) \subseteq {s.purchase}
              /\ ~OtherDevice(c, s, d)
<1>. DEFINE k == cases[c]
            o == k.signed
            taken == {x \in Checkouts : orders[x] # None /\ s.intent # None /\ orders[x].intent = s.intent}
            checks == <<
       [when |-> s.mode # "payment" \/ o.mode \notin {"unknown", s.mode}, then |-> "unsupported_mode"],
       [when |-> ~s.paid \/ s.money = None, then |-> "not_paid"],
       [when |-> o.money \notin {None, s.money} \/ o.intent \notin {None, s.intent},
        then |-> "financial_mismatch"],
       [when |-> o.purchase \notin {None, s.purchase} \/ ~Owners(c) \subseteq {s.purchase},
        then |-> "purchase_mismatch"],
       [when |-> OtherDevice(c, s, d), then |-> "device_missing"],
       [when |-> d = None /\ (k.conflicting \/ o.purchase # s.purchase \/ o.pack # s.pack \/ o.device # s.device),
        then |-> "conflicting_events"],
       [when |-> d = None /\ (s.invalid \/ o.invalid), then |-> "metadata_invalid"],
       [when |-> ~taken \subseteq {c}, then |-> "order_conflict"]>>
<1>1. EvidenceReason(c, s, d) = FirstReason(checks)
  BY DEF EvidenceReason
<1>2. DOMAIN checks = 1 .. 8 /\ \A i \in 1 .. 8 : checks[i].then \in Reasons
  BY DEF Reasons
<1>3. /\ FirstReason(checks) \in Opt(Reasons)
      /\ FirstReason(checks) = None => \A i \in 1 .. 8 : ~checks[i].when
  <2>. HIDE DEF checks
  <2>. QED  BY <1>2, FirstReasonSound
<1>4. FirstReason(checks) = None => ~checks[2].when /\ ~checks[3].when /\ ~checks[4].when /\ ~checks[5].when
                                       /\ ~checks[6].when
  BY <1>3
<1>. QED  BY <1>1, <1>3, <1>4

LEMMA ExistingClear ==
  ASSUME NEW c, NEW s, NEW d
  PROVE  /\ ExistingReason(c, s, d) \in Opt(Reasons)
         /\ ExistingReason(c, s, d) = None =>
              /\ orders[c].money = s.money /\ orders[c].intent \in {None, s.intent}
              /\ s.purchase # None \/ orders[c].purchase # None => PurchaseOf(s) # None
<1>. DEFINE e == orders[c]
            p == PurchaseOf(s)
            checks == <<
       [when |-> \/ e.money # s.money \/ e.intent \notin {None, s.intent}
                 \/ d = None /\ DeviceOf(s) \notin {None, e.device}
                 \/ Overrides(d, e),
        then |-> "order_conflict"],
       [when |-> /\ s.purchase # None \/ e.purchase # None
                 /\ \/ p = None
                    \/ p.device # e.device \/ p.money # e.money \/ p.pack # e.pack
                    \/ p.checkout \notin {None, c},
        then |-> "purchase_mismatch"]>>
<1>1. ExistingReason(c, s, d) = FirstReason(checks)
  BY DEF ExistingReason
<1>2. DOMAIN checks = 1 .. 2 /\ \A i \in 1 .. 2 : checks[i].then \in Reasons
  BY DEF Reasons
<1>3. /\ FirstReason(checks) \in Opt(Reasons)
      /\ FirstReason(checks) = None => \A i \in 1 .. 2 : ~checks[i].when
  <2>. HIDE DEF checks
  <2>. QED  BY <1>2, FirstReasonSound
<1>4. FirstReason(checks) = None => ~checks[1].when /\ ~checks[2].when
  BY <1>3
<1>. QED  BY <1>1, <1>3, <1>4

LEMMA PurchaseClear ==
  ASSUME NEW c, NEW s, NEW d
  PROVE  /\ PurchaseReason(c, s, d) \in Opt(Reasons)
         /\ PurchaseReason(c, s, d) = None =>
              /\ PurchaseOf(s).checkout \in {None, c} /\ ~PurchaseOf(s).consumed
              /\ PurchaseOf(s).money = s.money /\ PurchaseOf(s).pack = s.pack
<1>. DEFINE p == PurchaseOf(s)
            checks == <<
       [when |-> \/ p.checkout \notin {None, c} \/ p.consumed
                 \/ p.money # s.money \/ p.pack # s.pack
                 \/ Overrides(d, p),
        then |-> "purchase_mismatch"]>>
<1>1. PurchaseReason(c, s, d) = FirstReason(checks)
  BY DEF PurchaseReason
<1>2. DOMAIN checks = 1 .. 1 /\ \A i \in 1 .. 1 : checks[i].then \in Reasons
  BY DEF Reasons
<1>3. /\ FirstReason(checks) \in Opt(Reasons)
      /\ FirstReason(checks) = None => \A i \in 1 .. 1 : ~checks[i].when
  <2>. HIDE DEF checks
  <2>. QED  BY <1>2, FirstReasonSound
<1>4. FirstReason(checks) = None => ~checks[1].when
  BY <1>3
<1>. QED  BY <1>1, <1>3, <1>4

LEMMA UnsealedClear ==
  ASSUME NEW s, NEW d
  PROVE  /\ UnsealedReason(s, d) \in Opt(Reasons)
         /\ UnsealedReason(s, d) = None =>
              /\ d # None => Exists(d.device)
              /\ d = None => DeviceOf(s) # None /\ s.pack # None
<1>. DEFINE checks == <<
    [when |-> d # None /\ (~Exists(d.device) \/ DeviceOf(s) \notin {None, d.device}), then |-> "device_missing"],
    [when |-> d = None /\ s.purchase # None, then |-> "purchase_missing"],
    [when |-> d = None /\ DeviceOf(s) = None, then |-> "device_missing"],
    [when |-> d = None /\ (s.pack = None \/ Price[s.pack] # s.money),
     then |-> "catalog_mismatch"]>>
<1>1. UnsealedReason(s, d) = FirstReason(checks)
  BY DEF UnsealedReason
<1>2. DOMAIN checks = 1 .. 4 /\ \A i \in 1 .. 4 : checks[i].then \in Reasons
  BY DEF Reasons
<1>3. /\ FirstReason(checks) \in Opt(Reasons)
      /\ FirstReason(checks) = None => \A i \in 1 .. 4 : ~checks[i].when
  <2>. HIDE DEF checks
  <2>. QED  BY <1>2, FirstReasonSound
<1>4. FirstReason(checks) = None => ~checks[1].when /\ ~checks[3].when /\ ~checks[4].when
  BY <1>3
<1>. QED  BY <1>1, <1>3, <1>4

LEMMA EvaluateRange ==
  ASSUME NEW c, NEW s, NEW d
  PROVE  Evaluate(c, s, d) \in Opt(Reasons)
BY EvidenceClear, ExistingClear, PurchaseClear, UnsealedClear DEF Evaluate

-----------------------------------------------------------------------------
(* Rows: what an operation makes of a case, and of a handler's state. *)

LEMMA CaseRows ==
  ASSUME NEW k \in Case
  PROVE  /\ Claimed(k) \in Case /\ Claimed(k).signed = k.signed
         /\ Conflicting(k) \in Case /\ Conflicting(k).signed = k.signed
         /\ \A reason \in Reasons : Reviewed(k, reason) \in Case /\ Reviewed(k, reason).signed = k.signed
<1>1. Claimed(k) \in Case /\ Claimed(k).signed = k.signed
  <2>. DEFINE g == k.generation + 1
              a == k.attempts + 1
  <2>1. g \in Nat /\ a \in Nat
    BY DEF Case
  <2>2. Claimed(k) = [k EXCEPT !.generation = g, !.attempts = a, !.state = "processing", !.retry = "later"]
    BY DEF Claimed, Case
  <2>. HIDE DEF g, a
  <2>. QED  BY <2>1, <2>2 DEF Case, Opt
<1>2. Conflicting(k) \in Case /\ Conflicting(k).signed = k.signed
  BY DEF Conflicting, Case, Opt, Reasons
<1>3. ASSUME NEW reason \in Reasons PROVE Reviewed(k, reason) \in Case /\ Reviewed(k, reason).signed = k.signed
  BY DEF Reviewed, Case, Opt
<1>. QED  BY <1>1, <1>2, <1>3

-----------------------------------------------------------------------------
(* Frames: what a step keeps, by what it touches. *)

LEMMA ToldStays ==
  ASSUME Grows, NEW c \in Checkouts, NEW s \in Snapshot, Told(c, s)
  PROVE  Told(c, s)'
BY DEF Grows, Told, Named, Snapshot, Opt

LEMMA InformedStays ==
  ASSUME Grows, NEW j \in Job, Informed(j)
  PROVE  Informed(j)'
<1>1. j.pc # "idle" => j.checkout \in Checkouts
  BY DEF Informed, Job, Opt
<1>2. j.snap # None => j.snap \in Snapshot
  BY DEF Job, Opt
<1>3. j.pc = "attach" => j.purchase \in Purchases
  BY DEF Informed, Job, Opt
<1>. QED  BY <1>1, <1>2, <1>3 DEF Grows, Informed, Told, Named, Snapshot, Opt

LEMMA HandlersKept ==
  ASSUME HandlersInv, Grows, UNCHANGED worker
  PROVE  HandlersInv'
<1>1. \A w \in Workers : worker[w] \in Job /\ Informed(worker[w])
  BY DEF HandlersInv
<1>2. \A j \in Job : Informed(j) => Informed(j)'
  BY InformedStays
<1>. QED  BY <1>1, <1>2 DEF HandlersInv, Informed, Told, Named

LEMMA HandlerMoves ==
  ASSUME HandlersInv, Grows, NEW w \in Workers, NEW j \in Job, worker' = [worker EXCEPT ![w] = j],
         Informed(j)'
  PROVE  HandlersInv'
<1>1. \A v \in Workers : worker[v] \in Job /\ Informed(worker[v])
  BY DEF HandlersInv
<1>2. worker' \in [Workers -> Job] /\ worker'[w] = j /\ \A v \in Workers : v # w => worker'[v] = worker[v]
  BY DEF HandlersInv
<1>3. \A i \in Job : Informed(i) => Informed(i)'
  BY InformedStays
<1>4. ASSUME NEW v \in Workers PROVE Informed(worker[v])'
  <2>1. CASE v = w
    BY <2>1, <1>2 DEF Informed, Told, Named
  <2>2. CASE v # w
    BY <2>2, <1>1, <1>2, <1>3 DEF Informed, Told, Named
  <2>. QED  BY <2>1, <2>2
<1>. QED  BY <1>2, <1>4 DEF HandlersInv

LEMMA HandlerReturns ==
  ASSUME HandlersInv, Grows, NEW w \in Workers, Return(w)
  PROVE  HandlersInv'
<1>1. NoWork \in Job
  BY DEF NoWork, Job, Opt
<1>2. Informed(NoWork)'
  BY DEF NoWork, Informed
<1>. QED  BY <1>1, <1>2, HandlerMoves DEF Return

LEMMA StripeMoves ==
  ASSUME TablesInv, Grows, UNCHANGED <<purchases, cases, orders, desk>>,
         provider' \in [Checkouts -> Opt(Snapshot)], made' \in [Purchases -> Opt(Checkouts)],
         sent' \in [Events -> Opt(Sent)],
         \A c \in Checkouts : (provider[c] # None => Named(provider[c]))',
         \A p \in Purchases : (made[p] # None => provider[made[p]] # None)',
         \A e \in Events : (sent[e] # None => Told(sent[e].checkout, sent[e].snap))'
  PROVE  TablesInv'
<1>1. \A c \in Checkouts : cases[c] # None => cases[c].signed \in Snapshot /\ Told(c, cases[c].signed)
  BY DEF TablesInv, Evidence, Opt, Case
<1>2. \A c \in Checkouts : cases[c] # None => Told(c, cases[c].signed)'
  BY <1>1 DEF Grows, Told, Named
<1>3. Evidence'
  BY <1>2 DEF Evidence, Named, Told
<1>4. OrdersHaveCases'
  BY DEF TablesInv, OrdersHaveCases, Grows, Evidence, Told
<1>5. OrdersMatchPurchases' /\ BeneficiaryIsKept'
  BY DEF TablesInv, OrdersMatchPurchases, BeneficiaryIsKept, PurchaseOf
<1>6. \A p \in Purchases : purchases[p] # None /\ purchases[p].checkout # None =>
        purchases[p].checkout \in Checkouts
  BY DEF TablesInv, Opt, Purchase
<1>7. Attached'
  BY <1>6 DEF TablesInv, Attached, Grows
<1>. QED  BY <1>3, <1>4, <1>5, <1>7 DEF TablesInv

(* A case is opened by what was told, or worked on without touching its first evidence. *)
LEMMA CaseMoves ==
  ASSUME TablesInv, UNCHANGED <<purchases, orders, stripe, desk>>,
         NEW c \in Checkouts, NEW k \in Case, cases' = [cases EXCEPT ![c] = k],
         IF cases[c] = None THEN Told(c, k.signed) ELSE k.signed = cases[c].signed
  PROVE  TablesInv'
<1>1. cases' \in [Checkouts -> Opt(Case)] /\ cases'[c] = k /\ \A b \in Checkouts : b # c => cases'[b] = cases[b]
  BY DEF TablesInv, Opt
<1>2. k # None
  BY NoneAssumption
<1>3. Told(c, k.signed)
  BY DEF TablesInv, Evidence
<1>4. Evidence'
  BY <1>1, <1>3 DEF TablesInv, Evidence, Told, Named, stripe
<1>5. OrdersHaveCases'
  BY <1>1, <1>2 DEF TablesInv, OrdersHaveCases, stripe
<1>6. OrdersMatchPurchases'
  BY DEF TablesInv, OrdersMatchPurchases
<1>7. \A b \in Checkouts : orders[b] # None => cases'[b].signed = cases[b].signed
  BY <1>1 DEF TablesInv, OrdersHaveCases
<1>8. BeneficiaryIsKept'
  BY <1>7 DEF TablesInv, BeneficiaryIsKept, PurchaseOf, DeviceOf
<1>. QED  BY <1>1, <1>4, <1>5, <1>6, <1>8 DEF TablesInv, Attached, stripe

(* A purchase is made, attached or expires: one that was consumed stays what it was. *)
LEMMA PurchaseMoves ==
  ASSUME TablesInv, UNCHANGED <<cases, orders, stripe, desk>>,
         NEW p \in Purchases, NEW q \in Purchase, purchases' = [purchases EXCEPT ![p] = q],
         purchases[p] # None /\ purchases[p].consumed =>
           /\ q.consumed /\ q.checkout = purchases[p].checkout /\ q.device = purchases[p].device
           /\ q.pack = purchases[p].pack /\ q.money = purchases[p].money,
         q.consumed => purchases[p] # None /\ purchases[p].consumed,
         q.checkout # None => provider[q.checkout] # None
  PROVE  TablesInv' /\ Grows
<1>1. /\ purchases' \in [Purchases -> Opt(Purchase)] /\ purchases'[p] = q
      /\ \A r \in Purchases : r # p => purchases'[r] = purchases[r]
  BY DEF TablesInv, Opt
<1>2. q # None
  BY NoneAssumption
<1>3. Grows
  BY <1>1, <1>2 DEF Grows, stripe
<1>4. Evidence'
  BY <1>1, <1>2 DEF TablesInv, Evidence, Told, Named, stripe
<1>5. OrdersHaveCases'
  BY DEF TablesInv, OrdersHaveCases, stripe
<1>6. \A c \in Checkouts : orders[c] # None => orders[c] \in Order
  BY DEF TablesInv, Opt
<1>7. \A c \in Checkouts : orders[c] # None /\ orders[c].purchase # None => orders[c].purchase \in Purchases
  BY <1>6 DEF Order, Opt
<1>8. OrdersMatchPurchases'
  BY <1>1, <1>2, <1>7 DEF TablesInv, OrdersMatchPurchases
<1>9. ASSUME NEW c \in Checkouts, orders[c] # None
      PROVE  PurchaseOf(cases[c].signed)' # None <=> PurchaseOf(cases[c].signed) # None
  <2>1. cases[c] # None /\ Named(cases[c].signed) /\ cases[c].signed \in Snapshot
    BY <1>9 DEF TablesInv, OrdersHaveCases, Evidence, Told, Opt, Case
  <2>. QED  BY <2>1, <1>1, <1>2 DEF PurchaseOf, Named, Snapshot, Opt
<1>10. BeneficiaryIsKept'
  BY <1>9 DEF TablesInv, BeneficiaryIsKept, DeviceOf
<1>11. Attached'
  BY <1>1 DEF TablesInv, Attached, stripe
<1>. QED  BY <1>1, <1>3, <1>4, <1>5, <1>8, <1>10, <1>11 DEF TablesInv, stripe

-----------------------------------------------------------------------------
(* The purchase page and Stripe. *)

LEMMA CreatePurchaseKeeps ==
  ASSUME QueueInv, NEW p \in Purchases, NEW d \in Registered, NEW k \in Packs, CreatePurchase(p, d, k)
  PROVE  QueueInv'
<1>. DEFINE q == [device |-> d, pack |-> k, money |-> Price[k], checkout |-> None,
                  expired |-> FALSE, consumed |-> FALSE]
<1>1. q \in Purchase
  BY CheckoutAssumption DEF Purchase, Opt
<1>2. purchases' = [purchases EXCEPT ![p] = q] /\ purchases[p] = None
  BY DEF CreatePurchase
<1>3. ~q.consumed /\ q.checkout = None
  OBVIOUS
<1>4. UNCHANGED <<cases, orders, stripe, desk, worker>>
  BY DEF CreatePurchase
<1>. HIDE DEF q
<1>5. TablesInv' /\ Grows
  BY <1>1, <1>2, <1>3, <1>4, PurchaseMoves DEF QueueInv
<1>6. HandlersInv'
  BY <1>4, <1>5, HandlersKept DEF QueueInv
<1>. QED  BY <1>5, <1>6 DEF QueueInv

LEMMA PurchaseRows ==
  ASSUME TablesInv, NEW p \in Purchases, purchases[p] # None
  PROVE  /\ [purchases[p] EXCEPT !.expired = TRUE] \in Purchase
         /\ \A c \in Checkouts : [purchases[p] EXCEPT !.checkout = c] \in Purchase
<1>1. purchases[p] \in Purchase
  BY DEF TablesInv, Opt
<1>. QED  BY <1>1 DEF Purchase, Opt

LEMMA PurchaseExpiresKeeps ==
  ASSUME QueueInv, NEW p \in Purchases, PurchaseExpires(p)
  PROVE  QueueInv'
<1>. DEFINE q == [purchases[p] EXCEPT !.expired = TRUE]
<1>1. q \in Purchase /\ purchases[p] \in Purchase
  BY PurchaseRows DEF QueueInv, TablesInv, PurchaseExpires, Opt
<1>2. /\ q.consumed = purchases[p].consumed /\ q.checkout = purchases[p].checkout
      /\ q.device = purchases[p].device /\ q.pack = purchases[p].pack /\ q.money = purchases[p].money
  BY <1>1 DEF Purchase
<1>3. /\ purchases' = [purchases EXCEPT ![p] = q] /\ purchases[p] # None
      /\ q.checkout # None => provider[q.checkout] # None
  BY <1>2 DEF QueueInv, TablesInv, Attached, PurchaseExpires
<1>4. UNCHANGED <<cases, orders, stripe, desk, worker>>
  BY DEF PurchaseExpires
<1>. HIDE DEF q
<1>5. TablesInv' /\ Grows
  BY <1>1, <1>2, <1>3, <1>4, PurchaseMoves DEF QueueInv
<1>6. HandlersInv'
  BY <1>4, <1>5, HandlersKept DEF QueueInv
<1>. QED  BY <1>5, <1>6 DEF QueueInv

LEMMA AttachKeeps ==
  ASSUME QueueInv, NEW w \in Workers, Attach(w)
  PROVE  QueueInv'
<1>. DEFINE p == worker[w].purchase
            c == worker[w].checkout
            q == [purchases[p] EXCEPT !.checkout = c]
<1>1. worker[w] \in Job /\ Informed(worker[w]) /\ worker[w].pc = "attach"
  BY DEF QueueInv, HandlersInv, Attach, At
<1>2. c \in Checkouts /\ p \in Purchases /\ purchases[p] # None /\ provider[c] # None
  BY <1>1 DEF Informed, Job, Opt
<1>3. UNCHANGED <<cases, orders, stripe, desk>> /\ Return(w)
  BY DEF Attach
<1>4. TablesInv' /\ Grows
  <2>1. CASE Attachable(p, c)
    <3>1. q \in Purchase /\ purchases[p] \in Purchase
      BY <1>2, PurchaseRows DEF QueueInv, TablesInv, Opt
    <3>2. q.consumed = purchases[p].consumed /\ ~purchases[p].consumed
      BY <2>1, <3>1 DEF Purchase, Attachable
    <3>3. purchases' = [purchases EXCEPT ![p] = q] /\ q.checkout = c
      BY <2>1, <1>2, <3>1 DEF Attach, QueueInv, TablesInv, Purchase
    <3>. HIDE DEF p, c, q
    <3>. QED  BY <1>2, <1>3, <3>1, <3>2, <3>3, PurchaseMoves DEF QueueInv
  <2>2. CASE ~Attachable(p, c)
    <3>1. UNCHANGED <<purchases, cases, orders, stripe, desk>>
      BY <2>2, <1>3 DEF Attach
    <3>2. Grows
      BY <3>1 DEF Grows, stripe
    <3>3. TablesInv'
      BY <3>1 DEF QueueInv, TablesInv, Evidence, Told, Named, Attached, OrdersHaveCases, OrdersMatchPurchases,
                  BeneficiaryIsKept, PurchaseOf, DeviceOf, stripe
    <3>. QED  BY <3>2, <3>3
  <2>. QED  BY <2>1, <2>2
<1>5. HandlersInv'
  BY <1>3, <1>4, HandlerReturns DEF QueueInv
<1>. QED  BY <1>4, <1>5 DEF QueueInv

LEMMA UnpaidRows ==
  ASSUME NEW k \in Packs
  PROVE  /\ Unpaid(k) \in Snapshot /\ Unpaid(k).purchase = None
         /\ \A p \in Purchases : LET s == [Unpaid(k) EXCEPT !.purchase = p]
                                 IN s \in Snapshot /\ s.purchase = p
         /\ \A d \in Registered : LET s == [Unpaid(k) EXCEPT !.device = d]
                                  IN s \in Snapshot /\ s.purchase = None
<1>1. Price[k] \in Nat /\ Registered \subseteq Devices
  BY CheckoutAssumption
<1>2. Unpaid(k) \in Snapshot
  BY <1>1 DEF Unpaid, Snapshot, Opt
<1>3. Unpaid(k).purchase = None
  BY DEF Unpaid
<1>. QED  BY <1>1, <1>2, <1>3 DEF Snapshot, Opt

(* A Checkout is made. *)
LEMMA CheckoutMade ==
  ASSUME QueueInv, NEW c \in Checkouts, NEW s \in Snapshot, provider[c] = None, Named(s),
         provider' = [provider EXCEPT ![c] = s], made' \in [Purchases -> Opt(Checkouts)],
         \A p \in Purchases : made'[p] \in {made[p], c},
         UNCHANGED <<purchases, sent, cases, orders, desk>>
  PROVE  TablesInv' /\ Grows
<1>1. /\ provider' \in [Checkouts -> Opt(Snapshot)] /\ provider'[c] = s
      /\ \A b \in Checkouts : b # c => provider'[b] = provider[b]
  BY DEF QueueInv, TablesInv, Opt
<1>2. Grows
  BY <1>1, NoneAssumption DEF Grows
<1>3. \A b \in Checkouts : (provider[b] # None => Named(provider[b]))'
  BY <1>1 DEF QueueInv, TablesInv, Evidence, Named
<1>4. \A e \in Events : (sent[e] # None => Told(sent[e].checkout, sent[e].snap))'
  <2>1. \A e \in Events : sent[e] # None => sent[e].checkout \in Checkouts
    BY DEF QueueInv, TablesInv, Opt, Sent
  <2>. QED  BY <1>2, <2>1 DEF QueueInv, TablesInv, Evidence, Told, Named, Grows
<1>5. \A p \in Purchases : (made[p] # None => provider[made[p]] # None)'
  <2>1. \A p \in Purchases : made[p] # None => made[p] \in Checkouts
    BY DEF QueueInv, TablesInv, Opt
  <2>2. provider'[c] # None
    BY <1>1, NoneAssumption
  <2>. QED  BY <1>2, <2>1, <2>2 DEF QueueInv, TablesInv, Evidence, Grows
<1>6. sent' \in [Events -> Opt(Sent)]
  BY DEF QueueInv, TablesInv
<1>. QED  BY <1>1, <1>2, <1>3, <1>4, <1>5, <1>6, StripeMoves DEF QueueInv

LEMMA StartCheckoutKeeps ==
  ASSUME QueueInv, NEW w \in Workers, NEW p \in Purchases, NEW c \in Checkouts, StartCheckout(w, p, c)
  PROVE  QueueInv'
<1>. DEFINE s == [Unpaid(purchases[p].pack) EXCEPT !.purchase = p]
            j == [NoWork EXCEPT !.pc = "attach", !.purchase = p, !.checkout = c]
<1>1. purchases[p] # None /\ purchases[p] \in Purchase
  BY DEF StartCheckout, QueueInv, TablesInv, Opt
<1>2. s \in Snapshot /\ s.purchase = p
  BY <1>1, UnpaidRows DEF Purchase
<1>3. made' \in [Purchases -> Opt(Checkouts)]
  BY DEF StartCheckout, QueueInv, TablesInv, Opt
<1>4. UNCHANGED <<purchases, sent, cases, orders, desk>>
  BY DEF StartCheckout, tables
<1>5. TablesInv' /\ Grows /\ provider'[c] # None
  <2>1. CASE made[p] # None
    <3>1. provider' = provider /\ provider[c] # None /\ c = made[p]
      BY <2>1 DEF StartCheckout, QueueInv, TablesInv, Evidence
    <3>2. Grows
      BY <3>1, <1>4 DEF Grows
    <3>3. made' = made
      BY <3>1 DEF StartCheckout, QueueInv, TablesInv
    <3>4. TablesInv'
      BY <3>1, <3>3, <1>4 DEF QueueInv, TablesInv, Evidence, Told, Named, Attached, OrdersHaveCases, OrdersMatchPurchases,
                  BeneficiaryIsKept, PurchaseOf, DeviceOf
    <3>. QED  BY <3>1, <3>2, <3>4
  <2>2. CASE made[p] = None
    <3>1. provider[c] = None /\ provider' = [provider EXCEPT ![c] = s]
      BY <2>2 DEF StartCheckout
    <3>2. Named(s)
      BY <1>1, <1>2 DEF Named
    <3>3. provider'[c] # None
      BY <3>1, <1>2, NoneAssumption DEF QueueInv, TablesInv
    <3>4. \A r \in Purchases : made'[r] \in {made[r], c}
      BY DEF StartCheckout, QueueInv, TablesInv
    <3>. HIDE DEF s
    <3>. QED  BY <1>2, <1>3, <1>4, <3>1, <3>2, <3>3, <3>4, CheckoutMade
  <2>. QED  BY <2>1, <2>2
<1>6. worker' = [worker EXCEPT ![w] = j]
  BY DEF StartCheckout, Begin
<1>7. j \in Job /\ j.pc = "attach" /\ j.purchase = p /\ j.checkout = c
  BY DEF NoWork, Job, Opt
<1>8. Informed(j)'
  <2>1. purchases'[p] # None /\ p # None /\ c # None
    BY <1>1, <1>4, CheckoutAssumption
  <2>. HIDE DEF j
  <2>. QED  BY <1>5, <1>7, <2>1 DEF Informed
<1>9. HandlersInv'
  <2>. HIDE DEF j
  <2>. QED  BY <1>5, <1>6, <1>7, <1>8, HandlerMoves DEF QueueInv
<1>. QED  BY <1>5, <1>9 DEF QueueInv

LEMMA LegacyCheckoutKeeps ==
  ASSUME QueueInv, NEW c \in Checkouts, NEW d \in Registered, NEW k \in Packs, LegacyCheckout(c, d, k)
  PROVE  QueueInv'
<1>. DEFINE s == [Unpaid(k) EXCEPT !.device = d]
<1>1. s \in Snapshot /\ s.purchase = None
  BY UnpaidRows
<1>2. provider[c] = None /\ provider' = [provider EXCEPT ![c] = s]
  BY DEF LegacyCheckout
<1>3. UNCHANGED <<purchases, made, sent, cases, orders, desk, worker>>
  BY DEF LegacyCheckout, tables
<1>4. Named(s) /\ made' \in [Purchases -> Opt(Checkouts)] /\ \A p \in Purchases : made'[p] \in {made[p], c}
  BY <1>1, <1>3 DEF Named, QueueInv, TablesInv
<1>5. TablesInv' /\ Grows
  <2>. HIDE DEF s
  <2>. QED  BY <1>1, <1>2, <1>3, <1>4, CheckoutMade
<1>6. HandlersInv'
  BY <1>3, <1>5, HandlersKept DEF QueueInv
<1>. QED  BY <1>5, <1>6 DEF QueueInv

(* What Stripe tells of a Checkout changes: it may be paid, its metadata edited. *)
LEMMA CheckoutChanges ==
  ASSUME QueueInv, NEW c \in Checkouts, NEW s \in Snapshot, provider[c] # None, Named(s),
         provider[c].paid => s.paid, provider' = [provider EXCEPT ![c] = s],
         UNCHANGED <<purchases, made, sent, cases, orders, desk, worker>>
  PROVE  QueueInv'
<1>1. /\ provider' \in [Checkouts -> Opt(Snapshot)] /\ provider'[c] = s
      /\ \A b \in Checkouts : b # c => provider'[b] = provider[b]
  BY DEF QueueInv, TablesInv, Opt
<1>2. Grows
  BY <1>1, NoneAssumption DEF Grows
<1>3. \A b \in Checkouts : (provider[b] # None => Named(provider[b]))'
  BY <1>1 DEF QueueInv, TablesInv, Evidence, Named
<1>4. \A e \in Events : (sent[e] # None => Told(sent[e].checkout, sent[e].snap))'
  <2>1. \A e \in Events : sent[e] # None => sent[e].checkout \in Checkouts
    BY DEF QueueInv, TablesInv, Opt, Sent
  <2>. QED  BY <1>2, <2>1 DEF QueueInv, TablesInv, Evidence, Told, Named, Grows
<1>5. \A p \in Purchases : (made[p] # None => provider[made[p]] # None)'
  <2>1. \A p \in Purchases : made[p] # None => made[p] \in Checkouts
    BY DEF QueueInv, TablesInv, Opt
  <2>. QED  BY <1>2, <2>1 DEF QueueInv, TablesInv, Evidence, Grows
<1>6. made' \in [Purchases -> Opt(Checkouts)] /\ sent' \in [Events -> Opt(Sent)]
  BY DEF QueueInv, TablesInv
<1>7. TablesInv'
  BY <1>1, <1>2, <1>3, <1>4, <1>5, <1>6, StripeMoves DEF QueueInv
<1>. QED  BY <1>2, <1>7, HandlersKept DEF QueueInv

LEMMA PayKeeps ==
  ASSUME QueueInv, NEW c \in Checkouts, Pay(c)
  PROVE  QueueInv'
<1>. DEFINE s == [provider[c] EXCEPT !.paid = TRUE, !.intent = c]
<1>1. provider[c] # None /\ provider[c] \in Snapshot /\ Named(provider[c])
  BY DEF Pay, QueueInv, TablesInv, Evidence, Opt
<1>2. s \in Snapshot /\ s.paid /\ s.purchase = provider[c].purchase
  BY <1>1 DEF Snapshot, Opt
<1>3. provider' = [provider EXCEPT ![c] = s]
  BY DEF Pay, QueueInv, TablesInv
<1>4. UNCHANGED <<purchases, made, sent, cases, orders, desk, worker>>
  BY DEF Pay, tables
<1>5. Named(s)
  BY <1>1, <1>2 DEF Named
<1>. HIDE DEF s
<1>. QED  BY <1>1, <1>2, <1>3, <1>4, <1>5, CheckoutChanges

LEMMA EditedRow ==
  ASSUME NEW s \in Snapshot, NEW m \in Edits
  PROVE  [s EXCEPT !.purchase = m.purchase, !.pack = m.pack, !.device = m.device, !.invalid = m.invalid] \in Snapshot
<1>. DEFINE a == m.purchase
            b == m.pack
            d == m.device
            i == m.invalid
<1>1. a \in Opt(Purchases) /\ b \in Opt(Packs) /\ d \in Opt(Devices) /\ i \in BOOLEAN
  BY CheckoutAssumption DEF Opt
<1>. HIDE DEF a, b, d, i
<1>2. [s EXCEPT !.purchase = a, !.pack = b, !.device = d, !.invalid = i] \in Snapshot
  BY <1>1 DEF Snapshot
<1>. QED  BY <1>2 DEF a, b, d, i

LEMMA EditMetadataKeeps ==
  ASSUME QueueInv, NEW c \in Checkouts, NEW m \in Edits, EditMetadata(c, m)
  PROVE  QueueInv'
<1>. DEFINE s == [provider[c] EXCEPT !.purchase = m.purchase, !.pack = m.pack, !.device = m.device,
                                     !.invalid = m.invalid]
<1>1. provider[c] # None /\ provider[c] \in Snapshot
  BY DEF EditMetadata, QueueInv, TablesInv, Evidence, Opt
<1>3. s \in Snapshot
  BY <1>1, EditedRow
<1>4. s.purchase = m.purchase /\ s.paid = provider[c].paid
  BY <1>1 DEF Snapshot
<1>5. provider' = [provider EXCEPT ![c] = s]
  BY DEF EditMetadata, QueueInv, TablesInv
<1>6. UNCHANGED <<purchases, made, sent, cases, orders, desk, worker>>
  BY DEF EditMetadata, tables
<1>7. Named(s)
  BY <1>4 DEF EditMetadata, Named
<1>. HIDE DEF s
<1>. QED  BY <1>1, <1>3, <1>4, <1>5, <1>6, <1>7, CheckoutChanges

LEMMA EmitKeeps ==
  ASSUME QueueInv, NEW e \in Events, NEW c \in Checkouts, Emit(e, c)
  PROVE  QueueInv'
<1>. DEFINE m == [checkout |-> c, snap |-> provider[c]]
<1>1. provider[c] # None /\ provider[c] \in Snapshot /\ Told(c, provider[c])
  BY DEF Emit, QueueInv, TablesInv, Evidence, Told, Opt
<1>2. m \in Sent /\ m.checkout = c /\ m.snap = provider[c]
  BY <1>1 DEF Sent
<1>3. UNCHANGED <<purchases, provider, made, cases, orders, desk, worker>>
  BY DEF Emit, tables
<1>4. sent' = [sent EXCEPT ![e] = m]
  BY DEF Emit
<1>5. Grows
  BY <1>3 DEF Grows
<1>. HIDE DEF m
<1>6. /\ sent' \in [Events -> Opt(Sent)] /\ sent'[e] = m
      /\ \A x \in Events : x # e => sent'[x] = sent[x]
  BY <1>2, <1>4 DEF QueueInv, TablesInv, Opt
<1>7. \A x \in Events : (sent[x] # None => Told(sent[x].checkout, sent[x].snap))'
  BY <1>1, <1>2, <1>3, <1>6 DEF QueueInv, TablesInv, Evidence, Told, Named
<1>8. \A b \in Checkouts : (provider[b] # None => Named(provider[b]))'
  BY <1>3 DEF QueueInv, TablesInv, Evidence, Named
<1>9. \A p \in Purchases : (made[p] # None => provider[made[p]] # None)'
  BY <1>3 DEF QueueInv, TablesInv, Evidence
<1>10. provider' \in [Checkouts -> Opt(Snapshot)] /\ made' \in [Purchases -> Opt(Checkouts)]
  BY <1>3 DEF QueueInv, TablesInv
<1>11. TablesInv'
  BY <1>3, <1>5, <1>6, <1>7, <1>8, <1>9, <1>10, StripeMoves DEF QueueInv
<1>. QED  BY <1>3, <1>5, <1>11, HandlersKept DEF QueueInv

-----------------------------------------------------------------------------
(* The ways into the queue. *)

LEMMA StillGrows ==
  ASSUME UNCHANGED <<purchases, stripe>>
  PROVE  Grows
BY DEF Grows, stripe

LEMMA TablesKept ==
  ASSUME TablesInv, UNCHANGED <<purchases, cases, orders, stripe, desk>>
  PROVE  TablesInv'
BY DEF TablesInv, Evidence, Told, Named, Attached, OrdersHaveCases, OrdersMatchPurchases, BeneficiaryIsKept,
       PurchaseOf, DeviceOf, stripe

LEMMA ReceiveKeeps ==
  ASSUME TablesInv, NEW event, NEW c \in Checkouts, NEW s \in Snapshot, Told(c, s), Receive(event, c, s),
         UNCHANGED <<purchases, orders, stripe, desk>>
  PROVE  TablesInv'
<1>. DEFINE k == cases[c]
<1>1. CASE \E x \in deliveries[c] : x.event = event
  <2>1. UNCHANGED cases
    BY <1>1 DEF Receive
  <2>. QED  BY <2>1, TablesKept
<1>2. CASE ~(\E x \in deliveries[c] : x.event = event) /\ k = None
  <2>1. cases' = [cases EXCEPT ![c] = NewCase(s)]
    BY <1>2 DEF Receive
  <2>2. NewCase(s) \in Case /\ NewCase(s).signed = s
    BY DEF NewCase, Case, Opt
  <2>. QED  BY <1>2, <2>1, <2>2, CaseMoves
<1>3. CASE ~(\E x \in deliveries[c] : x.event = event) /\ k # None
  <2>1. k \in Case
    BY <1>3 DEF TablesInv, Opt
  <2>2. CASE k.signed # s
    <3>1. cases' = [cases EXCEPT ![c] = Conflicting(k)]
      BY <1>3, <2>2 DEF Receive
    <3>2. Conflicting(k) \in Case /\ Conflicting(k).signed = k.signed
      BY <2>1, CaseRows
    <3>. QED  BY <1>3, <3>1, <3>2, CaseMoves
  <2>3. CASE k.signed = s
    <3>1. cases' = [cases EXCEPT ![c] = k]
      BY <1>3, <2>3 DEF Receive
    <3>. QED  BY <1>3, <2>1, <3>1, CaseMoves
  <2>. QED  BY <2>2, <2>3
<1>. QED  BY <1>1, <1>2, <1>3

LEMMA WebhookKeeps ==
  ASSUME QueueInv, NEW w \in Workers, NEW e \in Events, Webhook(w, e)
  PROVE  QueueInv'
<1>. DEFINE c == sent[e].checkout
            j == [NoWork EXCEPT !.pc = "claim", !.checkout = c, !.source = "signed_event"]
<1>1. c \in Checkouts /\ sent[e].snap \in Snapshot /\ Told(c, sent[e].snap)
  BY DEF Webhook, QueueInv, TablesInv, Evidence, Opt, Sent
<1>2. UNCHANGED <<purchases, orders, stripe, desk>> /\ Receive(e, c, sent[e].snap)
  BY DEF Webhook
<1>3. TablesInv' /\ Grows
  BY <1>1, <1>2, ReceiveKeeps, StillGrows DEF QueueInv
<1>4. worker' = [worker EXCEPT ![w] = j]
  BY DEF Webhook, Begin
<1>5. j \in Job /\ j.pc = "claim" /\ j.source = "signed_event" /\ j.checkout = c
  BY <1>1 DEF NoWork, Job, Opt
<1>6. provider'[c] # None /\ c # None
  BY <1>1, <1>2, CheckoutAssumption DEF Told, stripe
<1>. HIDE DEF j, c
<1>7. PICK i \in Job : i = j
  BY <1>5
<1>8. Informed(i)'
  BY <1>5, <1>6, <1>7 DEF Informed
<1>. QED  BY <1>3, <1>4, <1>7, <1>8, HandlerMoves DEF QueueInv

LEMMA PollKeeps ==
  ASSUME QueueInv, NEW w \in Workers, NEW p \in Purchases, Poll(w, p)
  PROVE  QueueInv'
<1>. DEFINE c == purchases[p].checkout
            s == provider[c]
            pc == IF cases[c] = None THEN "receive" ELSE "claim"
            j == [NoWork EXCEPT !.pc = pc, !.checkout = c, !.snap = s, !.source = "stripe_api"]
<1>1. c \in Checkouts /\ c # None
  BY DEF Poll, QueueInv, TablesInv, Opt, Purchase
<1>2. s # None /\ s \in Snapshot /\ Told(c, s)
  BY <1>1 DEF Poll, QueueInv, TablesInv, Attached, Evidence, Told, Opt
<1>3. worker' = [worker EXCEPT ![w] = j] /\ UNCHANGED <<tables, stripe, desk>>
  BY DEF Poll, Begin
<1>4. pc \in {"receive", "claim"}
  OBVIOUS
<1>. HIDE DEF c, s, pc
<1>5. j \in Job /\ j.pc = pc /\ j.checkout = c /\ j.snap = s
  BY <1>1, <1>2, <1>4 DEF NoWork, Job, Opt
<1>. HIDE DEF j
<1>6. PICK i \in Job : i = j
  BY <1>5
<1>7. Informed(i)'
  BY <1>1, <1>2, <1>3, <1>4, <1>5, <1>6 DEF Informed, Told, Named, stripe, tables
<1>8. TablesInv' /\ Grows
  BY <1>3, TablesKept, StillGrows DEF QueueInv, tables
<1>. QED  BY <1>3, <1>6, <1>7, <1>8, HandlerMoves DEF QueueInv

(* Where a handler is, and what it was told. *)
LEMMA HandlerAt ==
  ASSUME QueueInv, NEW w \in Workers, worker[w].pc # "idle"
  PROVE  /\ worker[w] \in Job /\ worker[w].checkout \in Checkouts /\ provider[worker[w].checkout] # None
         /\ worker[w].pc \in {"receive", "finish"} =>
              worker[w].snap \in Snapshot /\ Told(worker[w].checkout, worker[w].snap)
         /\ worker[w].pc = "claim" /\ worker[w].source # "signed_event" =>
              worker[w].snap \in Snapshot /\ Told(worker[w].checkout, worker[w].snap)
<1>1. worker[w] \in Job /\ Informed(worker[w])
  BY DEF QueueInv, HandlersInv
<1>. QED  BY <1>1 DEF Job, Opt, Informed

LEMMA ReceiveReadKeeps ==
  ASSUME QueueInv, NEW w \in Workers, ReceiveRead(w)
  PROVE  QueueInv'
<1>. DEFINE c == worker[w].checkout
            s == worker[w].snap
            j == [worker[w] EXCEPT !.pc = "claim"]
<1>1. worker[w] \in Job /\ c \in Checkouts /\ s \in Snapshot /\ Told(c, s)
  BY HandlerAt DEF ReceiveRead, At
<1>2. Receive(s, c, s) /\ UNCHANGED <<purchases, orders, stripe, desk>>
  BY DEF ReceiveRead
<1>3. TablesInv' /\ Grows
  BY <1>1, <1>2, ReceiveKeeps, StillGrows DEF QueueInv
<1>4. worker' = [worker EXCEPT ![w] = j]
  BY DEF ReceiveRead, Goto, QueueInv, HandlersInv
<1>5. j \in Job /\ j.pc = "claim" /\ j.checkout = c /\ j.snap = s
  BY <1>1 DEF Job, Opt
<1>6. c # None /\ s # None
  BY <1>1, CheckoutAssumption, NoneAssumption
<1>. HIDE DEF c, s, j
<1>7. PICK i \in Job : i = j
  BY <1>5
<1>8. Informed(i)'
  BY <1>1, <1>2, <1>5, <1>6, <1>7 DEF Informed, Told, Named, stripe
<1>. QED  BY <1>3, <1>4, <1>7, <1>8, HandlerMoves DEF QueueInv

LEMMA InspectKeeps ==
  ASSUME QueueInv, NEW c \in Checkouts, Inspect(c)
  PROVE  QueueInv'
<1>1. cases[c] \in Case
  BY DEF Inspect, QueueInv, TablesInv, Opt
<1>2. Fingerprint(cases[c]) \in Seen
  BY <1>1 DEF Fingerprint, Seen, Case, Opt
<1>3. UNCHANGED <<purchases, cases, orders, stripe, worker>>
  BY DEF Inspect, tables
<1>4. desk' \in [Checkouts -> Opt(Seen)]
  BY <1>2 DEF Inspect, QueueInv, TablesInv, Opt
<1>5. TablesInv'
  BY <1>3, <1>4 DEF QueueInv, TablesInv, Evidence, Told, Named, Attached, OrdersHaveCases, OrdersMatchPurchases,
                    BeneficiaryIsKept, PurchaseOf, DeviceOf, stripe
<1>. QED  BY <1>3, <1>5, StillGrows, HandlersKept DEF QueueInv

-----------------------------------------------------------------------------
(* Working on a case. *)

LEMMA ClaimKeeps ==
  ASSUME QueueInv, NEW w \in Workers, Claim(w)
  PROVE  QueueInv'
<1>. DEFINE c == worker[w].checkout
            k == cases[c]
            s == IF worker[w].source = "signed_event" THEN k.signed ELSE worker[w].snap
            g == k.generation + 1
            j == [worker[w] EXCEPT !.pc = "finish", !.generation = g, !.snap = s]
<1>1. worker[w] \in Job /\ c \in Checkouts
  BY HandlerAt DEF Claim, At
<1>2. UNCHANGED <<purchases, orders, stripe, desk>>
  BY DEF Claim
<1>3. Grows
  BY <1>2, StillGrows
<1>4. CASE Claimable(k, FALSE)
  <2>1. k # None /\ k \in Case
    BY <1>1, <1>4 DEF Claimable, QueueInv, TablesInv, Opt
  <2>2. cases' = [cases EXCEPT ![c] = Claimed(k)]
    BY <1>4 DEF Claim
  <2>3. TablesInv'
    BY <1>1, <1>2, <2>1, <2>2, CaseRows, CaseMoves DEF QueueInv
  <2>4. s \in Snapshot /\ Told(c, s) /\ g \in Nat
    <3>1. k.signed \in Snapshot /\ Told(c, k.signed) /\ k.generation \in Nat
      BY <1>1, <2>1 DEF QueueInv, TablesInv, Evidence, Case
    <3>2. worker[w].source # "signed_event" => worker[w].snap \in Snapshot /\ Told(c, worker[w].snap)
      BY HandlerAt DEF Claim, At
    <3>. QED  BY <3>1, <3>2
  <2>5. worker' = [worker EXCEPT ![w] = j]
    BY <1>4 DEF Claim, QueueInv, HandlersInv
  <2>6. c # None /\ s # None
    BY <1>1, <2>4, CheckoutAssumption, NoneAssumption
  <2>. HIDE DEF s, g
  <2>7. j \in Job /\ j.pc = "finish" /\ j.checkout = c /\ j.snap = s
    BY <1>1, <2>4 DEF Job, Opt
  <2>. HIDE DEF c, k, j
  <2>8. PICK i \in Job : i = j
    BY <2>7
  <2>9. Informed(i)'
    BY <1>2, <2>4, <2>6, <2>7, <2>8 DEF Informed, Told, Named, stripe
  <2>. QED  BY <1>3, <2>3, <2>5, <2>8, <2>9, HandlerMoves DEF QueueInv
<1>5. CASE ~Claimable(k, FALSE)
  <2>1. UNCHANGED cases /\ Return(w)
    BY <1>5 DEF Claim
  <2>. QED  BY <1>2, <1>3, <2>1, TablesKept, HandlerReturns DEF QueueInv
<1>. QED  BY <1>4, <1>5

LEMMA ReconcileKeeps ==
  ASSUME QueueInv, NEW w \in Workers, NEW c \in Checkouts, NEW d \in Opt(Decision), NEW interactive,
         Reconcile(w, c, d, interactive)
  PROVE  QueueInv'
<1>. DEFINE k == cases[c]
            g == k.generation + 1
            j == [NoWork EXCEPT !.pc = "read", !.checkout = c, !.source = "stripe_api",
                                !.generation = g, !.decision = d]
<1>1. k # None /\ k \in Case
  BY DEF Reconcile, Claimable, QueueInv, TablesInv, Opt
<1>2. UNCHANGED <<purchases, orders, stripe, desk>> /\ Grows
  BY StillGrows DEF Reconcile
<1>3. cases' = [cases EXCEPT ![c] = Claimed(k)]
  BY DEF Reconcile, QueueInv, TablesInv
<1>4. TablesInv'
  BY <1>1, <1>2, <1>3, CaseRows, CaseMoves DEF QueueInv
<1>5. worker' = [worker EXCEPT ![w] = j]
  BY DEF Reconcile, Begin
<1>6. g \in Nat /\ provider[c] # None /\ c # None
  BY <1>1, CheckoutAssumption DEF Case, QueueInv, TablesInv, Evidence, Told
<1>. HIDE DEF g
<1>7. j \in Job /\ j.pc = "read" /\ j.checkout = c
  BY <1>6 DEF NoWork, Job, Opt
<1>. HIDE DEF j
<1>8. PICK i \in Job : i = j
  BY <1>7
<1>9. Informed(i)'
  BY <1>2, <1>6, <1>7, <1>8 DEF Informed, stripe
<1>. QED  BY <1>2, <1>4, <1>5, <1>8, <1>9, HandlerMoves DEF QueueInv

LEMMA DecideKeeps ==
  ASSUME QueueInv, NEW w \in Workers, NEW c \in Checkouts, NEW r \in References, NEW d \in Devices,
         NEW k \in Packs, Decide(w, c, r, d, k)
  PROVE  QueueInv'
<1>. DEFINE m == [reference |-> r, device |-> d, pack |-> k, seen |-> desk[c]]
<1>1. desk[c] \in Seen
  BY DEF Decide, QueueInv, TablesInv, Opt
<1>2. m \in Opt(Decision) /\ Reconcile(w, c, m, TRUE)
  BY <1>1 DEF Decide, Decision, Opt
<1>. QED  BY <1>2, ReconcileKeeps

LEMMA ReadCheckoutKeeps ==
  ASSUME QueueInv, NEW w \in Workers, ReadCheckout(w)
  PROVE  QueueInv'
<1>. DEFINE c == worker[w].checkout
            s == provider[c]
            j == [worker[w] EXCEPT !.snap = s, !.pc = "finish"]
<1>1. worker[w] \in Job /\ c \in Checkouts /\ s # None /\ worker[w].checkout = c
  BY HandlerAt DEF ReadCheckout, At
<1>2. s \in Snapshot /\ Told(c, s) /\ c # None
  BY <1>1, CheckoutAssumption DEF QueueInv, TablesInv, Evidence, Told, Opt
<1>3. UNCHANGED <<tables, stripe, desk>> /\ worker' = [worker EXCEPT ![w] = j]
  BY DEF ReadCheckout, QueueInv, HandlersInv
<1>4. TablesInv' /\ Grows
  BY <1>3, TablesKept, StillGrows DEF QueueInv, tables
<1>. HIDE DEF c, s
<1>5. j \in Job /\ j.pc = "finish" /\ j.checkout = c /\ j.snap = s
  BY <1>1, <1>2 DEF Job, Opt
<1>. HIDE DEF j
<1>6. PICK i \in Job : i = j
  BY <1>5
<1>7. Informed(i)'
  BY <1>1, <1>2, <1>3, <1>5, <1>6 DEF Informed, Told, Named, stripe, tables
<1>. QED  BY <1>3, <1>4, <1>6, <1>7, HandlerMoves DEF QueueInv

(* A handler that returns, having changed one case or nothing. *)
LEMMA ReturnKeeps ==
  ASSUME QueueInv, NEW w \in Workers, Return(w), UNCHANGED <<purchases, orders, stripe, desk>>,
         \/ UNCHANGED cases
         \/ \E c \in Checkouts : \E k \in Case : /\ cases[c] # None /\ k.signed = cases[c].signed
                                                 /\ cases' = [cases EXCEPT ![c] = k]
  PROVE  QueueInv'
<1>1. TablesInv'
  BY TablesKept, CaseMoves DEF QueueInv
<1>. QED  BY <1>1, StillGrows, HandlerReturns DEF QueueInv

LEMMA HeldCase ==
  ASSUME QueueInv, NEW w \in Workers, worker[w].pc # "idle", Holds(w)
  PROVE  /\ worker[w].checkout \in Checkouts
         /\ cases[worker[w].checkout] # None /\ cases[worker[w].checkout] \in Case
BY HandlerAt DEF Holds, QueueInv, TablesInv, Opt

LEMMA ObservedRow ==
  ASSUME QueueInv, NEW w \in Workers, At(w, "finish"), Holds(w)
  PROVE  Observed(w) \in Case /\ Observed(w).signed = cases[worker[w].checkout].signed
<1>. DEFINE s == worker[w].snap
            p == PurchaseOf(s)
            k == cases[worker[w].checkout]
            x == worker[w].source
            resolved == CASE p # None -> p.device
                          [] p = None /\ DeviceOf(k.signed) # None -> DeviceOf(k.signed)
                          [] OTHER -> DeviceOf(s)
<1>1. k \in Case /\ s \in Snapshot /\ x \in Opt({"signed_event", "stripe_api"})
  BY HandlerAt, HeldCase DEF At, Job
<1>2. k.signed \in Snapshot
  BY <1>1 DEF Case
<1>3. \A z \in Snapshot : DeviceOf(z) \in Opt(Devices)
  BY DEF DeviceOf, Exists, Snapshot, Opt
<1>4. p # None => p.device \in Devices
  BY <1>1, CheckoutAssumption DEF PurchaseOf, QueueInv, TablesInv, Opt, Purchase, Snapshot
<1>5. resolved \in Opt(Devices)
  <2>1. CASE p # None
    BY <2>1, <1>4 DEF Opt
  <2>2. CASE p = None
    <3>1. resolved \in {DeviceOf(k.signed), DeviceOf(s)}
      BY <2>2
    <3>. QED  BY <3>1, <1>1, <1>2, <1>3
  <2>. QED  BY <2>1, <2>2
<1>6. Observed(w) = [k EXCEPT !.observed = s, !.source = x, !.resolved = resolved]
  BY DEF Observed
<1>. HIDE DEF s, p, k, x, resolved
<1>7. Observed(w) \in Case /\ Observed(w).signed = k.signed
  BY <1>1, <1>5, <1>6 DEF Case, Opt
<1>. QED  BY <1>7 DEF k

LEMMA FinishReviewKeeps ==
  ASSUME QueueInv, NEW w \in Workers, FinishReview(w)
  PROVE  QueueInv'
<1>. DEFINE c == worker[w].checkout
            s == worker[w].snap
            x == worker[w].source
            reason == Evaluate(c, s, worker[w].decision)
            read == [cases[c] EXCEPT !.observed = s, !.source = x]
<1>1. At(w, "finish") /\ Holds(w) /\ c \in Checkouts /\ cases[c] # None /\ cases[c] \in Case
  BY HeldCase DEF FinishReview, At
<1>2. s \in Snapshot /\ x \in Opt({"signed_event", "stripe_api"})
  BY <1>1, HandlerAt DEF At, Job
<1>3. UNCHANGED <<purchases, orders, stripe, desk>> /\ Return(w)
  BY DEF FinishReview
<1>4. PICK k \in Case : k.signed = cases[c].signed /\ cases' = [cases EXCEPT ![c] = k]
  <2>1. CASE Outdated(w)
    <3>1. cases' = [cases EXCEPT ![c] = Reviewed(read, "review_changed")]
      BY <1>1, <2>1 DEF FinishReview, QueueInv, TablesInv
    <3>2. read \in Case /\ read.signed = cases[c].signed
      <4>. HIDE DEF s, x, c
      <4>. QED  BY <1>1, <1>2 DEF Case, Opt
    <3>. HIDE DEF read
    <3>. QED  BY <3>1, <3>2, CaseRows DEF Reasons
  <2>2. CASE ~Outdated(w)
    <3>1. cases' = [cases EXCEPT ![c] = Reviewed(Observed(w), reason)]
      BY <1>1, <2>2 DEF FinishReview, QueueInv, TablesInv
    <3>2. reason \in Reasons
      <4>1. reason # None
        BY <2>2 DEF FinishReview
      <4>. QED  BY <4>1, EvaluateRange DEF Opt
    <3>. HIDE DEF reason
    <3>. QED  BY <1>1, <3>1, <3>2, CaseRows, ObservedRow
  <2>. QED  BY <2>1, <2>2
<1>. QED  BY <1>1, <1>3, <1>4, ReturnKeeps

LEMMA FinishStaleKeeps ==
  ASSUME QueueInv, NEW w \in Workers, FinishStale(w)
  PROVE  QueueInv'
BY ReturnKeeps DEF FinishStale, tables

LEMMA FailsKeeps ==
  ASSUME QueueInv, NEW w \in Workers, Fails(w)
  PROVE  QueueInv'
<1>. DEFINE j == [worker[w] EXCEPT !.pc = "defer"]
<1>1. worker[w].pc \in {"read", "finish"} /\ UNCHANGED <<tables, stripe, desk>> /\ Goto(w, "defer")
  BY DEF Fails, At
<1>2. worker[w] \in Job /\ worker[w].checkout \in Checkouts /\ provider[worker[w].checkout] # None
  BY <1>1, HandlerAt
<1>3. worker' = [worker EXCEPT ![w] = j]
  BY <1>1 DEF Goto, QueueInv, HandlersInv
<1>4. TablesInv' /\ Grows
  BY <1>1, TablesKept, StillGrows DEF QueueInv, tables
<1>5. j \in Job /\ j.pc = "defer" /\ j.checkout = worker[w].checkout
  BY <1>2 DEF Job
<1>6. worker[w].checkout # None
  BY <1>2, CheckoutAssumption
<1>. HIDE DEF j
<1>7. PICK i \in Job : i = j
  BY <1>5
<1>8. Informed(i)'
  BY <1>1, <1>2, <1>5, <1>6, <1>7 DEF Informed, stripe
<1>. QED  BY <1>3, <1>4, <1>7, <1>8, HandlerMoves DEF QueueInv

LEMMA DeferKeeps ==
  ASSUME QueueInv, NEW w \in Workers, Defer(w)
  PROVE  QueueInv'
<1>. DEFINE c == worker[w].checkout
<1>1. UNCHANGED <<purchases, orders, stripe, desk>> /\ Return(w)
  BY DEF Defer
<1>2. CASE Holds(w)
  <2>1. c \in Checkouts /\ cases[c] # None /\ cases[c] \in Case
    BY <1>2, HeldCase DEF Defer, At
  <2>2. cases' = [cases EXCEPT ![c] = Reviewed(cases[c], "provider_unavailable")]
    BY <1>2, <2>1 DEF Defer, QueueInv, TablesInv
  <2>3. Reviewed(cases[c], "provider_unavailable") \in Case
        /\ Reviewed(cases[c], "provider_unavailable").signed = cases[c].signed
    BY <2>1, CaseRows DEF Reasons
  <2>. QED  BY <1>1, <2>1, <2>2, <2>3, ReturnKeeps
<1>3. CASE ~Holds(w)
  <2>1. UNCHANGED cases
    BY <1>3 DEF Defer
  <2>. QED  BY <1>1, <2>1, ReturnKeeps
<1>. QED  BY <1>2, <1>3

LEMMA LostKeeps ==
  ASSUME QueueInv, NEW w \in Workers, Lost(w)
  PROVE  QueueInv'
BY ReturnKeeps DEF Lost, tables

(* Time passes: a retry is due, a lease is over. *)
LEMMA DueKeeps ==
  ASSUME QueueInv, NEW c \in Checkouts, cases[c] # None, cases' = [cases EXCEPT ![c].retry = "due"],
         UNCHANGED <<purchases, orders, stripe, desk, worker>>
  PROVE  QueueInv'
<1>. DEFINE k == [cases[c] EXCEPT !.retry = "due"]
<1>1. cases[c] \in Case
  BY DEF QueueInv, TablesInv, Opt
<1>2. k \in Case /\ k.signed = cases[c].signed
  BY <1>1 DEF Case, Opt
<1>3. cases' = [cases EXCEPT ![c] = k]
  BY DEF QueueInv, TablesInv
<1>. HIDE DEF k
<1>4. TablesInv'
  BY <1>2, <1>3, CaseMoves DEF QueueInv
<1>. QED  BY <1>4, StillGrows, HandlersKept DEF QueueInv

-----------------------------------------------------------------------------
(* The credit. *)

LEMMA CreditFacts ==
  ASSUME QueueInv, NEW w \in Workers, FinishCredit(w)
  PROVE  LET c == worker[w].checkout
             s == worker[w].snap
             o == cases[c].signed
             order == OrderFor(c, s, worker[w].decision)
         IN /\ c \in Checkouts /\ cases[c] # None /\ cases[c] \in Case
            /\ s \in Snapshot /\ provider[c] # None /\ provider[c].paid
            /\ order \in Order
            /\ order.purchase = IF PurchaseOf(s) = None THEN None ELSE s.purchase
            /\ orders[c] = None /\ order.purchase # None => ~purchases[order.purchase].consumed
            /\ DeviceOf(o) # None => order.device = o.device
            /\ PurchaseOf(o) # None => order.purchase = o.purchase
            /\ o.money # None => order.money = o.money
<1>. DEFINE c == worker[w].checkout
            s == worker[w].snap
            d == worker[w].decision
            o == cases[c].signed
            order == OrderFor(c, s, d)
            p == PurchaseOf(s)
<1>1. c \in Checkouts /\ cases[c] # None /\ cases[c] \in Case
  BY HeldCase DEF FinishCredit, At
<1>2. s \in Snapshot /\ Told(c, s) /\ d \in Opt(Decision)
  BY HandlerAt DEF FinishCredit, At, Job
<1>3. Evaluate(c, s, d) = None /\ Creditable(c, order)
  BY DEF FinishCredit
<1>4. EvidenceReason(c, s, d) = None
  BY <1>3 DEF Evaluate
<1>5. /\ s.paid /\ s.money # None
      /\ o.money \in {None, s.money} /\ o.purchase \in {None, s.purchase}
      /\ ~OtherDevice(c, s, d)
  BY <1>4, EvidenceClear
<1>6. orders[c] # None => ExistingReason(c, s, d) = None
  BY <1>3, <1>4 DEF Evaluate
<1>7. orders[c] = None /\ p # None => PurchaseReason(c, s, d) = None
  BY <1>3, <1>4 DEF Evaluate
<1>8. orders[c] = None /\ p = None => UnsealedReason(s, d) = None
  BY <1>3, <1>4 DEF Evaluate
<1>9. /\ s.money \in Nat /\ s.intent \in Opt(Checkouts) /\ s.purchase \in Opt(Purchases)
      /\ s.device \in Opt(Devices) /\ s.pack \in Opt(Packs)
  BY <1>2, <1>5 DEF Snapshot, Opt
<1>10. p # None => p \in Purchase /\ s.purchase # None /\ p = purchases[s.purchase]
  BY <1>9 DEF PurchaseOf, QueueInv, TablesInv, Opt
<1>11. PurchaseOf(o) # None => o.purchase = s.purchase /\ p # None
  BY <1>5 DEF PurchaseOf
<1>12. provider[c] # None /\ provider[c].paid
  BY <1>2, <1>5 DEF Told
<1>13. ASSUME orders[c] # None
       PROVE  /\ order \in Order
              /\ order.purchase = IF PurchaseOf(s) = None THEN None ELSE s.purchase
              /\ DeviceOf(o) # None => order.device = o.device
              /\ o.money # None => order.money = o.money
  <2>1. orders[c] \in Order
    BY <1>1, <1>13 DEF QueueInv, TablesInv, Opt
  <2>2. order = [orders[c] EXCEPT !.purchase = s.purchase]
    BY <1>13 DEF OrderFor
  <2>3. orders[c].money = s.money /\ (s.purchase # None => p # None)
    BY <1>6, <1>13, ExistingClear
  <2>4. order \in Order /\ order.purchase = s.purchase /\ order.device = orders[c].device
        /\ order.money = orders[c].money
    BY <2>1, <2>2, <1>9 DEF Order
  <2>5. order.purchase = IF p = None THEN None ELSE s.purchase
    BY <2>3, <2>4, <1>10
  <2>6. DeviceOf(o) # None => orders[c].device = o.device
    BY <1>1, <1>13 DEF QueueInv, TablesInv, BeneficiaryIsKept
  <2>. QED  BY <2>3, <2>4, <2>5, <2>6, <1>5
<1>14. ASSUME orders[c] = None
       PROVE  /\ order \in Order
              /\ order.purchase = IF PurchaseOf(s) = None THEN None ELSE s.purchase
              /\ order.purchase # None => ~purchases[order.purchase].consumed
              /\ DeviceOf(o) # None => order.device = o.device
              /\ o.money # None => order.money = o.money
  <2>. DEFINE b == Beneficiary(s, d)
  <2>1. order = [device |-> b.device, pack |-> b.pack, purchase |-> IF p = None THEN None ELSE s.purchase,
                 intent |-> s.intent, money |-> s.money]
    BY <1>14 DEF OrderFor
  <2>2. b.device \in Devices /\ b.pack \in Packs /\ (DeviceOf(o) # None => b.device = o.device)
    <3>1. CASE p # None
      <4>1. b = p
        BY <3>1 DEF Beneficiary
      <4>2. p.device \in Devices /\ p.pack \in Packs
        BY <3>1, <1>10, CheckoutAssumption DEF Purchase
      <4>3. DeviceOf(o) # None => p.device = o.device
        BY <3>1, <1>5 DEF OtherDevice, DeviceOf
      <4>. QED  BY <4>1, <4>2, <4>3
    <3>2. CASE p = None /\ d # None
      <4>1. b = d
        BY <3>2 DEF Beneficiary
      <4>2. d.device \in Devices /\ d.pack \in Packs
        BY <3>2, <1>2 DEF Opt, Decision
      <4>3. DeviceOf(o) # None => d.device = o.device
        BY <3>2, <1>5 DEF OtherDevice, DeviceOf
      <4>. QED  BY <4>1, <4>2, <4>3
    <3>3. CASE p = None /\ d = None
      <4>1. b = s
        BY <3>3 DEF Beneficiary
      <4>2. DeviceOf(s) # None /\ s.pack # None
        BY <3>3, <1>8, <1>14, UnsealedClear
      <4>3. DeviceOf(s) = s.device /\ s.device \in Devices
        BY <4>2, <1>9 DEF DeviceOf, Exists, Opt
      <4>4. DeviceOf(o) # None => DeviceOf(s) = DeviceOf(o)
        BY <4>2, <1>5 DEF OtherDevice
      <4>5. DeviceOf(o) # None => DeviceOf(o) = o.device
        BY DEF DeviceOf
      <4>6. s.pack \in Packs
        BY <4>2, <1>9 DEF Opt
      <4>. QED  BY <4>1, <4>3, <4>4, <4>5, <4>6
    <3>. QED  BY <3>1, <3>2, <3>3
  <2>3. p # None => ~p.consumed
    BY <1>7, <1>14, PurchaseClear
  <2>. HIDE DEF b
  <2>4. order \in Order
    <3>1. (IF p = None THEN None ELSE s.purchase) \in Opt(Purchases)
      BY <1>9 DEF Opt
    <3>. QED  BY <2>1, <2>2, <3>1, <1>9 DEF Order
  <2>5. order.purchase = (IF p = None THEN None ELSE s.purchase) /\ order.device = b.device /\ order.money = s.money
    BY <2>1
  <2>6. order.purchase # None => ~purchases[order.purchase].consumed
    BY <2>3, <2>5, <1>10
  <2>. QED  BY <2>2, <2>4, <2>5, <2>6, <1>5
<1>15. PurchaseOf(o) # None => order.purchase = o.purchase
  BY <1>11, <1>13, <1>14
<1>. QED  BY <1>1, <1>2, <1>12, <1>13, <1>14, <1>15

(* The purchase of the order is bound to this Checkout and consumed; no other purchase changes. *)
LEMMA ConsumedRow ==
  ASSUME QueueInv, NEW w \in Workers, FinishCredit(w)
  PROVE  LET c == worker[w].checkout
             order == OrderFor(c, worker[w].snap, worker[w].decision)
             r == order.purchase
         IN /\ r = None => purchases' = purchases
            /\ r # None =>
                 /\ r \in Purchases /\ purchases[r] # None
                 /\ purchases'[r] \in Purchase
                 /\ purchases'[r].consumed /\ purchases'[r].checkout = c /\ purchases[r].checkout \in {None, c}
                 /\ purchases'[r].device = order.device /\ purchases'[r].pack = order.pack
                 /\ purchases'[r].money = order.money
                 /\ purchases' \in [Purchases -> Opt(Purchase)]
                 /\ \A x \in Purchases : x # r => purchases'[x] = purchases[x]
<1>. DEFINE c == worker[w].checkout
            order == OrderFor(c, worker[w].snap, worker[w].decision)
            r == order.purchase
            s == worker[w].snap
<1>1. c \in Checkouts /\ order \in Order /\ s \in Snapshot /\ r = IF PurchaseOf(s) = None THEN None ELSE s.purchase
  BY CreditFacts
<1>2. Creditable(c, order) /\ purchases' = Consumed(c, order)
  BY DEF FinishCredit
<1>3. CASE r = None
  BY <1>2, <1>3 DEF Consumed
<1>4. CASE r # None
  <2>1. r \in Purchases /\ r = s.purchase
    BY <1>1, <1>4 DEF Order, Opt
  <2>2. purchases[r] # None /\ purchases[r] \in Purchase
    BY <1>1, <1>4, <2>1 DEF PurchaseOf, QueueInv, TablesInv, Opt
  <2>. DEFINE b == IF purchases[r].checkout = None THEN c ELSE purchases[r].checkout
              linked == [purchases[r] EXCEPT !.checkout = b]
              q == [linked EXCEPT !.consumed = TRUE]
  <2>3. b \in Checkouts
    BY <1>1, <2>2 DEF Purchase, Opt
  <2>4. Linked(c, order) = [purchases EXCEPT ![r] = linked]
    BY <1>4, <2>1 DEF Linked, QueueInv, TablesInv
  <2>5. Consumed(c, order) = [purchases EXCEPT ![r] = q]
    BY <1>4, <2>1, <2>4 DEF Consumed, QueueInv, TablesInv
  <2>6. Linked(c, order)[r] = linked
    BY <2>1, <2>4 DEF QueueInv, TablesInv
  <2>7. linked.device = order.device /\ linked.checkout = c /\ linked.money = order.money /\ linked.pack = order.pack
    BY <1>2, <1>4, <2>6 DEF Creditable
  <2>8. linked \in Purchase /\ linked.checkout = b
    <3>. HIDE DEF b, r
    <3>. QED  BY <2>2, <2>3 DEF Purchase, Opt
  <2>9. q \in Purchase /\ q.consumed /\ q.checkout = linked.checkout /\ q.device = linked.device
        /\ q.pack = linked.pack /\ q.money = linked.money
    <3>. HIDE DEF linked
    <3>. QED  BY <2>8 DEF Purchase
  <2>10. purchases[r].checkout \in {None, c}
    BY <2>7, <2>8
  <2>. HIDE DEF q, linked, b, r, c, order, s
  <2>11. /\ purchases'[r] = q /\ purchases' \in [Purchases -> Opt(Purchase)]
         /\ \A x \in Purchases : x # r => purchases'[x] = purchases[x]
    BY <1>2, <2>1, <2>5, <2>9 DEF QueueInv, TablesInv, Opt
  <2>12. purchases'[r] \in Purchase /\ purchases'[r].consumed /\ purchases'[r].checkout = c
         /\ purchases'[r].device = order.device /\ purchases'[r].pack = order.pack
         /\ purchases'[r].money = order.money
    BY <2>7, <2>9, <2>11
  <2>13. /\ r \in Purchases /\ purchases[r] # None
         /\ purchases'[r] \in Purchase
         /\ purchases'[r].consumed /\ purchases'[r].checkout = c /\ purchases[r].checkout \in {None, c}
         /\ purchases'[r].device = order.device /\ purchases'[r].pack = order.pack
         /\ purchases'[r].money = order.money
         /\ purchases' \in [Purchases -> Opt(Purchase)]
         /\ \A x \in Purchases : x # r => purchases'[x] = purchases[x]
    BY <2>1, <2>2, <2>10, <2>11, <2>12
  <2>. QED  BY <1>4, <2>13 DEF r, c, order
<1>. QED  BY <1>3, <1>4

LEMMA FinishCreditKeeps ==
  ASSUME QueueInv, NEW w \in Workers, FinishCredit(w)
  PROVE  QueueInv'
<1>. DEFINE c == worker[w].checkout
            s == worker[w].snap
            d == worker[w].decision
            order == OrderFor(c, s, d)
            r == order.purchase
            o == cases[c].signed
            verdict == IF d = None THEN Observed(w).decision
                       ELSE [reference |-> d.reference, device |-> d.device, pack |-> d.pack]
            k == [Observed(w) EXCEPT !.state = "credited", !.reason = None, !.retry = None, !.decision = verdict]
<1>1. /\ c \in Checkouts /\ cases[c] # None /\ cases[c] \in Case
      /\ s \in Snapshot /\ provider[c] # None /\ provider[c].paid
      /\ order \in Order
  BY CreditFacts
<1>2. /\ DeviceOf(o) # None => order.device = o.device
      /\ PurchaseOf(o) # None => order.purchase = o.purchase
      /\ o.money # None => order.money = o.money
  BY CreditFacts
<1>3. /\ r = None => purchases' = purchases
      /\ r # None =>
           /\ r \in Purchases /\ purchases[r] # None
           /\ purchases'[r] \in Purchase
           /\ purchases'[r].consumed /\ purchases'[r].checkout = c /\ purchases[r].checkout \in {None, c}
           /\ purchases'[r].device = order.device /\ purchases'[r].pack = order.pack
           /\ purchases'[r].money = order.money
           /\ purchases' \in [Purchases -> Opt(Purchase)]
           /\ \A x \in Purchases : x # r => purchases'[x] = purchases[x]
  BY ConsumedRow
<1>4. k \in Case /\ k.signed = o
  <2>1. Observed(w) \in Case /\ Observed(w).signed = o
    BY ObservedRow DEF FinishCredit
  <2>2. verdict \in Opt(Verdict)
    <3>1. d \in Opt(Decision)
      BY HandlerAt DEF FinishCredit, At, Job
    <3>2. d # None => [reference |-> d.reference, device |-> d.device, pack |-> d.pack] \in Verdict
      BY <3>1 DEF Opt, Decision, Verdict
    <3>3. Observed(w).decision \in Opt(Verdict)
      BY <2>1 DEF Case
    <3>. QED  BY <3>2, <3>3 DEF Opt
  <2>. HIDE DEF verdict, c
  <2>. QED  BY <2>1, <2>2 DEF Case, Opt
<1>5. /\ orders' = [orders EXCEPT ![c] = order] /\ Creditable(c, order)
      /\ UNCHANGED <<stripe, desk>> /\ Return(w)
  BY DEF FinishCredit
<1>6. cases' = [cases EXCEPT ![c] = k]
  BY DEF FinishCredit
<1>7. orders[c] # None => orders[c].purchase \in {None, r}
  BY <1>5 DEF Creditable
<1>8. k # None /\ order # None
  BY <1>1, <1>4, NoneAssumption
<1>. HIDE DEF k, order, r, c, s, d
<1>9. /\ cases' \in [Checkouts -> Opt(Case)] /\ cases'[c] = k
      /\ \A b \in Checkouts : b # c => cases'[b] = cases[b]
  BY <1>1, <1>4, <1>6 DEF QueueInv, TablesInv, Opt
<1>10. /\ orders' \in [Checkouts -> Opt(Order)] /\ orders'[c] = order
       /\ \A b \in Checkouts : b # c => orders'[b] = orders[b]
  BY <1>1, <1>5 DEF QueueInv, TablesInv, Opt
<1>11. purchases' \in [Purchases -> Opt(Purchase)]
  BY <1>3 DEF QueueInv, TablesInv
<1>12. \A p \in Purchases : purchases[p] # None <=> purchases'[p] # None
  BY <1>3, NoneAssumption
<1>13. Grows
  BY <1>5, <1>12 DEF Grows, stripe
<1>14. Evidence'
  <2>1. \A b \in Checkouts : cases'[b] # None => cases[b] # None /\ cases'[b].signed = cases[b].signed
    BY <1>1, <1>4, <1>9
  <2>2. \A b \in Checkouts : cases[b] # None => cases[b].signed \in Snapshot /\ Told(b, cases[b].signed)
    BY DEF QueueInv, TablesInv, Evidence, Opt, Case
  <2>3. \A b \in Checkouts : provider[b] # None => provider[b] \in Snapshot /\ Named(provider[b])
    BY DEF QueueInv, TablesInv, Evidence, Opt
  <2>4. \A e \in Events : sent[e] # None => sent[e].snap \in Snapshot /\ Told(sent[e].checkout, sent[e].snap)
    BY DEF QueueInv, TablesInv, Evidence, Opt, Sent
  <2>5. \A z \in Snapshot : Named(z) => Named(z)'
    BY <1>12 DEF Named, Snapshot, Opt
  <2>6. \A b \in Checkouts : (cases[b] # None => Told(b, cases[b].signed))'
    BY <2>1, <2>2, <2>5, <1>5 DEF Told, Named, stripe
  <2>7. \A e \in Events : (sent[e] # None => Told(sent[e].checkout, sent[e].snap))'
    BY <2>4, <2>5, <1>5 DEF Told, Named, stripe
  <2>8. \A b \in Checkouts : (provider[b] # None => Named(provider[b]))'
    BY <2>3, <2>5, <1>5 DEF Named, stripe
  <2>9. \A p \in Purchases : (made[p] # None => provider[made[p]] # None)'
    BY <1>5 DEF QueueInv, TablesInv, Evidence, stripe
  <2>. QED  BY <2>6, <2>7, <2>8, <2>9 DEF Evidence
<1>15. Attached'
  BY <1>1, <1>3, <1>5 DEF QueueInv, TablesInv, Attached, stripe
<1>16. OrdersHaveCases'
  BY <1>1, <1>5, <1>8, <1>9, <1>10 DEF QueueInv, TablesInv, OrdersHaveCases, stripe
<1>17. ASSUME NEW b \in Checkouts, orders'[b] # None, orders'[b].purchase # None
       PROVE  LET p == purchases'[orders'[b].purchase]
              IN /\ p # None /\ p.consumed /\ p.checkout = b
                 /\ p.device = orders'[b].device /\ p.pack = orders'[b].pack /\ p.money = orders'[b].money
  <2>1. CASE b = c
    <3>1. orders'[b] = order /\ r # None /\ orders'[b].purchase = r
      BY <2>1, <1>10, <1>17 DEF r
    <3>. QED  BY <2>1, <3>1, <1>3, NoneAssumption
  <2>2. CASE b # c
    <3>1. orders'[b] = orders[b] /\ orders[b] \in Order
      BY <2>2, <1>10, <1>17 DEF QueueInv, TablesInv, Opt
    <3>2. orders[b].purchase \in Purchases
      BY <3>1, <1>17 DEF Order, Opt
    <3>3. /\ purchases[orders[b].purchase] # None /\ purchases[orders[b].purchase].consumed
          /\ purchases[orders[b].purchase].checkout = b
          /\ purchases[orders[b].purchase].device = orders[b].device
          /\ purchases[orders[b].purchase].pack = orders[b].pack
          /\ purchases[orders[b].purchase].money = orders[b].money
      BY <3>1, <1>17 DEF QueueInv, TablesInv, OrdersMatchPurchases
    <3>4. b # None
      BY CheckoutAssumption
    <3>5. orders[b].purchase # r
      <4>1. r # None => purchases[r].checkout \in {None, c}
        BY <1>3
      <4>2. orders[b].purchase # None
        BY <3>2, CheckoutAssumption
      <4>. QED  BY <2>2, <3>3, <3>4, <4>1, <4>2
    <3>6. purchases'[orders[b].purchase] = purchases[orders[b].purchase]
      BY <3>2, <3>5, <1>3
    <3>. QED  BY <3>1, <3>3, <3>6
  <2>. QED  BY <2>1, <2>2
<1>18. ASSUME NEW p \in Purchases, purchases'[p] # None, purchases'[p].consumed
       PROVE  \E b \in Checkouts : orders'[b] # None /\ orders'[b].purchase = p
  <2>1. CASE p = r
    BY <2>1, <1>1, <1>8, <1>10 DEF r
  <2>2. CASE p # r
    <3>1. purchases[p] # None /\ purchases[p].consumed
      BY <2>2, <1>3, <1>18
    <3>2. PICK b \in Checkouts : orders[b] # None /\ orders[b].purchase = p
      BY <3>1 DEF QueueInv, TablesInv, OrdersMatchPurchases
    <3>3. p # None
      BY CheckoutAssumption
    <3>4. b # c
      BY <2>2, <3>2, <3>3, <1>7
    <3>. QED  BY <3>2, <3>4, <1>10
  <2>. QED  BY <2>1, <2>2
<1>19. OrdersMatchPurchases'
  BY <1>17, <1>18 DEF OrdersMatchPurchases
<1>20. ASSUME NEW b \in Checkouts, orders'[b] # None
       PROVE  /\ DeviceOf(cases'[b].signed) # None => orders'[b].device = cases'[b].signed.device
              /\ PurchaseOf(cases[b].signed)' # None => orders'[b].purchase = cases'[b].signed.purchase
              /\ cases'[b].signed.money # None => orders'[b].money = cases'[b].signed.money
  <2>1. cases[b] # None /\ cases'[b].signed = cases[b].signed
    BY <1>1, <1>4, <1>9, <1>10, <1>20 DEF QueueInv, TablesInv, OrdersHaveCases
  <2>2. cases[b].signed.purchase \in Opt(Purchases)
    BY <2>1 DEF QueueInv, TablesInv, Opt, Case, Snapshot
  <2>3. PurchaseOf(cases[b].signed)' # None => PurchaseOf(cases[b].signed) # None
    BY <2>1, <2>2, <1>12 DEF PurchaseOf, Opt
  <2>4. CASE b = c
    BY <2>1, <2>3, <2>4, <1>2, <1>10
  <2>5. CASE b # c
    BY <2>1, <2>3, <2>5, <1>10, <1>20 DEF QueueInv, TablesInv, BeneficiaryIsKept
  <2>. QED  BY <2>4, <2>5
<1>21. BeneficiaryIsKept'
  BY <1>20 DEF BeneficiaryIsKept, DeviceOf
<1>22. TablesInv'
  BY <1>5, <1>9, <1>10, <1>11, <1>14, <1>15, <1>16, <1>19, <1>21 DEF QueueInv, TablesInv, stripe
<1>23. HandlersInv'
  BY <1>5, <1>13, HandlerReturns DEF QueueInv
<1>. QED  BY <1>22, <1>23 DEF QueueInv

-----------------------------------------------------------------------------
(* The whole. *)

LEMMA Starts ==
  ASSUME Init
  PROVE  QueueInv
<1>1. NoWork \in Job /\ Informed(NoWork)
  BY DEF NoWork, Job, Opt, Informed
<1>2. TablesInv
  BY DEF Init, TablesInv, Opt, Evidence, Attached, OrdersHaveCases, OrdersMatchPurchases, BeneficiaryIsKept
<1>3. HandlersInv
  BY <1>1 DEF Init, HandlersInv
<1>. QED  BY <1>2, <1>3 DEF QueueInv

LEMMA QueueStep ==
  ASSUME QueueInv, [Next]_vars
  PROVE  QueueInv'
<1>1. ASSUME NEW p \in Purchases, NEW d \in Registered, NEW k \in Packs, CreatePurchase(p, d, k)
      PROVE  QueueInv'
  BY <1>1, CreatePurchaseKeeps
<1>2. ASSUME NEW p \in Purchases, PurchaseExpires(p) PROVE QueueInv'
  BY <1>2, PurchaseExpiresKeeps
<1>3. ASSUME NEW c \in Checkouts, NEW d \in Registered, NEW k \in Packs, LegacyCheckout(c, d, k)
      PROVE  QueueInv'
  BY <1>3, LegacyCheckoutKeeps
<1>4. ASSUME NEW c \in Checkouts, Pay(c) \/ Inspect(c) PROVE QueueInv'
  BY <1>4, PayKeeps, InspectKeeps
<1>5. ASSUME NEW c \in Checkouts, RetryDue(c) \/ LeaseOver(c) PROVE QueueInv'
  BY <1>5, DueKeeps DEF RetryDue, LeaseOver
<1>6. ASSUME NEW c \in Checkouts, NEW m \in Edits, EditMetadata(c, m) PROVE QueueInv'
  BY <1>6, EditMetadataKeeps
<1>7. ASSUME NEW e \in Events, NEW c \in Checkouts, Emit(e, c) PROVE QueueInv'
  BY <1>7, EmitKeeps
<1>8. ASSUME NEW w \in Workers, NEW p \in Purchases, NEW c \in Checkouts, StartCheckout(w, p, c)
      PROVE  QueueInv'
  BY <1>8, StartCheckoutKeeps
<1>9. ASSUME NEW w \in Workers, NEW p \in Purchases, Poll(w, p) PROVE QueueInv'
  BY <1>9, PollKeeps
<1>10. ASSUME NEW w \in Workers, NEW e \in Events, Webhook(w, e) PROVE QueueInv'
  BY <1>10, WebhookKeeps
<1>11. ASSUME NEW w \in Workers, NEW c \in Checkouts, Sweep(w, c) \/ Recheck(w, c) PROVE QueueInv'
  <2>1. None \in Opt(Decision)
    BY DEF Opt
  <2>. QED  BY <1>11, <2>1, ReconcileKeeps DEF Sweep, Recheck
<1>12. ASSUME NEW w \in Workers, NEW c \in Checkouts, NEW r \in References, NEW d \in Devices, NEW k \in Packs,
              Decide(w, c, r, d, k)
       PROVE  QueueInv'
  BY <1>12, DecideKeeps
<1>13. ASSUME NEW w \in Workers, Attach(w) \/ ReceiveRead(w) \/ Claim(w) \/ ReadCheckout(w) PROVE QueueInv'
  BY <1>13, AttachKeeps, ReceiveReadKeeps, ClaimKeeps, ReadCheckoutKeeps
<1>14. ASSUME NEW w \in Workers, FinishStale(w) \/ FinishReview(w) \/ FinishCredit(w) PROVE QueueInv'
  BY <1>14, FinishStaleKeeps, FinishReviewKeeps, FinishCreditKeeps
<1>15. ASSUME NEW w \in Workers, Fails(w) \/ Defer(w) \/ Lost(w) PROVE QueueInv'
  BY <1>15, FailsKeeps, DeferKeeps, LostKeeps
<1>16. CASE UNCHANGED vars
  <2>1. TablesInv' /\ Grows
    BY <1>16, TablesKept, StillGrows DEF vars, tables, QueueInv
  <2>. QED  BY <1>16, <2>1, HandlersKept DEF vars, QueueInv
<1>. QED  BY <1>1, <1>2, <1>3, <1>4, <1>5, <1>6, <1>7, <1>8, <1>9, <1>10, <1>11, <1>12, <1>13, <1>14, <1>15, <1>16
             DEF Next

(* Cases, evidence, orders and purchases fit together, and every handler works on what it was told. *)
THEOREM QueueInvariant == Spec => []QueueInv
BY Starts, QueueStep, PTL DEF Spec

(* A purchase is consumed by exactly the order that granted it, and both tell of the same  *)
(* device, pack, money and Checkout.                                                       *)
THEOREM OrdersMatch == Spec => []OrdersMatchPurchases
<1>1. QueueInv => OrdersMatchPurchases
  BY DEF QueueInv, TablesInv
<1>. QED  BY <1>1, QueueInvariant, PTL

(* The questions of a payment go to the device and the purchase its first evidence named. *)
THEOREM BeneficiaryKept == Spec => []BeneficiaryIsKept
<1>1. QueueInv => BeneficiaryIsKept
  BY DEF QueueInv, TablesInv
<1>. QED  BY <1>1, QueueInvariant, PTL

-----------------------------------------------------------------------------
(* The promise: each step collects a payment, grants one, attributes a grant, or changes nothing of it. *)

Paid == {c \in Checkouts : provider[c] # None /\ provider[c].paid}
GrantOf(x) == [device |-> x.device, pack |-> x.pack, purchase |-> x.purchase]
Grants == [c \in Checkouts |-> IF orders[c] = None THEN None
             ELSE [device |-> orders[c].device, pack |-> orders[c].pack, purchase |-> orders[c].purchase]]
Closed == {p \in Purchases : purchases[p] # None /\ purchases[p].consumed}

LEMMA PromiseStutters ==
  ASSUME UNCHANGED orders, Paid' = Paid, Closed' = Closed
  PROVE  UNCHANGED Promise!vars
<1>1. Grants' = Grants
  BY DEF Grants
<1>. QED  BY <1>1 DEF Promise!vars, Paid, Grants, Closed

LEMMA PaidStays ==
  ASSUME UNCHANGED stripe
  PROVE  Paid' = Paid
BY DEF Paid, stripe

LEMMA ClosedStays ==
  ASSUME UNCHANGED purchases
  PROVE  Closed' = Closed
BY DEF Closed

LEMMA PurchasesKeepPromise ==
  ASSUME QueueInv, NEW p \in Purchases, UNCHANGED <<orders, stripe>>,
         \/ \E d \in Registered, k \in Packs : CreatePurchase(p, d, k)
         \/ PurchaseExpires(p)
         \/ \E c \in Checkouts : purchases[p] # None /\ purchases' = [purchases EXCEPT ![p].checkout = c]
  PROVE  UNCHANGED Promise!vars
<1>1. purchases \in [Purchases -> Opt(Purchase)]
  BY DEF QueueInv, TablesInv
<1>2. ASSUME NEW x \in Purchases
      PROVE  (purchases'[x] # None /\ purchases'[x].consumed) <=> (purchases[x] # None /\ purchases[x].consumed)
  <2>1. CASE \E d \in Registered, k \in Packs : CreatePurchase(p, d, k)
    <3>1. PICK d \in Registered, k \in Packs : CreatePurchase(p, d, k)
      BY <2>1
    <3>2. x # p => purchases'[x] = purchases[x]
      BY <3>1, <1>1 DEF CreatePurchase
    <3>3. purchases[p] = None /\ ~purchases'[p].consumed
      BY <3>1, <1>1 DEF CreatePurchase
    <3>. QED  BY <3>2, <3>3
  <2>2. CASE PurchaseExpires(p)
    <3>. DEFINE q == [purchases[p] EXCEPT !.expired = TRUE]
    <3>1. purchases' = [purchases EXCEPT ![p] = q] /\ purchases[p] # None
      BY <2>2, <1>1 DEF PurchaseExpires
    <3>2. q \in Purchase /\ q.consumed = purchases[p].consumed
      BY <1>1, <3>1 DEF Opt, Purchase
    <3>. QED  BY <1>1, <3>1, <3>2, NoneAssumption
  <2>3. CASE \E c \in Checkouts : purchases[p] # None /\ purchases' = [purchases EXCEPT ![p].checkout = c]
    <3>1. PICK c \in Checkouts : purchases[p] # None /\ purchases' = [purchases EXCEPT ![p].checkout = c]
      BY <2>3
    <3>. DEFINE q == [purchases[p] EXCEPT !.checkout = c]
    <3>2. purchases' = [purchases EXCEPT ![p] = q]
      BY <1>1, <3>1
    <3>3. q \in Purchase /\ q.consumed = purchases[p].consumed
      BY <1>1, <3>1 DEF Opt, Purchase
    <3>. QED  BY <1>1, <3>1, <3>2, <3>3, NoneAssumption
  <2>. QED  BY <2>1, <2>2, <2>3
<1>3. Closed' = Closed
  BY <1>2 DEF Closed
<1>. QED  BY <1>3, PaidStays, PromiseStutters

LEMMA AttachKeepsPromise ==
  ASSUME QueueInv, NEW w \in Workers, Attach(w)
  PROVE  UNCHANGED Promise!vars
<1>1. worker[w] \in Job /\ Informed(worker[w]) /\ worker[w].pc = "attach"
  BY DEF QueueInv, HandlersInv, Attach, At
<1>2. /\ worker[w].checkout \in Checkouts /\ worker[w].purchase \in Purchases
      /\ purchases[worker[w].purchase] # None
  BY <1>1 DEF Informed, Job, Opt
<1>3. UNCHANGED <<orders, stripe>>
  BY DEF Attach
<1>4. CASE Attachable(worker[w].purchase, worker[w].checkout)
  BY <1>2, <1>3, <1>4, PurchasesKeepPromise DEF Attach
<1>5. CASE ~Attachable(worker[w].purchase, worker[w].checkout)
  <2>1. UNCHANGED purchases
    BY <1>5 DEF Attach
  <2>. QED  BY <1>3, <2>1, PaidStays, ClosedStays, PromiseStutters
<1>. QED  BY <1>4, <1>5

LEMMA CheckoutKeepsPromise ==
  ASSUME QueueInv, NEW c \in Checkouts, NEW s \in Snapshot, provider' = [provider EXCEPT ![c] = s],
         s.paid <=> (provider[c] # None /\ provider[c].paid), UNCHANGED <<purchases, orders>>
  PROVE  UNCHANGED Promise!vars
<1>1. provider'[c] = s /\ \A b \in Checkouts : b # c => provider'[b] = provider[b]
  BY DEF QueueInv, TablesInv
<1>2. Paid' = Paid
  BY <1>1, NoneAssumption DEF Paid
<1>. QED  BY <1>2, ClosedStays, PromiseStutters

LEMMA StartKeepsPromise ==
  ASSUME QueueInv, NEW w \in Workers, NEW p \in Purchases, NEW c \in Checkouts, StartCheckout(w, p, c)
  PROVE  UNCHANGED Promise!vars
<1>. DEFINE s == [Unpaid(purchases[p].pack) EXCEPT !.purchase = p]
<1>1. UNCHANGED <<purchases, orders>> /\ purchases[p] \in Purchase
  BY DEF StartCheckout, tables, QueueInv, TablesInv, Opt
<1>2. CASE made[p] # None
  <2>1. UNCHANGED provider
    BY <1>2 DEF StartCheckout
  <2>2. Paid' = Paid
    BY <2>1 DEF Paid
  <2>. QED  BY <1>1, <2>2, ClosedStays, PromiseStutters
<1>3. CASE made[p] = None
  <2>1. provider[c] = None /\ provider' = [provider EXCEPT ![c] = s]
    BY <1>3 DEF StartCheckout
  <2>2. s \in Snapshot
    BY <1>1, UnpaidRows DEF Purchase
  <2>3. ~s.paid
    BY DEF Unpaid
  <2>. HIDE DEF s
  <2>. QED  BY <1>1, <2>1, <2>2, <2>3, CheckoutKeepsPromise
<1>. QED  BY <1>2, <1>3

LEMMA LegacyKeepsPromise ==
  ASSUME QueueInv, NEW c \in Checkouts, NEW d \in Registered, NEW k \in Packs, LegacyCheckout(c, d, k)
  PROVE  UNCHANGED Promise!vars
<1>. DEFINE s == [Unpaid(k) EXCEPT !.device = d]
<1>1. provider[c] = None /\ provider' = [provider EXCEPT ![c] = s] /\ UNCHANGED <<purchases, orders>>
  BY DEF LegacyCheckout, tables
<1>2. s \in Snapshot
  BY UnpaidRows
<1>3. ~s.paid
  BY DEF Unpaid
<1>. HIDE DEF s
<1>. QED  BY <1>1, <1>2, <1>3, CheckoutKeepsPromise

LEMMA EditKeepsPromise ==
  ASSUME QueueInv, NEW c \in Checkouts, NEW m \in Edits, EditMetadata(c, m)
  PROVE  UNCHANGED Promise!vars
<1>1. provider[c] # None /\ provider[c] \in Snapshot /\ UNCHANGED <<purchases, orders>>
  BY DEF EditMetadata, tables, QueueInv, TablesInv, Opt
<1>2. /\ provider'[c] # None /\ (provider'[c].paid <=> provider[c].paid)
      /\ \A b \in Checkouts : b # c => provider'[b] = provider[b]
  <2>. DEFINE s == [provider[c] EXCEPT !.purchase = m.purchase, !.pack = m.pack, !.device = m.device,
                                       !.invalid = m.invalid]
  <2>1. provider' = [provider EXCEPT ![c] = s]
    BY DEF EditMetadata, QueueInv, TablesInv
  <2>2. s.paid = provider[c].paid
    BY <1>1 DEF Snapshot
  <2>4. s \in Snapshot
    BY <1>1, EditedRow
  <2>. HIDE DEF s
  <2>3. provider'[c] = s /\ \A b \in Checkouts : b # c => provider'[b] = provider[b]
    BY <2>1 DEF QueueInv, TablesInv
  <2>. QED  BY <2>2, <2>3, <2>4, NoneAssumption
<1>3. Paid' = Paid
  BY <1>1, <1>2 DEF Paid
<1>. QED  BY <1>1, <1>3, ClosedStays, PromiseStutters

LEMMA PayKeepsPromise ==
  ASSUME QueueInv, NEW c \in Checkouts, Pay(c)
  PROVE  Promise!Collect(c)
<1>. DEFINE s == [provider[c] EXCEPT !.paid = TRUE, !.intent = c]
<1>1. provider[c] # None /\ provider[c] \in Snapshot /\ UNCHANGED <<purchases, orders>>
  BY DEF Pay, tables, QueueInv, TablesInv, Opt
<1>2. s \in Snapshot /\ s.paid
  BY <1>1 DEF Snapshot, Opt
<1>3. provider' = [provider EXCEPT ![c] = s]
  BY DEF Pay, QueueInv, TablesInv
<1>. HIDE DEF s
<1>4. provider'[c] = s /\ s # None /\ \A b \in Checkouts : b # c => provider'[b] = provider[b]
  BY <1>2, <1>3, NoneAssumption DEF QueueInv, TablesInv
<1>5. Paid' = Paid \cup {c}
  BY <1>1, <1>2, <1>4 DEF Paid
<1>6. Grants' = Grants
  BY <1>1 DEF Grants
<1>. QED  BY <1>1, <1>5, <1>6, ClosedStays DEF Promise!Collect, Paid, Grants, Closed

LEMMA CreditKeepsPromise ==
  ASSUME QueueInv, NEW w \in Workers, FinishCredit(w)
  PROVE  [Promise!Next]_Promise!vars
<1>. DEFINE c == worker[w].checkout
            order == OrderFor(c, worker[w].snap, worker[w].decision)
            r == order.purchase
            g == GrantOf(order)
<1>1. /\ c \in Checkouts /\ order \in Order /\ c \in Paid
      /\ orders[c] = None /\ r # None => ~purchases[r].consumed
  BY CreditFacts DEF Paid
<1>2. /\ r = None => purchases' = purchases
      /\ r # None =>
           /\ r \in Purchases /\ purchases[r] # None /\ purchases'[r] # None
           /\ purchases'[r].consumed /\ purchases[r].checkout \in {None, c}
           /\ \A x \in Purchases : x # r => purchases'[x] = purchases[x]
  BY ConsumedRow, NoneAssumption
<1>3. orders' = [orders EXCEPT ![c] = order] /\ Creditable(c, order) /\ UNCHANGED stripe
  BY DEF FinishCredit
<1>4. Paid' = Paid
  BY <1>3, PaidStays
<1>. HIDE DEF c, order, r
<1>5. orders'[c] = order /\ order # None /\ \A b \in Checkouts : b # c => orders'[b] = orders[b]
  BY <1>1, <1>3, NoneAssumption DEF QueueInv, TablesInv
<1>6. Closed' = Closed \cup (IF r = None THEN {} ELSE {r})
  BY <1>2 DEF Closed
<1>7. Grants' = [Grants EXCEPT ![c] = g]
  BY <1>1, <1>5 DEF Grants, GrantOf
<1>8. g \in Promise!Grant /\ g # None /\ g.purchase = r
  BY <1>1, NoneAssumption DEF Promise!Grant, GrantOf, Order, Opt, r
<1>9. CASE orders[c] = None
  <2>1. Grants[c] = None
    BY <1>1, <1>9 DEF Grants
  <2>2. g.purchase \notin Closed
    BY <1>1, <1>8, <1>9, CheckoutAssumption DEF Closed
  <2>3. Promise!GrantOnce(c, g)
    BY <1>1, <1>4, <1>6, <1>7, <1>8, <2>1, <2>2 DEF Promise!GrantOnce, Promise!Closes, Paid, Grants, Closed
  <2>4. \E b \in Checkouts, h \in Promise!Grant : Promise!GrantOnce(b, h)
    BY <1>1, <1>8, <2>3 DEF Promise!GrantOnce
  <2>. QED  BY <2>4 DEF Promise!Next
<1>10. CASE orders[c] # None /\ orders[c].purchase = r
  <2>1. orders[c] \in Order /\ order = [orders[c] EXCEPT !.purchase = r]
    BY <1>1, <1>3, <1>10 DEF QueueInv, TablesInv, Opt, Creditable, r
  <2>2. UNCHANGED orders
    BY <1>1, <1>3, <1>10, <2>1 DEF Order, QueueInv, TablesInv
  <2>3. r # None => r \in Closed
    BY <1>1, <1>2, <1>10 DEF QueueInv, TablesInv, OrdersMatchPurchases, Closed
  <2>4. Closed' = Closed
    BY <1>6, <2>3
  <2>. QED  BY <1>4, <2>2, <2>4, PromiseStutters
<1>11. CASE orders[c] # None /\ orders[c].purchase # r
  <2>1. orders[c] \in Order /\ order = [orders[c] EXCEPT !.purchase = r] /\ orders[c].purchase = None /\ r # None
    BY <1>1, <1>3, <1>11 DEF QueueInv, TablesInv, Opt, Creditable, r
  <2>2. r \in Purchases /\ purchases[r].checkout \in {None, c} /\ purchases[r] # None
    BY <1>2, <2>1
  <2>3. r \notin Closed
    <3>1. SUFFICES ASSUME purchases[r].consumed PROVE FALSE
      BY DEF Closed
    <3>2. PICK b \in Checkouts : orders[b] # None /\ orders[b].purchase = r
      BY <2>2, <3>1 DEF QueueInv, TablesInv, OrdersMatchPurchases
    <3>3. purchases[r].checkout = b
      BY <2>1, <3>2 DEF QueueInv, TablesInv, OrdersMatchPurchases
    <3>4. b = c
      BY <2>2, <3>3, CheckoutAssumption
    <3>. QED  BY <2>1, <3>2, <3>4
  <2>4. Grants[c] = GrantOf(orders[c]) /\ Grants[c] # None
    BY <1>1, <1>11, <2>1, NoneAssumption DEF Grants, GrantOf, Order, Opt
  <2>5. Grants[c].purchase = None
    BY <2>1, <2>4 DEF GrantOf
  <2>6. order.device = orders[c].device /\ order.pack = orders[c].pack /\ order.purchase = r
    BY <2>1 DEF Order
  <2>7. g = [Grants[c] EXCEPT !.purchase = r]
    BY <2>4, <2>6 DEF GrantOf
  <2>8. Grants' = [Grants EXCEPT ![c].purchase = r]
    BY <1>1, <1>7, <2>7 DEF Grants
  <2>9. Promise!Attribute(c, r)
    BY <1>4, <1>6, <2>1, <2>3, <2>4, <2>5, <2>8 DEF Promise!Attribute, Paid, Grants, Closed
  <2>10. \E b \in Checkouts, p \in Purchases : Promise!Attribute(b, p)
    BY <1>1, <2>2, <2>9 DEF Promise!Attribute
  <2>. QED  BY <2>10 DEF Promise!Next
<1>. QED  BY <1>9, <1>10, <1>11

LEMMA PromiseStep ==
  ASSUME QueueInv, [Next]_vars
  PROVE  [Promise!Next]_Promise!vars
<1>1. ASSUME NEW p \in Purchases, PurchaseExpires(p) \/ \E d \in Registered, k \in Packs : CreatePurchase(p, d, k)
      PROVE  UNCHANGED Promise!vars
  <2>1. UNCHANGED <<orders, stripe>>
    BY <1>1 DEF CreatePurchase, PurchaseExpires
  <2>. QED  BY <1>1, <2>1, PurchasesKeepPromise
<1>2. ASSUME NEW c \in Checkouts, NEW d \in Registered, NEW k \in Packs, LegacyCheckout(c, d, k)
      PROVE  UNCHANGED Promise!vars
  BY <1>2, LegacyKeepsPromise
<1>3. ASSUME NEW c \in Checkouts, Pay(c) PROVE Promise!Next
  BY <1>3, PayKeepsPromise DEF Promise!Next
<1>4. ASSUME NEW c \in Checkouts, Inspect(c) \/ RetryDue(c) \/ LeaseOver(c) PROVE UNCHANGED Promise!vars
  <2>1. UNCHANGED <<orders, purchases, stripe>>
    BY <1>4 DEF Inspect, RetryDue, LeaseOver, tables
  <2>. QED  BY <2>1, PaidStays, ClosedStays, PromiseStutters
<1>5. ASSUME NEW c \in Checkouts, NEW m \in Edits, EditMetadata(c, m) PROVE UNCHANGED Promise!vars
  BY <1>5, EditKeepsPromise
<1>6. ASSUME NEW e \in Events, NEW c \in Checkouts, Emit(e, c) PROVE UNCHANGED Promise!vars
  <2>1. UNCHANGED <<orders, purchases, provider>>
    BY <1>6 DEF Emit, tables
  <2>2. Paid' = Paid
    BY <2>1 DEF Paid
  <2>. QED  BY <2>1, <2>2, ClosedStays, PromiseStutters
<1>7. ASSUME NEW w \in Workers, NEW p \in Purchases, NEW c \in Checkouts, StartCheckout(w, p, c)
      PROVE  UNCHANGED Promise!vars
  BY <1>7, StartKeepsPromise
<1>8. ASSUME NEW w \in Workers,
             \/ \E p \in Purchases : Poll(w, p)
             \/ \E e \in Events : Webhook(w, e)
             \/ \E c \in Checkouts : Sweep(w, c) \/ Recheck(w, c)
             \/ \E c \in Checkouts, r \in References, d \in Devices, k \in Packs : Decide(w, c, r, d, k)
             \/ ReceiveRead(w) \/ Claim(w) \/ ReadCheckout(w)
             \/ FinishStale(w) \/ FinishReview(w) \/ Fails(w) \/ Defer(w) \/ Lost(w)
      PROVE  UNCHANGED Promise!vars
  <2>1. UNCHANGED <<orders, purchases, stripe>>
    BY <1>8 DEF Poll, Webhook, Sweep, Recheck, Decide, Reconcile, ReceiveRead, Claim, ReadCheckout,
                FinishStale, FinishReview, Fails, Defer, Lost, tables
  <2>. QED  BY <2>1, PaidStays, ClosedStays, PromiseStutters
<1>9. ASSUME NEW w \in Workers, Attach(w) PROVE UNCHANGED Promise!vars
  BY <1>9, AttachKeepsPromise
<1>10. ASSUME NEW w \in Workers, FinishCredit(w) PROVE [Promise!Next]_Promise!vars
  BY <1>10, CreditKeepsPromise
<1>11. CASE UNCHANGED vars
  BY <1>11, PaidStays, ClosedStays, PromiseStutters DEF vars, tables
<1>. QED  BY <1>1, <1>2, <1>3, <1>4, <1>5, <1>6, <1>7, <1>8, <1>9, <1>10, <1>11 DEF Next

(* The queue keeps the promise of PaidGrants: one grant per payment and per purchase, never changed. *)
THEOREM PromiseKept == Spec => KeepsPromise
<1>1. Init => Promise!Init
  BY DEF Init, Promise!Init
<1>2. QueueInv /\ [Next]_vars => [Promise!Next]_Promise!vars
  BY PromiseStep
<1>. QED  BY <1>1, <1>2, QueueInvariant, PTL DEF Spec, KeepsPromise, Promise!Spec

-----------------------------------------------------------------------------
(* Settlement: a case is closed by its order and leaves no event of it open. *)

LEMMA SettledStays ==
  ASSUME CreditedIsSettled, UNCHANGED <<cases, deliveries, processed, orders>>
  PROVE  CreditedIsSettled'
BY DEF CreditedIsSettled

(* A case that is worked on is not credited. *)
LEMMA OpenCase ==
  ASSUME CreditedIsSettled, QueueInv, UNCHANGED <<deliveries, processed, orders>>,
         NEW c \in Checkouts, NEW k, cases' = [cases EXCEPT ![c] = k], k.state # "credited"
  PROVE  CreditedIsSettled'
<1>1. cases'[c] = k /\ \A b \in Checkouts : b # c => cases'[b] = cases[b]
  BY DEF QueueInv, TablesInv
<1>. QED  BY <1>1 DEF CreditedIsSettled

LEMMA OpenRows ==
  ASSUME NEW k \in Case
  PROVE  /\ Claimed(k).state = "processing"
         /\ \A reason : Reviewed(k, reason).state \in {"queued", "review"}
BY DEF Claimed, Reviewed, Case

LEMMA ReceiveSettles ==
  ASSUME CreditedIsSettled, QueueInv, NEW event, NEW c \in Checkouts, NEW s, Receive(event, c, s),
         UNCHANGED orders, deliveries \in [Checkouts -> SUBSET Delivery]
  PROVE  CreditedIsSettled'
<1>. DEFINE k == cases[c]
<1>1. CASE \E x \in deliveries[c] : x.event = event
  <2>1. UNCHANGED <<cases, deliveries, processed>>
    BY <1>1 DEF Receive
  <2>. QED  BY <2>1, SettledStays
<1>2. CASE ~(\E x \in deliveries[c] : x.event = event)
  <2>. DEFINE m == [event |-> event, snap |-> s]
              row == CASE k = None -> NewCase(s)
                       [] k # None /\ k.signed # s -> Conflicting(k)
                       [] OTHER -> k
  <2>1. cases' = [cases EXCEPT ![c] = row] /\ deliveries' = [deliveries EXCEPT ![c] = @ \cup {m}]
    BY <1>2 DEF Receive
  <2>2. processed \subseteq processed'
        /\ (k # None /\ k.signed = s /\ k.state = "credited" => processed' = processed \cup {event})
    BY <1>2 DEF Receive
  <2>3. /\ cases'[c] = row /\ deliveries'[c] = deliveries[c] \cup {m}
        /\ \A b \in Checkouts : b # c => cases'[b] = cases[b] /\ deliveries'[b] = deliveries[b]
    BY <2>1 DEF QueueInv, TablesInv
  <2>4. row.state = "credited" => k # None /\ k.signed = s /\ row = k
    <3>1. NewCase(s).state = "queued"
      BY DEF NewCase
    <3>2. k # None => Conflicting(k).state = "review"
      BY DEF Conflicting, QueueInv, TablesInv, Opt, Case
    <3>. QED  BY <3>1, <3>2
  <2>. HIDE DEF row, m
  <2>5. ASSUME NEW b \in Checkouts, cases'[b] # None, cases'[b].state = "credited"
        PROVE  /\ orders'[b] # None
               /\ {x.event : x \in deliveries'[b]} \subseteq processed'
               /\ cases'[b].conflicting => cases'[b].decision # None
    <3>1. CASE b # c
      BY <2>2, <2>3, <2>5, <3>1 DEF CreditedIsSettled
    <3>2. CASE b = c
      <4>1. k # None /\ k.signed = s /\ row = k /\ k.state = "credited" /\ cases'[b] = k
        BY <2>3, <2>4, <2>5, <3>2
      <4>2. {x.event : x \in deliveries[c]} \subseteq processed
        BY <4>1 DEF CreditedIsSettled
      <4>3. m.event = event
        BY DEF m
      <4>4. {x.event : x \in deliveries'[c]} \subseteq processed'
        BY <2>2, <2>3, <4>1, <4>2, <4>3
      <4>. QED  BY <3>2, <4>1, <4>4 DEF CreditedIsSettled
    <3>. QED  BY <3>1, <3>2
  <2>. QED  BY <2>5 DEF CreditedIsSettled
<1>. QED  BY <1>1, <1>2

LEMMA CreditSettles ==
  ASSUME CreditedIsSettled, QueueInv, NEW w \in Workers, FinishCredit(w)
  PROVE  CreditedIsSettled'
<1>. DEFINE c == worker[w].checkout
            d == worker[w].decision
            order == OrderFor(c, worker[w].snap, d)
            verdict == IF d = None THEN Observed(w).decision
                       ELSE [reference |-> d.reference, device |-> d.device, pack |-> d.pack]
            k == [Observed(w) EXCEPT !.state = "credited", !.reason = None, !.retry = None, !.decision = verdict]
<1>1. c \in Checkouts /\ order \in Order /\ cases[c] # None
  BY CreditFacts
<1>2. /\ orders' = [orders EXCEPT ![c] = order] /\ cases' = [cases EXCEPT ![c] = k]
      /\ processed' = processed \cup {x.event : x \in deliveries[c]} /\ UNCHANGED deliveries
      /\ Evaluate(c, worker[w].snap, d) = None
  BY DEF FinishCredit
<1>3. Observed(w) \in Case /\ Observed(w).conflicting = cases[c].conflicting
  <2>1. Observed(w) \in Case /\ cases[c] \in Case
    BY ObservedRow, CreditFacts DEF FinishCredit
  <2>. QED  BY <2>1 DEF Observed, Case
<1>4. k.conflicting = cases[c].conflicting /\ k.decision = verdict
  <2>. HIDE DEF verdict, c
  <2>. QED  BY <1>3 DEF Case
<1>5. cases[c].conflicting => d # None
  <2>1. EvidenceReason(c, worker[w].snap, d) = None
    BY <1>2 DEF Evaluate
  <2>. QED  BY <2>1, EvidenceClear
<1>6. d # None => verdict # None
  <2>1. d \in Opt(Decision)
    BY HandlerAt DEF FinishCredit, At, Job
  <2>2. d # None => [reference |-> d.reference, device |-> d.device, pack |-> d.pack] \in Verdict
    BY <2>1 DEF Opt, Decision, Verdict
  <2>. QED  BY <2>2, NoneAssumption
<1>. HIDE DEF k, order, verdict, c, d
<1>7. orders'[c] # None /\ cases'[c] = k
      /\ \A b \in Checkouts : b # c => orders'[b] = orders[b] /\ cases'[b] = cases[b]
  BY <1>1, <1>2, NoneAssumption DEF QueueInv, TablesInv
<1>8. ASSUME NEW b \in Checkouts, cases'[b] # None, cases'[b].state = "credited"
      PROVE  /\ orders'[b] # None
             /\ {x.event : x \in deliveries'[b]} \subseteq processed'
             /\ cases'[b].conflicting => cases'[b].decision # None
  <2>1. CASE b = c
    BY <2>1, <1>2, <1>4, <1>5, <1>6, <1>7
  <2>2. CASE b # c
    BY <2>2, <1>2, <1>7, <1>8 DEF CreditedIsSettled
  <2>. QED  BY <2>1, <2>2
<1>. QED  BY <1>8 DEF CreditedIsSettled

SettledInv == deliveries \in [Checkouts -> SUBSET Delivery] /\ CreditedIsSettled

LEMMA ReceiveDelivers ==
  ASSUME deliveries \in [Checkouts -> SUBSET Delivery], NEW event \in Events \cup Snapshot,
         NEW c \in Checkouts, NEW s \in Snapshot, Receive(event, c, s)
  PROVE  deliveries' \in [Checkouts -> SUBSET Delivery]
<1>. DEFINE m == [event |-> event, snap |-> s]
<1>1. m \in Delivery
  BY DEF Delivery
<1>2. deliveries' = deliveries \/ deliveries' = [deliveries EXCEPT ![c] = @ \cup {m}]
  BY DEF Receive
<1>. HIDE DEF m
<1>. QED  BY <1>1, <1>2

LEMMA SettledStep ==
  ASSUME SettledInv, QueueInv, [Next]_vars
  PROVE  SettledInv'
<1>1. CreditedIsSettled
  BY DEF SettledInv
<1>2. ASSUME NEW w \in Workers, NEW e \in Events, Webhook(w, e) PROVE SettledInv'
  <2>1. sent[e].checkout \in Checkouts /\ sent[e].snap \in Snapshot
    BY <1>2 DEF Webhook, QueueInv, TablesInv, Opt, Sent
  <2>2. Receive(e, sent[e].checkout, sent[e].snap) /\ UNCHANGED orders
    BY <1>2 DEF Webhook
  <2>3. e \in Events \cup Snapshot /\ deliveries \in [Checkouts -> SUBSET Delivery]
    BY DEF SettledInv
  <2>4. deliveries' \in [Checkouts -> SUBSET Delivery]
    BY <2>1, <2>2, <2>3, ReceiveDelivers
  <2>5. CreditedIsSettled'
    BY <1>1, <2>1, <2>2, <2>3, ReceiveSettles
  <2>. QED  BY <2>4, <2>5 DEF SettledInv
<1>3. ASSUME NEW w \in Workers, ReceiveRead(w) PROVE SettledInv'
  <2>1. worker[w].checkout \in Checkouts /\ worker[w].snap \in Snapshot
    BY <1>3, HandlerAt DEF ReceiveRead, At
  <2>2. Receive(worker[w].snap, worker[w].checkout, worker[w].snap) /\ UNCHANGED orders
    BY <1>3 DEF ReceiveRead
  <2>3. worker[w].snap \in Events \cup Snapshot /\ deliveries \in [Checkouts -> SUBSET Delivery]
    BY <2>1 DEF SettledInv
  <2>4. deliveries' \in [Checkouts -> SUBSET Delivery]
    BY <2>1, <2>2, <2>3, ReceiveDelivers
  <2>5. CreditedIsSettled'
    BY <1>1, <2>1, <2>2, <2>3, ReceiveSettles
  <2>. QED  BY <2>4, <2>5 DEF SettledInv
<1>4. ASSUME NEW w \in Workers, FinishCredit(w) PROVE SettledInv'
  <2>1. UNCHANGED deliveries
    BY <1>4 DEF FinishCredit
  <2>. QED  BY <1>1, <1>4, <2>1, CreditSettles DEF SettledInv
<1>5. ASSUME UNCHANGED <<deliveries, processed, orders>>,
             UNCHANGED cases \/ \E c \in Checkouts : \E k : k.state # "credited" /\ cases' = [cases EXCEPT ![c] = k]
      PROVE  SettledInv'
  BY <1>1, <1>5, SettledStays, OpenCase DEF SettledInv
<1>6. ASSUME NEW w \in Workers, Claim(w) PROVE SettledInv'
  <2>1. worker[w].checkout \in Checkouts
    BY <1>6, HandlerAt DEF Claim, At
  <2>2. Claimable(cases[worker[w].checkout], FALSE) => cases[worker[w].checkout] \in Case
    BY <2>1 DEF Claimable, QueueInv, TablesInv, Opt
  <2>. QED  BY <1>5, <1>6, <2>1, <2>2, OpenRows DEF Claim
<1>7. ASSUME NEW w \in Workers, NEW c \in Checkouts, NEW d, NEW interactive, Reconcile(w, c, d, interactive)
      PROVE  SettledInv'
  <2>1. cases[c] \in Case
    BY <1>7 DEF Reconcile, Claimable, QueueInv, TablesInv, Opt
  <2>2. cases' = [cases EXCEPT ![c] = Claimed(cases[c])] /\ UNCHANGED <<deliveries, processed, orders>>
    BY <1>7 DEF Reconcile, QueueInv, TablesInv
  <2>. QED  BY <1>5, <2>1, <2>2, OpenRows
<1>8. ASSUME NEW w \in Workers, FinishReview(w) PROVE SettledInv'
  <2>. DEFINE c == worker[w].checkout
              read == [cases[c] EXCEPT !.observed = worker[w].snap, !.source = worker[w].source]
  <2>1. At(w, "finish") /\ Holds(w) /\ c \in Checkouts /\ cases[c] \in Case
    BY <1>8, HeldCase DEF FinishReview, At
  <2>2. worker[w].snap \in Snapshot /\ worker[w].source \in Opt({"signed_event", "stripe_api"})
    BY <2>1, HandlerAt DEF At, Job
  <2>3. read \in Case
    <3>. DEFINE s == worker[w].snap
                x == worker[w].source
    <3>1. read = [cases[c] EXCEPT !.observed = s, !.source = x]
      OBVIOUS
    <3>. HIDE DEF s, x, c, read
    <3>2. s \in Snapshot /\ x \in Opt({"signed_event", "stripe_api"})
      BY <2>2 DEF s, x
    <3>. QED  BY <2>1, <3>1, <3>2 DEF Case, Opt
  <2>4. Observed(w) \in Case
    BY <2>1, ObservedRow
  <2>5. \E k \in Case : \E reason : cases' = [cases EXCEPT ![c] = Reviewed(k, reason)]
    <3>1. CASE Outdated(w)
      <4>1. cases' = [cases EXCEPT ![c] = Reviewed(read, "review_changed")]
        BY <1>8, <2>1, <3>1 DEF FinishReview, QueueInv, TablesInv
      <4>. HIDE DEF read
      <4>. QED  BY <2>3, <4>1
    <3>2. CASE ~Outdated(w)
      <4>. DEFINE reason == Evaluate(c, worker[w].snap, worker[w].decision)
      <4>1. cases' = [cases EXCEPT ![c] = Reviewed(Observed(w), reason)]
        BY <1>8, <2>1, <3>2 DEF FinishReview, QueueInv, TablesInv
      <4>. HIDE DEF reason
      <4>. QED  BY <2>4, <4>1
    <3>. QED  BY <3>1, <3>2
  <2>6. UNCHANGED <<deliveries, processed, orders>>
    BY <1>8 DEF FinishReview
  <2>. QED  BY <1>5, <2>1, <2>5, <2>6, OpenRows
<1>9. ASSUME NEW w \in Workers, Defer(w) PROVE SettledInv'
  <2>. DEFINE c == worker[w].checkout
  <2>1. UNCHANGED <<deliveries, processed, orders>>
    BY <1>9 DEF Defer
  <2>2. CASE Holds(w)
    <3>1. c \in Checkouts /\ cases[c] \in Case
      BY <1>9, <2>2, HeldCase DEF Defer, At
    <3>2. cases' = [cases EXCEPT ![c] = Reviewed(cases[c], "provider_unavailable")]
      BY <1>9, <2>2, <3>1 DEF Defer, QueueInv, TablesInv
    <3>. QED  BY <1>5, <2>1, <3>1, <3>2, OpenRows
  <2>3. CASE ~Holds(w)
    BY <1>5, <1>9, <2>1, <2>3 DEF Defer
  <2>. QED  BY <2>2, <2>3
<1>10. ASSUME NEW c \in Checkouts, RetryDue(c) \/ LeaseOver(c) PROVE SettledInv'
  <2>. DEFINE k == [cases[c] EXCEPT !.retry = "due"]
  <2>1. cases[c] \in Case /\ cases[c].state # "credited" /\ UNCHANGED <<deliveries, processed, orders>>
    BY <1>10 DEF RetryDue, LeaseOver, QueueInv, TablesInv, Opt
  <2>2. k.state # "credited"
    BY <2>1 DEF Case
  <2>3. cases' = [cases EXCEPT ![c] = k]
    BY <1>10 DEF RetryDue, LeaseOver, QueueInv, TablesInv
  <2>. HIDE DEF k
  <2>. QED  BY <1>5, <2>1, <2>2, <2>3
<1>11. ASSUME UNCHANGED <<cases, deliveries, processed, orders>> PROVE SettledInv'
  BY <1>5, <1>11
<1>12. ASSUME NEW p \in Purchases,
              PurchaseExpires(p) \/ \E d \in Registered, k \in Packs : CreatePurchase(p, d, k)
       PROVE  SettledInv'
  BY <1>11, <1>12 DEF CreatePurchase, PurchaseExpires
<1>13. ASSUME NEW c \in Checkouts,
              \/ \E d \in Registered, k \in Packs : LegacyCheckout(c, d, k)
              \/ Pay(c) \/ Inspect(c)
              \/ \E m \in Edits : EditMetadata(c, m)
              \/ \E e \in Events : Emit(e, c)
       PROVE  SettledInv'
  BY <1>11, <1>13 DEF LegacyCheckout, Pay, Inspect, EditMetadata, Emit, tables
<1>14. ASSUME NEW w \in Workers,
              \/ \E p \in Purchases, c \in Checkouts : StartCheckout(w, p, c)
              \/ \E p \in Purchases : Poll(w, p)
              \/ Attach(w) \/ ReadCheckout(w) \/ FinishStale(w) \/ Fails(w) \/ Lost(w)
       PROVE  SettledInv'
  BY <1>11, <1>14 DEF StartCheckout, Poll, Attach, ReadCheckout, FinishStale, Fails, Lost, tables
<1>15. CASE UNCHANGED vars
  BY <1>11, <1>15 DEF vars, tables
<1>16. ASSUME NEW w \in Workers, NEW c \in Checkouts,
              \/ Sweep(w, c) \/ Recheck(w, c)
              \/ \E r \in References, d \in Devices, k \in Packs : Decide(w, c, r, d, k)
       PROVE  SettledInv'
  BY <1>7, <1>16 DEF Sweep, Recheck, Decide
<1>. QED  BY <1>2, <1>3, <1>4, <1>6, <1>8, <1>9, <1>10, <1>12, <1>13, <1>14, <1>15, <1>16 DEF Next

(* A credited case has its order, every event received about it is closed in the inbox, and *)
(* contradictory events were credited by the owner only.                                    *)
THEOREM Settled == Spec => []CreditedIsSettled
<1>1. Init => SettledInv
  BY DEF Init, SettledInv, CreditedIsSettled
<1>2. SettledInv /\ QueueInv /\ [Next]_vars => SettledInv'
  BY SettledStep
<1>3. SettledInv => CreditedIsSettled
  BY DEF SettledInv
<1>. QED  BY <1>1, <1>2, <1>3, QueueInvariant, PTL DEF Spec
=============================================================================
