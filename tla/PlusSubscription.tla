-------------------------- MODULE PlusSubscription --------------------------
(***************************************************************************)
(* The Plus subscription of one device (server/src/plus.ts, plus-sql.ts,   *)
(* plus-routes.ts, plus-stripe.ts).                                        *)
(*                                                                         *)
(* The row names one intent.  Its Checkout at Stripe may be lost after it  *)
(* was made, may expire, or turns into a subscription, which then changes  *)
(* at Stripe.  Requests of the app and repeated webhooks synchronise the   *)
(* row: a new generation, a read, and an apply that compares it.  A device *)
(* whose intent is over gets a new one, so that it never pays twice.       *)
(*                                                                         *)
(* Each operation of the store is one transaction, hence one action; so is *)
(* each request to Stripe.  A handler may be lost, or its next call throw, *)
(* between any two.  Calendar dates are the number of the billing period,  *)
(* and the status unpaid stands for paused too, which is treated alike.    *)
(***************************************************************************)
EXTENDS Integers, Null

CONSTANTS
  Workers,    \* handlers of requests and webhooks
  Checkouts,  \* Checkouts at Stripe; a subscription is named by the one it came from
  MaxIntents, \* bound on the intents of the device
  Budgets     \* bounds: requests of each kind, losses of handlers, changes at Stripe

ASSUME PlusAssumption ==
  /\ MaxIntents \in Nat
  /\ Budgets \subseteq [{"get", "post", "cancel", "losses", "changes"} -> Nat]
  /\ None \notin Checkouts

Terminal == {"canceled", "incomplete_expired"}
SubscriptionStatus == {"incomplete", "active", "past_due", "unpaid"} \cup Terminal
RowStatus == SubscriptionStatus \cup {"checkout_pending", "checkout_expired"}

Intents == 1 .. MaxIntents

Opt(S) == S \cup {None}

(* A Checkout at Stripe with the subscription it became, the row, and an event. *)
Bill == [intent : Intents, session : {"open", "complete", "expired"}, status : Opt(SubscriptionStatus),
         ending : BOOLEAN, period : Nat, paid : Nat, version : Nat]
PlusRow == [intent : Intents, checkout : Opt(Checkouts), url : BOOLEAN, sub : Opt(Checkouts),
            status : Opt(RowStatus),
            ending : BOOLEAN, paid : Nat, version : Nat, generation : Opt(Workers)]
Notice == [checkout : Checkouts, kind : {"checkout", "subscription"}, version : Nat, paid : Nat]

ASSUME PlusNoneAssumption == None \notin RowStatus \cup Bill \cup PlusRow \cup Notice

VARIABLES
  record,    \* the row of plus_subscriptions; version and paid say what it reflects, and
             \* generation, only ever compared with a handler's own, whose is the newest
  intents,   \* intents made so far; the newest is the row's
  old,       \* intents made more than 23 hours ago
  provider,  \* Stripe's Checkouts, each with the subscription it became
  made,      \* Stripe's idempotency keys: the Checkout made for an intent
  notices,   \* webhooks Stripe repeats until they are answered with success
  later,     \* those of them that failed and wait for the next time
  delivered, \* what Stripe was last told is known, by Checkout
  worker,    \* where each handler is
  budget     \* what is left of the bounds

vars == <<record, intents, old, provider, made, notices, later, delivered, worker, budget>>
stripe == <<provider, made, notices, later, delivered>>

NewPlus(i) == [intent |-> i, checkout |-> None, url |-> FALSE, sub |-> None,
               status |-> "checkout_pending", ending |-> FALSE, paid |-> 0, version |-> 0,
               generation |-> None]

Nothing == [version |-> 0, paid |-> 0]
NoWork == [pc |-> "idle", for |-> None, intent |-> 0, checkout |-> None,
           notice |-> None, snap |-> None]

Init ==
  /\ record = None
  /\ intents = 0
  /\ old = {}
  /\ provider = [c \in Checkouts |-> None]
  /\ made = [i \in Intents |-> None]
  /\ notices = {}
  /\ later = {}
  /\ delivered = [c \in Checkouts |-> Nothing]
  /\ worker = [w \in Workers |-> NoWork]
  /\ budget \in Budgets

Spend(what) == /\ budget[what] > 0
               /\ budget' = [budget EXCEPT ![what] = @ - 1]
At(w, pc) == worker[w].pc = pc
Goto(w, pc) == worker' = [worker EXCEPT ![w].pc = pc]
Return(w) == worker' = [worker EXCEPT ![w] = NoWork]
Begin(w, job) == /\ At(w, "idle")
                 /\ worker' = [worker EXCEPT ![w] = job]

(* A webhook is answered with success. *)
Answered(n) ==
  /\ notices' = notices \ {n}
  /\ later' = later \ {n}
  /\ delivered' = IF n = None THEN delivered
                  ELSE [delivered EXCEPT ![n.checkout] =
                          [version |-> IF n.version > @.version THEN n.version ELSE @.version,
                           paid |-> IF n.paid > @.paid THEN n.paid ELSE @.paid]]

(* A synchronisation is over: the webhook is answered, a checkout request goes on. *)
Synchronised(w) ==
  /\ IF worker[w].for = "post" THEN Goto(w, "reserve") ELSE Return(w)
  /\ Answered(worker[w].notice)

(* A webhook without a successful answer is sent again, later. *)
Unanswered(w) ==
  /\ Return(w)
  /\ later' = later \cup ({worker[w].notice} \cap notices)

(* byIntent *)
Current(i) == record # None /\ record.intent = i

-----------------------------------------------------------------------------
(* The routes. *)

Request(w, why, pc) ==
  /\ Spend(why)
  /\ Begin(w, [NoWork EXCEPT !.pc = pc, !.for = why,
                             !.intent = IF record = None THEN 0 ELSE record.intent])
  /\ UNCHANGED <<record, intents, old, stripe>>

Known == record # None /\ (record.sub # None \/ record.checkout # None)

(* GET /v1/plus *)
Get(w) == Known /\ Request(w, "get", "begin")

(* POST /v1/plus/checkout: what may already have been paid is synchronised first. *)
Post(w) == Request(w, "post", IF Known THEN "begin" ELSE "reserve")

(* POST /v1/plus/cancel *)
Cancel(w) == record # None /\ record.sub # None /\ Request(w, "cancel", "cancel")

(* A signed event.  One of another Checkout or subscription throws, one of an intent that was *)
(* replaced is inert. *)
Webhook(w, n) ==
  /\ n \in notices \ later
  /\ Current(provider[n.checkout].intent)
  /\ IF n.kind = "checkout" THEN record.checkout \in {None, n.checkout}
     ELSE record.sub \in {None, n.checkout}
  /\ Begin(w, [NoWork EXCEPT
       !.pc = IF n.kind = "checkout" /\ record.checkout = None THEN "recover" ELSE "begin",
       !.for = n.kind, !.intent = record.intent, !.checkout = n.checkout, !.notice = n])
  /\ UNCHANGED <<record, intents, old, stripe, budget>>

Inert(w, n) ==
  /\ At(w, "idle")
  /\ n \in notices \ later
  /\ ~Current(provider[n.checkout].intent)
  /\ Answered(n)
  /\ UNCHANGED <<record, intents, old, provider, made, worker, budget>>

(* Defective variant: the row of the device is attached to, whatever its intent is by now. *)
AttachedToDevice(w, url) ==
  IF record.checkout \in {None, worker[w].checkout}
  THEN [record EXCEPT !.checkout = worker[w].checkout, !.url = url] ELSE record

(* attach *)
Attached(w, url) ==
  IF Current(worker[w].intent) /\ record.checkout \in {None, worker[w].checkout}
  THEN [record EXCEPT !.checkout = worker[w].checkout, !.url = url] ELSE record

(* The event of a Checkout whose attachment was lost recovers it, without a URL. *)
Recover(w) ==
  /\ At(w, "recover")
  /\ record' = Attached(w, FALSE)
  /\ Goto(w, "begin")
  /\ UNCHANGED <<intents, old, stripe, budget>>

-----------------------------------------------------------------------------
(* Synchronising. *)

(* beginSync, and what sync reads next: the subscription if it is known, else the Checkout. *)
BeginSync(w) ==
  LET event == worker[w].for = "subscription" IN
  /\ At(w, "begin") /\ Current(worker[w].intent)
  /\ record' = [record EXCEPT !.generation = w]
  /\ \/ /\ event
        /\ Goto(w, "read")
     \/ /\ ~event /\ record.sub # None
        /\ worker' = [worker EXCEPT ![w].pc = "read", ![w].checkout = record.sub]
     \/ /\ ~event /\ record.sub = None /\ record.checkout # None
        /\ worker' = [worker EXCEPT ![w].pc = "state", ![w].checkout = record.checkout]
  /\ UNCHANGED <<intents, old, stripe, budget>>

(* The intent was replaced: nothing to synchronise. *)
Replaced(w) ==
  /\ At(w, "begin") /\ ~Current(worker[w].intent)
  /\ Synchronised(w)
  /\ UNCHANGED <<record, intents, old, provider, made, budget>>

(* checkoutState *)
CheckoutState(w) ==
  LET c == worker[w].checkout IN
  /\ At(w, "state")
  /\ \/ provider[c].session = "expired" /\ Goto(w, "expire") /\ UNCHANGED <<notices, later, delivered>>
     \/ provider[c].session = "complete" /\ Goto(w, "read") /\ UNCHANGED <<notices, later, delivered>>
     \/ provider[c].session = "open" /\ Synchronised(w)
  /\ UNCHANGED <<record, intents, old, provider, made, budget>>

(* stripe.subscription *)
ReadSubscription(w) ==
  /\ At(w, "read")
  /\ worker' = [worker EXCEPT ![w].pc = "apply", ![w].snap = provider[worker[w].checkout]]
  /\ UNCHANGED <<record, intents, old, stripe, budget>>

Latest(w) == Current(worker[w].intent) /\ record.generation = w

(* mergePlus: a paid period only advances. *)
MergePlus(r, c, s) == [r EXCEPT !.sub = c, !.status = s.status, !.ending = s.ending,
                                !.version = s.version,
                                !.paid = IF s.paid > @ THEN s.paid ELSE @]

Apply(w) ==
  LET c == worker[w].checkout IN
  /\ At(w, "apply") /\ Latest(w) /\ record.sub \in {None, c}
  /\ record' = MergePlus(record, c, worker[w].snap)
  /\ Synchronised(w)
  /\ UNCHANGED <<intents, old, provider, made, budget>>

(* Another synchronisation began meanwhile: this one throws, and a webhook is sent again. *)
Superseded(w) ==
  /\ At(w, "apply") /\ ~Latest(w)
  /\ Unanswered(w)
  /\ UNCHANGED <<record, intents, old, provider, made, notices, delivered, budget>>

(* Defective variant: only a Checkout that was never attached is expired. *)
ExpireUnattached(w) ==
  /\ At(w, "expire")
  /\ record' = IF Current(worker[w].intent) /\ record.checkout = None
               THEN [record EXCEPT !.status = "checkout_expired", !.version = provider[worker[w].checkout].version]
               ELSE record
  /\ Synchronised(w)
  /\ UNCHANGED <<intents, old, provider, made, budget>>

(* expireCheckout compares the intent and the absence of a subscription, no generation. *)
ExpireCheckout(w) ==
  /\ At(w, "expire")
  /\ record' = IF Current(worker[w].intent) /\ record.sub = None
               THEN [record EXCEPT !.status = "checkout_expired", !.version = provider[worker[w].checkout].version]
               ELSE record
  /\ Synchronised(w)
  /\ UNCHANGED <<intents, old, provider, made, budget>>

-----------------------------------------------------------------------------
(* Enrolling. *)

(* Defective variant: a subscription whose first payment is not confirmed counts as over. *)
ReusableOncePaid(r) == r.status \notin Terminal \cup {"checkout_expired", "incomplete"}

(* reusablePlus.  plusActive adds nothing: what is over is not active. *)
Reusable(r) == r.status \notin Terminal \cup {"checkout_expired"}

(* reserve keeps the intent that may still be paid; the route then answers or asks Stripe. *)
Reserve(w) ==
  LET keep == record # None /\ Reusable(record)
      r == IF keep THEN record ELSE NewPlus(intents + 1)
  IN /\ At(w, "reserve")
     /\ keep \/ intents < MaxIntents
     /\ record' = r
     /\ intents' = IF keep THEN intents ELSE intents + 1
     /\ IF r.sub # None \/ (r.checkout # None /\ r.url) THEN Return(w)
        ELSE worker' = [worker EXCEPT ![w].pc = "create", ![w].intent = r.intent]
     /\ UNCHANGED <<old, stripe, budget>>

(* Defective variant: an intent of any age asks Stripe again. *)
AskableAlways(i) == TRUE

(* Stripe keeps a key for 24 hours; past 23 the handler refuses instead of asking again. *)
Askable(i) == i \notin old

KeyOf(i) == IF i \in old THEN None ELSE made[i]

CreateCheckout(w, c) ==
  LET i == worker[w].intent IN
  /\ At(w, "create") /\ Askable(i)
  /\ IF KeyOf(i) # None THEN c = KeyOf(i) /\ UNCHANGED <<provider, made>>
     ELSE /\ provider[c] = None
          /\ provider' = [provider EXCEPT ![c] = [intent |-> i, session |-> "open", status |-> None,
                            ending |-> FALSE, period |-> 0, paid |-> 0, version |-> 0]]
          /\ made' = [made EXCEPT ![i] = c]
  /\ worker' = [worker EXCEPT ![w].pc = "attach", ![w].checkout = c]
  /\ UNCHANGED <<record, intents, old, notices, later, delivered, budget>>

Refuse(w) ==
  /\ At(w, "create") /\ ~Askable(worker[w].intent)
  /\ Return(w)
  /\ UNCHANGED <<record, intents, old, stripe, budget>>

AttachCheckout(w) ==
  /\ At(w, "attach")
  /\ record' = Attached(w, TRUE)
  /\ Return(w)
  /\ UNCHANGED <<intents, old, stripe, budget>>

-----------------------------------------------------------------------------
(* Stripe, time, and losses. *)

(* Every change of a Checkout or its subscription is announced.  An event not yet answered   *)
(* that tells of an older version is left out: its handler would read the same.              *)
Changed(c, p, kinds) ==
  /\ provider' = [provider EXCEPT ![c] = [p EXCEPT !.version = @ + 1]]
  /\ notices' = {n \in notices : n.checkout # c \/ n.kind \notin kinds} \cup {[checkout |-> c, kind |-> k, version |-> p.version + 1, paid |-> p.paid] : k \in kinds}
  /\ later' = later \cap notices'
  /\ UNCHANGED <<made, delivered>>

(* The customer subscribes; a payment that must be confirmed leaves it incomplete. *)
Subscribe(c, s) ==
  LET p == provider[c] IN
  /\ p # None /\ p.session = "open" /\ s \in {"active", "incomplete"}
  /\ Changed(c, [p EXCEPT !.session = "complete", !.status = s, !.period = 1,
                          !.paid = IF s = "active" THEN 1 ELSE 0], {"checkout", "subscription"})
  /\ UNCHANGED <<record, intents, old, worker, budget>>

SessionExpires(c) ==
  LET p == provider[c] IN
  /\ p # None /\ p.session = "open"
  /\ Changed(c, [p EXCEPT !.session = "expired"], {"checkout"})
  /\ UNCHANGED <<record, intents, old, worker, budget>>

(* The invoice of the current period is paid late, or given up. *)
Settles(c, s) ==
  LET p == provider[c] IN
  /\ p # None
  /\ \/ p.status = "incomplete" /\ s \in {"active", "incomplete_expired"}
     \/ p.status = "past_due" /\ s \in {"active", "unpaid", "canceled"}
     \/ p.status = "unpaid" /\ s \in {"active", "canceled"}
     \/ p.status = "active" /\ s = "canceled"
  /\ Spend("changes")
  /\ Changed(c, [p EXCEPT !.status = s, !.paid = IF s = "active" THEN p.period ELSE @], {"subscription"})
  /\ UNCHANGED <<record, intents, old, worker>>

(* The next period, a month later: Stripe has repeated its notices for days by then. *)
Renews(c, s) ==
  LET p == provider[c] IN
  /\ p # None /\ p.status = "active" /\ ~p.ending /\ s \in {"active", "past_due"}
  /\ notices = {} /\ \A w \in Workers : At(w, "idle")
  /\ Spend("changes")
  /\ Changed(c, [p EXCEPT !.status = s, !.period = @ + 1, !.paid = IF s = "active" THEN p.period + 1 ELSE 0],
             {"subscription"})
  /\ UNCHANGED <<record, intents, old, worker>>

(* stripe.cancel, which fails for a subscription that is over, as that of an intent is that *)
(* has been replaced.                                                                       *)
CancelAtPeriodEnd(w) ==
  LET c == record.sub
      p == provider[c]
  IN /\ At(w, "cancel")
     /\ IF ~Current(worker[w].intent) \/ p.status \in Terminal THEN Return(w) /\ UNCHANGED stripe
        ELSE Changed(c, [p EXCEPT !.ending = TRUE], {"subscription"}) /\ Goto(w, "begin")
     /\ UNCHANGED <<record, intents, old, budget>>

(* 23 hours pass, between requests: CreateCheckout checks the age and asks in one step. *)
Ages(i) ==
  /\ i <= intents /\ i \notin old
  /\ \A w \in Workers : At(w, "idle")
  /\ old' = old \cup {i}
  /\ UNCHANGED <<record, intents, stripe, worker, budget>>

(* Stripe's pauses grow from minutes to hours, and a handler ends within seconds. *)
Repeated ==
  /\ later # {} /\ \A w \in Workers : At(w, "idle")
  /\ later' = {}
  /\ UNCHANGED <<record, intents, old, provider, made, notices, delivered, worker, budget>>

(* The handler dies, or its next call throws. *)
Lost(w) ==
  /\ ~At(w, "idle")
  /\ Spend("losses")
  /\ Unanswered(w)
  /\ UNCHANGED <<record, intents, old, provider, made, notices, delivered>>

-----------------------------------------------------------------------------
Works(w) ==
  \/ Recover(w) \/ BeginSync(w) \/ Replaced(w) \/ CheckoutState(w) \/ ReadSubscription(w)
  \/ Apply(w) \/ Superseded(w) \/ ExpireCheckout(w)
  \/ Reserve(w) \/ Refuse(w) \/ AttachCheckout(w) \/ CancelAtPeriodEnd(w)
  \/ \E c \in Checkouts : CreateCheckout(w, c)

Next ==
  \/ \E w \in Workers : Get(w) \/ Post(w) \/ Cancel(w) \/ Works(w) \/ Lost(w)
  \/ \E w \in Workers, n \in notices : Webhook(w, n) \/ Inert(w, n)
  \/ \E c \in Checkouts : SessionExpires(c)
  \/ \E c \in Checkouts, s \in SubscriptionStatus : Subscribe(c, s) \/ Settles(c, s) \/ Renews(c, s)
  \/ \E i \in Intents : Ages(i)
  \/ Repeated

Spec == Init /\ [][Next]_vars

(* Handlers come to an end, and Stripe repeats what was not answered with success. *)
Fairness ==
  /\ \A w \in Workers : WF_vars(Works(w))
  /\ WF_vars(Repeated)
  /\ WF_vars(\E w \in Workers, n \in notices : Webhook(w, n) \/ Inert(w, n))

FairSpec == Spec /\ Fairness

-----------------------------------------------------------------------------
(* Properties. *)

(* The row never mixes two enrollments: its Checkout, its subscription and its paid period    *)
(* belong to its intent, the newest, however late the answers about an earlier one come.      *)
RowMatchesIntent ==
  /\ record = None <=> intents = 0
  /\ record # None =>
       /\ record.intent = intents
       /\ \A c \in {record.checkout, record.sub} \ {None} : provider[c].intent = record.intent
       /\ record.sub = None => record.paid = 0

Payable(c) ==
  /\ provider[c] # None
  /\ provider[c].session = "open" \/ (provider[c].session = "complete" /\ provider[c].status \notin Terminal)

(* A device is never asked to pay twice: it has at most one Checkout or subscription that can *)
(* still collect money, whatever was lost, expired, late, or asked for at the same time.      *)
PaysOnce == \A c, k \in Checkouts : Payable(c) /\ Payable(k) => c = k

(* When Stripe and the app come to rest, so does the row: at what Stripe says.                *)
Reflects == record # None => \A c \in Checkouts :
              provider[c] # None /\ provider[c].intent = record.intent => record.version = provider[c].version

Converges == <>[]Reflects
=============================================================================
