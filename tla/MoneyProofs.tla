----------------------------- MODULE MoneyProofs ------------------------------
(***************************************************************************)
(* The two parts that are about money: the Plus subscription and the      *)
(* finance facts.                                                          *)
(*                                                                         *)
(* Plus: however handlers of the subscription overlap, get lost and        *)
(* repeat, and however late an event arrives, the row tells of the newest  *)
(* intent, and no two Checkouts of a device can both be paid for.  What    *)
(* makes it work: a key names one Checkout, a new intent is reserved only  *)
(* once the Checkout of the row can collect nothing any more, which at     *)
(* Stripe never ends, and a handler writes the row only while it is still  *)
(* that of the intent it works on.                                         *)
(*                                                                         *)
(* Finance: however many workers read the money facts of an order, and     *)
(* whatever leases run out in between, a revision that is not marked dirty *)
(* is as recent as every recorded notice.  What makes it work: the         *)
(* watermark is taken before the read, so that a notice which comes later  *)
(* is above it, and a finish is accepted from the newest claim only, whose *)
(* watermark is the job's.                                                 *)
(***************************************************************************)
EXTENDS PlusSubscription, PaymentFinance, TLAPS

-----------------------------------------------------------------------------
(* The Plus subscription. *)

Job == [pc : {"idle", "begin", "recover", "state", "expire", "read", "apply", "reserve", "create",
              "attach", "cancel"},
        for : Opt({"get", "post", "cancel", "checkout", "subscription"}),
        intent : Nat, checkout : Opt(Checkouts), notice : Opt(Notice), snap : Opt(Bill)]

PlusType ==
  /\ record \in Opt(PlusRow)
  /\ intents \in Nat /\ intents <= MaxIntents
  /\ provider \in [Checkouts -> Opt(Bill)]
  /\ made \in [Intents -> Opt(Checkouts)]
  /\ notices \subseteq Notice
  /\ worker \in [Workers -> Job]

Of(c, i) == c \in Checkouts /\ provider[c] # None /\ provider[c].intent = i
Completed(c) == provider[c] # None /\ provider[c].session = "complete"

(* A key names the Checkout that was made under it, and every Checkout was; it has a          *)
(* subscription only once it is complete.                                                    *)
Keyed ==
  /\ \A c \in Checkouts : provider[c] # None =>
       /\ provider[c].intent <= intents /\ made[provider[c].intent] = c
       /\ provider[c].status # None => provider[c].session = "complete"
  /\ \A i \in Intents : made[i] # None => Of(made[i], i)

(* The Checkout of an intent was made, and can collect no money any more. *)
Over(i) == made[i] # None /\ ~Payable(made[i])

OverBefore == \A i \in Intents : i < intents => Over(i)

RowTrue ==
  record # None =>
    /\ \A c \in {record.checkout, record.sub} \ {None} : Of(c, record.intent)
    /\ record.sub # None => Completed(record.sub)
    /\ ~Reusable(record) => Over(record.intent)

Announced == \A n \in notices : provider[n.checkout] # None /\ (n.kind = "subscription" => Completed(n.checkout))

(* What a handler knows of the Checkout it works on. *)
Working(w) ==
  LET j == worker[w]
      c == worker[w].checkout
  IN /\ j.intent <= intents
     /\ j.pc \in {"recover", "state", "expire", "read", "apply", "attach"} => Of(c, j.intent)
     /\ j.pc = "recover" => j.for = "checkout"
     /\ j.pc = "begin" /\ j.for = "subscription" => Of(c, j.intent) /\ Completed(c)
     /\ j.pc = "expire" => provider[c].session = "expired"
     /\ j.pc \in {"read", "apply"} => Completed(c)
     /\ j.pc = "apply" => j.snap # None /\ (j.snap.status \in Terminal => provider[c].status \in Terminal)
     /\ j.pc = "create" => j.intent > 0
     /\ j.pc = "cancel" => j.for = "cancel" /\ (Current(j.intent) => record.sub # None)

PlusInv ==
  /\ PlusType
  /\ RowMatchesIntent /\ Keyed /\ OverBefore /\ RowTrue /\ Announced
  /\ \A w \in Workers : Working(w)

-----------------------------------------------------------------------------
LEMMA PlusInitially == ASSUME Init PROVE PlusInv
<1>1. PlusType
  BY PlusAssumption DEF Init, PlusType, NoWork, Job, Opt
<1>2. RowMatchesIntent /\ Keyed /\ OverBefore /\ RowTrue /\ Announced
  BY PlusAssumption DEF Init, RowMatchesIntent, Keyed, OverBefore, RowTrue, Announced, Intents
<1>3. \A w \in Workers : Working(w)
  BY DEF Init, Working, NoWork, Current
<1>4. QED  BY <1>1, <1>2, <1>3 DEF PlusInv

(* What no step undoes: a Checkout keeps its intent and its end, a key its Checkout. *)
Onward ==
  /\ \A c \in Checkouts : provider[c] # None =>
       /\ provider'[c] # None
       /\ provider'[c].intent = provider[c].intent
       /\ provider[c].session # "open" => provider'[c].session = provider[c].session
       /\ provider[c].session = "complete" /\ provider[c].status \in Terminal => provider'[c].status \in Terminal
  /\ \A i \in Intents : made[i] # None => made'[i] = made[i]
  /\ intents \in Nat /\ intents' \in Nat /\ intents <= intents'

(* The row stays that of its intent and keeps its subscription, or it is of a new intent. *)
RowOnward ==
  record' # None =>
    \/ record'.intent \in Nat /\ record'.intent > intents
    \/ record # None /\ record'.intent = record.intent /\ (record.sub # None => record'.sub # None)

LEMMA OfStays ==
  ASSUME Onward, NEW c, NEW i, Of(c, i)
  PROVE  Of(c, i)'
BY DEF Onward, Of

LEMMA CompletedStays ==
  ASSUME Onward, NEW c \in Checkouts, Completed(c)
  PROVE  Completed(c)'
BY DEF Onward, Completed

LEMMA OverStays ==
  ASSUME PlusInv, Onward, NEW i \in Intents, Over(i)
  PROVE  Over(i)'
<1>1. PICK c : c = made[i]
  OBVIOUS
<1>2. c \in Checkouts /\ provider[c] # None /\ made'[i] = c /\ c # None
  BY <1>1 DEF PlusInv, Keyed, Of, Over, Onward
<1>3. provider[c].session \in {"open", "complete", "expired"}
  BY <1>2 DEF PlusInv, PlusType, Opt, Bill
<1>4. provider[c].session # "open" /\ (provider[c].session = "complete" => provider[c].status \in Terminal)
  BY <1>1, <1>2 DEF Over, Payable
<1>5. ~Payable(c)'
  BY <1>2, <1>3, <1>4 DEF Onward, Payable
<1>6. QED  BY <1>2, <1>5 DEF Over

(* The handlers that do not take the step know what they knew. *)
LEMMA OthersWork ==
  ASSUME PlusInv, Onward, RowOnward, NEW w \in Workers, worker'[w] = worker[w]
  PROVE  Working(w)'
<1> DEFINE j == worker[w]
           c == worker[w].checkout
<1>1. Working(w) /\ j \in Job
  BY DEF PlusInv, PlusType
<1>2. j.intent \in Nat /\ j.intent <= intents /\ j.intent <= intents'
  BY <1>1 DEF Working, Onward, Job
<1>3. j.pc \in {"recover", "state", "expire", "read", "apply", "attach"} => Of(c, j.intent)'
  BY <1>1, OfStays DEF Working
<1>4. j.pc = "begin" /\ j.for = "subscription" => Of(c, j.intent)' /\ Completed(c)'
  BY <1>1, OfStays, CompletedStays DEF Working, Of
<1>5. j.pc = "expire" => provider'[c].session = "expired"
  BY <1>1 DEF Working, Onward, Of
<1>6. j.pc \in {"read", "apply"} => Completed(c)'
  BY <1>1, CompletedStays DEF Working, Of
<1>7. j.pc = "apply" => j.snap # None /\ (j.snap.status \in Terminal => provider'[c].status \in Terminal)
  BY <1>1 DEF Working, Onward, Of, Completed
<1>8. (j.pc = "create" => j.intent > 0) /\ (j.pc = "recover" => j.for = "checkout")
  BY <1>1 DEF Working
<1>9. j.pc = "cancel" => j.for = "cancel" /\ (Current(j.intent)' => record'.sub # None)
  BY <1>1, <1>2 DEF Working, Current, RowOnward, Onward
<1>10. QED
  BY <1>2, <1>3, <1>4, <1>5, <1>6, <1>7, <1>8, <1>9 DEF Working

(* A step that changes nothing but a handler and the events that wait. *)
LEMMA HandlerKeeps ==
  ASSUME PlusInv, UNCHANGED <<record, intents, provider, made>>, notices' \subseteq notices,
         NEW w \in Workers, NEW j \in Job, worker' = [worker EXCEPT ![w] = j], Working(w)'
  PROVE  PlusInv'
<1>1. PlusType'
  BY DEF PlusInv, PlusType
<1>2. RowMatchesIntent' /\ Keyed' /\ OverBefore' /\ RowTrue' /\ Announced'
  BY DEF PlusInv, RowMatchesIntent, Keyed, OverBefore, RowTrue, Announced, Of, Over, Payable, Completed
<1>3. Onward /\ RowOnward
  BY DEF PlusInv, PlusType, Onward, RowOnward
<1>4. \A v \in Workers : Working(v)'
  BY <1>3, OthersWork DEF PlusInv, PlusType
<1>5. QED  BY <1>1, <1>2, <1>4 DEF PlusInv

LEMMA WaitingKeeps ==
  ASSUME PlusInv, UNCHANGED <<record, intents, provider, made, worker>>, notices' \subseteq notices
  PROVE  PlusInv'
<1>1. PlusType'
  BY DEF PlusInv, PlusType
<1>2. RowMatchesIntent' /\ Keyed' /\ OverBefore' /\ RowTrue' /\ Announced'
  BY DEF PlusInv, RowMatchesIntent, Keyed, OverBefore, RowTrue, Announced, Of, Over, Payable, Completed
<1>3. Onward /\ RowOnward
  BY DEF PlusInv, PlusType, Onward, RowOnward
<1>4. \A v \in Workers : Working(v)'
  BY <1>3, OthersWork
<1>5. QED  BY <1>1, <1>2, <1>4 DEF PlusInv

(* A step that changes the row of the same intent. *)
LEMMA RowKeeps ==
  ASSUME PlusInv, UNCHANGED <<intents, provider, made>>, notices' \subseteq notices,
         NEW w \in Workers, NEW j \in Job, worker' = [worker EXCEPT ![w] = j], Working(w)',
         NEW r \in PlusRow, record # None, record' = r, r.intent = record.intent,
         r.checkout # None => Of(r.checkout, r.intent),
         r.sub # None => Of(r.sub, r.intent) /\ Completed(r.sub),
         r.sub = None => record.sub = None /\ r.paid = 0,
         ~Reusable(r) => Over(r.intent)
  PROVE  PlusInv'
<1>0. r # None
  BY PlusNoneAssumption
<1>1. PlusType'
  BY DEF PlusInv, PlusType, Opt
<1>2. Keyed' /\ OverBefore' /\ Announced'
  BY DEF PlusInv, Keyed, OverBefore, Announced, Of, Over, Payable, Completed
<1>3. RowMatchesIntent'
  BY <1>0 DEF PlusInv, RowMatchesIntent, Of
<1>4. RowTrue'
  BY <1>0 DEF RowTrue, Over, Payable, Completed, Of
<1>5. Onward /\ RowOnward
  BY DEF PlusInv, PlusType, Onward, RowOnward
<1>6. \A v \in Workers : Working(v)'
  BY <1>5, OthersWork DEF PlusInv, PlusType
<1>7. QED  BY <1>1, <1>2, <1>3, <1>4, <1>6 DEF PlusInv

(* A step that changes something at Stripe. *)
LEMMA StripeKeeps ==
  ASSUME PlusInv, UNCHANGED <<record, intents>>, PlusType', Onward, Keyed', Announced',
         \A w \in Workers : worker'[w] = worker[w] \/ Working(w)'
  PROVE  PlusInv'
<1>1. RowOnward
  BY DEF RowOnward
<1>2. \A w \in Workers : Working(w)'
  BY <1>1, OthersWork
<1>3. OverBefore'
  BY OverStays DEF PlusInv, OverBefore
<1>4. RowMatchesIntent'
  <2>1. record # None => \A c \in {record.checkout, record.sub} \ {None} : Of(c, record.intent)'
    BY OfStays DEF PlusInv, RowTrue
  <2>2. QED  BY <2>1 DEF PlusInv, RowMatchesIntent, Of
<1>5. RowTrue'
  <2>1. record # None => record.intent \in Intents /\ record.sub \in Opt(Checkouts)
    BY DEF PlusInv, PlusType, Opt, PlusRow
  <2>2. QED  BY <2>1, OverStays, OfStays, CompletedStays DEF PlusInv, RowTrue, Opt, Reusable
<1>6. QED  BY <1>2, <1>3, <1>4, <1>5 DEF PlusInv

-----------------------------------------------------------------------------
(* The requests and the events that arrive. *)

LEMMA Jobs == ASSUME PlusInv, NEW w \in Workers
              PROVE  worker[w] \in Job /\ NoWork \in Job /\ Working(w)
BY DEF PlusInv, PlusType, Job, NoWork, Opt

LEMMA Rows == ASSUME PlusInv, record # None
              PROVE  record \in PlusRow /\ record.intent = intents /\ record.intent \in Intents
BY DEF PlusInv, PlusType, PlusRow, Opt, RowMatchesIntent

(* A handler that has returned knows nothing. *)
LEMMA ReturnKeeps ==
  ASSUME PlusInv, UNCHANGED <<record, intents, provider, made>>, notices' \subseteq notices,
         NEW w \in Workers, Return(w)
  PROVE  PlusInv'
<1>1. worker' = [worker EXCEPT ![w] = NoWork] /\ NoWork \in Job
  BY Jobs DEF Return
<1>2. worker'[w] = NoWork
  BY <1>1 DEF PlusInv, PlusType
<1>3. Working(w)'
  BY <1>2 DEF Working, NoWork, PlusInv, PlusType
<1>4. QED  BY <1>1, <1>3, HandlerKeeps

LEMMA RequestKeeps ==
  ASSUME PlusInv, NEW w \in Workers, NEW why \in {"get", "post", "cancel"},
         NEW pc \in {"begin", "reserve", "cancel"}, Request(w, why, pc),
         pc = "cancel" => why = "cancel" /\ record # None /\ record.sub # None
  PROVE  PlusInv'
<1> DEFINE j == [NoWork EXCEPT !.pc = pc, !.for = why, !.intent = IF record = None THEN 0 ELSE record.intent]
<1>1. UNCHANGED <<record, intents, provider, made, notices>> /\ worker' = [worker EXCEPT ![w] = j]
  BY DEF Request, Begin, stripe
<1>2. intents \in Nat /\ (IF record = None THEN 0 ELSE record.intent) \in Nat
      /\ (IF record = None THEN 0 ELSE record.intent) <= intents
  BY Rows DEF PlusInv, PlusType
<1>3. j \in Job
  BY <1>2 DEF Job, NoWork, Opt
<1>4. worker'[w] = j
  BY <1>1 DEF PlusInv, PlusType
<1>5. j.pc = pc /\ j.for = why /\ j.intent <= intents
  BY <1>2 DEF NoWork
<1> HIDE DEF j
<1>6. Working(w)'
  BY <1>1, <1>4, <1>5 DEF Working
<1>7. QED  BY <1>1, <1>3, <1>6, HandlerKeeps

LEMMA WebhookKeeps ==
  ASSUME PlusInv, NEW w \in Workers, NEW n \in notices, Webhook(w, n)
  PROVE  PlusInv'
<1> DEFINE p == IF n.kind = "checkout" /\ record.checkout = None THEN "recover" ELSE "begin"
           j == [NoWork EXCEPT !.pc = p, !.for = n.kind, !.intent = record.intent,
                               !.checkout = n.checkout, !.notice = n]
<1>1. UNCHANGED <<record, intents, provider, made, notices>> /\ worker' = [worker EXCEPT ![w] = j]
  BY DEF Webhook, Begin, stripe
<1>2. record # None /\ provider[n.checkout].intent = record.intent
  BY DEF Webhook, Current
<1>3. n \in Notice /\ provider[n.checkout] # None /\ (n.kind = "subscription" => Completed(n.checkout))
  BY DEF PlusInv, PlusType, Announced
<1>4. Of(n.checkout, record.intent)
  BY <1>2, <1>3 DEF Of, Notice
<1>5. record.intent \in Nat /\ record.intent <= intents
  BY <1>2, Rows DEF PlusInv, PlusType
<1>6. j \in Job
  BY <1>3, <1>5 DEF Job, NoWork, Opt, Notice
<1>7. worker'[w] = j
  BY <1>1 DEF PlusInv, PlusType
<1>8. p \in {"recover", "begin"} /\ (p = "recover" => n.kind = "checkout")
  OBVIOUS
<1>9. Working(w)'
  <2> HIDE DEF p
  <2>1. j.pc = p /\ j.for = n.kind /\ j.intent = record.intent /\ j.checkout = n.checkout
    BY DEF NoWork
  <2> HIDE DEF j
  <2>2. Of(n.checkout, record.intent)' /\ (n.kind = "subscription" => Completed(n.checkout)')
    BY <1>1, <1>3, <1>4 DEF Of, Completed
  <2>3. QED  BY <1>1, <1>5, <1>7, <1>8, <2>1, <2>2 DEF Working
<1> HIDE DEF j
<1>10. QED  BY <1>1, <1>6, <1>9, HandlerKeeps

LEMMA AnsweredTakes == ASSUME NEW n, Answered(n) PROVE notices' \subseteq notices
BY DEF Answered

(* A handler whose synchronisation is over knows nothing that the row could contradict. *)
LEMMA SynchronisedJob ==
  ASSUME PlusInv, intents' = intents, NEW w \in Workers, Synchronised(w)
  PROVE  /\ notices' \subseteq notices
         /\ \E j \in Job : worker' = [worker EXCEPT ![w] = j]
         /\ Working(w)'
<1>1. notices' \subseteq notices
  BY AnsweredTakes DEF Synchronised
<1>2. CASE worker[w].for = "post"
  <2> DEFINE j == [worker[w] EXCEPT !.pc = "reserve"]
  <2>1. worker' = [worker EXCEPT ![w] = j] /\ j \in Job /\ worker'[w] = j
    BY <1>2, Jobs DEF Synchronised, Goto, PlusInv, PlusType, Job
  <2>2. j.pc = "reserve" /\ j.intent = worker[w].intent
    BY Jobs DEF Job
  <2> HIDE DEF j
  <2>3. Working(w)'
    BY <2>1, <2>2, Jobs DEF Working
  <2>4. QED  BY <1>1, <2>1, <2>3
<1>3. CASE worker[w].for # "post"
  <2>1. worker' = [worker EXCEPT ![w] = NoWork] /\ NoWork \in Job /\ worker'[w] = NoWork
    BY <1>3, Jobs DEF Synchronised, Return, PlusInv, PlusType
  <2>2. Working(w)'
    BY <2>1 DEF Working, NoWork, PlusInv, PlusType
  <2>3. QED  BY <1>1, <2>1, <2>2
<1>4. QED  BY <1>2, <1>3

(* The end of a synchronisation that left the row alone. *)
LEMMA SynchronisedKeeps ==
  ASSUME PlusInv, UNCHANGED <<record, intents, provider, made>>, NEW w \in Workers, Synchronised(w)
  PROVE  PlusInv'
BY SynchronisedJob, HandlerKeeps

(* Moving on with what is known. *)
LEMMA CheckoutStateKeeps ==
  ASSUME PlusInv, NEW w \in Workers, CheckoutState(w)
  PROVE  PlusInv'
<1>1. UNCHANGED <<record, intents, provider, made>> /\ worker[w].pc = "state"
  BY DEF CheckoutState, At
<1>2. PICK c, i : c = worker[w].checkout /\ i = worker[w].intent
  OBVIOUS
<1>3. Of(c, i)
  BY <1>1, <1>2, Jobs DEF Working
<1>4. ASSUME NEW pc \in {"expire", "read"}, Goto(w, pc), notices' = notices,
             pc = "expire" => provider[c].session = "expired",
             pc = "read" => provider[c].session = "complete"
      PROVE  PlusInv'
  <2> DEFINE j == [worker[w] EXCEPT !.pc = pc]
  <2>1. worker' = [worker EXCEPT ![w] = j] /\ j \in Job /\ worker'[w] = j
    BY <1>4, Jobs DEF Goto, PlusInv, PlusType, Job
  <2>2. j.pc = pc /\ j.intent = i /\ j.checkout = c
    BY <1>2, Jobs DEF Job
  <2>3. Of(c, i)' /\ (pc = "read" => Completed(c)')
    BY <1>1, <1>2, <1>3, <1>4 DEF Of, Completed
  <2>4. Working(w)'
    BY <1>1, <1>2, <1>4, <2>1, <2>2, <2>3, Jobs DEF Working
  <2> HIDE DEF j
  <2>5. QED  BY <1>1, <1>4, <2>1, <2>4, HandlerKeeps
<1>5. QED  BY <1>1, <1>2, <1>4, SynchronisedKeeps DEF CheckoutState

LEMMA ReadSubscriptionKeeps ==
  ASSUME PlusInv, NEW w \in Workers, ReadSubscription(w)
  PROVE  PlusInv'
<1> DEFINE j == [worker[w] EXCEPT !.pc = "apply", !.snap = provider[worker[w].checkout]]
<1>1. UNCHANGED <<record, intents, provider, made, notices>> /\ worker[w].pc = "read"
  BY DEF ReadSubscription, At, stripe
<1>2. PICK c, i : c = worker[w].checkout /\ i = worker[w].intent
  OBVIOUS
<1>3. Of(c, i) /\ Completed(c)
  BY <1>1, <1>2, Jobs DEF Working
<1>4. provider[c] \in Bill
  BY <1>3 DEF Of, PlusInv, PlusType, Opt
<1>5. worker' = [worker EXCEPT ![w] = j]
  BY Jobs DEF ReadSubscription, PlusInv, PlusType, Job
<1>6. j \in Job /\ worker'[w] = j
  BY <1>2, <1>4, <1>5, Jobs DEF PlusInv, PlusType, Job, Opt
<1>7. j.pc = "apply" /\ j.intent = i /\ j.checkout = c /\ j.snap = provider[c]
  BY <1>2, Jobs DEF Job
<1>8. Of(c, i)' /\ Completed(c)'
  BY <1>1, <1>3 DEF Of, Completed
<1> HIDE DEF j
<1>9. Working(w)'
  BY <1>1, <1>2, <1>3, <1>6, <1>7, <1>8, Jobs DEF Working, Of
<1>10. QED  BY <1>1, <1>5, <1>6, <1>9, HandlerKeeps

-----------------------------------------------------------------------------
(* The steps that change the row. *)

LEMMA AttachedRow ==
  ASSUME PlusInv, NEW w \in Workers, NEW url \in BOOLEAN, Of(worker[w].checkout, worker[w].intent),
         Attached(w, url) # record
  PROVE  /\ record # None
         /\ Attached(w, url) \in PlusRow
         /\ Attached(w, url).checkout = worker[w].checkout
         /\ worker[w].intent = record.intent
         /\ \A f \in {"intent", "sub", "status", "paid"} : Attached(w, url)[f] = record[f]
<1>1. Current(worker[w].intent) /\ Attached(w, url) = [record EXCEPT !.checkout = worker[w].checkout, !.url = url]
  BY DEF Attached
<1>2. record \in PlusRow
  BY <1>1, Rows DEF Current
<1>3. QED  BY <1>1, <1>2 DEF PlusRow, Current, Of, Opt

LEMMA AttachKeeps ==
  ASSUME PlusInv, NEW w \in Workers, NEW url \in BOOLEAN, Of(worker[w].checkout, worker[w].intent),
         UNCHANGED <<intents, provider, made, notices>>, record' = Attached(w, url),
         NEW j \in Job, worker' = [worker EXCEPT ![w] = j], Working(w)'
  PROVE  PlusInv'
<1>1. CASE Attached(w, url) = record
  BY <1>1, HandlerKeeps
<1>2. CASE Attached(w, url) # record
  <2>1. PICK r : r = Attached(w, url)
    OBVIOUS
  <2>2. /\ record # None /\ r \in PlusRow /\ r.checkout = worker[w].checkout /\ worker[w].intent = record.intent
        /\ r.intent = record.intent /\ r.sub = record.sub /\ r.status = record.status /\ r.paid = record.paid
    BY <1>2, <2>1, AttachedRow
  <2>3. r.checkout # None => Of(r.checkout, r.intent)
    BY <2>2
  <2>4. r.sub # None => Of(r.sub, r.intent) /\ Completed(r.sub)
    BY <2>2 DEF PlusInv, RowTrue
  <2>5. r.sub = None => record.sub = None /\ r.paid = 0
    BY <2>2 DEF PlusInv, RowMatchesIntent
  <2>6. ~Reusable(r) => Over(r.intent)
    BY <2>2 DEF PlusInv, RowTrue, Reusable
  <2>7. QED  BY <2>1, <2>2, <2>3, <2>4, <2>5, <2>6, RowKeeps
<1>3. QED  BY <1>1, <1>2

LEMMA RecoverKeeps ==
  ASSUME PlusInv, NEW w \in Workers, Recover(w)
  PROVE  PlusInv'
<1> DEFINE j == [worker[w] EXCEPT !.pc = "begin"]
<1>1. UNCHANGED <<intents, provider, made, notices>> /\ worker[w].pc = "recover" /\ record' = Attached(w, FALSE)
  BY DEF Recover, At, stripe
<1>2. PICK c, i : c = worker[w].checkout /\ i = worker[w].intent
  OBVIOUS
<1>3. Of(c, i) /\ worker[w].for = "checkout" /\ i <= intents
  BY <1>1, <1>2, Jobs DEF Working
<1>4. worker' = [worker EXCEPT ![w] = j] /\ j \in Job /\ worker'[w] = j
  BY Jobs DEF Recover, Goto, PlusInv, PlusType, Job
<1>5. j.pc = "begin" /\ j.for = "checkout" /\ j.intent = i
  BY <1>2, <1>3, Jobs DEF Job
<1> HIDE DEF j
<1>6. Working(w)'
  BY <1>1, <1>3, <1>4, <1>5 DEF Working
<1>7. QED  BY <1>1, <1>2, <1>3, <1>4, <1>6, AttachKeeps

LEMMA AttachCheckoutKeeps ==
  ASSUME PlusInv, NEW w \in Workers, AttachCheckout(w)
  PROVE  PlusInv'
<1>1. /\ UNCHANGED <<intents, provider, made, notices>> /\ worker[w].pc = "attach" /\ record' = Attached(w, TRUE)
      /\ worker' = [worker EXCEPT ![w] = NoWork]
  BY DEF AttachCheckout, At, Return, stripe
<1>2. Of(worker[w].checkout, worker[w].intent) /\ NoWork \in Job
  BY <1>1, Jobs DEF Working
<1>3. Working(w)'
  BY <1>1 DEF Working, NoWork, PlusInv, PlusType
<1>4. QED  BY <1>1, <1>2, <1>3, AttachKeeps

LEMMA BeginSyncKeeps ==
  ASSUME PlusInv, NEW w \in Workers, BeginSync(w)
  PROVE  PlusInv'
<1> DEFINE r == [record EXCEPT !.generation = w]
<1>1. UNCHANGED <<intents, provider, made, notices>> /\ worker[w].pc = "begin" /\ record' = r
  BY DEF BeginSync, At, stripe
<1>2. record # None /\ record \in PlusRow /\ worker[w].intent = record.intent
  BY Rows DEF BeginSync, Current
<1>3. /\ r \in PlusRow /\ r.intent = record.intent /\ r.checkout = record.checkout /\ r.sub = record.sub
      /\ r.status = record.status /\ r.paid = record.paid
  BY <1>2 DEF PlusRow, Opt
<1>4. \E j \in Job : /\ worker' = [worker EXCEPT ![w] = j] /\ j.intent = record.intent
                     /\ j.pc \in {"read", "state"} /\ Of(j.checkout, j.intent)
                     /\ j.pc = "read" => Completed(j.checkout)
  <2>1. CASE worker[w].for = "subscription" /\ Goto(w, "read")
    <3> DEFINE j == [worker[w] EXCEPT !.pc = "read"]
    <3>1. Of(worker[w].checkout, worker[w].intent) /\ Completed(worker[w].checkout)
      BY <1>1, <2>1, Jobs DEF Working
    <3>2. worker' = [worker EXCEPT ![w] = j] /\ j \in Job
      BY <2>1, Jobs DEF Goto, Job, PlusInv, PlusType
    <3>3. j.pc = "read" /\ j.intent = worker[w].intent /\ j.checkout = worker[w].checkout
      BY Jobs DEF Job
    <3> HIDE DEF j
    <3>4. QED  BY <1>2, <3>1, <3>2, <3>3
  <2>2. ASSUME NEW pc \in {"read", "state"}, NEW c \in Checkouts,
               Of(c, record.intent), pc = "read" => Completed(c),
               worker' = [worker EXCEPT ![w].pc = pc, ![w].checkout = c]
        PROVE  \E j \in Job : /\ worker' = [worker EXCEPT ![w] = j] /\ j.intent = record.intent
                              /\ j.pc \in {"read", "state"} /\ Of(j.checkout, j.intent)
                              /\ j.pc = "read" => Completed(j.checkout)
    <3> DEFINE j == [worker[w] EXCEPT !.pc = pc, !.checkout = c]
    <3>1. worker' = [worker EXCEPT ![w] = j] /\ j \in Job
      BY <2>2, Jobs DEF Job, PlusInv, PlusType, Opt
    <3>2. j.pc = pc /\ j.intent = worker[w].intent /\ j.checkout = c
      BY Jobs DEF Job
    <3> HIDE DEF j
    <3>3. QED  BY <1>2, <2>2, <3>1, <3>2
  <2>3. record.sub # None => record.sub \in Checkouts /\ Of(record.sub, record.intent) /\ Completed(record.sub)
    BY <1>2 DEF PlusInv, RowTrue, Of
  <2>4. record.checkout # None => record.checkout \in Checkouts /\ Of(record.checkout, record.intent)
    BY <1>2 DEF PlusInv, RowTrue, Of
  <2>5. QED  BY <2>1, <2>2, <2>3, <2>4 DEF BeginSync
<1>5. PICK j \in Job : /\ worker' = [worker EXCEPT ![w] = j] /\ j.intent = record.intent
                       /\ j.pc \in {"read", "state"} /\ Of(j.checkout, j.intent)
                       /\ j.pc = "read" => Completed(j.checkout)
  BY <1>4
<1> HIDE DEF r
<1>6. Working(w)'
  <2>1. worker'[w] = j /\ j.intent <= intents
    BY <1>2, <1>5, Rows DEF PlusInv, PlusType
  <2>2. Of(j.checkout, j.intent)' /\ (j.pc = "read" => Completed(j.checkout)')
    BY <1>1, <1>5 DEF Of, Completed
  <2>3. QED  BY <1>1, <1>5, <2>1, <2>2 DEF Working
<1>7. r.checkout # None => Of(r.checkout, r.intent)
  BY <1>2, <1>3 DEF PlusInv, RowTrue
<1>8. r.sub # None => Of(r.sub, r.intent) /\ Completed(r.sub)
  BY <1>2, <1>3 DEF PlusInv, RowTrue
<1>9. r.sub = None => record.sub = None /\ r.paid = 0
  BY <1>2, <1>3 DEF PlusInv, RowMatchesIntent
<1>10. ~Reusable(r) => Over(r.intent)
  BY <1>2, <1>3 DEF PlusInv, RowTrue, Reusable
<1>11. QED  BY <1>1, <1>2, <1>3, <1>5, <1>6, <1>7, <1>8, <1>9, <1>10, RowKeeps

(* An intent whose Checkout is in the row is over once that Checkout can collect no more. *)
LEMMA OverByCheckout ==
  ASSUME PlusInv, NEW c, NEW i, Of(c, i), ~Payable(c)
  PROVE  i \in Intents /\ Over(i)
BY PlusAssumption DEF PlusInv, PlusType, Keyed, Of, Over, Opt, Bill

LEMMA ApplyKeeps ==
  ASSUME PlusInv, NEW w \in Workers, Apply(w)
  PROVE  PlusInv'
<1>1. PICK c, s : c = worker[w].checkout /\ s = worker[w].snap
  OBVIOUS
<1> DEFINE r == MergePlus(record, c, s)
<1>2. /\ UNCHANGED <<intents, provider, made>> /\ worker[w].pc = "apply" /\ record' = r
      /\ record.sub \in {None, c} /\ Synchronised(w)
  BY <1>1 DEF Apply, At
<1>3. record # None /\ record \in PlusRow /\ worker[w].intent = record.intent
  BY Rows DEF Apply, Latest, Current
<1>4. /\ Of(c, record.intent) /\ Completed(c) /\ s \in Bill
      /\ s.status \in Terminal => provider[c].status \in Terminal
  BY <1>1, <1>2, <1>3, Jobs DEF Working, Job, Opt
<1>5. /\ r \in PlusRow /\ r.intent = record.intent /\ r.checkout = record.checkout /\ r.sub = c
      /\ r.status = s.status
  BY <1>3, <1>4 DEF MergePlus, PlusRow, RowStatus, Bill, Opt, Of
<1> HIDE DEF r
<1>6. r.checkout # None => Of(r.checkout, r.intent)
  BY <1>3, <1>5 DEF PlusInv, RowTrue
<1>7. r.sub # None /\ Of(r.sub, r.intent) /\ Completed(r.sub)
  BY <1>4, <1>5, PlusAssumption DEF Of
<1>8. ~Reusable(r) => Over(r.intent)
  <2>1. ASSUME ~Reusable(r)  PROVE  s.status \in Terminal
    BY <2>1, <1>4, <1>5, PlusNoneAssumption DEF Reusable, Bill, Opt, RowStatus, SubscriptionStatus, Terminal
  <2>2. ASSUME ~Reusable(r)  PROVE  ~Payable(c)
    BY <2>1, <2>2, <1>4 DEF Payable, Completed
  <2>3. QED  BY <2>2, <1>4, <1>5, OverByCheckout
<1>9. QED  BY <1>2, <1>3, <1>5, <1>6, <1>7, <1>8, SynchronisedJob, RowKeeps

LEMMA ExpireCheckoutKeeps ==
  ASSUME PlusInv, NEW w \in Workers, ExpireCheckout(w)
  PROVE  PlusInv'
<1>1. PICK c : c = worker[w].checkout
  OBVIOUS
<1> DEFINE r == [record EXCEPT !.status = "checkout_expired", !.version = provider[c].version]
<1>2. /\ UNCHANGED <<intents, provider, made>> /\ worker[w].pc = "expire" /\ Synchronised(w)
      /\ record' = IF Current(worker[w].intent) /\ record.sub = None THEN r ELSE record
  BY <1>1 DEF ExpireCheckout, At
<1>3. CASE record' = record
  BY <1>2, <1>3, SynchronisedKeeps
<1>4. CASE Current(worker[w].intent) /\ record.sub = None
  <2>1. record # None /\ record \in PlusRow /\ worker[w].intent = record.intent
    BY <1>4, Rows DEF Current
  <2>2. Of(c, record.intent) /\ provider[c].session = "expired" /\ provider[c] \in Bill
    BY <1>1, <1>2, <2>1, Jobs DEF Working, Of, PlusInv, PlusType, Opt
  <2>3. /\ r \in PlusRow /\ r.intent = record.intent /\ r.checkout = record.checkout /\ r.sub = None
        /\ r.paid = record.paid
    BY <1>4, <2>1, <2>2 DEF PlusRow, RowStatus, Bill, Opt
  <2>4. record' = r
    BY <1>2, <1>4
  <2> HIDE DEF r
  <2>5. r.checkout # None => Of(r.checkout, r.intent)
    BY <2>1, <2>3 DEF PlusInv, RowTrue
  <2>6. r.paid = 0
    BY <1>4, <2>1, <2>3 DEF PlusInv, RowMatchesIntent
  <2>7. Over(r.intent)
    BY <2>2, <2>3, OverByCheckout DEF Payable
  <2>8. QED  BY <1>2, <1>4, <2>1, <2>3, <2>4, <2>5, <2>6, <2>7, SynchronisedJob, RowKeeps
<1>5. QED  BY <1>2, <1>3, <1>4

-----------------------------------------------------------------------------
(* Enrolling: a new intent only once that of the row is over. *)

LEMMA ReserveAgainKeeps ==
  ASSUME PlusInv, NEW w \in Workers, Reserve(w), record # None, Reusable(record)
  PROVE  PlusInv'
<1>1. UNCHANGED <<record, intents, provider, made, notices>>
  BY DEF Reserve, stripe
<1>2. CASE Return(w)
  BY <1>1, <1>2, ReturnKeeps
<1>3. CASE worker' = [worker EXCEPT ![w].pc = "create", ![w].intent = record.intent]
  <2> DEFINE j == [worker[w] EXCEPT !.pc = "create", !.intent = record.intent]
  <2>1. record.intent \in Nat /\ record.intent > 0 /\ record.intent <= intents
    BY Rows, PlusAssumption DEF Intents, PlusInv, PlusType
  <2>2. worker' = [worker EXCEPT ![w] = j] /\ j \in Job /\ worker'[w] = j
    BY <1>3, <2>1, Jobs DEF PlusInv, PlusType, Job
  <2>3. j.pc = "create" /\ j.intent = record.intent
    BY Jobs DEF Job
  <2> HIDE DEF j
  <2>4. Working(w)'
    BY <1>1, <2>1, <2>2, <2>3 DEF Working
  <2>5. QED  BY <1>1, <2>2, <2>4, HandlerKeeps
<1>4. QED  BY <1>2, <1>3 DEF Reserve

LEMMA ReserveNewKeeps ==
  ASSUME PlusInv, NEW w \in Workers, Reserve(w), ~(record # None /\ Reusable(record))
  PROVE  PlusInv'
<1>0. PICK i \in Nat : i = intents + 1
  BY DEF PlusInv, PlusType
<1> DEFINE r == NewPlus(i)
           j == [worker[w] EXCEPT !.pc = "create", !.intent = i]
<1>1. /\ UNCHANGED <<provider, made, notices>> /\ record' = r /\ intents' = i /\ i = intents + 1
      /\ intents < MaxIntents /\ intents \in Nat /\ MaxIntents \in Nat
  BY <1>0, PlusAssumption DEF Reserve, stripe, PlusInv, PlusType
<1>2. r.intent = i /\ r.checkout = None /\ r.sub = None /\ r.status = "checkout_pending" /\ r.paid = 0
  BY DEF NewPlus
<1>3. r \in PlusRow /\ r # None /\ Reusable(r)
  <2>1. r \in PlusRow
    BY <1>1 DEF NewPlus, PlusRow, Intents, Opt, RowStatus
  <2>2. QED  BY <1>2, <2>1, PlusNoneAssumption DEF Reusable, Terminal
<1>4. worker' = [worker EXCEPT ![w].pc = "create", ![w].intent = i]
  BY <1>0, <1>2 DEF Reserve
<1>5. worker' = [worker EXCEPT ![w] = j] /\ j \in Job /\ worker'[w] = j
  BY <1>1, <1>4, Jobs DEF PlusInv, PlusType, Job
<1>6. j.pc = "create" /\ j.intent = i
  BY Jobs DEF Job
<1> HIDE DEF j, r
<1>7. PlusType'
  BY <1>1, <1>3, <1>5 DEF PlusInv, PlusType, Opt
<1>8. Onward /\ RowOnward
  BY <1>1, <1>2 DEF Onward, RowOnward
<1>9. Working(w)'
  BY <1>1, <1>5, <1>6 DEF Working
<1>10. \A v \in Workers : Working(v)'
  BY <1>5, <1>8, <1>9, OthersWork DEF PlusInv, PlusType
<1>11. RowMatchesIntent' /\ RowTrue'
  BY <1>1, <1>2, <1>3 DEF RowMatchesIntent, RowTrue
<1>12. \A k \in Intents : k < intents' => Over(k)
  BY <1>1 DEF PlusInv, OverBefore, RowMatchesIntent, RowTrue, Intents
<1>13. OverBefore'
  BY <1>8, <1>12, OverStays DEF OverBefore
<1>14. Keyed' /\ Announced'
  <2>1. \A c \in Checkouts : provider[c] # None => provider[c].intent \in Nat
    BY DEF PlusInv, PlusType, Opt, Bill, Intents
  <2>2. QED  BY <1>1, <2>1 DEF PlusInv, Keyed, Announced, Of, Completed
<1>15. QED  BY <1>7, <1>10, <1>11, <1>13, <1>14 DEF PlusInv

LEMMA RefuseKeeps == ASSUME PlusInv, NEW w \in Workers, Refuse(w) PROVE PlusInv'
BY ReturnKeeps DEF Refuse, stripe

(* The key of an intent that was replaced is taken, so a Checkout that is made is of the newest. *)
LEMMA CreateCheckoutKeeps ==
  ASSUME PlusInv, NEW w \in Workers, NEW c \in Checkouts, CreateCheckout(w, c)
  PROVE  PlusInv'
<1>1. PICK i : i = worker[w].intent
  OBVIOUS
<1> DEFINE j == [worker[w] EXCEPT !.pc = "attach", !.checkout = c]
           b == [intent |-> i, session |-> "open", status |-> None,
                 ending |-> FALSE, period |-> 0, paid |-> 0, version |-> 0]
<1>2. UNCHANGED <<record, intents, notices>> /\ worker[w].pc = "create" /\ i \notin old
  BY <1>1 DEF CreateCheckout, At, Askable
<1>3. i \in Intents /\ i <= intents
  BY <1>1, <1>2, Jobs, PlusAssumption DEF Working, Job, Intents, PlusInv, PlusType
<1>4. worker' = [worker EXCEPT ![w] = j] /\ j \in Job /\ worker'[w] = j
  BY Jobs DEF CreateCheckout, PlusInv, PlusType, Job, Opt
<1>5. j.pc = "attach" /\ j.intent = i /\ j.checkout = c
  BY <1>1, Jobs DEF Job
<1> HIDE DEF j
<1>6. CASE made[i] # None
  <2>1. made[i] = c /\ UNCHANGED <<provider, made>>
    BY <1>1, <1>2, <1>6 DEF CreateCheckout, KeyOf
  <2>2. Of(c, i)'
    BY <1>3, <1>6, <2>1 DEF PlusInv, Keyed, Of
  <2>3. Working(w)'
    BY <1>2, <1>3, <1>4, <1>5, <2>2 DEF Working
  <2>4. QED  BY <1>2, <1>4, <2>1, <2>3, HandlerKeeps
<1>7. CASE made[i] = None
  <2>1. /\ provider[c] = None /\ provider' = [provider EXCEPT ![c] = b] /\ made' = [made EXCEPT ![i] = c]
    BY <1>1, <1>2, <1>7 DEF CreateCheckout, KeyOf
  <2>2. b \in Bill /\ b # None /\ b.intent = i /\ b.session = "open" /\ b.status = None
    <3>1. b \in Bill
      BY <1>3 DEF Bill, Opt
    <3>2. QED  BY <3>1, PlusNoneAssumption
  <2> HIDE DEF b
  <2>3. provider'[c] = b /\ \A k \in Checkouts : k # c => provider'[k] = provider[k]
    BY <2>1 DEF PlusInv, PlusType
  <2>4. made'[i] = c /\ c # None /\ \A k \in Intents : k # i => made'[k] = made[k]
    BY <1>3, <2>1, PlusAssumption DEF PlusInv, PlusType
  <2>5. PlusType'
    BY <1>2, <1>3, <1>4, <2>1, <2>2 DEF PlusInv, PlusType, Opt
  <2>6. Onward
    BY <1>2, <1>7, <2>1, <2>3, <2>4 DEF Onward, PlusInv, PlusType
  <2>7. Of(c, i)'
    BY <2>2, <2>3 DEF Of
  <2>8. Working(w)'
    BY <1>2, <1>3, <1>4, <1>5, <2>7 DEF Working
  <2>9. Keyed'
    <3>1. \A k \in Checkouts : provider'[k] # None =>
            /\ provider'[k].intent <= intents' /\ made'[provider'[k].intent] = k
            /\ provider'[k].status # None => provider'[k].session = "complete"
      <4>1. \A k \in Checkouts : provider[k] # None => provider[k].intent \in Intents /\ provider[k].intent # i
        BY <1>7, PlusAssumption DEF PlusInv, PlusType, Keyed, Opt, Bill
      <4>2. QED  BY <1>2, <1>3, <2>2, <2>3, <2>4, <4>1 DEF PlusInv, Keyed
    <3>2. \A k \in Intents : made'[k] # None => Of(made[k], k)'
      <4> SUFFICES ASSUME NEW k \in Intents, k # i, made[k] # None  PROVE Of(made[k], k)'
        BY <2>4, <2>7
      <4>1. Of(made[k], k)
        BY DEF PlusInv, Keyed
      <4>2. provider'[made[k]] # None /\ provider'[made[k]].intent = k
        BY <4>1, <2>6 DEF Of, Onward
      <4>3. QED  BY <2>4, <4>1, <4>2 DEF Of
    <3>3. QED  BY <3>1, <3>2 DEF Keyed
  <2>10. Announced'
    BY <1>2, <2>1, <2>3 DEF PlusInv, PlusType, Announced, Completed, Notice
  <2>11. \A v \in Workers : worker'[v] = worker[v] \/ Working(v)'
    BY <1>4, <2>8 DEF PlusInv, PlusType
  <2>12. QED  BY <1>2, <2>5, <2>6, <2>9, <2>10, <2>11, StripeKeeps
<1>8. QED  BY <1>6, <1>7

-----------------------------------------------------------------------------
(* Stripe, time, and losses. *)

(* A Checkout that changes, and how: what is over stays over. *)
LEMMA ChangedKeeps ==
  ASSUME PlusInv, NEW c \in Checkouts, NEW p \in Bill, NEW kinds \in SUBSET {"checkout", "subscription"},
         Changed(c, p, kinds), UNCHANGED <<record, intents>>,
         provider[c] # None, p.intent = provider[c].intent,
         p.version = provider[c].version,
         provider[c].session # "open" => p.session = provider[c].session,
         provider[c].session = "complete" /\ provider[c].status \in Terminal => p.status \in Terminal,
         "subscription" \in kinds \/ p.status # None => p.session = "complete",
         \A w \in Workers : worker'[w] = worker[w] \/ Working(w)',
         worker' \in [Workers -> Job]
  PROVE  PlusInv'
<1> DEFINE b == [p EXCEPT !.version = @ + 1]
<1>1. provider' = [provider EXCEPT ![c] = b] /\ made' = made
  BY DEF Changed
<1>2. b \in Bill /\ b.intent = p.intent /\ b.session = p.session /\ b.status = p.status
  BY DEF Bill
<1>3. b # None
  BY <1>2, PlusNoneAssumption
<1> HIDE DEF b
<1>4. provider'[c] = b /\ \A k \in Checkouts : k # c => provider'[k] = provider[k]
  BY <1>1 DEF PlusInv, PlusType
<1>5. \A n \in notices' : n \in notices \/ (n \in Notice /\ n.checkout = c /\ n.kind \in kinds)
  BY DEF Changed, Notice, Bill
<1>6. PlusType'
  BY <1>1, <1>2, <1>5 DEF PlusInv, PlusType, Opt
<1>7. Onward
  BY <1>1, <1>2, <1>3, <1>4 DEF Onward, PlusInv, PlusType
<1>8. Keyed'
  BY <1>1, <1>2, <1>4, <1>3 DEF PlusInv, Keyed, Of
<1>9. Announced'
  BY <1>2, <1>3, <1>4, <1>5, <1>7, CompletedStays DEF PlusInv, PlusType, Announced, Completed, Notice
<1>10. QED  BY <1>6, <1>7, <1>8, <1>9, StripeKeeps

LEMMA StripeStepKeeps ==
  ASSUME PlusInv, NEW c \in Checkouts,
         SessionExpires(c) \/ \E s \in SubscriptionStatus : Subscribe(c, s) \/ Settles(c, s) \/ Renews(c, s)
  PROVE  PlusInv'
<1>1. PICK p : p = provider[c]
  OBVIOUS
<1>2. /\ p # None /\ p \in Bill /\ worker' = worker /\ UNCHANGED <<record, intents>> /\ worker \in [Workers -> Job]
      /\ p.status # None => p.session = "complete"
  <2>1. p # None /\ worker' = worker /\ UNCHANGED <<record, intents>>
    BY <1>1 DEF SessionExpires, Subscribe, Settles, Renews
  <2>2. QED  BY <1>1, <2>1 DEF PlusInv, PlusType, Opt, Keyed
<1>3. CASE SessionExpires(c)
  <2> DEFINE q == [p EXCEPT !.session = "expired"]
  <2>1. Changed(c, q, {"checkout"}) /\ p.session = "open"
    BY <1>1, <1>3 DEF SessionExpires
  <2>2. q \in Bill /\ q.intent = p.intent /\ q.version = p.version /\ q.status = p.status
    BY <1>2 DEF Bill
  <2> HIDE DEF q
  <2>3. QED  BY <1>1, <1>2, <2>1, <2>2, ChangedKeeps
<1>4. ASSUME NEW s \in SubscriptionStatus, Subscribe(c, s)  PROVE PlusInv'
  <2> DEFINE q == [p EXCEPT !.session = "complete", !.status = s, !.period = 1,
                            !.paid = IF s = "active" THEN 1 ELSE 0]
  <2>1. Changed(c, q, {"checkout", "subscription"}) /\ p.session = "open"
    BY <1>1, <1>4 DEF Subscribe
  <2>2. q \in Bill /\ q.intent = p.intent /\ q.version = p.version /\ q.session = "complete"
    BY <1>2 DEF Bill, Opt
  <2> HIDE DEF q
  <2>3. QED  BY <1>1, <1>2, <2>1, <2>2, ChangedKeeps
(* An invoice is of a subscription that is not over. *)
<1>5. ASSUME NEW q \in Bill, Changed(c, q, {"subscription"}), p.status \in SubscriptionStatus \ Terminal,
             q.intent = p.intent, q.version = p.version, q.session = p.session
      PROVE  PlusInv'
  <2>1. p.session = "complete"
    BY <1>2, <1>5, PlusNoneAssumption DEF RowStatus
  <2>2. QED  BY <1>1, <1>2, <1>5, <2>1, ChangedKeeps
<1>6. ASSUME NEW s \in SubscriptionStatus, Settles(c, s)  PROVE PlusInv'
  <2> DEFINE q == [p EXCEPT !.status = s, !.paid = IF s = "active" THEN p.period ELSE @]
  <2>1. Changed(c, q, {"subscription"}) /\ p.status \in {"incomplete", "past_due", "unpaid", "active"}
    BY <1>1, <1>6 DEF Settles
  <2>2. q \in Bill /\ q.intent = p.intent /\ q.version = p.version /\ q.session = p.session
    BY <1>2 DEF Bill, Opt
  <2> HIDE DEF q
  <2>3. QED  BY <1>5, <2>1, <2>2 DEF SubscriptionStatus, Terminal
<1>7. ASSUME NEW s \in SubscriptionStatus, Renews(c, s)  PROVE PlusInv'
  <2>0. PICK n \in Nat : n = p.period + 1
    BY <1>2 DEF Bill
  <2> DEFINE q == [p EXCEPT !.status = s, !.period = n, !.paid = IF s = "active" THEN n ELSE 0]
  <2>1. Changed(c, q, {"subscription"}) /\ p.status = "active"
    BY <1>1, <1>7, <2>0 DEF Renews
  <2>2. q \in Bill /\ q.intent = p.intent /\ q.version = p.version /\ q.session = p.session
    BY <1>2 DEF Bill, Opt
  <2> HIDE DEF q
  <2>3. QED  BY <1>5, <2>1, <2>2 DEF SubscriptionStatus, Terminal
<1>8. QED  BY <1>3, <1>4, <1>6, <1>7

LEMMA CancelAtPeriodEndKeeps ==
  ASSUME PlusInv, NEW w \in Workers, CancelAtPeriodEnd(w)
  PROVE  PlusInv'
<1>1. PICK c, p : c = record.sub /\ p = provider[c]
  OBVIOUS
<1>2. UNCHANGED <<record, intents>> /\ worker[w].pc = "cancel"
  BY DEF CancelAtPeriodEnd, At
<1>3. CASE ~Current(worker[w].intent) \/ p.status \in Terminal
  BY <1>1, <1>3, ReturnKeeps DEF CancelAtPeriodEnd, stripe
<1>4. CASE Current(worker[w].intent) /\ p.status \notin Terminal
  <2> DEFINE q == [p EXCEPT !.ending = TRUE]
             j == [worker[w] EXCEPT !.pc = "begin"]
  <2>1. Changed(c, q, {"subscription"}) /\ worker' = [worker EXCEPT ![w] = j]
    BY <1>1, <1>4, Jobs DEF CancelAtPeriodEnd, Goto, PlusInv, PlusType, Job
  <2>2. c # None /\ Of(c, record.intent) /\ Completed(c) /\ c \in Checkouts
    BY <1>1, <1>2, <1>4, Jobs DEF Working, Current, PlusInv, RowTrue, Of
  <2>3. p \in Bill
    BY <1>1, <2>2 DEF Of, PlusInv, PlusType, Opt
  <2>4. q \in Bill /\ q.intent = p.intent /\ q.version = p.version /\ q.session = p.session /\ q.status = p.status
    BY <2>3 DEF Bill
  <2>5. j \in Job /\ worker'[w] = j /\ worker' \in [Workers -> Job]
    BY <2>1, Jobs DEF PlusInv, PlusType, Job
  <2>6. j.pc = "begin" /\ j.for = worker[w].for /\ j.intent = worker[w].intent
    BY Jobs DEF Job
  <2> HIDE DEF q, j
  <2>7. worker[w].for = "cancel"
    BY <1>2, Jobs DEF Working
  <2>8. Working(w)'
    BY <1>2, <2>5, <2>6, <2>7, Jobs DEF Working
  <2>9. \A v \in Workers : worker'[v] = worker[v] \/ Working(v)'
    BY <2>1, <2>8 DEF PlusInv, PlusType
  <2>10. QED  BY <1>1, <1>2, <2>1, <2>2, <2>3, <2>4, <2>5, <2>9, ChangedKeeps DEF Completed, Of
<1>5. QED  BY <1>3, <1>4

LEMMA LostKeeps == ASSUME PlusInv, NEW w \in Workers, Lost(w) PROVE PlusInv'
BY ReturnKeeps DEF Lost, Unanswered

LEMMA SupersededKeeps == ASSUME PlusInv, NEW w \in Workers, Superseded(w) PROVE PlusInv'
BY ReturnKeeps DEF Superseded, Unanswered

LEMMA InertKeeps == ASSUME PlusInv, NEW w \in Workers, NEW n \in notices, Inert(w, n) PROVE PlusInv'
BY AnsweredTakes, WaitingKeeps DEF Inert

-----------------------------------------------------------------------------
LEMMA WorksKeeps == ASSUME PlusInv, NEW w \in Workers, Works(w) PROVE PlusInv'
<1>1. CASE Replaced(w)
  BY <1>1, SynchronisedKeeps DEF Replaced
<1>2. CASE Reserve(w)
  BY <1>2, ReserveAgainKeeps, ReserveNewKeeps
<1>3. QED
  BY <1>1, <1>2, RecoverKeeps, BeginSyncKeeps, CheckoutStateKeeps, ReadSubscriptionKeeps, ApplyKeeps,
     SupersededKeeps, ExpireCheckoutKeeps, RefuseKeeps, AttachCheckoutKeeps, CancelAtPeriodEndKeeps,
     CreateCheckoutKeeps DEF Works

LEMMA PlusStep == ASSUME PlusInv, [Next]_vars PROVE PlusInv'
<1>1. ASSUME NEW w \in Workers, Get(w)  PROVE PlusInv'
  BY <1>1, RequestKeeps DEF Get
<1>2. ASSUME NEW w \in Workers, Post(w)  PROVE PlusInv'
  BY <1>2, RequestKeeps DEF Post
<1>3. ASSUME NEW w \in Workers, Cancel(w)  PROVE PlusInv'
  BY <1>3, RequestKeeps DEF Cancel
<1>4. ASSUME NEW i \in Intents, Ages(i)  PROVE PlusInv'
  BY <1>4, WaitingKeeps DEF Ages, stripe
<1>5. CASE Repeated
  BY <1>5, WaitingKeeps DEF Repeated
<1>6. CASE UNCHANGED vars
  BY <1>6, WaitingKeeps DEF vars
<1>7. QED
  BY <1>1, <1>2, <1>3, <1>4, <1>5, <1>6, WorksKeeps, LostKeeps, WebhookKeeps, InertKeeps, StripeStepKeeps DEF Next

(* What the row, Stripe's keys and every handler know of each other, at every step. *)
THEOREM PlusInvariant == Spec => []PlusInv
<1>1. Init => PlusInv
  BY PlusInitially
<1>2. PlusInv /\ [Next]_vars => PlusInv'
  BY PlusStep
<1>3. QED  BY <1>1, <1>2, PTL DEF Spec

(* The row is that of one enrollment, the newest, for any number of handlers and losses. *)
THEOREM RowMatches == Spec => []RowMatchesIntent
<1>1. PlusInv => RowMatchesIntent
  BY DEF PlusInv
<1>2. QED  BY <1>1, PlusInvariant, PTL

(* A device pays once: what can still collect money is of the newest intent, and an intent has *)
(* one Checkout.                                                                               *)
THEOREM PaysOnlyOnce == Spec => []PaysOnce
<1>1. ASSUME PlusInv  PROVE PaysOnce
  <2> SUFFICES ASSUME NEW c \in Checkouts, NEW k \in Checkouts, Payable(c), Payable(k)  PROVE c = k
    BY DEF PaysOnce
  <2>1. \A x \in Checkouts : Payable(x) =>
          /\ provider[x].intent \in Intents /\ made[provider[x].intent] = x
          /\ provider[x].intent = intents
    <3> SUFFICES ASSUME NEW x \in Checkouts, Payable(x)
                 PROVE  /\ provider[x].intent \in Intents /\ made[provider[x].intent] = x
                        /\ provider[x].intent = intents
      OBVIOUS
    <3>1. provider[x].intent \in Intents /\ made[provider[x].intent] = x /\ provider[x].intent <= intents
      BY <1>1 DEF PlusInv, PlusType, Opt, Bill, Keyed, Payable
    <3>2. ~Over(provider[x].intent)
      BY <3>1 DEF Over
    <3>3. QED  BY <1>1, <3>1, <3>2 DEF PlusInv, PlusType, OverBefore, Intents
  <2>2. QED  BY <2>1
<1>2. QED  BY <1>1, PlusInvariant, PTL

-----------------------------------------------------------------------------
(* The money facts of an order. *)

FactsRow == [watermark : Nat, facts : Nat]
FactsJob == [of : Readers \cup {None}, watermark : Nat, leased : BOOLEAN, due : BOOLEAN,
        attempts : Nat, status : {"pending", "reading", "verified", "review"}]

FinanceType ==
  /\ facts \in Nat /\ counter \in Nat /\ newest \in Nat /\ told \in Nat
  /\ unheard \subseteq Nat
  /\ job \in FactsJob
  /\ revision \in FactsRow \cup {None}
  /\ reader \in [Readers -> [pc : {"idle", "read", "finish", "defer"}, watermark : Nat, facts : Nat]]

(* No notice tells of a change that is still to come. *)
Past == told <= facts /\ \A v \in unheard : v <= facts

(* Watermarks are of notices recorded before. *)
Counted == newest <= counter /\ \A w \in Readers : reader[w].watermark <= counter

(* A read that no later notice made dirty tells what the recorded ones were about. *)
ReadsCurrent ==
  \A w \in Readers : reader[w].pc = "finish" /\ newest <= reader[w].watermark => reader[w].facts >= told

RevisionCurrent ==
  revision \in FactsRow => revision.watermark <= counter
                     /\ (newest <= revision.watermark => revision.facts >= told)

(* The newest claim has the job's watermark. *)
NewestClaim ==
  \A w \in Readers : reader[w].pc # "idle" /\ job.of = w /\ job.status = "reading"
    => reader[w].watermark = job.watermark

(* What is verified is the newest revision. *)
Verified == job.status = "verified" => revision \in FactsRow /\ revision.watermark = job.watermark

FinanceInv ==
  FinanceType /\ Past /\ Counted /\ ReadsCurrent /\ RevisionCurrent /\ NewestClaim /\ Verified

-----------------------------------------------------------------------------
LEMMA FinanceInitially == ASSUME FinanceInit PROVE FinanceInv
BY FinanceAssumption DEF FinanceInit, FinanceInv, FinanceType, FactsJob, FactsRow, Past, Counted, ReadsCurrent,
   RevisionCurrent, NewestClaim, Verified, Resting

(* A change at Stripe: nothing recorded is about it yet. *)
LEMMA ChangeKeeps == ASSUME FinanceInv, Change PROVE FinanceInv'
BY DEF Change, FinanceInv, FinanceType, FactsJob, FactsRow, Past, Counted, ReadsCurrent, RevisionCurrent, NewestClaim, Verified

(* A recorded notice is above every watermark: every read and the revision become dirty. *)
LEMMA ObserveKeeps == ASSUME FinanceInv, NEW v, Observe(v) PROVE FinanceInv'
<1>1. FinanceType' /\ Past' /\ Counted'
  BY DEF Observe, FinanceInv, FinanceType, FactsJob, FactsRow, Past, Counted
<1>2. ReadsCurrent'
  BY DEF Observe, FinanceInv, FinanceType, FactsJob, FactsRow, Counted, ReadsCurrent
<1>3. RevisionCurrent'
  BY DEF Observe, FinanceInv, FinanceType, FactsJob, FactsRow, RevisionCurrent
<1>4. NewestClaim' /\ Verified'
  BY DEF Observe, FinanceInv, NewestClaim, Verified
<1>. QED  BY <1>1, <1>2, <1>3, <1>4 DEF FinanceInv

LEMMA ObserveOtherKeeps == ASSUME FinanceInv, ObserveOther PROVE FinanceInv'
BY DEF ObserveOther, FinanceInv, FinanceType, FactsJob, FactsRow, Past, Counted, ReadsCurrent, RevisionCurrent, NewestClaim, Verified

(* A claim takes the watermark of the job and of its reader together. *)
LEMMA ClaimKeeps ==
  ASSUME FinanceInv, NEW w \in Readers, NEW force \in BOOLEAN, ClaimJob(w, force)
  PROVE  FinanceInv'
<1>1. /\ reader' = [reader EXCEPT ![w] = [pc |-> "read", watermark |-> counter, facts |-> 0]]
      /\ job'.of = w /\ job'.watermark = counter /\ job'.status = "reading"
      /\ UNCHANGED <<facts, notification, revision>>
  BY DEF ClaimJob
<1>2. job' \in FactsJob
  BY DEF ClaimJob, FinanceInv, FinanceType, FactsJob, FactsRow
<1>3. FinanceType'
  BY <1>1, <1>2 DEF FinanceInv, FinanceType, FactsJob, FactsRow, notification
<1>4. Past' /\ Counted' /\ ReadsCurrent'
  BY <1>1 DEF FinanceInv, FinanceType, FactsJob, FactsRow, Past, Counted, ReadsCurrent, notification
<1>5. RevisionCurrent' /\ NewestClaim' /\ Verified'
  BY <1>1 DEF FinanceInv, FinanceType, FactsJob, FactsRow, RevisionCurrent, NewestClaim, Verified, notification
<1>. QED  BY <1>3, <1>4, <1>5 DEF FinanceInv

(* What is read now is not older than any notice recorded so far. *)
LEMMA ReadKeeps == ASSUME FinanceInv, NEW w \in Readers, ReadFacts(w) PROVE FinanceInv'
<1>1. /\ reader'[w].pc = "finish" /\ reader'[w].watermark = reader[w].watermark /\ reader'[w].facts = facts
      /\ reader' \in [Readers -> [pc : {"idle", "read", "finish", "defer"}, watermark : Nat, facts : Nat]]
      /\ \A v \in Readers \ {w} : reader'[v] = reader[v]
      /\ reader[w].pc = "read"
      /\ UNCHANGED <<facts, notification, job, revision>>
  BY DEF ReadFacts, FinanceInv, FinanceType, FactsJob, FactsRow
<1>2. FinanceType' /\ Past' /\ Counted' /\ ReadsCurrent'
  BY <1>1 DEF FinanceInv, FinanceType, FactsJob, FactsRow, Past, Counted, ReadsCurrent, notification
<1>3. RevisionCurrent' /\ NewestClaim' /\ Verified'
  BY <1>1 DEF FinanceInv, FinanceType, FactsJob, FactsRow, RevisionCurrent, NewestClaim, Verified, notification
<1>. QED  BY <1>2, <1>3 DEF FinanceInv

(* A worker that comes to rest has no claim any more. *)
LEMMA RestKeeps ==
  ASSUME FinanceInv, NEW w \in Readers, reader' = [reader EXCEPT ![w] = Resting],
         UNCHANGED <<facts, notification, revision>>, UNCHANGED job
  PROVE  FinanceInv'
<1>1. reader' = [reader EXCEPT ![w] = [pc |-> "idle", watermark |-> 0, facts |-> 0]]
  BY DEF Resting
<1>2. FinanceType' /\ Past' /\ Counted' /\ ReadsCurrent'
  BY <1>1 DEF FinanceInv, FinanceType, FactsJob, FactsRow, Past, Counted, ReadsCurrent, notification
<1>3. RevisionCurrent' /\ NewestClaim' /\ Verified'
  BY <1>1 DEF FinanceInv, FinanceType, FactsJob, FactsRow, RevisionCurrent, NewestClaim, Verified, notification
<1>. QED  BY <1>2, <1>3 DEF FinanceInv

(* Only the newest claim stores its read, under the watermark that the job has too. *)
LEMMA FinishKeeps == ASSUME FinanceInv, NEW w \in Readers, FinishJob(w) PROVE FinanceInv'
<1>1. CASE ~Mine(w)
  BY <1>1, RestKeeps DEF FinishJob
<1>2. CASE Mine(w)
  <2>1. /\ reader' = [reader EXCEPT ![w] = [pc |-> "idle", watermark |-> 0, facts |-> 0]]
        /\ revision' = [watermark |-> reader[w].watermark, facts |-> reader[w].facts]
        /\ job'.of = job.of /\ job'.watermark = job.watermark /\ job'.status = "verified"
        /\ reader[w].pc = "finish" /\ job.of = w /\ job.status = "reading"
        /\ UNCHANGED <<facts, notification>>
    BY <1>2 DEF FinishJob, Mine, Revision, Resting, FinanceInv, FinanceType, FactsJob, FactsRow
  <2>2. job' \in FactsJob
    <3>1. job' = [job EXCEPT !.leased = FALSE, !.due = FALSE, !.attempts = 0, !.status = "verified"]
      BY <1>2 DEF FinishJob
    <3>. QED  BY <3>1 DEF FinanceInv, FinanceType, FactsJob
  <2>3. FinanceType'
    BY <2>1, <2>2 DEF FinanceInv, FinanceType, FactsJob, FactsRow, notification
  <2>4. Past' /\ Counted' /\ ReadsCurrent'
    BY <2>1 DEF FinanceInv, FinanceType, FactsJob, FactsRow, Past, Counted, ReadsCurrent, notification
  <2>5. RevisionCurrent'
    BY <2>1 DEF FinanceInv, FinanceType, FactsJob, FactsRow, Counted, ReadsCurrent, RevisionCurrent, notification
  <2>6. NewestClaim'
    BY <2>1 DEF NewestClaim
  <2>7. Verified'
    BY <2>1 DEF FinanceInv, FinanceType, FactsJob, FactsRow, NewestClaim, Verified
  <2>. QED  BY <2>3, <2>4, <2>5, <2>6, <2>7 DEF FinanceInv
<1>. QED  BY <1>1, <1>2

LEMMA FailKeeps == ASSUME FinanceInv, NEW w \in Readers, FailRead(w) PROVE FinanceInv'
<1>1. /\ reader'[w].pc = "defer" /\ reader'[w].watermark = reader[w].watermark /\ reader'[w].facts = reader[w].facts
      /\ reader' \in [Readers -> [pc : {"idle", "read", "finish", "defer"}, watermark : Nat, facts : Nat]]
      /\ \A v \in Readers \ {w} : reader'[v] = reader[v]
      /\ reader[w].pc # "idle"
      /\ UNCHANGED <<facts, notification, job, revision>>
  BY DEF FailRead, FinanceInv, FinanceType, FactsJob, FactsRow
<1>2. FinanceType' /\ Past' /\ Counted' /\ ReadsCurrent'
  BY <1>1 DEF FinanceInv, FinanceType, FactsJob, FactsRow, Past, Counted, ReadsCurrent, notification
<1>3. RevisionCurrent' /\ NewestClaim' /\ Verified'
  BY <1>1 DEF FinanceInv, FinanceType, FactsJob, FactsRow, RevisionCurrent, NewestClaim, Verified, notification
<1>. QED  BY <1>2, <1>3 DEF FinanceInv

(* A deferral keeps the watermark and makes nothing verified. *)
LEMMA DeferKeeps == ASSUME FinanceInv, NEW w \in Readers, DeferJob(w) PROVE FinanceInv'
<1>1. CASE ~(job.of = w /\ job.status = "reading")
  BY <1>1, RestKeeps DEF DeferJob
<1>2. CASE job.of = w /\ job.status = "reading"
  <2>1. /\ reader' = [reader EXCEPT ![w] = [pc |-> "idle", watermark |-> 0, facts |-> 0]]
        /\ job'.status \in {"review", "pending"}
        /\ UNCHANGED <<facts, notification, revision>>
    BY <1>2 DEF DeferJob, Resting, FinanceInv, FinanceType, FactsJob, FactsRow
  <2>2. job' \in FactsJob
    BY <1>2 DEF DeferJob, FinanceInv, FinanceType, FactsJob, FactsRow
  <2>3. FinanceType' /\ Past' /\ Counted' /\ ReadsCurrent'
    BY <2>1, <2>2 DEF FinanceInv, FinanceType, FactsJob, FactsRow, Past, Counted, ReadsCurrent, notification
  <2>4. RevisionCurrent' /\ NewestClaim' /\ Verified'
    BY <2>1 DEF FinanceInv, FinanceType, FactsJob, FactsRow, RevisionCurrent, NewestClaim, Verified, notification
  <2>. QED  BY <2>3, <2>4 DEF FinanceInv
<1>. QED  BY <1>1, <1>2

(* Neither the end of a lease nor a due time changes what was claimed, read or stored. *)
LEMMA TimeKeeps == ASSUME FinanceInv, LeaseEnds \/ FallsDue PROVE FinanceInv'
<1>1. /\ job'.of = job.of /\ job'.watermark = job.watermark /\ job'.status = job.status
      /\ UNCHANGED <<facts, notification, revision, reader>>
  BY DEF LeaseEnds, FallsDue, FinanceInv, FinanceType, FactsJob, FactsRow
<1>2. job' \in FactsJob
  BY DEF LeaseEnds, FallsDue, FinanceInv, FinanceType, FactsJob, FactsRow
<1>. QED
  BY <1>1, <1>2 DEF FinanceInv, FinanceType, FactsJob, FactsRow, Past, Counted, ReadsCurrent, RevisionCurrent, NewestClaim,
     Verified, notification

LEMMA FinanceStep == ASSUME FinanceInv, [FinanceNext]_financeVars PROVE FinanceInv'
<1>1. CASE Change  BY <1>1, ChangeKeeps
<1>2. CASE Observes  BY <1>2, ObserveKeeps DEF Observes
<1>3. CASE ObserveOther  BY <1>3, ObserveOtherKeeps
<1>4. CASE LeaseEnds \/ FallsDue  BY <1>4, TimeKeeps
<1>5. ASSUME NEW w \in Readers, Scheduled(w) \/ Forced(w) PROVE FinanceInv'
  BY <1>5, ClaimKeeps DEF Scheduled, Forced
<1>6. ASSUME NEW w \in Readers, Ends(w) PROVE FinanceInv'
  BY <1>6, ReadKeeps, FinishKeeps, FailKeeps, DeferKeeps DEF Ends
<1>7. ASSUME NEW w \in Readers, LoseReader(w) PROVE FinanceInv'
  BY <1>7, RestKeeps DEF LoseReader
<1>8. CASE UNCHANGED financeVars
  BY <1>8 DEF financeVars, FinanceInv, FinanceType, FactsJob, FactsRow, Past, Counted, ReadsCurrent, RevisionCurrent, NewestClaim,
     Verified
<1>. QED  BY <1>1, <1>2, <1>3, <1>4, <1>5, <1>6, <1>7, <1>8 DEF FinanceNext, Claims

(* The inductive invariant of the finance job. *)
THEOREM FinanceInvariant == FinanceSpec => []FinanceInv
BY FinanceInitially, FinanceStep, PTL DEF FinanceSpec

(* A clean revision is as recent as every recorded notice, for any number of workers, changes, *)
(* failures and overrun leases. *)
THEOREM CleanRevisions == FinanceSpec => []CleanIsCurrent
<1>1. FinanceInv => CleanIsCurrent  BY DEF FinanceInv, FinanceType, RevisionCurrent, CleanIsCurrent
<1>. QED  BY <1>1, FinanceInvariant, PTL

(* What a verified job has no news about, its revision has seen. *)
THEOREM NoNoticeLost == FinanceSpec => []NothingOverlooked
<1>1. FinanceInv => NothingOverlooked
  BY DEF FinanceInv, FinanceType, FactsJob, FactsRow, RevisionCurrent, Verified, NothingOverlooked, News
<1>. QED  BY <1>1, FinanceInvariant, PTL
=============================================================================
