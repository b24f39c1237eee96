# Verification of NotchSPI

TLA+ specifications of the parts of this repository whose correctness depends on more
than one step: questions bought and spent, payments that arrive late or twice, requests
that race, clients that crash and start again. Every definition is translated from the
source; `PROJECT.json` maps each one to the lines it stands for.

    tlasany M.tla                              parse
    tlc -workers 2 -config X.cfg M.tla         model-check (the runs below)
    tlapm M.tla                                check the proofs

## 1. The system

A client (macOS or desktop) captures the screen and sends it to the server. The server
takes a question from the device's balance, calls a model, streams the answer and charges
or gives back the question. Questions come from daily allowances (trial, Plus), packs
bought through Stripe, gifts, and goodwill. Paths below are under `src/server/src` unless
they start with `desktop/` or `Sources/`.

| Part | Source | State | Operations | Model |
| --- | --- | --- | --- | --- |
| Question ledger | `billing-sql.ts`, `billing.ts`, `free-trial.ts`, `payment-ledger.ts` | lots with remaining, held, revoked; capture rows; cached balance; trial | beginCapture, finish, reap, credit, claimFreeTrial, account reads, refund policy on a lot | `QuotaLedger`, abstract `QuestionEntitlement` |
| Capture service | `capture-service.ts`, attempts and budgets of `billing-sql.ts` | handlers, concurrency counter, attempts, budget holds and windows | solve, explain, recover, cleanup, reap | `CaptureService` |
| Refund ledger | `payment-ledger-sql.ts`, `payment-ledger.ts`, `stripe.ts` | inbox, refunds with generation, orders with policy, decisions | claim, read, apply, defer, credit, decide, queue rechecks | `RefundLedger` |
| Checkout reconciliation | `checkout-sql.ts`, `checkout-reconciliation.ts`, `checkout-service.ts` | cases with state, lease, generation; deliveries; decisions; orders | receive, claim, finish, defer, recheck, decide | `CheckoutQueue`, abstract `PaidGrants` |
| Purchase sessions | `purchase-session-sql.ts`, `purchase-progress.ts` | session, linked Checkout, consumption | create, attach, poll, consume | `CheckoutQueue` |
| Plus subscription | `plus*.ts` | the row of a device with generation and intent; Stripe's Checkouts | reserve, attach, beginSync, apply, expireCheckout, cancel | `PlusSubscription` |
| Payment finance | `payment-finance*.ts`, `stripe-finance.ts` | notices, jobs with lease and watermark, revisions | observe, claim, finish, defer | `PaymentFinance` |
| Quota migration | `quota-migration*.ts`, `scripts/migrate-quota.mjs` | control row, checkpoints | pause, backfill, invalidate, resume; the admission check | `QuotaMigration` |
| Observation | `observation*.ts`, `desktop/core/reliability.mjs`, `observation-journal.mjs`, the settings file of `desktop/main.mjs` | journals, the setting that holds the same choice, preferences with epochs, receipts, coverage claims | record, flush, opt in and out, save settings, stop, restart | `Observation` |
| Desktop account | `desktop/core/official.mjs`, `platform/storage.mjs` | stored token and attempt, owner generation, account shown, startup error | register, refresh, restore, trial, run, relaunch, initialize again | `OfficialClient` |
| Desktop capture flow | `desktop/main.mjs`, `core/product.mjs`, `generated/auto-session.mjs` | question in progress, collection, automatic session, history | take, solve, cancel, submit, undo, recover, explain, poll | `DesktopSession` |
| Routes, scheduler | `routes.ts`, `scheduler/src` | none | the routes that change state are actions of the part they drive; the minute sweep is a fairness assumption | |
| Accounts, stores | `db*.ts`, `auth.ts`, `rateLimit.ts` | devices, limits | registration by attempt, admission lock | in three modules |
| Quality, reports, telemetry, admin, site, config, parsers | the rest of `server/src` | records and pages | | not modelled |
| Shell, UI, macOS app, vendored kit, tests, scripts | `desktop/ui`, `Sources`, `Vendor`, ... | | | not modelled |

How they meet. The capture service calls the ledger's transactions; each locks the device
row, so each is atomic, and everything between two of them interleaves. The scheduler
calls the reap route every minute, which releases expired captures and retries refunds,
checkouts and finance jobs. Stripe's webhooks enter the same ledgers as the retries do.
`payment_processing_lock` serializes payment transactions; provider reads happen outside
of it, which is why claims carry generations and leases. A migration takes the control row
alone, the transactions of the service take it shared. The desktop client awaits several
answers of the server at once and compares owner, generation and balance version when one
comes. It keeps one choice, whether to share usage, in two files: the settings and the
journal.

What is hard. Handlers, reaper and payment workers interleave at every await. Handlers
crash and their leases run out; store calls commit and lose their acknowledgement; notices
come late, twice, out of order, before the payment they concern, or contradict each other.
Questions are held across midnight, across the end of a plan and across a refund. A client
restarts between a request and its answer, or cannot read or write its own files. `PROJECT.json` "hazards" lists these at their
lines, with the property that watches each.

## 2. The models

`Null` declares `None`, which the modules share that are composed in one run.

### QuotaLedger

One device; devices share no lot and no capture. `quota` is the cached balance and the
lots. A lot is named by what created it (`<<"trial_daily", day>>`, `<<"order", o>>`, ...),
so "insert once" is a lot with `granted = 0`. `captures` joins `capture_requests`,
`quota_reservations` and the metadata links (`explained`, `recovered`). One action per
transaction:

| Action | Code |
| --- | --- |
| `BeginSolve`, `BeginFollowUp` | `beginCapture`: sync the daily lots, check, pick the lot in the code's order, hold |
| `Finish` | `finish`, `finishWithCapture` with its compensation and its lease check |
| `ReapSelect`, `ReapVisit` | `reap`: the selected rows, then one visit per row |
| `ReadAccount`, `ClaimFreeTrial` | account reads, which sync too; the trial |
| `Credit`, `PayOrder`, `RefreshOrder` | gifts, paid orders, refund policy on the order's lot |
| `PlanChanges`, `Tick` | the subscription row as the ledger sees it; the clock |

`reap` is one transaction, but it locks device by device; a visit is modelled as a step of
its own, which allows at least the interleavings of the code (a rolled-back reaper is one
whose visits never happen; a second reaper's visit is a `Finish` that does not charge). A
refused or repeated request still syncs, which is `ReadAccount`. `PayOrder` and
`RefreshOrder` take any freeze and any target: `RefundLedger` says which of them occur.
Left out: `answerHmac` (the recovered answer is named by its capture), `expireAnswer`.
`Total` counts pairs instead of folding, so that the sum can be proved about.

`QuestionEntitlement` is the promise: a capture takes at most one question from one lot,
ends once, and a lot always entitles to what is held and charged in it. It has no clock, no
balance and no refund policy. `KeepsEntitlement` is the refinement: entitlement is granted
minus revoked, status and lot come from the capture rows.

### CaptureService

One process, the requests of one device. A request goes through a `pc` with one value per
await: `admit`, `reserve`, `begin`, `stream`, `settleAttempt`, `settleCapture`, the two
salvage calls of the catch block, and the `finally` chain `reconcile`, `endAttempt`,
`endBudget`, `endCapture`. A store call takes an outcome `ok`, `lost` (committed, then
thrown) or `failed`; a crash loses every handler and the counter, no table. `Expire` is a
lease running out and `Reap` the sweep. Explanation and recovery share `followUp`, which
differs from a solve by its shorter settlement. What a capture does to lots is
`QuotaLedger`'s. Left out: whether an attempt succeeded, the repair call, structured
answers, the unlimited budget. Commit and acknowledgement of `begin` are one step whose
outcome may be `lost`.

### RefundLedger

The refunds of one order. `provider` is Stripe: a status and a version, counted so that
"older" can be said. `inbox` has one event per change (`notice`) and the finance job's own
(`recheck`). `Claim` is `claimRefund` (new generation), `Read` the GET outside the lock,
`Apply` `applyRefund` with its generation check, its refresh of the order and its closing
of every open event of the refund. `CreditPaidOrder` may come before or after; its repetition
refreshes. `DecidePartial` is the owner's decision for one fingerprint, here the refunds with
their statuses. The finance job is three steps: read, compare, queue. `RefundPolicy` is the
code's arithmetic. Left out: `retry_after` (60 s, longer than the 8 s read, so a claim that
overlaps another is limited by `MaxAgain`), identity and currency conflicts, orders without
an attributed lot, decisions for another fingerprint (they change nothing).

### CheckoutQueue and PaidGrants

One-time purchases, from the app's request to the credited order. A Checkout at Stripe is a
record (`provider`) that the app's purchase or a legacy top-up creates and that the payer
pays; its metadata may be edited at Stripe. `Emit` is a signed event with the evidence of
that moment; it is delivered as often as wanted, in any order. `Webhook`, `Poll`, `Sweep`,
`Recheck` and `Decide` each occupy a worker, which goes through `Claim`, `ReadCheckout` and
one of `FinishStale`, `FinishReview`, `FinishCredit`, or through `Fails` and `Defer`; it may
be lost between any two. `Attach` of a purchase is a step of the worker that created the
Checkout, so a webhook may overtake it. `Evaluate` is `evaluateCheckout`: `FirstReason` picks the first
failing check of a list, in the code's order, for the evidence, an existing order, a
purchase or an unsealed Checkout. The owner decides about the record as last seen
(`Inspect`, `desk`), which may have changed since. `RetryDue` and `LeaseOver` are the two
clocks. A pack stands for its id, questions and catalog version, the payment intent is named
as its Checkout. Left out: the one-time secret of the link, evidence digests, observation
history, top-ups older than payment orders.

`PaidGrants` is the promise: a collected payment is granted once, to one device; a purchase
is granted by one payment; a grant changes only by learning which purchase it belongs to.
`KeepsPromise` maps orders to grants and consumed purchases to closed ones.

### PlusSubscription

The subscription row of one device. Requests (`Get`, `Post`, `Cancel`) and webhooks are
workers that synchronise the row: `BeginSync` (a new generation), a read at Stripe, `Apply`
with the generation check and `MergePlus`, or `ExpireCheckout`. `Reserve`, `CreateCheckout`
and `AttachCheckout` enrol; `CreateCheckout` asks with the intent's idempotency key
(`made`), which Stripe forgets and the code therefore does not use after 23 hours (`Ages`).
`CancelAtPeriodEnd` fails for an intent
that has been replaced: the subscription read before the await (`plus-routes.ts:93-96`) is over
then (`PaysOnce`). Stripe's side are `Subscribe`, `Settles`, `Renews`, `SessionExpires`. A webhook that was not
answered with success comes again (`Repeated`). Left out: the binding of invoices, the
billing portal; billing periods are counted, not dated.

### PaymentFinance

The money facts of one order: what Stripe knows is a version (`facts`), a notice carries
none. `counter` is the notice counter that all orders share, `job` the row with its lease
and watermark, `revision` the newest stored facts. `Scheduled` and `Forced` claim,
`ReadFacts`, `FinishJob`, `DeferJob`, `LeaseEnds`, `FallsDue` follow the code. The recheck
of refunds that a finish queues is `RefundLedger`'s.

### QuotaMigration

Devices with four facts (lots opened, sound, checkpoint, validated), captures in their
transactions, operators running the command line. `Check` and `Insert` are the two halves of
an admission: the control row is read and held shared, then the capture row is written;
`Alone` is the operator's exclusive lock. `Pause`, `Batch`, `Invalidate`, `Resume` follow
the code, `Command` the script, `OldServerWrites` what the document wants excluded: a server
of before the ledger that writes balances past it.

### Observation

Each installation numbers the events it reports, queues them in a journal on disk and
flushes: preference, events in batches of any size, then a claim that a window was reported
completely. `ServeX` actions are the server's, `HandleX` the client's; any request or answer
may be lost. A flush reads the journal again after each await, as the code does. Times are
stamps of a logical clock; the retention week is a stamp too.

Any write may fail: that of the journal (`Persist`), whose error `persist` swallows and
remembers only in memory, and that of the settings file (`Saved`, `Unsaved`), which holds the
same choice once more. The two are written one after the other (`SetEnabled`, `HandleGet`),
and other settings are saved with whatever choice the memory or the settings page holds
(`SaveOtherSettings`). `Start` takes both: the journal from its file, fresh if there is none or it
cannot be read, and then the choice of the settings file, which the constructor
(`reliability.mjs:34-35`) applies like one the user just made, with a new epoch
(`StartOn`, `ResetSharing`). A settings file that is missing says to share.

Two variables only observe. `overridden` has the stamps at which a start shared by the
settings file against its journal, `chosen` those at which a user did. `forgotten` has the
events whose last record went with a process that left a file of a clean stop.

Left out: answers of the server that switch telemetry off in the middle of a flush,
`bindJournal` (one device here), the checks of the local clock, and settings that cannot be
parsed, with which the program does not start.

### OfficialClient

One installation and one server. A task (`register`, `restore`, `trial`, `run`) awaits one
answer at a time, a refresh one per owner generation. `Accepts` is the comparison that
guards everything shown: the same owner, and a balance version that is not older. A write of
the vault may fail, the process may end (`Relaunch`) anywhere. A process whose vault is locked or
unreadable goes on without a token (`main.mjs:192-197`), although a device is stored; `unread`
counts these processes. `startupError` says that something could not be read at the start.
It is what makes the first official run read the vault again (`StartRun`, `main.mjs:705-708`),
and a refresh that the account page waited for may clear it first (`Recovers`). `replaced` is the
device that was in use until such a run took up another one. A task that waited for a
registration goes on if there is a token by then, whoever stored it.

### DesktopSession

The single JavaScript process between awaits: captures waiting for pixels (`takes`),
questions waiting for answers (`solves`, canceled ones too), the collection of several
images (`intake`), the image that may be put back (`removed`), the automatic session, the
local history. `generation` tells a current answer from an overtaken one. Deadlines are
booleans: one that is set may come at any later step. Left out: providers, personas, feedback,
daily tasks, and what is only shown. The guards of `FollowUp`
are those of the interface, since the handlers have none. `Restored` puts the new owner and the
end of the last run (`main.mjs:1780-1781`) into one step.

The SQL stores are modelled, not the memory stores, which only tests use.

`MC*.tla` modules define what a `.cfg` cannot (plans, amounts, budgets, symmetry sets). Four of
them put parts that share no state into one run: `MCQuota` (the lots of `QuotaLedger`,
`QuotaMigration`, `OfficialClient`), `MCAnswers` (the questions of `QuotaLedger`,
`PaymentFinance`), `MCServer` (`CaptureService` with faults, `PlusSubscription`), `MCParts`
(`CaptureService` without faults, the policies of `RefundLedger`, `Observation`,
`DesktopSession`). A behaviour is one of a single part, chosen at its start, and the others rest:
that is the union of their state spaces, not the product. A definition commented "Defective
variant" is a plausible bug; `PROJECT.json` "mutants" pairs each property with one that violates
it under the same configuration. No action uses them.

## 3. The runs

| Run | Asks | Bounds, and why they are enough |
| --- | --- | --- |
| `quota`: lots | trial and Plus windows, expiry while held, mid-day renewal; freeze, revoke and thaw of an order's lot that is held, charged, released | 2 captures, 4 instants over 3 windows, the trial's end inside the last one, 2 overlapping plan periods, a lot of 2 questions, any freeze and target |
| `quota`: migration | that a drain lasts until the resume, and what a resume promises | 2 operators, 2 devices that may exist or be new, 2 captures, batches of 1, 2 pauses, 1 write of an old server |
| `quota`: account | late answers, restores, failed writes, restarts with and without the vault | 3 devices, one of another installation, 1 restore, 1 loss: a loss is a lost answer, a failed write or a restart |
| `answers`: questions | follow-ups, late callbacks, reaper, compensation, entitlement, every hold ends | 3 captures (a solve, its recovery, the explanation of the answer), sweeps of 2 |
| `answers`: finance | the facts of an order end up current | 2 readers, 2 changes, 1 notice of another order, 1 failure, which is below the 2 attempts |
| `server`: captures | store faults and crashes | a request and its retry, 2 faults: one fault and one more in its cleanup |
| `server`: plus | the Plus row ends up current; no double payment | 2 workers, 2 Checkouts, budgets for enrolling twice, overlapping requests, a changing subscription |
| `overlaps` | claims that overlap, lost workers, rechecks, convergence | 2 workers, 3 changes of one refund, 1 overlap beyond those of distinct notices, 1 loss |
| `checkouts` | webhooks, polls, sweeps, attachments, edits and the owner race | 2 workers, 2 Checkouts that may name one purchase, or 1 with two slips and a visit of the owner; 2 devices, 1 pack |
| `payments_resolve` | every paid Checkout is credited or reviewed | 2 workers, 2 events for 1 Checkout, 1 edit, 1 slip, 2 attempts before a review |
| `parts`: admission | races for one id, budget and places; day change; no faults | 3 requests for 2 places and 2 calls, disconnects anywhere |
| `parts`: policies | refund policies around a payment | 3 refunds of half an order: none, part, all, more than all |
| `parts`: observation | complete windows and opt-outs, with failed requests and writes | 2 installations with a queue of 1 and six kinds of budget, among them two failed writes with two stops, and a choice that a failed write or a restart meets |
| `parts`: session | overlapping questions, collections, undo | 2 shots, 2 questions |
| `stuck_attempts` | expected violation, see 6 | one fault |
| `lost_rechecks` | expected violation, see 6 | 1 worker, 2 changes |
| `read_again` | expected violation, see 6 | 3 shots, 3 questions |
| `losses` | expected violation, see 6 | 1 installation, 1 event, 2 failed writes, 2 stops |
| `rebuilt_account` | expected violation, see 6 | 2 devices, 1 loss |

Costs above the reserved bound (3 against 2) make overruns happen; `MaxTime`, `MaxDay`,
`MaxVersion`, `MaxRechecks`, `MaxAgain`, `MaxLost`, `MaxFaults`, `MaxIntents`, `MaxChanges`,
`MaxPauses`, `MaxWrites`, `MaxShots`, `MaxGenerations`, `MaxOthers`, `MaxForced`, `MaxFailures`,
`MaxBalance`, `MaxRestores`, `MaxLosses`, `Allowances` and the budgets cap what is
unbounded in the code. `CHECK_DEADLOCK FALSE` appears where the bounded requests and
budgets run out and the system then rests; the other models always have an account read or a
repeated credit to do.

The properties worth a remark:

- `BalanceMatchesLots`: a dozen places adjust the cached balance by deltas; `quotaFor`
  throws on disagreement, for this device and for ever.
- `HoldsAreEntitled`: an action property. At the step that holds, the lot is current, not
  frozen, and not a purchased one while today's allowance has a question left.
- `OneFaultIsSalvaged`: for solves only. A follow-up whose settlement throws books only the
  reserved bound even when a higher cost was known, and leaves its attempt running.
- `ClosedNoticesAreReflected`, `SnapshotsNeverGoBack`, `RefundsConverge`: the generation
  protocol, with no assumption on how many workers there are.
- `QuestionsFollowMoney`: the target and the freeze of a lot are those of the refunds on
  record, in every order of payment, refund and decision.
- `BeneficiaryIsKept`: what the first evidence of a Checkout named cannot be changed by
  later evidence, nor by the owner; only what it left open can be decided.
- `PaysOnce`: between an expired Checkout, a lost answer of Stripe and a second request,
  there is at most one Checkout or subscription that can still collect money.
- `CleanIsCurrent`, `NothingOverlooked`: the watermark is taken at the claim and not at
  the finish, so that a notice during the read stays news.
- `PausedStaysDrained`: the drain check is made once per batch; that it stays true until the
  resume rests on the shared lock of admissions.
- `CompleteIsComplete`: a window kept as complete has a receipt for every event, although
  journals drop, prune, renumber and fail to be written any number of times. The exception,
  `forgotten`, is exact: the process that knew of the event died, and the file it left is that
  of an earlier clean stop and neither holds the event nor doubts. `LossesArePartial` has no exception, and
  is violated (§6).
- `OptOutsHold`: after a registered opt-out a later epoch shares only if a user chose so or a
  start went by a settings file that said so. The second is in the code: a settings file that is
  missing, or was not written after the opt-out, reopens it.
- `OneRegistration`, `DeviceIsKept`: the attempt is stored before the request is made. What
  they allow is what the code does: a process that could not read its device may register
  another one, once, and overwrite it. `NoAccountIsRebuilt` does not allow it, and is violated
  (§6).
- `SnapshotsAreOurs` excepts `replaced`. To set it takes a restore whose write reached the
  file but failed to verify in a process that started with an error, which is two losses: the
  run has one, the theorem any number.

## 4. Fairness

- `QuotaLedger!Fairness`: the clock advances and the scheduler's sweeps run
  (`docs/cloudflare-scheduler.md`); no client and no payment has to act.
- `CaptureService!Fairness`: an await ends (the model call by its deadline), leases run
  out, expired captures are swept. A crashed handler is not fair.
- `RefundLedger!Fairness`: an open event is claimed again (the provider repeats until it is
  answered with success, the scheduler retries), a claim's read and apply end. Losses are
  bounded by `MaxLost`: a worker that always fails converges to nothing.
- `CheckoutQueue!Fairness`: minutes pass (`RetryDue`, `LeaseOver`), handlers that run end
  (`Works`), all weak. The sweep of a due case is strong: it takes a free worker and a due
  case, which others may use up in between, and the scheduler comes back every minute.
- `PlusSubscription!Fairness`: handlers end; Stripe repeats a webhook until it is answered.
  No request of the app has to come.
- `PaymentFinance!FinanceFairness`: a webhook is repeated until it is recorded, leases and
  due dates come, handlers end, sweeps claim what they find.

The runs that put parts together assume of each part what its module assumes, as long as it is
the part that was chosen. The other modules state safety only.

## 5. What is proved

For every value of the constants that satisfies the named assumptions; `NoneAssumption`
and its like say that `None` is no value of the data. Bounds are constants too, so a theorem
holds for all of them, and for any number of workers, captures, devices and questions.

`QuotaLedgerProofs` (from `LedgerAssumption`): `TypeOK`, `LotChecks`, `BalanceMatchesLots`,
`HoldsMatchCaptures`, `QuestionsConserved`, `RevocationComesFirst`. None is inductive
alone: releasing a question keeps `remaining >= held` only if the lot counted it as held.
`LedgerInv` adds that a held solve is bound to a lot of its own (`CaptureBindings`) and
that what a lot has spent is the number of its settled captures (`Charges`). Lemmas first
say how a sum over lots changes when one lot does, then what each operator on the quota
keeps, then there is one lemma per action. `TypeOK` and `LotChecks` are in no run.

`Spec => KeepsEntitlement` follows: under `LedgerInv`, every ledger step is a step of
`QuestionEntitlement` or a stutter.

Two strengthenings of `LedgerInv` give the rest. `TermsInv` says of every lot what its grant
means (`Dated`): a daily lot is of a window that has begun and expires with it, a trial's also
with the trial and only once that was claimed, and only an order's lot is ever frozen. After the
syncs a lot that is over, or a Plus lot without a plan, has nothing to spend (`SyncedTerms`), so
a lot that has is today's (`OnlyToday`): that is `HoldsAreEntitled`. `RecoveryInv` adds that a
recovery and its solve name each other and the solve stays usable (`FollowUps`), and that the
goodwill lot holds a question exactly if that recovery was released unusable (`Goodwill`): a
held recovery's solve has none yet, so the grant when it fails is the first and the last. That
is `CompensatesFailedRecoveries`.

`CaptureServiceProofs` (from `ServiceAssumption`): `PlacesMatchHandlers`, `ReceiptsAreFinal`,
`SpendingIsNeverErased`, `NothingLeftBehind`, `OneFaultIsSalvaged` and `BudgetRespected`, for
any number of requests, captures, places and faults. `ServiceInv` says of each handler, at each
point of its code, what the tables hold of it (`Known`), what it has still to clean up if there
was no fault (`Tidy`), and what a solve has still to salvage if there was one at most
(`Salvages`). One lemma (`StillHandled`) says that a handler is not disturbed by the step of
another or of the reaper, then one lemma per action says it of the handler that acts.
`BudgetInv` counts a window's reservations and costs on top of it: a request reserves only
once, so what a window holds and spent changes by that one request.

`RefundLedgerProofs` (from `RefundAssumption`): `ClosedNoticesAreReflected` and
`SnapshotsNeverGoBack`. `RefundInv` adds that claims of one refund have distinct
generations (`Distinct`), that the ledger is never ahead of the provider (`Behind`), and
that a worker which still holds the current generation read after every event it would
close (`AllFresh`). `QuestionsFollowMoney` has an invariant of its own, `PolicyInv`: the
stored policy is the one that the recorded refunds and decisions give, and every step that
changes either refreshes it.

`CheckoutQueueProofs` (from `CheckoutAssumption`, `NoneAssumption`): `OrdersMatchPurchases`,
`BeneficiaryIsKept`, `CreditedIsSettled`, and `Spec => KeepsPromise`, the refinement of
`PaidGrants`. `QueueInv` adds what tables and handlers know of each other: evidence is of its
own Checkout and tells its money and device truly where it tells them (`Evidence`), a
purchase is attached to a Checkout made for it (`Attached`), an order has a case, and a
handler works on a Checkout it was told of. First come lemmas about verdicts: no reason is
found only if every check of `evaluateCheckout` holds; then one lemma per action and table.

`MoneyProofs` (from `PlusAssumption`, `PlusNoneAssumption`) has `PlusSubscription` and
`PaymentFinance`. Plus: `RowMatchesIntent`, `PaysOnce`. `PlusInv` adds that a key at Stripe names one
Checkout, that of its intent (`Keyed`), that the Checkout of every intent but the newest can
collect nothing any more (`OverBefore`), that the row and the events tell the truth (`RowTrue`,
`Announced`), and what a handler knows at each point of its code (`Working`). What makes it
inductive is that the end of a Checkout is never undone (`Onward`) and that a row changes only
forward (`RowOnward`): what a handler learned of a Checkout before an await still holds after it.
Finance: `CleanIsCurrent`, `NothingOverlooked`. `FinanceInv`: watermarks are
of recorded notices, a read is as recent as the notices up to its watermark, and only the
newest claim, whose watermark is the job's, can finish.

`ObservationProofs` (from `ObservationAssumption`, `ObservationNoneAssumption`):
`CompleteIsComplete` and `OptOutsHold`, for any number of installations, events and failed
reads, writes and requests. `ObservationInv` is `Typed` and four parts. `Journals`: a claim that says it
is complete is (`Sound`), in memory and on disk; and as long as a journal has nothing to doubt,
every event since its last claim has a receipt or waits in its queue (`Open`). Of the file that
holds only if it says that it was stopped cleanly, for the next start believes no other, and
this is where `forgotten` comes from. `Flushing`: what a flush holds while it awaits is of its
journal, or of a claim that was sound. `Claimed`: nothing happens any more in a window that was
claimed. `Registered`: an epoch is registered once, and back from an epoch that shares every
epoch shared, down to the last choice (`Traces`); a journal that shares chose to, is of the first
epoch, or took over the epoch before, which shared (`Backed`). Lemmas first say what each operator
on a journal (append, prune, renumber, acknowledge, prepare, settle) keeps, then what a write,
then what an action.

`QuotaMigrationProofs`: `PausedStaysDrained`, `ResumesSound`. `MigrationInv`: while the
control row is paused no admission is between its check and its insert, and what is validated
is sound.

`DesktopProofs` has the two parts of the desktop application. `OfficialClient` (from
`OfficialAssumption`): `SnapshotsAreOurs`, `OneRegistration`, `DeviceIsKept`,
`BalanceNeverGoesBack`. `OfficialInv`: a pending answer is about the device of the owner it was
asked for, a token in use has a stored device, and no snapshot is newer than the server's. Its
part `Registration` counts: the stored attempt is one the server knows, or the next one, which is
made only when every registration so far is that of a process that could not read the stored
device. `NoneReplaced`, an invariant of its own: until a run forgets the startup error, none has
taken up another device. `DesktopSession`:
`OnlyTheNewestAnswers` and `AskedOnce`. `SessionInv`: questions in flight have distinct
generations, and that of the newest, if any, is the question in progress. `AskedInv`: an image
that waits (to be captured, or kept to be put back), or is collected, was not asked, and the
images of two questions, in flight, in the history or of the frozen run, are apart. Lemmas say
first what removing an image from a batch, and putting it back, do. It rests on
`SessionNoneAssumption`: `None` is no run.

Only model-checked: liveness (`HoldsEnd`, `CapturesEnd`, `RefundsConverge`, `PaymentsResolve`,
`Converges`, `FactsArrive`), which is out of the prover's reach.

## 6. Where code and documents disagree

- `stuck_attempts`: when `finishAttemptAndBudget` throws for an explanation or recovery
  (`capture-service.ts:346`), the attempt stays `running`: the cleanup ends budget and
  capture, and the reaper ends attempts only of captures it reaps. `quota-migration.ts:97`
  and `docs/quota-migration.md:35` wait for running attempts to drain.
  `server/test/capture-admission.test.ts:130` knows the row stays `running`.
- `lost_rechecks`: `applyRefund` closes every open event of the refund
  (`payment-ledger-sql.ts:187`), so a recheck queued after a worker's GET is closed by that
  older read, while `payment-finance.ts:106` says a recheck is claimed and read again. The
  finance job repeats the comparison minutes or a day later; a notice of the same change
  repairs it sooner. No snapshot goes back.
- `losses`: `persist` (`desktop/core/reliability.mjs:38`) swallows a failed write and keeps the
  gap in memory. If the write at a start fails, the file stays that of the clean stop before; if
  the write of an event fails too and the process dies, the next start finds a clean file
  (`observation-journal.mjs:39`), gives the event's number out again, and claims a complete
  window, which the server verifies. `docs/official-api.md:506-507` says that restarts and
  storage problems stay partial or unknown.
- `rebuilt_account`: a program that cannot read its vault at the start goes on without a token
  (`desktop/main.mjs:192-197`). Only an official run reads the vault again (`main.mjs:705-708`).
  If the account page, the guide, the trial or a purchase comes first (`main.mjs:531`, `1152`,
  `1774`, `1914`, `1938`), `register` sees no token (`official.mjs:97`), opens another device and
  overwrites the stored one, against `docs/windows/manual-acceptance.md:629`,
  `docs/official-api.md:159`, and the message of `platform/storage.mjs:19` that existing
  credentials were preserved.
- `read_again`: the recover command solves the images shown now with the last run
  (`desktop/main.mjs:1712`), and the quick menu offers it while another question is in
  progress or images are collected (`desktop/ui/notch-controls.mjs:15`). The history entry
  then has the answer of the old question under the new images, against
  `docs/windows/manual-acceptance.md:149`.

Noticed while modelling, without a document that says otherwise and therefore in no run:

- Desktop: `take` leaves `state.capturing` true when a recovery, explanation or poll bumps
  the generation while the pixels are awaited; single captures are then ignored until a
  cancel. A poll in flight may replace an explanation that began after it. A collection of
  two or more whose capture fails after its preview was closed gets no deadline again. An
  undo after a solve puts a removed image into the next collection. The 15-minute timer of
  an answer clears the images of a newer collection. An automatic session started
  while an import dialog is open stays `running` when the dialog is canceled.
- Finance: a worker lost on the fifth attempt leaves its job `reading` for good
  (`payment-finance-sql.ts:65`); `FactsArrive` holds because a notice resets the attempts
  and the failures of the run are fewer than that.
- Account: a restore of the token already in use may show an older snapshot until its
  refresh (`desktop/core/official.mjs:184`), which `BalanceNeverGoesBack` therefore excepts.
- Account: a run after a startup error reads the vault again and keeps the snapshot shown. If a
  restore had stored its device but failed to verify, that snapshot is of the device before.
- Observation: the settings file overrides the journal at a start (`reliability.mjs:34-35`). An
  opt-out whose settings were not written (`main.mjs:201`) or got lost is withdrawn at the next start,
  in the user's name. An opt-out made offline and
  stamped before another installation's registered choice is refused for ever
  (`observation-sql.ts:54`, as `docs/official-api.md:498` says).

## 7. Not modelled, and what is left

The map covers less than a third of the implementation lines. The bulk of the rest has no
state whose order of changes matters: the user interface (`desktop/ui`, `shared/ui`, the
generated copies), pages and administration, prompts, parsers and answer contracts, scripts
that measure or build, start-up and HTTP plumbing. The Swift client repeats the desktop
client's core (`Cloud`, `Capture`, `History`); the desktop modules follow the JavaScript and
claim nothing about it. Quality reviews, telemetry and reports only append or read. The
in-process rate limits and the stream decoder are sequential code with unit tests.

`KeepsEntitlement` has no clock: that an answer after its lease is not charged
(`billing-sql.ts:465-466`) is in `Charged` but in no property. Where the code mixes it with
the sweep, `HoldsMatchCaptures` and `KeepsEntitlement` still say that a question is not released
and charged.

What a next step would add: a property with the clock for that; a composition of `RefundLedger`'s policy over `QuotaLedger`'s lot,
in place of "any freeze, any target", and of `PlusSubscription` in the place of
`PlanChanges`; the freeze of a run across a restore, after which the history gets an entry with a
fresh id.
