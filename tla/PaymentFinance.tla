--------------------------- MODULE PaymentFinance ---------------------------
(***************************************************************************)
(* The money facts of one paid order: charges, refunds and disputes with   *)
(* their fees, read from Stripe and kept as revisions                      *)
(* (server/src/payment-finance-sql.ts, payment-finance.ts,                 *)
(* stripe-finance.ts, and the routes that drive them).                     *)
(*                                                                         *)
(* A webhook records that something changed; it carries no facts.  A job   *)
(* reads them under a generation and a lease of 30 seconds.  Its watermark *)
(* says which notices were recorded before it read, so that a revision is  *)
(* known to be dirty once a later notice comes.                            *)
(*                                                                         *)
(* What Stripe knows about the order is a version.  Notices of other       *)
(* orders share the counter of notices.  A generation is only ever         *)
(* compared with a worker's own: the job remembers whose is the newest.    *)
(* The refunds found to differ from the refund ledger are queued there     *)
(* (RefundLedger's rechecks) before the revision is stored.                *)
(***************************************************************************)
EXTENDS Integers, Null

CONSTANTS
  Readers,     \* webhook handlers, sweeps and administrators that reconcile the order
  MaxChanges,  \* bound on the changes of the order at Stripe
  MaxOthers,   \* bound on the notices of other orders
  MaxAttempts, \* claims without news before a failed job is left to the owner (5 in the code)
  MaxFailures, \* bound on failed reads, lost workers and overrun leases
  MaxForced    \* bound on the administrator's requests

ASSUME FinanceAssumption ==
  /\ {MaxChanges, MaxOthers, MaxFailures, MaxForced} \subseteq Nat
  /\ MaxAttempts \in Nat \ {0}
  /\ None \notin Readers \cup [watermark : Nat, facts : Nat]

VARIABLES
  facts,     \* version of the order's charges, refunds and disputes at Stripe
  unheard,   \* versions whose notice is not recorded yet
  counter,   \* finance_state: how many notices were recorded
  newest,    \* the revision of the newest notice about this order
  told,      \* the newest version a recorded notice was about
  job,       \* the row of finance_jobs
  revision,  \* the newest row of finance_revisions
  reader,    \* where each worker is
  limits     \* what is left of the bounds

financeVars == <<facts, unheard, counter, newest, told, job, revision, reader, limits>>
notification == <<unheard, counter, newest, told>>

Resting == [pc |-> "idle", watermark |-> 0, facts |-> 0]

FinanceInit ==
  /\ facts = 0
  /\ unheard = {}
  /\ counter = 0
  /\ newest = 0
  /\ told = 0
  /\ job = [of |-> None, watermark |-> 0, leased |-> FALSE, due |-> TRUE, attempts |-> 0, status |-> "pending"]
  /\ revision = None
  /\ reader = [w \in Readers |-> Resting]
  /\ limits = [others |-> MaxOthers, failures |-> MaxFailures, forced |-> MaxForced]

Use(what) == /\ limits[what] > 0
             /\ limits' = [limits EXCEPT ![what] = @ - 1]

-----------------------------------------------------------------------------
(* A charge, a refund or a dispute of the order changes. *)
Change ==
  /\ facts < MaxChanges
  /\ facts' = facts + 1
  /\ unheard' = unheard \cup {facts + 1}
  /\ UNCHANGED <<counter, newest, told, job, revision, reader, limits>>

(* observe: late, in any order; a repeated event changes nothing. *)
Observe(v) ==
  /\ v \in unheard
  /\ unheard' = unheard \ {v}
  /\ counter' = counter + 1
  /\ newest' = counter + 1
  /\ told' = IF v > told THEN v ELSE told
  /\ UNCHANGED <<facts, job, revision, reader, limits>>

ObserveOther ==
  /\ Use("others")
  /\ counter' = counter + 1
  /\ UNCHANGED <<facts, unheard, newest, told, job, revision, reader>>

News == newest > job.watermark

(* Defective variant: a job that is being read is never claimed again. *)
FreeOnceRead == ~job.leased /\ job.status # "reading"

Free == ~job.leased

(* claim: the watermark is taken before anything is read. *)
ClaimJob(w, force) ==
  /\ reader[w].pc = "idle"
  /\ Free
  /\ force \/ News \/ (job.due /\ job.attempts < MaxAttempts)
  /\ job' = [of |-> w, watermark |-> counter, leased |-> TRUE, due |-> TRUE,
             attempts |-> IF force \/ News THEN 1 ELSE job.attempts + 1, status |-> "reading"]
  /\ reader' = [reader EXCEPT ![w] = [pc |-> "read", watermark |-> counter, facts |-> 0]]
  /\ UNCHANGED <<facts, notification, revision>>

Scheduled(w) == ClaimJob(w, FALSE) /\ UNCHANGED limits
Forced(w) == ClaimJob(w, TRUE) /\ Use("forced")

(* retrieveStripeFinance, one consistent read. *)
ReadFacts(w) ==
  /\ reader[w].pc = "read"
  /\ reader' = [reader EXCEPT ![w].pc = "finish", ![w].facts = facts]
  /\ UNCHANGED <<facts, notification, job, revision, limits>>

(* Defective variant: any claim that is still being read may be finished. *)
MineByStatus(w) == job.status = "reading" /\ job.leased

Mine(w) == job.of = w /\ job.status = "reading" /\ job.leased

(* Defective variant: the revision covers the notices recorded by the time it is stored. *)
RevisionAtFinish(w) == [watermark |-> counter, facts |-> reader[w].facts]

(* A revision covers the notices recorded before its claim. *)
Revision(w) == [watermark |-> reader[w].watermark, facts |-> reader[w].facts]

(* finish.  Verified facts are read again after a day, unresolved ones after minutes. *)
FinishJob(w) ==
  /\ reader[w].pc = "finish"
  /\ IF Mine(w)
     THEN /\ revision' = Revision(w)
          /\ job' = [job EXCEPT !.leased = FALSE, !.due = FALSE, !.attempts = 0, !.status = "verified"]
     ELSE UNCHANGED <<revision, job>>
  /\ reader' = [reader EXCEPT ![w] = Resting]
  /\ UNCHANGED <<facts, notification, limits>>

(* The read, the recheck queue or the transaction of finish throws. *)
FailRead(w) ==
  /\ reader[w].pc \in {"read", "finish"}
  /\ Use("failures")
  /\ reader' = [reader EXCEPT ![w].pc = "defer"]
  /\ UNCHANGED <<facts, notification, job, revision>>

DeferJob(w) ==
  /\ reader[w].pc = "defer"
  /\ job' = IF job.of = w /\ job.status = "reading"
            THEN [job EXCEPT !.leased = FALSE, !.due = FALSE,
                             !.status = IF job.attempts >= MaxAttempts THEN "review" ELSE "pending"]
            ELSE job
  /\ reader' = [reader EXCEPT ![w] = Resting]
  /\ UNCHANGED <<facts, notification, revision, limits>>

LoseReader(w) ==
  /\ reader[w].pc # "idle"
  /\ Use("failures")
  /\ reader' = [reader EXCEPT ![w] = Resting]
  /\ UNCHANGED <<facts, notification, job, revision>>

(* The 30 seconds are over.  Reads end after 8, so the worker is lost or was suspended. *)
LeaseEnds ==
  /\ job.leased
  /\ IF \E w \in Readers : reader[w].pc # "idle" /\ job.of = w THEN Use("failures") ELSE UNCHANGED limits
  /\ job' = [job EXCEPT !.leased = FALSE]
  /\ UNCHANGED <<facts, notification, revision, reader>>

(* next_at is reached. *)
FallsDue ==
  /\ ~job.due
  /\ job' = [job EXCEPT !.due = TRUE]
  /\ UNCHANGED <<facts, notification, revision, reader, limits>>

-----------------------------------------------------------------------------
Observes == \E v \in unheard : Observe(v)
Claims == \E w \in Readers : Scheduled(w)
Ends(w) == ReadFacts(w) \/ FinishJob(w) \/ FailRead(w) \/ DeferJob(w)

FinanceNext ==
  \/ Change \/ Observes \/ ObserveOther \/ LeaseEnds \/ FallsDue \/ Claims
  \/ \E w \in Readers : Forced(w) \/ Ends(w) \/ LoseReader(w)

FinanceSpec == FinanceInit /\ [][FinanceNext]_financeVars

(* Stripe repeats a webhook until it is answered, time passes, handlers end, sweeps come round. *)
FinanceFairness ==
  /\ WF_financeVars(Observes) /\ WF_financeVars(LeaseEnds) /\ WF_financeVars(FallsDue)
  /\ WF_financeVars(Claims)
  /\ \A w \in Readers : WF_financeVars(Ends(w))

FinanceFairSpec == FinanceSpec /\ FinanceFairness

-----------------------------------------------------------------------------
(* Properties. *)

(* A revision that is not marked dirty tells at least what every recorded notice was about,   *)
(* however notices, reads and overlapping workers interleave: a report may trust it.          *)
CleanIsCurrent == revision # None /\ newest <= revision.watermark => revision.facts >= told

(* What the job no longer considers new, its verified revision has seen: no notice is left    *)
(* to the next day's reading.                                                                 *)
NothingOverlooked == job.status = "verified" /\ ~News => revision.facts >= told

(* Whatever notices were recorded, the revision catches up with the newest change they told of, *)
(* unless the attempts are used up: no notice, failure or lost worker leaves the job unread.      *)
FactsArrive == []<>(told > 0 => revision # None /\ revision.facts >= told)
=============================================================================
