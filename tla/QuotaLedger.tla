---------------------------- MODULE QuotaLedger ----------------------------
(***************************************************************************)
(* The question ledger of one device (server/src/billing-sql.ts, the       *)
(* authoritative store, with payment-ledger.ts, free-trial.ts and plus.ts).*)
(*                                                                         *)
(* Every operation of the store is one transaction under the device's row  *)
(* lock, so each is one action.  Questions live in lots: the initial or    *)
(* opening grant, one lot per trial day and per Plus day, one per paid     *)
(* order or gift, one goodwill lot per failed recovery.  The device row    *)
(* caches what the lots make spendable in balance_questions, which every   *)
(* operation maintains by increments of its own; quotaFor throws when the  *)
(* two disagree.                                                           *)
(*                                                                         *)
(* Time is a bounded logical clock.  Devices share no lot and no capture,  *)
(* so one device stands for all.                                           *)
(***************************************************************************)
EXTENDS Integers, FiniteSets, Null

CONSTANTS
  Captures,        \* client capture ids
  PaidOrders,      \* references of paid orders (credited with amountCents > 0)
  Gifts,           \* references of credits without a payment
  InitialKind,     \* kind of the first lot: "trial" or "legacy_unknown"
  InitialGrant,    \* questions of the first lot
  DailyTrial,      \* FREE_TRIAL_POLICY.dailyLimit
  DailyPlus,       \* PLUS.dailyLimit
  CreditQuestions, \* questions of one paid order or gift
  MaxLot,          \* bound on the questions of a lot
  TrialEligible,   \* whether registration inserted a free_trials row
  TrialLength,     \* FREE_TRIAL_POLICY.durationHours
  DayLength,       \* length of a daily window
  DayOffset,       \* offset of the daily window (Beijing time)
  SolveLease,      \* leaseMs of solve and recover
  ExplainLease,    \* leaseMs of explain
  AnswerAge,       \* age at which an answer accepts no follow-up
  ReapBatch,       \* LIMIT of one reaper transaction
  Plans,           \* the plus_subscriptions rows that can be observed
  MaxTime          \* bound on the clock

ASSUME LedgerAssumption ==
  /\ IsFiniteSet(Captures) /\ IsFiniteSet(PaidOrders) /\ IsFiniteSet(Gifts)
  /\ None \notin Captures
  /\ InitialKind \in {"trial", "legacy_unknown"}
  /\ MaxLot \in Nat \ {0} /\ MaxTime \in Nat
  /\ InitialGrant \in 0..MaxLot
  /\ DailyTrial \in 1..MaxLot /\ DailyPlus \in 1..MaxLot
  /\ CreditQuestions \in 1..MaxLot
  /\ TrialEligible \in BOOLEAN /\ (TrialEligible => InitialKind = "trial")
  /\ TrialLength \in Nat \ {0} /\ DayLength \in Nat \ {0} /\ DayOffset \in Nat
  /\ SolveLease \in Nat \ {0} /\ ExplainLease \in Nat \ {0} /\ AnswerAge \in Nat
  /\ ReapBatch \in Nat \ {0}
  /\ Plans \subseteq [from : Nat, until : Nat, ended : BOOLEAN]

VARIABLES
  now,       \* the server's clock
  quota,     \* [balance, lot]: devices.balance_questions and the quota_lots rows
  captures,  \* the capture_requests rows with their metadata
  trial,     \* the free_trials row
  plan,      \* the plus_subscriptions row
  sweep      \* the running reaper transaction: the time it was given, and the
             \* captures it selected and has not visited yet

ledgerVars == <<now, quota, captures, trial, plan, sweep>>

Time  == 0..MaxTime
Never == MaxTime + 1
Least(a, b) == IF a <= b THEN a ELSE b
-----------------------------------------------------------------------------
(* Lots *)

Day(t)    == (t + DayOffset) \div DayLength
DayEnd(t) == (Day(t) + 1) * DayLength - DayOffset
Days      == {Day(t) : t \in Time}

InitialLot      == <<"initial", 0>>
TrialLot(d)     == <<"trial_daily", d>>
PlusLot(d)      == <<"plus_daily", d>>
RecoveryLot(c)  == <<"recovery", c>>
OrderLot(o)     == <<"order", o>>
GiftLot(g)      == <<"gift", g>>
PlusLots        == {"plus_daily"} \X Days
Lots == {InitialLot} \cup ({"trial_daily"} \X Days) \cup PlusLots
          \cup ({"order"} \X PaidOrders) \cup ({"gift"} \X Gifts)
          \cup ({"recovery"} \X Captures)

ASSUME NoLotIsNone == None \notin Lots

(* The order in which an admission looks for a question. *)
RankByKind(l) == CASE l[1] = "initial" -> IF InitialKind = "trial" THEN 0 ELSE 2
                   [] l[1] = "trial_daily" -> 0
                   [] l[1] \in {"plus_daily", "order"} -> 4
                   [] OTHER -> 3
Rank(l) == CASE l[1] = "initial" -> IF InitialKind = "trial" THEN 0 ELSE 2
             [] l[1] = "trial_daily" -> 0
             [] l[1] = "plus_daily" -> 1
             [] l[1] = "order" -> 4
             [] OTHER -> 3
Purchased(l) == l[1] = "order"

(* A row of quota_lots; granted = 0 when there is no such row yet. *)
LotRow == [granted : 0..MaxLot, remaining : 0..MaxLot, held : 0..MaxLot,
           revoked : 0..MaxLot, target : 0..MaxLot, frozen : BOOLEAN, expires : Nat]
NewLot(n, expires) == [granted |-> n, remaining |-> n, held |-> 0, revoked |-> 0,
                       target |-> 0, frozen |-> FALSE, expires |-> expires]

Available(x) == IF x.frozen THEN 0 ELSE x.remaining - x.held

(* The sum of f over the lots in S, counted one question at a time: a           *)
(* cardinality, where a recursive sum would be beyond the provers.              *)
Total(S, f) == Cardinality({p \in S \X (1..MaxLot) : p[2] <= f[p[1]]})
Availability(lot) == [l \in Lots |-> Available(lot[l])]

(* payment-ledger.ts applyLotPolicy *)
LotPolicyForgettingRevoked(x, frozen, target) ==
  LET revoked == Least(target, x.remaining - x.held)
  IN  [x EXCEPT !.remaining = x.remaining - revoked, !.revoked = revoked,
                !.frozen = frozen, !.target = target]
ApplyLotPolicy(x, frozen, target) ==
  LET unspent == x.remaining + x.revoked
      revoked == Least(target, unspent - x.held)
  IN  [x EXCEPT !.remaining = unspent - revoked, !.revoked = revoked,
                !.frozen = frozen, !.target = target]

ApplyRefundLot(q, l, frozen, target) ==
  LET after == ApplyLotPolicy(q.lot[l], frozen, target)
  IN  [balance |-> q.balance + Available(after) - Available(q.lot[l]),
       lot |-> [q.lot EXCEPT ![l] = after]]

(* INSERT INTO quota_lots with its increment of balance_questions. *)
Grant(q, l, n, expires) ==
  [balance |-> q.balance + n, lot |-> [q.lot EXCEPT ![l] = NewLot(n, expires)]]

(* The loops "for (const lot of ...) applyRefundLot(lot, false, granted)" of the *)
(* two syncs: all unspent questions of the lots in S are revoked.                *)
RevokeLots(q, S) ==
  LET after == [l \in Lots |-> IF l \in S
                               THEN ApplyLotPolicy(q.lot[l], FALSE, q.lot[l].granted)
                               ELSE q.lot[l]]
  IN  [balance |-> q.balance + Total(S, Availability(after)) - Total(S, Availability(q.lot)),
       lot |-> after]
-----------------------------------------------------------------------------
(* Daily allowances, brought up to date at the start of most operations *)

TrialActive(t) == t.activated <= now /\ now < t.expires
PlusActive     == plan.from <= now /\ now < plan.until /\ ~plan.ended

SyncFreeTrial(q, t) ==
  LET x == RevokeLots(q, {l \in Lots : /\ q.lot[l].expires <= now
                                       /\ q.lot[l].target # q.lot[l].granted})
      today == TrialLot(Day(now))
  IN  IF TrialActive(t) /\ x.lot[today].granted = 0
      THEN Grant(x, today, DailyTrial, Least(DayEnd(now), t.expires))
      ELSE x

SyncPlusCreditingRenewal(q) ==
  LET today   == PlusLot(Day(now))
      expires == Least(DayEnd(now), plan.until)
  IN  CASE ~PlusActive ->
             RevokeLots(q, {l \in PlusLots : q.lot[l].target # q.lot[l].granted})
        [] PlusActive /\ q.lot[today].granted = 0 -> Grant(q, today, DailyPlus, expires)
        [] OTHER -> ApplyRefundLot([q EXCEPT !.lot[today] = NewLot(DailyPlus, expires)],
                                   today, FALSE, 0)
SyncPlus(q) ==
  LET today   == PlusLot(Day(now))
      expires == Least(DayEnd(now), plan.until)
  IN  CASE ~PlusActive ->
             RevokeLots(q, {l \in PlusLots : q.lot[l].target # q.lot[l].granted})
        [] PlusActive /\ q.lot[today].granted = 0 -> Grant(q, today, DailyPlus, expires)
        [] OTHER -> ApplyRefundLot([q EXCEPT !.lot[today].expires = expires],
                                   today, FALSE, 0)

Synced(q, t) == SyncPlus(SyncFreeTrial(q, t))
-----------------------------------------------------------------------------
(* Captures *)

Operations == {"solve", "explain", "recover"}
NoRequest == [state |-> "none", op |-> "solve", lot |-> None, parent |-> None,
              created |-> 0, expires |-> 0, usable |-> FALSE,
              explained |-> None, recovered |-> None]

Lease(op) == IF op = "explain" THEN ExplainLease ELSE SolveLease
NewCapture(op, parent, lot) ==
  [state |-> "held", op |-> op, lot |-> lot, parent |-> parent,
   created |-> now, expires |-> now + Lease(op), usable |-> FALSE,
   explained |-> None, recovered |-> None]

HeldOn(l)    == {c \in Captures : captures[c].lot = l /\ captures[c].state = "held"}
SettledOn(l) == {c \in Captures : captures[c].lot = l /\ captures[c].state = "settled"}
SomeHeld     == \E c \in Captures : captures[c].state = "held"

(* The lots an admission may take a question from: the first in order. *)
Spendable(q, allowPurchased) ==
  {l \in Lots : /\ q.lot[l].remaining > q.lot[l].held
                /\ ~q.lot[l].frozen
                /\ allowPurchased \/ ~Purchased(l)}
Preferred(q, allowPurchased) ==
  LET S == Spendable(q, allowPurchased)
  IN  {l \in S : \A m \in S : Rank(l) <= Rank(m)}

HoldOn(q, l) == [balance |-> q.balance - 1, lot |-> [q.lot EXCEPT ![l].held = @ + 1]]

(* beginCapture for a solve: sync, then hold one question of the preferred lot. *)
BeginSolveWithoutSync(c, exclusive, allowPurchased) ==
  /\ captures[c].state = "none"
  /\ exclusive => ~SomeHeld
  /\ now + SolveLease <= MaxTime
  /\ quota.balance >= 1
  /\ \E l \in Preferred(quota, allowPurchased) :
       /\ quota' = HoldOn(quota, l)
       /\ captures' = [captures EXCEPT ![c] = NewCapture("solve", None, l)]
  /\ UNCHANGED <<now, trial, plan, sweep>>
BeginSolve(c, exclusive, allowPurchased) ==
  /\ captures[c].state = "none"
  /\ exclusive => ~SomeHeld
  /\ now + SolveLease <= MaxTime            \* bound: leases end before the clock does
  /\ LET q == Synced(quota, trial)
     IN  /\ q.balance >= 1
         /\ \E l \in Preferred(q, allowPurchased) :
              /\ quota' = HoldOn(q, l)
              /\ captures' = [captures EXCEPT ![c] = NewCapture("solve", None, l)]
  /\ UNCHANGED <<now, trial, plan, sweep>>

Usable(p) == captures[p].op = "solve" /\ captures[p].state = "settled" /\ captures[p].usable

(* billing.ts isRecoveredAnswerFor *)
IsRecoveredAnswerFor(p, a) ==
  /\ Usable(p)
  /\ captures[p].recovered = a /\ captures[a].parent = p
  /\ captures[a].op = "recover" /\ captures[a].state = "released" /\ captures[a].usable

(* beginCapture for an explanation or a recovery of the solve p: no question is   *)
(* held, and p remembers its only follow-up of each kind.  answer is the answer   *)
(* to explain.                                                                    *)
BeginFollowUp(c, op, p, answer) ==
  /\ captures[c].state = "none"
  /\ ~SomeHeld
  /\ Usable(p)
  /\ now - captures[p].created < AnswerAge
  /\ answer = p \/ (op = "explain" /\ IsRecoveredAnswerFor(p, answer))
  /\ IF op = "explain" THEN captures[p].explained = None ELSE captures[p].recovered = None
  /\ now + Lease(op) <= MaxTime             \* bound
  /\ quota' = Synced(quota, trial)
  /\ captures' = [captures EXCEPT
       ![c] = NewCapture(op, p, None),
       ![p].explained = IF op = "explain" THEN c ELSE @,
       ![p].recovered = IF op = "recover" THEN c ELSE @]
  /\ UNCHANGED <<now, trial, plan, sweep>>

(* finishForDevice on a held solve: the question is charged or released, and what *)
(* a refund or an expiry still has to revoke is taken from the released question. *)
SettleOnKeepingRevocation(q, l, charge) ==
  LET x == [q.lot[l] EXCEPT !.held = @ - 1, !.remaining = IF charge THEN @ - 1 ELSE @]
  IN  [balance |-> IF charge \/ x.frozen THEN q.balance ELSE q.balance + 1,
       lot |-> [q.lot EXCEPT ![l] = x]]
SettleOnIgnoringFreeze(q, l, charge) ==
  LET x == [q.lot[l] EXCEPT !.held = @ - 1, !.remaining = IF charge THEN @ - 1 ELSE @]
      mid == [balance |-> IF charge THEN q.balance ELSE q.balance + 1,
              lot |-> [q.lot EXCEPT ![l] = x]]
  IN  ApplyRefundLot(mid, l, x.frozen, x.target)
SettleOn(q, l, charge) ==
  LET x == [q.lot[l] EXCEPT !.held = @ - 1, !.remaining = IF charge THEN @ - 1 ELSE @]
      mid == [balance |-> IF charge \/ x.frozen THEN q.balance ELSE q.balance + 1,
              lot |-> [q.lot EXCEPT ![l] = x]]
  IN  ApplyRefundLot(mid, l, x.frozen, x.target)

(* finishForDevice on a held recovery that failed: one goodwill question, once    *)
(* per recovered solve.                                                           *)
Compensate(q, p) ==
  IF q.lot[RecoveryLot(p)].granted = 0 THEN Grant(q, RecoveryLot(p), 1, Never) ELSE q

(* finishForDevice: what a terminal outcome of the capture c does.  An expired    *)
(* lease cannot be revived by a delayed callback.                                 *)
Charged(c, charge) == charge /\ captures[c].expires > now
FinishedQuotaAlwaysCompensating(c, charge, usable) ==
  CASE captures[c].op = "solve" -> SettleOn(quota, captures[c].lot, Charged(c, charge))
    [] captures[c].op = "recover" -> Compensate(quota, captures[c].parent)
    [] OTHER -> quota
FinishedQuota(c, charge, usable) ==
  IF captures[c].op = "solve"
  THEN SettleOn(quota, captures[c].lot, Charged(c, charge))
  ELSE IF captures[c].op = "recover" /\ ~usable
       THEN Compensate(quota, captures[c].parent)
       ELSE quota
FinishedCaptures(c, charge, usable) ==
  [captures EXCEPT
    ![c].state  = IF captures[c].op = "solve" /\ Charged(c, charge) THEN "settled" ELSE "released",
    ![c].usable = usable /\ (captures[c].op = "solve" => Charged(c, charge))]

(* finish and finishWithCapture: a no-op on a capture that is no longer held.     *)
Finish(c, charge, usable) ==
  /\ captures[c].state = "held"
  /\ IF captures[c].op = "solve" THEN usable => charge ELSE ~charge
  /\ quota' = Synced(FinishedQuota(c, charge, usable), trial)
  /\ captures' = FinishedCaptures(c, charge, usable)
  /\ UNCHANGED <<now, trial, plan, sweep>>

(* reap: one transaction selects a batch of expired captures, then visits them    *)
(* one by one, locking the device and checking again that the capture is held.    *)
ReapSelectSolvesOnly ==
  LET due == {c \in Captures : /\ captures[c].op = "solve"
                               /\ captures[c].state = "held" /\ captures[c].expires <= now}
  IN  /\ sweep.todo = {} /\ due # {}
      /\ \E S \in SUBSET due :
           /\ Cardinality(S) = Least(ReapBatch, Cardinality(due))
           /\ sweep' = [at |-> now, todo |-> S]
  /\ UNCHANGED <<now, quota, captures, trial, plan>>
ReapSelect ==
  LET due == {c \in Captures : captures[c].state = "held" /\ captures[c].expires <= now}
  IN  /\ sweep.todo = {} /\ due # {}
      /\ \E S \in SUBSET due :
           /\ Cardinality(S) = Least(ReapBatch, Cardinality(due))
           /\ sweep' = [at |-> now, todo |-> S]
  /\ UNCHANGED <<now, quota, captures, trial, plan>>
ReapVisitUnchecked(c) ==
  /\ c \in sweep.todo
  /\ sweep' = [sweep EXCEPT !.todo = @ \ {c}]
  /\ quota' = FinishedQuota(c, FALSE, FALSE)
  /\ captures' = FinishedCaptures(c, FALSE, FALSE)
  /\ UNCHANGED <<now, trial, plan>>
ReapVisit(c) ==
  /\ c \in sweep.todo
  /\ sweep' = [sweep EXCEPT !.todo = @ \ {c}]
  /\ IF captures[c].state = "held" /\ captures[c].expires <= sweep.at
     THEN /\ quota' = FinishedQuota(c, FALSE, FALSE)
          /\ captures' = FinishedCaptures(c, FALSE, FALSE)
     ELSE UNCHANGED <<quota, captures>>
  /\ UNCHANGED <<now, trial, plan>>
-----------------------------------------------------------------------------
(* The account *)

(* quota, accountSnapshot, and every admission refused after its sync             *)
(* (insufficient_quota, paid_credits_disabled, a duplicate, device_busy).         *)
ReadAccount ==
  /\ quota' = Synced(quota, trial)
  /\ UNCHANGED <<now, captures, trial, plan, sweep>>

(* claimFreeTrial: the first claim starts the trial and lets the initial grant    *)
(* expire; the snapshot that follows revokes it and grants today's lot.           *)
ClaimFreeTrial ==
  /\ trial.eligible
  /\ LET first == trial.activated = Never
         t == IF first THEN [trial EXCEPT !.activated = now, !.expires = now + TrialLength]
                       ELSE trial
         q == IF first THEN [quota EXCEPT !.lot[InitialLot].expires = now] ELSE quota
     IN  trial' = t /\ quota' = Synced(q, t)
  /\ UNCHANGED <<now, captures, plan, sweep>>

(* credit and creditDevice: idempotent by reference.                              *)
Credit(g) ==
  /\ quota.lot[GiftLot(g)].granted = 0
  /\ quota' = Grant(quota, GiftLot(g), CreditQuestions, Never)
  /\ UNCHANGED <<now, captures, trial, plan, sweep>>

(* creditPaidOrder: the grant, and at once the policy that refundPolicy computes   *)
(* from the refunds known so far, which may have come before the payment: any      *)
(* freeze and any target up to the order's questions.                              *)
PayOrder(o, frozen, target) ==
  LET l == OrderLot(o)
  IN  /\ quota.lot[l].granted = 0
      /\ quota' = ApplyRefundLot(Grant(quota, l, CreditQuestions, Never), l, frozen, target)
      /\ UNCHANGED <<now, captures, trial, plan, sweep>>

(* refreshOrder of a credited order, when a refund or a decision on it arrives or  *)
(* its payment is delivered again.                                                 *)
RefreshOrder(o, frozen, target) ==
  /\ quota.lot[OrderLot(o)].granted > 0
  /\ quota' = ApplyRefundLot(quota, OrderLot(o), frozen, target)
  /\ UNCHANGED <<now, captures, trial, plan, sweep>>

(* plus-sql.ts apply and reserve, seen from the ledger: the row changes.          *)
PlanChanges(p) ==
  /\ plan' = p
  /\ UNCHANGED <<now, quota, captures, trial, sweep>>

Tick ==
  /\ now < MaxTime
  /\ now' = now + 1
  /\ UNCHANGED <<quota, captures, trial, plan, sweep>>
-----------------------------------------------------------------------------
NoPlan == [from |-> 0, until |-> 0, ended |-> FALSE]

(* register, or opening for a device older than the ledger *)
Init ==
  /\ now = 0
  /\ quota = [balance |-> InitialGrant,
              lot |-> [l \in Lots |-> IF l = InitialLot THEN NewLot(InitialGrant, Never)
                                                        ELSE NewLot(0, Never)]]
  /\ captures = [c \in Captures |-> NoRequest]
  /\ trial = [eligible |-> TrialEligible, activated |-> Never, expires |-> Never]
  /\ plan = NoPlan
  /\ sweep = [at |-> 0, todo |-> {}]

Requests ==
  \/ \E c \in Captures, exclusive, allowPurchased \in BOOLEAN :
       BeginSolve(c, exclusive, allowPurchased)
  \/ \E c, p, answer \in Captures, op \in {"explain", "recover"} :
       BeginFollowUp(c, op, p, answer)
  \/ \E c \in Captures, charge, usable \in BOOLEAN : Finish(c, charge, usable)
  \/ ReadAccount
  \/ ClaimFreeTrial
Reaper == ReapSelect \/ \E c \in Captures : ReapVisit(c)
Payments ==
  \/ \E g \in Gifts : Credit(g)
  \/ \E o \in PaidOrders, frozen \in BOOLEAN, target \in 0..CreditQuestions :
       PayOrder(o, frozen, target) \/ RefreshOrder(o, frozen, target)
  \/ \E p \in Plans : PlanChanges(p)

Next == Requests \/ Reaper \/ Payments \/ Tick

(* The scheduler calls the reaper on every tick and the clock advances; no client *)
(* and no payment has to act.                                                     *)
Fairness ==
  /\ WF_ledgerVars(Tick)
  /\ WF_ledgerVars(ReapSelect)
  /\ \A c \in Captures : WF_ledgerVars(ReapVisit(c))

Spec == Init /\ [][Next]_ledgerVars
FairSpec == Spec /\ Fairness
-----------------------------------------------------------------------------
(* Properties *)

CaptureRow ==
  [state : {"none", "held", "settled", "released"}, op : Operations,
   lot : Lots \cup {None}, parent : Captures \cup {None}, created : Time,
   expires : Nat, usable : BOOLEAN,
   explained : Captures \cup {None}, recovered : Captures \cup {None}]

(* Every row has its type; in particular no count leaves its column. *)
TypeOK ==
  /\ now \in Time
  /\ quota \in [balance : Nat, lot : [Lots -> LotRow]]
  /\ captures \in [Captures -> CaptureRow]
  /\ trial \in [eligible : BOOLEAN, activated : Nat, expires : Nat]
  /\ plan \in Plans \cup {NoPlan}
  /\ sweep \in [at : Time, todo : SUBSET Captures]

(* The CHECK constraints of quota_lots (billing-sql.ts): were one to fail, the     *)
(* transaction that settles or refunds would abort, now and on every retry.        *)
LotChecks ==
  \A l \in Lots : LET x == quota.lot[l]
                  IN  x.held <= x.remaining /\ x.remaining <= x.granted

(* "Quota ledger balance mismatch" is never thrown: the balance that every         *)
(* operation maintains by its own increments is what the lots make spendable.      *)
BalanceMatchesLots == quota.balance = Total(Lots, Availability(quota.lot))

(* A lot holds one question for each capture that is held on it, and no other:     *)
(* no hold leaks when a reaper, a late callback and a retry meet.                  *)
HoldsMatchCaptures == \A l \in Lots : quota.lot[l].held = Cardinality(HeldOn(l))

(* No question of a lot is lost or charged twice: what is left, what was revoked   *)
(* and what was charged is what was granted, across expiry, renewal and refunds.   *)
QuestionsConserved ==
  \A l \in Lots : LET x == quota.lot[l]
                  IN  x.remaining + x.revoked + Cardinality(SettledOn(l)) = x.granted

(* payment-ledger.ts: "released holds are revoked before becoming spendable".      *)
(* While a lot still owes questions to a refund or an expiry, none is spendable.   *)
RevocationComesFirst ==
  \A l \in Lots : LET x == quota.lot[l]
                  IN  x.revoked < x.target => x.remaining = x.held

(* A goodwill question is granted for exactly the usable solves whose only         *)
(* recovery has ended without a usable answer, and it is granted once.             *)
CompensatesFailedRecoveries ==
  \A p \in Captures :
    LET r == captures[p].recovered
    IN  quota.lot[RecoveryLot(p)].granted =
          IF r # None /\ captures[r].state = "released" /\ ~captures[r].usable
             /\ captures[r].parent = p /\ Usable(p)
          THEN 1 ELSE 0

(* A solve holds a question that its device is entitled to at that moment: not     *)
(* one of a past day, of an ended trial or plan, or of a refunded order; and never *)
(* a purchased one while a question of today's allowance is spendable.             *)
HoldIsEntitled(c) ==
  LET l == captures'[c].lot
      x == quota'.lot[l]
  IN  captures[c].state = "none" /\ captures'[c].state = "held" /\ captures'[c].op = "solve" =>
        /\ now < x.expires
        /\ ~x.frozen
        /\ l[1] = "trial_daily" => TrialActive(trial) /\ l[2] = Day(now)
        /\ l[1] = "plus_daily" => PlusActive /\ l[2] = Day(now)
        /\ Purchased(l) => /\ quota'.lot[TrialLot(Day(now))].remaining
                                = quota'.lot[TrialLot(Day(now))].held
                           /\ quota'.lot[PlusLot(Day(now))].remaining
                                = quota'.lot[PlusLot(Day(now))].held
HoldsAreEntitled == [][\A c \in Captures : HoldIsEntitled(c)]_ledgerVars

(* The ledger keeps the promise of QuestionEntitlement.  Explanations and          *)
(* recoveries take no question; a lot entitles to what was granted and not revoked.*)
Entitled == [l \in Lots |-> quota.lot[l].granted - quota.lot[l].revoked]
Status   == [c \in Captures |-> IF captures[c].op # "solve" THEN "none"
                                  ELSE IF captures[c].state = "settled" THEN "charged"
                                  ELSE captures[c].state]
From     == [c \in Captures |-> captures[c].lot]
Entitlement == INSTANCE QuestionEntitlement WITH
  entitled <- Entitled, status <- Status, from <- From
KeepsEntitlement == Entitlement!Spec

(* Every hold ends, with no help from the client: the lease runs out and a sweep   *)
(* finds it (docs/cloudflare-scheduler.md).                                        *)
HoldsEnd == \A c \in Captures : captures[c].state = "held" ~> captures[c].state # "held"
=============================================================================
