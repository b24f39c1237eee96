--------------------------- MODULE CaptureService ---------------------------
(***************************************************************************)
(* The handlers that run a capture (server/src/capture-service.ts): admit  *)
(* a request, call the model, settle its cost and its question, clean up.  *)
(* One server process, the handlers of one device interleaved at every     *)
(* await; the model budget windows are those of the official scope.        *)
(*                                                                         *)
(* Each call to the store is one transaction, so one action.  It may throw *)
(* before it commits or after (the acknowledgement is lost): MaxFaults     *)
(* bounds how often.  The process may crash between any two steps.         *)
(* What a capture does to the balance is QuotaLedger's; here a capture is  *)
(* only held, settled or released, and every other reason to refuse one is *)
(* a free choice.  The success or failure of an attempt is not kept.       *)
(***************************************************************************)
EXTENDS Integers, FiniteSets, Null

CONSTANTS
  Requests,   \* HTTP requests; also their requestId and attemptId (both fresh UUIDs)
  Captures,   \* capture ids the client names (a retry names the same one)
  MaxActive,  \* captureConcurrencyPerToken
  Upper,      \* attemptBudgetUpperMicros
  Limit,      \* modelDailyBudgetMicros
  Costs,      \* what a model call may be found to cost, above Upper too
  MaxFaults,  \* bound on store calls that throw and process crashes
  MaxDay      \* bound on the days that pass

ASSUME ServiceAssumption ==
  /\ IsFiniteSet(Requests) /\ IsFiniteSet(Captures)
  /\ None \notin Requests \cup Captures \cup Nat
  /\ MaxActive \in Nat \ {0} /\ Upper \in Nat \ {0} /\ Limit \in Nat \ {0}
  /\ Costs \subseteq Nat /\ MaxFaults \in Nat /\ MaxDay \in Nat

VARIABLES
  request,     \* the handlers' local state
  activeCount, \* this.active of the device
  captures,    \* capture_requests rows
  expired,     \* captures whose lease_expires_at has passed
  attempt,     \* model_attempts.status of each request's attempt
  hold,        \* attempt_budget_holds row of each request's attempt
  window,      \* budget_windows row of each day
  day,         \* the budget day of the clock
  faults       \* faults so far

store == <<captures, attempt, hold, window>>
captureVars == <<request, activeCount, captures, expired, attempt, hold, window, day, faults>>

Days == 0..MaxDay

(* Local state: where the handler is; whether its peer is gone, the model was  *)
(* called (admission.providerStarted), the outcome of begin is unknown          *)
(* (beginUncertain), the capture is its own; what the model gave and cost; the  *)
(* committed capture its final event reports.                                   *)
NewRequest ==
  [pc |-> "new", op |-> None, cap |-> None, gone |-> FALSE, started |-> FALSE, unsure |-> FALSE,
   owned |-> FALSE, good |-> FALSE, cost |-> None, told |-> None]

NoCapture == [state |-> "none", owner |-> None, op |-> None, usable |-> FALSE]

CaptureInit ==
  /\ request = [r \in Requests |-> NewRequest]
  /\ activeCount = 0
  /\ captures = [c \in Captures |-> NoCapture]
  /\ expired = {}
  /\ attempt = [r \in Requests |-> "none"]
  /\ hold = [r \in Requests |-> [state |-> "none", day |-> 0, actual |-> 0]]
  /\ window = [d \in Days |-> [held |-> 0, spent |-> 0]]
  /\ day = 0
  /\ faults = 0
-----------------------------------------------------------------------------
(* Store calls *)

Outcomes == {"ok", "lost", "failed"}

Call(o) ==
  /\ faults' = IF o = "ok" THEN faults ELSE faults + 1
  /\ faults' <= MaxFaults

(* The value of a table after a call: a failed call leaves it as it is. *)
Commit(o, before, after) == IF o = "failed" THEN before ELSE after

(* Defective variant: a late finish ends a capture again. *)
FinishedAgain(c, good) ==
  LET charged == good /\ captures[c].op = "solve" /\ c \notin expired
  IN IF captures[c].state = "none" THEN captures
     ELSE [captures EXCEPT ![c].state = IF charged THEN "settled" ELSE "released",
                           ![c].usable = charged]

(* finish: only a held capture changes, and an expired one is not charged. *)
Finished(c, good) ==
  LET charged == good /\ captures[c].op = "solve" /\ c \notin expired
  IN IF captures[c].state # "held" THEN captures
     ELSE [captures EXCEPT
            ![c].state  = IF charged THEN "settled" ELSE "released",
            ![c].usable = IF captures[c].op = "solve" THEN charged ELSE good]

FinishedAttempt(r, status) == [attempt EXCEPT ![r] = IF @ = "running" THEN status ELSE @]

(* settleBudgetForDevice: an unknown cost counts as the reserved bound.  The    *)
(* window is the one the hold was reserved in.                                  *)
Expense(cost) == IF cost = None THEN Upper ELSE cost

SettledHold(r, cost) ==
  IF hold[r].state # "held" THEN hold
  ELSE [hold EXCEPT ![r].state = "settled", ![r].actual = Expense(cost)]

(* Defective variant: settling on the clock's day. *)
SettledWindowToday(r, cost) ==
  IF hold[r].state # "held" THEN window
  ELSE [window EXCEPT ![day].held = @ - Upper, ![day].spent = @ + Expense(cost)]

SettledWindow(r, cost) ==
  IF hold[r].state # "held" THEN window
  ELSE [window EXCEPT ![hold[r].day].held  = @ - Upper,
                      ![hold[r].day].spent = @ + Expense(cost)]

SettleBudget(r, o, cost) ==
  /\ hold' = Commit(o, hold, SettledHold(r, cost))
  /\ window' = Commit(o, window, SettledWindow(r, cost))

ReleaseBudget(r, o) ==
  LET held == hold[r].state = "held"
  IN /\ hold' = Commit(o, hold, IF held THEN [hold EXCEPT ![r].state = "released"] ELSE hold)
     /\ window' = Commit(o, window,
          IF held THEN [window EXCEPT ![hold[r].day].held = @ - Upper] ELSE window)

IsAt(r, pc) == request[r].pc = pc

Goes(r, pc) == request' = [request EXCEPT ![r].pc = pc]

(* Where the finally block of admitted starts for a handler. *)
Cleanup(started, unsure) ==
  IF unsure THEN "reconcile" ELSE IF started THEN "endBudget" ELSE "endAttempt"
-----------------------------------------------------------------------------
(* Admission *)

(* A request names a capture; solve looks it up and answers 409 if it exists. *)
Arrive(r) ==
  /\ IsAt(r, "new")
  /\ \E op \in {"solve", "followUp"}, c \in Captures :
       request' = [request EXCEPT ![r].op = op, ![r].cap = c,
         ![r].pc = IF op = "solve" /\ captures[c].state # "none" THEN "done" ELSE "admit"]
  /\ UNCHANGED <<activeCount, store, expired, day, faults>>

(* The concurrency limit of the device; a peer that is gone is not counted. *)
Admit(r) ==
  /\ IsAt(r, "admit")
  /\ IF request[r].gone \/ activeCount >= MaxActive
     THEN Goes(r, "done") /\ UNCHANGED activeCount
     ELSE Goes(r, "reserve") /\ activeCount' = activeCount + 1
  /\ UNCHANGED <<store, expired, day, faults>>

(* Defective variant: only what is settled counts. *)
AffordableBySpent == window[day].spent + Upper <= Limit

Affordable == window[day].spent + window[day].held + Upper <= Limit

ReserveBudget(r, o) ==
  /\ IsAt(r, "reserve")
  /\ Call(o)
  /\ hold' = Commit(o, hold,
       IF Affordable THEN [hold EXCEPT ![r].state = "held", ![r].day = day] ELSE hold)
  /\ window' = Commit(o, window,
       IF Affordable THEN [window EXCEPT ![day].held = @ + Upper] ELSE window)
  /\ LET proceeds == o = "ok" /\ Affordable /\ ~request[r].gone
     IN request' = [request EXCEPT ![r].unsure = proceeds,
                      ![r].pc = IF proceeds THEN "begin" ELSE Cleanup(FALSE, FALSE)]
  /\ UNCHANGED <<activeCount, captures, expired, attempt, day>>

(* beginWithAttempt refuses a known capture id, and a follow-up while another   *)
(* capture is held; a full slot, balance, parent... may refuse any other.       *)
Admissible(r) ==
  /\ captures[request[r].cap].state = "none"
  /\ request[r].op = "followUp" => \A c \in Captures : captures[c].state # "held"

(* The capture and its running attempt are committed together.  If the call     *)
(* returns and the peer is still there, the model is called at once.            *)
BeginWithAttempt(r, o, accepted) ==
  LET begun == o = "ok" /\ accepted
      calls == begun /\ ~request[r].gone
  IN /\ IsAt(r, "begin")
     /\ accepted => Admissible(r)
     /\ Call(o)
     /\ captures' = Commit(o, captures, IF accepted
          THEN [captures EXCEPT ![request[r].cap] =
                 [state |-> "held", owner |-> r, op |-> request[r].op, usable |-> FALSE]]
          ELSE captures)
     /\ attempt' = Commit(o, attempt,
          IF accepted THEN [attempt EXCEPT ![r] = "running"] ELSE attempt)
     /\ request' = [request EXCEPT ![r].unsure = o # "ok", ![r].owned = begun, ![r].started = calls,
          ![r].pc = IF calls THEN "stream" ELSE Cleanup(FALSE, o # "ok")]
     /\ UNCHANGED <<activeCount, expired, hold, window, day>>
-----------------------------------------------------------------------------
(* The model call and its settlement *)

(* The call answers, fails, is aborted or meets its deadline; usage may be      *)
(* missing, so that the cost is unknown.                                        *)
Generated(r) ==
  /\ IsAt(r, "stream")
  /\ \E good \in BOOLEAN, cost \in Costs \cup {None} :
       request' = [request EXCEPT ![r].good = good, ![r].cost = cost, ![r].pc = "settleAttempt"]
  /\ UNCHANGED <<activeCount, store, expired, day, faults>>

(* Defective variant: no handler tries again. *)
NoSalvage(r) == Cleanup(request[r].op \in {"solve", "followUp"}, FALSE)

(* Where an exception while settling leads: solve's handler tries the attempt   *)
(* and the budget once more, that of a follow-up only reports it.               *)
AfterException(r) == IF request[r].op = "solve" THEN "salvageAttempt" ELSE Cleanup(TRUE, FALSE)

(* finishAttemptAndBudget *)
SettleAttempt(r, o) ==
  /\ IsAt(r, "settleAttempt")
  /\ Call(o)
  /\ attempt' = Commit(o, attempt, FinishedAttempt(r, "finished"))
  /\ SettleBudget(r, o, request[r].cost)
  /\ Goes(r, IF o = "ok" THEN "settleCapture" ELSE AfterException(r))
  /\ UNCHANGED <<activeCount, captures, expired, day>>

(* finishWithCapture: the final event repeats the committed capture; a follow-  *)
(* up whose answer was not committed as usable reports no result.               *)
SettleCapture(r, o) ==
  LET c == request[r].cap
      committed == Finished(c, request[r].good)[c]
      definite == o = "ok" /\ (request[r].op = "followUp" /\ request[r].good => committed.usable)
  IN /\ IsAt(r, "settleCapture")
     /\ Call(o)
     /\ captures' = Commit(o, captures, Finished(c, request[r].good))
     /\ request' = [request EXCEPT ![r].told = IF definite THEN committed ELSE None,
          ![r].pc = IF definite THEN Cleanup(TRUE, FALSE) ELSE AfterException(r)]
     /\ UNCHANGED <<activeCount, expired, attempt, hold, window, day>>

SalvageAttempt(r, o) ==
  /\ IsAt(r, "salvageAttempt")
  /\ Call(o)
  /\ attempt' = Commit(o, attempt, FinishedAttempt(r, "unknown"))
  /\ Goes(r, "salvageBudget")
  /\ UNCHANGED <<activeCount, captures, expired, hold, window, day>>

SalvageBudget(r, o) ==
  /\ IsAt(r, "salvageBudget")
  /\ Call(o)
  /\ SettleBudget(r, o, request[r].cost)
  /\ Goes(r, Cleanup(TRUE, FALSE))
  /\ UNCHANGED <<activeCount, captures, expired, attempt, day>>
-----------------------------------------------------------------------------
(* The finally block of admitted: every step is tried, whatever failed before *)

(* After an unacknowledged begin, the capture read back is the handler's own    *)
(* only if it carries its requestId.                                            *)
Reconcile(r, o) ==
  /\ IsAt(r, "reconcile")
  /\ Call(o)
  /\ request' = [request EXCEPT
       ![r].owned = o = "ok" /\ captures[request[r].cap].owner = r,
       ![r].pc = Cleanup(request[r].started, FALSE)]
  /\ UNCHANGED <<activeCount, store, expired, day>>

EndAttempt(r, o) ==
  /\ IsAt(r, "endAttempt")
  /\ Call(o)
  /\ attempt' = Commit(o, attempt, FinishedAttempt(r, "unstarted"))
  /\ Goes(r, "endBudget")
  /\ UNCHANGED <<activeCount, captures, expired, hold, window, day>>

(* Defective variants: only a started attempt is cleaned up; an attempt without a *)
(* usable answer is taken for free.                                               *)
EndBudgetIfStarted(r, o) ==
  /\ IsAt(r, "endBudget")
  /\ Call(o)
  /\ IF request[r].started THEN SettleBudget(r, o, None) ELSE UNCHANGED <<hold, window>>
  /\ Goes(r, "endCapture")
  /\ UNCHANGED <<activeCount, captures, expired, attempt, day>>

EndBudgetIfGood(r, o) ==
  /\ IsAt(r, "endBudget")
  /\ Call(o)
  /\ IF request[r].good THEN SettleBudget(r, o, None) ELSE ReleaseBudget(r, o)
  /\ Goes(r, "endCapture")
  /\ UNCHANGED <<activeCount, captures, expired, attempt, day>>

EndBudget(r, o) ==
  /\ IsAt(r, "endBudget")
  /\ Call(o)
  /\ IF request[r].started THEN SettleBudget(r, o, None) ELSE ReleaseBudget(r, o)
  /\ Goes(r, "endCapture")
  /\ UNCHANGED <<activeCount, captures, expired, attempt, day>>

(* Defective variant: the place is given back with the capture only. *)
EndCaptureAndPlace(r, o) ==
  LET c == request[r].cap
  IN /\ IsAt(r, "endCapture")
     /\ Call(o)
     /\ captures' = Commit(o, captures, IF request[r].owned THEN Finished(c, FALSE) ELSE captures)
     /\ activeCount' = IF activeCount > 0 /\ request[r].owned THEN activeCount - 1 ELSE activeCount
     /\ Goes(r, "done")
     /\ UNCHANGED <<expired, attempt, hold, window, day>>

EndCapture(r, o) ==
  LET c == request[r].cap
  IN /\ IsAt(r, "endCapture")
     /\ Call(o)
     /\ captures' = Commit(o, captures, IF request[r].owned THEN Finished(c, FALSE) ELSE captures)
     /\ activeCount' = IF activeCount > 0 THEN activeCount - 1 ELSE 0
     /\ Goes(r, "done")
     /\ UNCHANGED <<expired, attempt, hold, window, day>>
-----------------------------------------------------------------------------
(* The surroundings *)

InFlight == {r \in Requests : request[r].pc \notin {"new", "admit", "done", "crashed"}}

Disconnect(r) ==
  /\ request[r].pc \notin {"new", "done", "crashed"} /\ ~request[r].gone
  /\ request' = [request EXCEPT ![r].gone = TRUE]
  /\ UNCHANGED <<activeCount, store, expired, day, faults>>

Expire(c) ==
  /\ captures[c].state = "held" /\ c \notin expired
  /\ expired' = expired \cup {c}
  /\ UNCHANGED <<request, activeCount, store, day, faults>>

(* Defective variant: only captures whose attempt runs are swept. *)
ReapRunning(c) ==
  /\ captures[c].state = "held" /\ c \in expired
  /\ attempt[captures[c].owner] = "running"
  /\ captures' = Finished(c, FALSE)
  /\ attempt' = FinishedAttempt(captures[c].owner, "unknown")
  /\ UNCHANGED <<request, activeCount, expired, hold, window, day, faults>>

(* reap: an expired capture is released and its running attempt is unknown. *)
Reap(c) ==
  /\ captures[c].state = "held" /\ c \in expired
  /\ captures' = Finished(c, FALSE)
  /\ attempt' = FinishedAttempt(captures[c].owner, "unknown")
  /\ UNCHANGED <<request, activeCount, expired, hold, window, day, faults>>

NextDay ==
  /\ day < MaxDay /\ day' = day + 1
  /\ UNCHANGED <<request, activeCount, store, expired, faults>>

(* A crash loses the handlers and the counter, never a table. *)
Crash ==
  /\ Call("failed")
  /\ request' = [r \in Requests |->
       IF request[r].pc \in {"new", "done"} THEN request[r]
       ELSE [request[r] EXCEPT !.pc = "crashed"]]
  /\ activeCount' = 0
  /\ UNCHANGED <<store, expired, day>>

StoreCall(r, o) ==
  \/ ReserveBudget(r, o)
  \/ \E accepted \in BOOLEAN : BeginWithAttempt(r, o, accepted)
  \/ SettleAttempt(r, o) \/ SettleCapture(r, o) \/ SalvageAttempt(r, o) \/ SalvageBudget(r, o)
  \/ Reconcile(r, o) \/ EndAttempt(r, o) \/ EndBudget(r, o) \/ EndCapture(r, o)

Handler(r) == Admit(r) \/ Generated(r) \/ \E o \in Outcomes : StoreCall(r, o)

CaptureNext ==
  \/ \E r \in Requests : Arrive(r) \/ Handler(r) \/ Disconnect(r)
  \/ \E c \in Captures : Expire(c) \/ Reap(c)
  \/ NextDay \/ Crash

CaptureSpec == CaptureInit /\ [][CaptureNext]_captureVars

(* Every await ends (the model call by its deadline), leases run out, and the   *)
(* scheduler keeps calling the reaper.                                          *)
CaptureFairness ==
  /\ \A r \in Requests : WF_captureVars(Handler(r))
  /\ \A c \in Captures : WF_captureVars(Expire(c)) /\ WF_captureVars(Reap(c))

CaptureFairSpec == CaptureSpec /\ CaptureFairness
-----------------------------------------------------------------------------
(* Properties *)

Held(d)  == {r \in Requests : hold[r].state = "held" /\ hold[r].day = d}
Spent(d) == {r \in Requests : hold[r].state = "settled" /\ hold[r].day = d}

(* The final event of a stream repeats the committed capture: no later callback,*)
(* cleanup or sweep changes what the user was told about the question.          *)
ReceiptsAreFinal ==
  \A r \in Requests : request[r].told # None => request[r].told = captures[request[r].cap]

(* A call to the model that may have cost something is never booked as free:    *)
(* once it is made its attempt is not recorded as unstarted and its budget is   *)
(* not released, whatever the peer and the store do meanwhile.                  *)
SpendingIsNeverErased ==
  \A r \in Requests : request[r].started => attempt[r] # "unstarted" /\ hold[r].state # "released"

(* A handler that met no fault leaves nothing behind: no running attempt, no    *)
(* budget held, no capture of its own held, and it paid exactly when it called. *)
NothingLeftBehind ==
  faults = 0 => \A r \in Requests : request[r].pc = "done" =>
    /\ attempt[r] # "running"
    /\ hold[r].state \in IF request[r].started THEN {"settled"} ELSE {"none", "released"}
    /\ \A c \in Captures : captures[c].owner = r => captures[c].state # "held"

(* One store call that throws does not cost a solve its accounting: the attempt *)
(* ends, the observed cost is booked in full and the question is not held on.   *)
OneFaultIsSalvaged ==
  \A r \in Requests :
    (faults <= 1 /\ request[r].pc = "done" /\ request[r].op = "solve" /\ request[r].started) =>
      /\ attempt[r] # "running"
      /\ hold[r].state = "settled" /\ hold[r].actual = Expense(request[r].cost)
      /\ captures[request[r].cap].state # "held"

(* The sum of f over S, counted one micro at a time: a fold could not be proved about. *)
Micros(S, f) == Cardinality(UNION {{r} \X (1..f[r]) : r \in S})

Actual == [r \in Requests |-> hold[r].actual]
Excess == [r \in Requests |-> IF hold[r].actual > Upper THEN hold[r].actual - Upper ELSE 0]

(* A budget window counts exactly what the attempts reserved in it hold and     *)
(* spent, also when they settle on a later day or more than once; so a day's    *)
(* budget is exceeded by no more than its calls cost above the bound they       *)
(* reserved, however many are admitted at once.                                 *)
BudgetRespected ==
  \A d \in Days :
    /\ window[d].held = Upper * Cardinality(Held(d))
    /\ window[d].spent = Micros(Spent(d), Actual)
    /\ window[d].held + window[d].spent <= Limit + Micros(Spent(d), Excess)

(* The concurrency counter counts the handlers that run: no path out of         *)
(* admission leaks a place of the device or gives one back twice.               *)
PlacesMatchHandlers == activeCount = Cardinality(InFlight) /\ activeCount <= MaxActive

(* No capture stays held, although handlers crash and their cleanup may fail.   *)
CapturesEnd == \A c \in Captures : captures[c].state = "held" ~> captures[c].state # "held"

(* What the migration waits for ("Wait for held captures and model attempts to  *)
(* drain", quota-migration.ts): every running attempt ends.  Violated: see the  *)
(* README.                                                                      *)
AttemptsEnd == \A r \in Requests : attempt[r] = "running" ~> attempt[r] # "running"
=============================================================================
