------------------------ MODULE CaptureServiceProofs ------------------------
(***************************************************************************)
(* What the handlers of captures leave behind, for every number of         *)
(* requests, captures, places and faults.  The invariant says, for each    *)
(* point of a handler, what the tables hold of it; a step of one handler   *)
(* or of the reaper disturbs another only as Undisturbed says.             *)
(***************************************************************************)
EXTENDS CaptureService, FiniteSetTheorems, TLAPS

Early == {"new", "admit", "reserve", "begin"}
Calling == {"stream", "settleAttempt", "settleCapture", "salvageAttempt", "salvageBudget"}
Ending == {"reconcile", "endAttempt", "endBudget", "endCapture"}
Points == Early \cup Calling \cup Ending \cup {"done", "crashed"}

Over == {"settled", "released"}
Row == [state : {"none", "held"} \cup Over, owner : Requests \cup {None},
        op : {"solve", "followUp", None}, usable : BOOLEAN]
Local == [pc : Points, op : {"solve", "followUp", None}, cap : Captures \cup {None}, gone : BOOLEAN,
          started : BOOLEAN, unsure : BOOLEAN, owned : BOOLEAN, good : BOOLEAN,
          cost : Costs \cup {None}, told : Row \cup {None}]
Reservation == [state : {"none", "held"} \cup Over, day : Days, actual : Nat]

ServiceType ==
  /\ request \in [Requests -> Local]
  /\ captures \in [Captures -> Row]
  /\ attempt \in [Requests -> {"none", "running", "finished", "unknown", "unstarted"}]
  /\ hold \in [Requests -> Reservation]
  /\ activeCount \in Nat /\ day \in Days /\ faults \in Nat

(* What a handler's local state says of the tables, whatever faults there were. *)
Known(r) ==
  LET q == request[r] IN
  /\ q.pc = "new" => q.told = None
  /\ q.pc # "new" => q.cap \in Captures
  /\ q.pc \in Early \cup {"reconcile", "endAttempt"} => ~q.started
  /\ q.pc \in Calling => q.started /\ q.owned
  /\ q.pc \in {"new", "admit", "reserve"} => hold[r].state = "none"
  /\ q.pc = "begin" => hold[r].state = "held"
  /\ q.started => /\ captures[q.cap].state # "none"
                  /\ attempt[r] # "unstarted" /\ hold[r].state # "released"
  /\ q.told # None => captures[q.cap].state \in Over /\ q.told = captures[q.cap]

(* Without a fault: what is still to be cleaned up at each point. *)
HoldsBudget(r) ==
  LET q == request[r] IN
  /\ q.pc \in {"stream", "settleAttempt"} => hold[r].state = "held"
  /\ q.pc = "settleCapture" => hold[r].state = "settled"
  /\ q.pc = "endAttempt" => hold[r].state \in {"none", "held"}
  /\ q.pc = "endBudget" => hold[r].state \in IF q.started THEN {"settled"} ELSE {"none", "held"}
  /\ q.pc \in {"endCapture", "done"} =>
       hold[r].state \in IF q.started THEN {"settled"} ELSE {"none", "released"}

Tidy(r) ==
  LET q == request[r] IN
  faults = 0 =>
    /\ q.pc \notin {"reconcile", "salvageAttempt", "salvageBudget", "crashed"}
    /\ HoldsBudget(r)
    /\ q.pc \in Early => attempt[r] = "none"
    /\ q.pc \in {"settleCapture", "endBudget", "endCapture", "done"} => attempt[r] # "running"
    /\ \A c \in Captures : captures[c].owner = r =>
         /\ q.pc \notin Early
         /\ captures[c].state = "held" => c = q.cap /\ q.owned /\ q.pc # "done"

(* With one fault at most: what a solve that called the model has still to do. *)
Ended(r) == attempt[r] # "running"
Booked(r) == hold[r].state = "settled" /\ hold[r].actual = Expense(request[r].cost)
Freed(r) == captures[request[r].cap].state # "held"

Salvages(r) ==
  LET q == request[r] IN
  q.op = "solve" /\ q.started =>
    /\ q.pc \in {"stream", "settleAttempt"} => hold[r].state = "held"
    /\ q.pc = "settleCapture" => Ended(r) /\ Booked(r)
    /\ q.pc \in {"salvageAttempt", "salvageBudget"} => faults # 0 /\ (hold[r].state = "held" \/ Booked(r))
    /\ faults <= 1 =>
         /\ q.pc = "salvageBudget" => Ended(r)
         /\ q.pc \in {"endBudget", "endCapture"} => /\ Ended(r) /\ Booked(r)
                                                    /\ Freed(r) \/ (q.owned /\ faults = 1)
         /\ q.pc = "done" => Ended(r) /\ Booked(r) /\ Freed(r)

Handled(r) == Known(r) /\ Tidy(r) /\ Salvages(r)

ServiceInv == ServiceType /\ PlacesMatchHandlers /\ \A r \in Requests : Handled(r)
-----------------------------------------------------------------------------
(* Tables *)

LEMMA NoneIsNew == None \notin Requests /\ None \notin Captures /\ None \notin Nat
BY ServiceAssumption

(* finish touches a held capture only, and ends it. *)
(* finish touches a held capture only, and ends it. *)
LEMMA FinishedRow ==
  ASSUME captures \in [Captures -> Row], NEW c \in Captures, NEW good \in BOOLEAN
  PROVE  /\ Finished(c, good) \in [Captures -> Row]
         /\ \A d \in Captures : d # c => Finished(c, good)[d] = captures[d]
         /\ captures[c].state # "held" => Finished(c, good) = captures
         /\ captures[c].state = "held" =>
              /\ Finished(c, good)[c].state \in Over
              /\ Finished(c, good)[c].owner = captures[c].owner
<1>1. PICK charged \in BOOLEAN, usable \in BOOLEAN :
        Finished(c, good) =
          IF captures[c].state # "held" THEN captures
          ELSE [captures EXCEPT ![c].state = IF charged THEN "settled" ELSE "released",
                                ![c].usable = usable]
  <2>. DEFINE charged == good /\ captures[c].op = "solve" /\ c \notin expired
              usable == IF captures[c].op = "solve" THEN charged ELSE good
  <2>1. charged \in BOOLEAN /\ usable \in BOOLEAN
    OBVIOUS
  <2>2. Finished(c, good) =
          IF captures[c].state # "held" THEN captures
          ELSE [captures EXCEPT ![c].state = IF charged THEN "settled" ELSE "released",
                                ![c].usable = usable]
    BY Zenon DEF Finished
  <2>. QED  BY <2>1, <2>2, Zenon
<1>2. PICK state \in Over : state = IF charged THEN "settled" ELSE "released"
  BY DEF Over
<1>3. CASE captures[c].state = "held"
  <2>1. Finished(c, good) = [captures EXCEPT ![c].state = state, ![c].usable = usable]
    BY <1>1, <1>2, <1>3, Zenon
  <2>2. PICK ended : ended = Finished(c, good)
    OBVIOUS
  <2>3. ended \in [Captures -> Row]
    <3>1. captures[c] \in Row /\ ended = [captures EXCEPT ![c].state = state, ![c].usable = usable]
      BY <2>1, <2>2
    <3>2. ended[c] \in Row
      BY <3>1 DEF Row, Over
    <3>. QED  BY <3>1, <3>2
  <2>4. /\ ended[c].state = state /\ ended[c].owner = captures[c].owner
        /\ \A d \in Captures : d # c => ended[d] = captures[d]
    BY <2>1, <2>2 DEF Row, Over
  <2>. QED  BY <1>3, <2>2, <2>3, <2>4
<1>. QED  BY <1>1, <1>3

LEMMA FinishedAttemptRow ==
  ASSUME ServiceType, NEW r \in Requests, NEW status \in {"finished", "unknown", "unstarted"}
  PROVE  /\ FinishedAttempt(r, status) \in
              [Requests -> {"none", "running", "finished", "unknown", "unstarted"}]
         /\ \A s \in Requests : s # r => FinishedAttempt(r, status)[s] = attempt[s]
         /\ FinishedAttempt(r, status)[r] = IF attempt[r] = "running" THEN status ELSE attempt[r]
BY DEF FinishedAttempt, ServiceType

(* Settling and releasing a reservation touch a held one only. *)
LEMMA SettledRow ==
  ASSUME ServiceType, NEW r \in Requests, NEW cost \in Costs \cup {None}, NEW o \in Outcomes,
         SettleBudget(r, o, cost)
  PROVE  /\ hold' \in [Requests -> Reservation]
         /\ \A s \in Requests : s # r => hold'[s] = hold[s]
         /\ o = "failed" \/ hold[r].state # "held" => hold'[r] = hold[r]
         /\ o # "failed" /\ hold[r].state = "held" =>
              hold'[r].state = "settled" /\ hold'[r].actual = Expense(cost)
<1>1. Expense(cost) \in Nat
  BY ServiceAssumption DEF Expense
<1>2. QED  BY <1>1 DEF SettleBudget, Commit, SettledHold, ServiceType, Reservation, Over

LEMMA ReleasedRow ==
  ASSUME ServiceType, NEW r \in Requests, NEW o \in Outcomes, ReleaseBudget(r, o)
  PROVE  /\ hold' \in [Requests -> Reservation]
         /\ \A s \in Requests : s # r => hold'[s] = hold[s]
         /\ o = "failed" \/ hold[r].state # "held" => hold'[r] = hold[r]
         /\ o # "failed" /\ hold[r].state = "held" => hold'[r].state = "released"
BY DEF ReleaseBudget, Commit, ServiceType, Reservation, Over

LEMMA Faults ==
  ASSUME faults \in Nat, NEW o \in Outcomes, Call(o)
  PROVE  faults' \in Nat /\ faults' = IF o = "ok" THEN faults ELSE faults + 1
BY DEF Call
-----------------------------------------------------------------------------
(* Handlers a step leaves alone *)

(* A step of another handler changes a capture only by creating its own or by  *)
(* ending a held one; the reaper may end the attempt besides.                  *)
Apart(s, c) ==
  \/ captures'[c] = captures[c]
  \/ captures[c].state = "none" /\ captures'[c].state = "held" /\ captures'[c].owner # s
  \/ /\ captures[c].state = "held" /\ captures'[c].state \in Over
     /\ captures'[c].owner = captures[c].owner

Undisturbed(s) ==
  /\ request'[s].pc = request[s].pc /\ request'[s].op = request[s].op
  /\ request'[s].cap = request[s].cap /\ request'[s].started = request[s].started
  /\ request'[s].owned = request[s].owned /\ request'[s].cost = request[s].cost
  /\ request'[s].told = request[s].told
  /\ hold'[s] = hold[s]
  /\ attempt'[s] = attempt[s] \/ (attempt[s] = "running" /\ attempt'[s] = "unknown")
  /\ faults' >= faults
  /\ \A c \in Captures : Apart(s, c)

LEMMA StillHandled ==
  ASSUME ServiceType, ServiceType', NEW s \in Requests, Handled(s), Undisturbed(s)
  PROVE  Handled(s)'
<1>. USE DEF Undisturbed
<1>0. request[s] \in Local /\ faults \in Nat /\ faults' \in Nat
  BY DEF ServiceType
<1>c. request[s].pc # "new" => request[s].cap \in Captures
  BY DEF Handled, Known
<1>1. Known(s)'
  <2>1. request[s].started => captures'[request[s].cap].state # "none"
    BY <1>c DEF Handled, Known, Apart, Over, Early
  <2>2. request[s].told # None => captures'[request[s].cap] = captures[request[s].cap]
    BY <1>c DEF Handled, Known, Apart, Over
  <2>. QED  BY <2>1, <2>2 DEF Handled, Known, Early, Calling
<1>2. Tidy(s)'
  <2>1. SUFFICES ASSUME faults' = 0
                 PROVE  Tidy(s)'
    BY DEF Tidy
  <2>2. faults = 0
    BY <2>1, <1>0
  <2>3. HoldsBudget(s)'
    BY <2>2 DEF Handled, Tidy, HoldsBudget
  <2>4. \A c \in Captures : captures'[c].owner = s =>
          /\ request[s].pc \notin Early
          /\ captures'[c].state = "held" =>
               c = request[s].cap /\ request[s].owned /\ request[s].pc # "done"
    BY <2>2 DEF Handled, Tidy, Apart, Over
  <2>. QED  BY <2>2, <2>3, <2>4 DEF Handled, Tidy
<1>3. Salvages(s)'
  <2>1. request[s].started => (Freed(s) => Freed(s)')
    BY <1>c DEF Freed, Handled, Known, Apart, Over, Early
  <2>2. (Ended(s) => Ended(s)') /\ (Booked(s) <=> Booked(s)')
    BY DEF Ended, Booked, Expense
  <2>3. faults' <= 1 => faults <= 1 /\ (faults = 1 => faults' = 1)
    BY <1>0
  <2>. QED  BY <1>0, <2>1, <2>2, <2>3 DEF Handled, Salvages
<1>. QED  BY <1>1, <1>2, <1>3 DEF Handled

(* A step in which handler r acts. *)
Acts(r) ==
  /\ ServiceType'
  /\ \A s \in Requests : s # r => Undisturbed(s)
  /\ Handled(r)'

Idle == {"new", "admit", "done", "crashed"}

(* A handler that stays where it is, or moves within admission, keeps its place. *)
LEMMA PlaceKept ==
  ASSUME PlacesMatchHandlers, activeCount' = activeCount,
         \A r \in Requests : request'[r].pc \in Idle <=> request[r].pc \in Idle
  PROVE  PlacesMatchHandlers'
<1>1. InFlight' = InFlight
  BY DEF InFlight, Idle
<1>. QED  BY <1>1 DEF PlacesMatchHandlers

LEMMA InFlightFinite == IsFiniteSet(InFlight) /\ Cardinality(InFlight) \in Nat
BY FS_Subset, FS_CardinalityType, ServiceAssumption DEF InFlight
-----------------------------------------------------------------------------
(* Admission *)

LEMMA Arrives ==
  ASSUME ServiceInv, NEW r \in Requests, Arrive(r)
  PROVE  Acts(r) /\ PlacesMatchHandlers'
<1>. USE DEF ServiceInv
<1>1. PICK op \in {"solve", "followUp"}, c \in Captures, pc \in {"done", "admit"} :
        request' = [request EXCEPT ![r].op = op, ![r].cap = c, ![r].pc = pc]
  BY DEF Arrive
<1>2. request[r] \in Local /\ request[r].pc = "new"
  BY DEF ServiceType, Arrive, IsAt
<1>3. request'[r] \in Local
  BY <1>1, <1>2 DEF ServiceType, Local, Points, Early
<1>4. /\ request'[r].pc = pc /\ request'[r].cap = c /\ request'[r].told = request[r].told
      /\ request'[r].started = request[r].started
      /\ \A s \in Requests : s # r => request'[s] = request[s]
  BY <1>1, <1>2 DEF ServiceType, Local
<1>5. ServiceType' /\ activeCount' = activeCount /\ faults' = faults
      /\ captures' = captures /\ attempt' = attempt /\ hold' = hold
  BY <1>1, <1>3 DEF ServiceType, Arrive, store
<1>6. \A s \in Requests : s # r => Undisturbed(s)
  BY <1>4, <1>5 DEF Undisturbed, Apart, ServiceType
<1>7. Handled(r) /\ ~request[r].started /\ request[r].told = None /\ hold[r].state = "none"
  BY <1>2 DEF Handled, Known, Early
<1>8. Known(r)'
  BY <1>2, <1>4, <1>5, <1>7 DEF Known, Early, Calling
<1>9. Tidy(r)'
  BY <1>2, <1>4, <1>5, <1>7 DEF Handled, Tidy, HoldsBudget, Early
<1>10. Salvages(r)'
  BY <1>4, <1>7 DEF Salvages
<1>11. PlacesMatchHandlers'
  BY <1>2, <1>4, <1>5, PlaceKept DEF Idle
<1>. QED  BY <1>5, <1>6, <1>8, <1>9, <1>10, <1>11 DEF Acts, Handled

LEMMA Moves ==
  ASSUME ServiceType, NEW r \in Requests, NEW pc \in Points, Goes(r, pc)
  PROVE  /\ request' \in [Requests -> Local]
         /\ \A s \in Requests : s # r => request'[s] = request[s]
         /\ request'[r].pc = pc /\ request'[r].op = request[r].op
         /\ request'[r].cap = request[r].cap /\ request'[r].started = request[r].started
         /\ request'[r].owned = request[r].owned /\ request'[r].cost = request[r].cost
         /\ request'[r].told = request[r].told
BY DEF ServiceType, Goes, Local

LEMMA Admits ==
  ASSUME ServiceInv, NEW r \in Requests, Admit(r)
  PROVE  Acts(r) /\ PlacesMatchHandlers'
<1>. USE DEF ServiceInv
<1>1. PICK pc \in {"done", "reserve"} : Goes(r, pc) /\ (pc = "done" <=> activeCount' = activeCount)
                                      /\ (pc = "reserve" => activeCount' = activeCount + 1 /\ activeCount < MaxActive)
  BY ServiceAssumption DEF Admit, ServiceType
<1>2. pc \in Points
  BY DEF Points, Early
<1>3. ServiceType' /\ faults' = faults /\ captures' = captures /\ attempt' = attempt /\ hold' = hold
  BY <1>1, <1>2, Moves DEF ServiceType, Admit, store
<1>4. \A s \in Requests : s # r => Undisturbed(s)
  BY <1>1, <1>2, <1>3, Moves DEF Undisturbed, Apart, ServiceType
<1>5. Handled(r) /\ request[r].pc = "admit" /\ ~request[r].started /\ hold[r].state = "none"
  BY DEF Handled, Known, Early, Admit, IsAt
<1>6. Known(r)'
  BY <1>1, <1>2, <1>3, <1>5, Moves DEF Handled, Known, Early, Calling
<1>7. Tidy(r)'
  BY <1>1, <1>2, <1>3, <1>5, Moves DEF Handled, Tidy, HoldsBudget, Early
<1>8. Salvages(r)'
  BY <1>1, <1>2, <1>5, Moves DEF Salvages
<1>9. PlacesMatchHandlers'
  <2>1. CASE pc = "done"
    <3>1. \A s \in Requests : request'[s].pc \in Idle <=> request[s].pc \in Idle
      BY <1>1, <1>2, <1>5, <2>1, Moves DEF Idle
    <3>. QED  BY <1>1, <2>1, <3>1, PlaceKept
  <2>2. CASE pc = "reserve"
    <3>1. InFlight' = InFlight \cup {r} /\ r \notin InFlight
      BY <1>1, <1>2, <1>5, <2>2, Moves DEF InFlight
    <3>2. Cardinality(InFlight') = Cardinality(InFlight) + 1
      BY <3>1, InFlightFinite, FS_AddElement
    <3>. QED  BY <1>1, <2>2, <3>2, InFlightFinite, ServiceAssumption DEF PlacesMatchHandlers
  <2>. QED  BY <2>1, <2>2
<1>. QED  BY <1>3, <1>4, <1>6, <1>7, <1>8, <1>9 DEF Acts, Handled

LEMMA ReservesBudget ==
  ASSUME ServiceInv, NEW r \in Requests, NEW o \in Outcomes, ReserveBudget(r, o)
  PROVE  Acts(r) /\ PlacesMatchHandlers'
<1>. USE DEF ServiceInv
<1>1. PICK proceeds \in BOOLEAN : /\ proceeds = (o = "ok" /\ Affordable /\ ~request[r].gone)
                                 /\ request' = [request EXCEPT ![r].unsure = proceeds,
                                      ![r].pc = IF proceeds THEN "begin" ELSE "endAttempt"]
  BY DEF ReserveBudget, Cleanup
<1>2. PICK pc \in {"begin", "endAttempt"} : pc = IF proceeds THEN "begin" ELSE "endAttempt"
  OBVIOUS
<1>3. request' = [request EXCEPT ![r].unsure = proceeds, ![r].pc = pc]
  BY <1>1, <1>2, Zenon
<1>4. request[r] \in Local /\ request[r].pc = "reserve"
  BY DEF ServiceType, ReserveBudget, IsAt
<1>5. request'[r] \in Local
  BY <1>3, <1>4 DEF ServiceType, Local, Points, Early, Ending
<1>6. /\ request'[r].pc = pc /\ request'[r].cap = request[r].cap
      /\ request'[r].told = request[r].told /\ request'[r].started = request[r].started
      /\ \A s \in Requests : s # r => request'[s] = request[s]
  BY <1>3, <1>4 DEF ServiceType, Local
<1>7. faults' \in Nat /\ faults' >= faults /\ faults \in Nat
  BY Faults DEF ReserveBudget, ServiceType
<1>8. /\ hold' \in [Requests -> Reservation]
      /\ \A s \in Requests : s # r => hold'[s] = hold[s]
      /\ hold'[r].state = "held" \/ hold'[r] = hold[r]
      /\ proceeds => hold'[r].state = "held"
  <2>1. \/ hold' = hold /\ ~proceeds
        \/ hold' = [hold EXCEPT ![r].state = "held", ![r].day = day]
    BY <1>1 DEF ReserveBudget, Commit
  <2>2. CASE hold' = [hold EXCEPT ![r].state = "held", ![r].day = day]
    BY <2>2 DEF ServiceType, Reservation, Over
  <2>. QED  BY <2>1, <2>2 DEF ServiceType
<1>9. ServiceType' /\ activeCount' = activeCount /\ captures' = captures /\ attempt' = attempt
  BY <1>3, <1>5, <1>7, <1>8 DEF ServiceType, ReserveBudget
<1>10. \A s \in Requests : s # r => Undisturbed(s)
  BY <1>6, <1>7, <1>8, <1>9 DEF Undisturbed, Apart, ServiceType
<1>11. Handled(r) /\ ~request[r].started /\ hold[r].state = "none"
  BY <1>4 DEF Handled, Known, Early
<1>12. Known(r)'
  BY <1>2, <1>4, <1>6, <1>8, <1>9, <1>11 DEF Handled, Known, Early, Calling
<1>13. Tidy(r)'
  <2>. SUFFICES ASSUME faults' = 0 PROVE Tidy(r)'
    BY DEF Tidy
  <2>1. faults = 0
    BY <1>7
  <2>. QED  BY <1>4, <1>6, <1>8, <1>9, <1>11, <2>1 DEF Handled, Tidy, HoldsBudget, Early
<1>14. Salvages(r)'
  BY <1>6, <1>11 DEF Salvages
<1>15. PlacesMatchHandlers'
  BY <1>4, <1>6, <1>9, PlaceKept DEF Idle
<1>. QED  BY <1>9, <1>10, <1>12, <1>13, <1>14, <1>15 DEF Acts, Handled

LEMMA Begins ==
  ASSUME ServiceInv, NEW r \in Requests, NEW o \in Outcomes, NEW accepted \in BOOLEAN,
         BeginWithAttempt(r, o, accepted)
  PROVE  Acts(r) /\ PlacesMatchHandlers'
<1>. USE DEF ServiceInv
<1>. DEFINE cap == request[r].cap
<1>1. PICK begun \in BOOLEAN, calls \in BOOLEAN, unsure \in BOOLEAN :
        /\ begun = (o = "ok" /\ accepted) /\ calls = (begun /\ ~request[r].gone)
        /\ unsure = (o # "ok")
        /\ request' = [request EXCEPT ![r].unsure = unsure, ![r].owned = begun, ![r].started = calls,
             ![r].pc = IF calls THEN "stream" ELSE IF unsure THEN "reconcile" ELSE "endAttempt"]
  BY DEF BeginWithAttempt, Cleanup
<1>2. PICK pc \in {"stream", "reconcile", "endAttempt"} :
        pc = IF calls THEN "stream" ELSE IF unsure THEN "reconcile" ELSE "endAttempt"
  OBVIOUS
<1>3. request' = [request EXCEPT ![r].unsure = unsure, ![r].owned = begun,
                                 ![r].started = calls, ![r].pc = pc]
  BY <1>1, <1>2, Zenon
<1>4. request[r] \in Local /\ request[r].pc = "begin"
  BY DEF ServiceType, BeginWithAttempt, IsAt
<1>5. request'[r] \in Local
  BY <1>3, <1>4 DEF ServiceType, Local, Points, Calling, Ending
<1>6. /\ request'[r].pc = pc /\ request'[r].cap = cap /\ request'[r].op = request[r].op
      /\ request'[r].told = request[r].told /\ request'[r].started = calls
      /\ request'[r].owned = begun
      /\ \A s \in Requests : s # r => request'[s] = request[s]
  BY <1>3, <1>4 DEF ServiceType, Local
<1>7. faults' \in Nat /\ faults' >= faults /\ faults \in Nat /\ (o # "ok" => faults' # 0)
  BY Faults DEF BeginWithAttempt, ServiceType
<1>8. Handled(r) /\ ~request[r].started /\ cap \in Captures /\ hold[r].state = "held"
  BY <1>4 DEF Handled, Known, Early
<1>9. /\ captures' \in [Captures -> Row]
      /\ attempt' \in [Requests -> {"none", "running", "finished", "unknown", "unstarted"}]
      /\ \A c \in Captures : c # cap => captures'[c] = captures[c]
      /\ \A s \in Requests : s # r => attempt'[s] = attempt[s]
      /\ \/ captures' = captures /\ attempt' = attempt /\ ~begun
         \/ /\ captures[cap].state = "none" /\ captures'[cap].state = "held"
            /\ captures'[cap].owner = r /\ attempt'[r] = "running"
            /\ o = "ok" => begun
  <2>1. CASE accepted /\ o # "failed"
    <3>1. captures' = [captures EXCEPT ![cap] =
            [state |-> "held", owner |-> r, op |-> request[r].op, usable |-> FALSE]]
      BY <2>1 DEF BeginWithAttempt, Commit
    <3>2. [state |-> "held", owner |-> r, op |-> request[r].op, usable |-> FALSE] \in Row
      BY <1>4 DEF Row, Local
    <3>3. captures[cap].state = "none" /\ attempt' = [attempt EXCEPT ![r] = "running"]
      BY <2>1 DEF BeginWithAttempt, Admissible, Commit
    <3>4. captures'[cap] = [state |-> "held", owner |-> r, op |-> request[r].op, usable |-> FALSE]
      BY <1>8, <3>1 DEF ServiceType
    <3>. QED  BY <1>1, <1>8, <2>1, <3>1, <3>2, <3>3, <3>4 DEF ServiceType
  <2>2. CASE ~accepted \/ o = "failed"
    <3>1. captures' = captures /\ attempt' = attempt
      BY <2>2 DEF BeginWithAttempt, Commit
    <3>. QED  BY <1>1, <2>2, <3>1 DEF ServiceType
  <2>. QED  BY <2>1, <2>2
<1>10. ServiceType' /\ activeCount' = activeCount /\ hold' = hold
  BY <1>3, <1>5, <1>7, <1>9 DEF ServiceType, BeginWithAttempt
<1>11. \A s \in Requests : s # r => Undisturbed(s)
  BY <1>6, <1>7, <1>8, <1>9, <1>10 DEF Undisturbed, Apart, ServiceType
<1>12. Known(r)'
  <2>1. calls => attempt'[r] = "running" /\ captures'[cap].state = "held"
    BY <1>1, <1>9
  <2>2. request[r].told # None => captures[cap].state \in Over /\ captures'[cap] = captures[cap]
                                  /\ request[r].told = captures[cap]
    BY <1>8, <1>9 DEF Handled, Known, Over
  <2>3. captures[cap].state # "none" => captures'[cap] = captures[cap]
    BY <1>8, <1>9
  <2>. QED  BY <1>1, <1>2, <1>6, <1>8, <1>10, <2>1, <2>2 DEF Known, Early, Calling
<1>13. Tidy(r)'
  <2>. SUFFICES ASSUME faults' = 0 PROVE Tidy(r)'
    BY DEF Tidy
  <2>1. faults = 0 /\ o = "ok" /\ pc # "reconcile"
    BY <1>1, <1>2, <1>7
  <2>2. HoldsBudget(r)'
    BY <1>2, <1>6, <1>8, <1>10, <2>1 DEF HoldsBudget
  <2>3. \A c \in Captures : captures[c].owner # r
    BY <1>4, <1>8, <2>1 DEF Handled, Tidy, Early
  <2>4. \A c \in Captures : captures'[c].owner = r => c = cap /\ begun
    BY <1>8, <1>9, <2>1, <2>3
  <2>. QED  BY <1>2, <1>6, <2>1, <2>2, <2>4 DEF Tidy, Early
<1>14. Salvages(r)'
  BY <1>1, <1>2, <1>6, <1>8, <1>10 DEF Salvages
<1>15. PlacesMatchHandlers'
  BY <1>2, <1>4, <1>6, <1>10, PlaceKept DEF Idle
<1>. QED  BY <1>10, <1>11, <1>12, <1>13, <1>14, <1>15 DEF Acts, Handled
-----------------------------------------------------------------------------
(* The model call and its settlement *)

LEMMA Generates ==
  ASSUME ServiceInv, NEW r \in Requests, Generated(r)
  PROVE  Acts(r) /\ PlacesMatchHandlers'
<1>. USE DEF ServiceInv
<1>1. PICK good \in BOOLEAN, cost \in Costs \cup {None} :
        request' = [request EXCEPT ![r].good = good, ![r].cost = cost, ![r].pc = "settleAttempt"]
  BY DEF Generated
<1>2. request[r] \in Local /\ request[r].pc = "stream"
  BY DEF ServiceType, Generated, IsAt
<1>3. request'[r] \in Local
  BY <1>1, <1>2 DEF ServiceType, Local, Points, Calling
<1>4. /\ request'[r].pc = "settleAttempt" /\ request'[r].cap = request[r].cap
      /\ request'[r].told = request[r].told /\ request'[r].started = request[r].started
      /\ request'[r].owned = request[r].owned /\ request'[r].op = request[r].op
      /\ \A s \in Requests : s # r => request'[s] = request[s]
  BY <1>1, <1>2 DEF ServiceType, Local
<1>5. ServiceType' /\ activeCount' = activeCount /\ faults' = faults
      /\ captures' = captures /\ attempt' = attempt /\ hold' = hold
  BY <1>1, <1>3 DEF ServiceType, Generated, store
<1>6. \A s \in Requests : s # r => Undisturbed(s)
  BY <1>4, <1>5 DEF Undisturbed, Apart, ServiceType
<1>7. Handled(r)
  OBVIOUS
<1>8. Known(r)'
  BY <1>2, <1>4, <1>5, <1>7 DEF Handled, Known, Early, Calling
<1>9. Tidy(r)'
  BY <1>2, <1>4, <1>5, <1>7 DEF Handled, Tidy, HoldsBudget, Early
<1>10. Salvages(r)'
  BY <1>2, <1>4, <1>5, <1>7 DEF Handled, Salvages
<1>11. PlacesMatchHandlers'
  BY <1>2, <1>4, <1>5, PlaceKept DEF Idle
<1>. QED  BY <1>5, <1>6, <1>8, <1>9, <1>10, <1>11 DEF Acts, Handled

(* What a store call that may fail does to an attempt. *)
LEMMA AttemptCall ==
  ASSUME ServiceType, NEW r \in Requests, NEW o \in Outcomes,
         NEW status \in {"finished", "unknown", "unstarted"},
         attempt' = Commit(o, attempt, FinishedAttempt(r, status))
  PROVE  /\ attempt' \in [Requests -> {"none", "running", "finished", "unknown", "unstarted"}]
         /\ \A s \in Requests : s # r => attempt'[s] = attempt[s]
         /\ attempt'[r] = attempt[r] \/ attempt'[r] = status
         /\ o # "failed" => attempt'[r] # "running"
BY FinishedAttemptRow DEF Commit, ServiceType

LEMMA SettlesAttempt ==
  ASSUME ServiceInv, NEW r \in Requests, NEW o \in Outcomes, SettleAttempt(r, o)
  PROVE  Acts(r) /\ PlacesMatchHandlers'
<1>. USE DEF ServiceInv
<1>1. PICK pc \in {"settleCapture", "salvageAttempt", "endBudget"} :
        /\ Goes(r, pc) /\ (o = "ok" <=> pc = "settleCapture")
        /\ (o # "ok" /\ request[r].op = "solve" => pc = "salvageAttempt")
  BY DEF SettleAttempt, AfterException, Cleanup
<1>2. pc \in Points
  BY DEF Points, Calling, Ending
<1>3. request[r] \in Local /\ request[r].pc = "settleAttempt"
  BY DEF ServiceType, SettleAttempt, IsAt
<1>4. request[r].cost \in Costs \cup {None} /\ SettleBudget(r, o, request[r].cost)
  BY <1>3 DEF Local, SettleAttempt
<1>5. attempt' = Commit(o, attempt, FinishedAttempt(r, "finished"))
  BY DEF SettleAttempt
<1>6. faults' \in Nat /\ faults' >= faults /\ faults \in Nat /\ (o # "ok" => faults' # 0)
  BY Faults DEF SettleAttempt, ServiceType
<1>7. ServiceType' /\ activeCount' = activeCount /\ captures' = captures
  BY <1>1, <1>2, <1>4, <1>5, <1>6, Moves, SettledRow, AttemptCall DEF ServiceType, SettleAttempt
<1>8. \A s \in Requests : s # r => Undisturbed(s)
  BY SMTT(30), <1>1, <1>2, <1>4, <1>5, <1>6, <1>7, Moves, SettledRow, AttemptCall DEF Undisturbed, Apart
<1>9. Handled(r) /\ request[r].started /\ request[r].owned
  BY <1>3 DEF Handled, Known, Calling
<1>10. Known(r)'
  <2>1. hold'[r].state # "released" /\ attempt'[r] # "unstarted"
    BY <1>4, <1>5, <1>9, SettledRow, AttemptCall DEF Handled, Known
  <2>. QED  BY <1>1, <1>2, <1>3, <1>7, <1>9, <2>1, Moves DEF Handled, Known, Early, Calling
<1>11. Tidy(r)'
  <2>. SUFFICES ASSUME faults' = 0 PROVE Tidy(r)'
    BY DEF Tidy
  <2>1. faults = 0 /\ o = "ok"
    BY <1>6
  <2>2. hold'[r].state = "settled" /\ attempt'[r] # "running"
    <3>1. hold[r].state = "held"
      BY <1>3, <1>9, <2>1 DEF Handled, Tidy, HoldsBudget
    <3>. QED  BY <1>4, <1>5, <2>1, <3>1, SettledRow, AttemptCall
  <2>. QED  BY <1>1, <1>2, <1>3, <1>7, <1>9, <2>1, <2>2, Moves DEF Handled, Tidy, HoldsBudget, Early
<1>12. Salvages(r)'
  <2>. SUFFICES ASSUME request[r].op = "solve" PROVE Salvages(r)'
    BY <1>1, <1>2, Moves DEF Salvages
  <2>1. hold[r].state = "held"
    BY <1>3, <1>9 DEF Handled, Salvages
  <2>2. o # "failed" => Booked(r)' /\ Ended(r)'
    <3>1. o # "failed" => hold'[r].state = "settled" /\ hold'[r].actual = Expense(request[r].cost)
      BY <1>4, <2>1, SettledRow
    <3>2. o # "failed" => attempt'[r] # "running"
      BY <1>5, AttemptCall
    <3>3. request'[r].cost = request[r].cost
      BY <1>1, <1>2, Moves
    <3>. QED  BY <3>1, <3>2, <3>3 DEF Booked, Ended, Expense
  <2>3. o = "failed" => hold'[r].state = "held"
    BY <1>4, <2>1, SettledRow
  <2>. QED  BY <1>1, <1>2, <1>6, <2>2, <2>3, Moves DEF Salvages
<1>13. PlacesMatchHandlers'
  BY <1>1, <1>2, <1>3, <1>7, Moves, PlaceKept DEF Idle
<1>. QED  BY <1>7, <1>8, <1>10, <1>11, <1>12, <1>13 DEF Acts, Handled

LEMMA Finishes ==
  ASSUME ServiceType, NEW c \in Captures, NEW good \in BOOLEAN, NEW o \in Outcomes,
         captures' = Commit(o, captures, Finished(c, good))
  PROVE  /\ captures' \in [Captures -> Row]
         /\ \A s \in Requests, d \in Captures : Apart(s, d)
         /\ \A d \in Captures : captures'[d].owner = captures[d].owner
                              /\ (d # c => captures'[d] = captures[d])
                              /\ (captures[d].state # "held" => captures'[d] = captures[d])
         /\ o # "failed" => captures'[c] = Finished(c, good)[c] /\ captures'[c].state # "held"
<1>1. captures \in [Captures -> Row]
  BY DEF ServiceType
<1>. QED  BY <1>1, FinishedRow DEF Commit, Apart, Over

LEMMA SettlesCapture ==
  ASSUME ServiceInv, NEW r \in Requests, NEW o \in Outcomes, SettleCapture(r, o)
  PROVE  Acts(r) /\ PlacesMatchHandlers'
<1>. USE DEF ServiceInv
<1>. DEFINE cap == request[r].cap
<1>1. request[r] \in Local /\ request[r].pc = "settleCapture"
  BY DEF ServiceType, SettleCapture, IsAt
<1>2. Handled(r) /\ request[r].started /\ request[r].owned /\ cap \in Captures
      /\ captures[cap].state # "none" /\ request[r].good \in BOOLEAN
  BY <1>1 DEF Handled, Known, Calling, Local
<1>3. captures' = Commit(o, captures, Finished(cap, request[r].good))
  BY DEF SettleCapture
<1>4. PICK told \in {Finished(cap, request[r].good)[cap], None}, pc \in {"endBudget", "salvageAttempt"} :
        /\ request' = [request EXCEPT ![r].told = told, ![r].pc = pc]
        /\ told # None => o = "ok"
        /\ o = "ok" => pc = "endBudget"
        /\ request[r].op = "solve" /\ o # "ok" => pc = "salvageAttempt"
  <2>. DEFINE committed == Finished(cap, request[r].good)[cap]
  <2>1. PICK definite \in BOOLEAN :
          /\ definite = (o = "ok" /\ (request[r].op = "followUp" /\ request[r].good => committed.usable))
          /\ request' = [request EXCEPT
               ![r].told = IF definite THEN committed ELSE None,
               ![r].pc = IF definite THEN Cleanup(TRUE, FALSE) ELSE AfterException(r)]
    BY Zenon DEF SettleCapture
  <2>. HIDE DEF committed
  <2>2. PICK told \in {committed, None} : told = IF definite THEN committed ELSE None
    OBVIOUS
  <2>3. PICK pc \in {"endBudget", "salvageAttempt"} :
          pc = IF definite THEN Cleanup(TRUE, FALSE) ELSE AfterException(r)
    BY DEF Cleanup, AfterException
  <2>4. request' = [request EXCEPT ![r].told = told, ![r].pc = pc]
    BY <2>1, <2>2, <2>3, Zenon
  <2>5. definite => o = "ok"
    BY <2>1
  <2>6. request[r].op = "solve" /\ o = "ok" => definite
    BY <2>1
  <2>7. /\ told # None => o = "ok"
        /\ o = "ok" => pc = "endBudget"
        /\ request[r].op = "solve" /\ o # "ok" => pc = "salvageAttempt"
    BY <2>2, <2>3, <2>5, <2>6 DEF Cleanup, AfterException
  <2>. QED  BY <2>4, <2>7 DEF committed
<1>5. captures' \in [Captures -> Row]
  BY <1>2, <1>3, Finishes
<1>6. told # None => told = captures'[cap] /\ captures'[cap].state \in Over
  <2>1. Apart(r, cap) /\ captures'[cap] \in Row /\ captures[cap].state # "none"
    BY <1>2, <1>3, <1>5, Finishes
  <2>2. captures'[cap].state # "none"
    BY <2>1 DEF Apart, Over
  <2>3. o = "ok" => captures'[cap] = Finished(cap, request[r].good)[cap] /\ captures'[cap].state # "held"
    BY <1>2, <1>3, Finishes
  <2>. QED  BY <1>4, <2>1, <2>2, <2>3 DEF Row
<1>7. request'[r] \in Local
  <2>1. told \in Row \cup {None}
    BY <1>2, <1>5, <1>6
  <2>. QED  BY <1>1, <1>4, <2>1 DEF ServiceType, Local, Points, Calling, Ending
<1>8. /\ request'[r].pc = pc /\ request'[r].cap = cap /\ request'[r].told = told
      /\ request'[r].started = request[r].started /\ request'[r].owned = request[r].owned
      /\ request'[r].op = request[r].op /\ request'[r].cost = request[r].cost
      /\ \A s \in Requests : s # r => request'[s] = request[s]
  BY <1>1, <1>4 DEF ServiceType, Local
<1>9. faults' \in Nat /\ faults' >= faults /\ faults \in Nat /\ (o # "ok" => faults' # 0)
  BY Faults DEF SettleCapture, ServiceType
<1>10. ServiceType' /\ activeCount' = activeCount /\ attempt' = attempt /\ hold' = hold
  BY <1>4, <1>5, <1>7, <1>9 DEF ServiceType, SettleCapture
<1>11. \A s \in Requests : s # r => Undisturbed(s)
  BY <1>2, <1>3, <1>8, <1>9, <1>10, Finishes DEF Undisturbed
<1>12. Known(r)'
  <2>1. Apart(r, cap)
    BY <1>2, <1>3, Finishes
  <2>2. captures'[cap].state # "none"
    BY <1>2, <2>1 DEF Apart, Over
  <2>. QED  BY <1>2, <1>6, <1>8, <1>10, <2>2 DEF Handled, Known, Early, Calling
<1>13. Tidy(r)'
  <2>. SUFFICES ASSUME faults' = 0 PROVE Tidy(r)'
    BY DEF Tidy
  <2>1. faults = 0 /\ o = "ok"
    BY <1>9
  <2>2. \A c \in Captures : captures'[c].owner = r /\ captures'[c].state = "held" => c = cap
    BY <1>2, <1>3, <2>1, Finishes DEF Handled, Tidy
  <2>3. pc = "endBudget" /\ hold[r].state = "settled" /\ attempt[r] # "running"
    <3>1. hold[r].state = "settled" /\ attempt[r] # "running"
      BY <1>1, <1>2, <2>1 DEF Handled, Tidy, HoldsBudget
    <3>2. pc = "endBudget"
      BY <1>4, <2>1
    <3>. QED  BY <3>1, <3>2
  <2>. QED  BY <1>2, <1>8, <1>10, <2>2, <2>3 DEF Tidy, HoldsBudget, Early
<1>14. Salvages(r)'
  <2>. SUFFICES ASSUME request[r].op = "solve" PROVE Salvages(r)'
    BY <1>8 DEF Salvages
  <2>1. Ended(r) /\ Booked(r)
    BY <1>1, <1>2 DEF Handled, Salvages
  <2>2. Ended(r)' /\ Booked(r)'
    BY <1>8, <1>10, <2>1 DEF Ended, Booked, Expense
  <2>3. o = "ok" => Freed(r)'
    BY <1>2, <1>3, <1>8, Finishes DEF Freed
  <2>. QED  BY <1>4, <1>8, <1>9, <2>2, <2>3 DEF Salvages
<1>15. PlacesMatchHandlers'
  BY <1>1, <1>8, <1>10, PlaceKept DEF Idle
<1>. QED  BY <1>10, <1>11, <1>12, <1>13, <1>14, <1>15 DEF Acts, Handled

LEMMA SalvagesAttempt ==
  ASSUME ServiceInv, NEW r \in Requests, NEW o \in Outcomes, SalvageAttempt(r, o)
  PROVE  Acts(r) /\ PlacesMatchHandlers'
<1>. USE DEF ServiceInv
<1>1. Goes(r, "salvageBudget") /\ "salvageBudget" \in Points
  BY DEF SalvageAttempt, Points, Calling
<1>2. request[r].pc = "salvageAttempt"
  BY DEF SalvageAttempt, IsAt
<1>3. attempt' = Commit(o, attempt, FinishedAttempt(r, "unknown"))
  BY DEF SalvageAttempt
<1>4. faults' \in Nat /\ faults \in Nat /\ faults' = IF o = "ok" THEN faults ELSE faults + 1
  BY Faults DEF SalvageAttempt, ServiceType
<1>5. ServiceType' /\ activeCount' = activeCount /\ captures' = captures /\ hold' = hold
  BY <1>1, <1>3, <1>4, Moves, AttemptCall DEF ServiceType, SalvageAttempt
<1>6. \A s \in Requests : s # r => Undisturbed(s)
  BY <1>1, <1>3, <1>4, <1>5, Moves, AttemptCall DEF Undisturbed, Apart
<1>7. Handled(r) /\ request[r].started /\ request[r].owned /\ faults # 0
  BY <1>2 DEF Handled, Known, Calling, Tidy
<1>8. Known(r)'
  BY <1>1, <1>2, <1>3, <1>5, <1>7, Moves, AttemptCall DEF Handled, Known, Early, Calling
<1>9. Tidy(r)'
  BY <1>4, <1>7 DEF Tidy
<1>10. Salvages(r)'
  <2>. SUFFICES ASSUME request[r].op = "solve" PROVE Salvages(r)'
    BY <1>1, Moves DEF Salvages
  <2>1. hold[r].state = "held" \/ Booked(r)
    BY <1>2, <1>7 DEF Handled, Salvages
  <2>2. hold'[r].state = "held" \/ Booked(r)'
    BY <1>1, <1>5, <2>1, Moves DEF Booked, Expense
  <2>3. faults' <= 1 => Ended(r)'
    BY <1>3, <1>4, <1>7, AttemptCall DEF Ended
  <2>. QED  BY <1>1, <1>4, <1>7, <2>2, <2>3, Moves DEF Salvages
<1>11. PlacesMatchHandlers'
  BY <1>1, <1>2, <1>5, Moves, PlaceKept DEF Idle
<1>. QED  BY <1>5, <1>6, <1>8, <1>9, <1>10, <1>11 DEF Acts, Handled

LEMMA SalvagesBudget ==
  ASSUME ServiceInv, NEW r \in Requests, NEW o \in Outcomes, SalvageBudget(r, o)
  PROVE  Acts(r) /\ PlacesMatchHandlers'
<1>. USE DEF ServiceInv
<1>1. Goes(r, "endBudget") /\ "endBudget" \in Points
  BY DEF SalvageBudget, Cleanup, Points, Ending
<1>2. request[r].pc = "salvageBudget" /\ request[r] \in Local
  BY DEF SalvageBudget, IsAt, ServiceType
<1>3. request[r].cost \in Costs \cup {None} /\ SettleBudget(r, o, request[r].cost)
  BY <1>2 DEF Local, SalvageBudget
<1>4. faults' \in Nat /\ faults \in Nat /\ faults' = IF o = "ok" THEN faults ELSE faults + 1
  BY Faults DEF SalvageBudget, ServiceType
<1>5. ServiceType' /\ activeCount' = activeCount /\ captures' = captures /\ attempt' = attempt
  BY <1>1, <1>3, <1>4, Moves, SettledRow DEF ServiceType, SalvageBudget
<1>6. \A s \in Requests : s # r => Undisturbed(s)
  BY <1>1, <1>3, <1>4, <1>5, Moves, SettledRow DEF Undisturbed, Apart
<1>7. Handled(r) /\ request[r].started /\ request[r].owned /\ faults # 0
  BY <1>2 DEF Handled, Known, Calling, Tidy
<1>8. Known(r)'
  <2>1. hold'[r].state # "released"
    BY <1>3, <1>7, SettledRow DEF Handled, Known
  <2>. QED  BY <1>1, <1>2, <1>5, <1>7, <2>1, Moves DEF Handled, Known, Early, Calling
<1>9. Tidy(r)'
  BY <1>4, <1>7 DEF Tidy
<1>10. Salvages(r)'
  <2>. SUFFICES ASSUME request[r].op = "solve", faults' <= 1 PROVE Salvages(r)'
    BY <1>1, Moves DEF Salvages
  <2>1. o = "ok" /\ faults = 1 /\ faults' = 1
    BY <1>4, <1>7
  <2>2. Ended(r) /\ (hold[r].state = "held" \/ Booked(r))
    BY <1>2, <1>7, <2>1 DEF Handled, Salvages
  <2>3. Ended(r)' /\ Booked(r)'
    BY <1>1, <1>3, <1>5, <2>1, <2>2, Moves, SettledRow DEF Ended, Booked, Expense
  <2>. QED  BY <1>1, <1>7, <2>1, <2>3, Moves DEF Salvages
<1>11. PlacesMatchHandlers'
  BY <1>1, <1>2, <1>5, Moves, PlaceKept DEF Idle
<1>. QED  BY <1>5, <1>6, <1>8, <1>9, <1>10, <1>11 DEF Acts, Handled
-----------------------------------------------------------------------------
(* The cleanup *)

LEMMA Reconciles ==
  ASSUME ServiceInv, NEW r \in Requests, NEW o \in Outcomes, Reconcile(r, o)
  PROVE  Acts(r) /\ PlacesMatchHandlers'
<1>. USE DEF ServiceInv
<1>1. request[r] \in Local /\ request[r].pc = "reconcile"
  BY DEF ServiceType, Reconcile, IsAt
<1>2. Handled(r) /\ ~request[r].started /\ faults # 0
  BY <1>1 DEF Handled, Known, Tidy
<1>3. PICK owned \in BOOLEAN :
        request' = [request EXCEPT ![r].owned = owned, ![r].pc = "endAttempt"]
  BY <1>2 DEF Reconcile, Cleanup
<1>4. request'[r] \in Local
  BY <1>1, <1>3 DEF ServiceType, Local, Points, Ending
<1>5. /\ request'[r].pc = "endAttempt" /\ request'[r].cap = request[r].cap
      /\ request'[r].told = request[r].told /\ request'[r].started = request[r].started
      /\ \A s \in Requests : s # r => request'[s] = request[s]
  BY <1>1, <1>3 DEF ServiceType, Local
<1>6. faults' \in Nat /\ faults \in Nat /\ faults' >= faults
  BY Faults DEF Reconcile, ServiceType
<1>7. ServiceType' /\ activeCount' = activeCount /\ captures' = captures /\ attempt' = attempt /\ hold' = hold
  BY <1>3, <1>4, <1>6 DEF ServiceType, Reconcile, store
<1>8. \A s \in Requests : s # r => Undisturbed(s)
  BY <1>5, <1>6, <1>7 DEF Undisturbed, Apart
<1>9. Known(r)'
  BY <1>1, <1>2, <1>5, <1>7 DEF Handled, Known, Early, Calling
<1>10. Tidy(r)' /\ Salvages(r)'
  BY <1>2, <1>5, <1>6 DEF Tidy, Salvages
<1>11. PlacesMatchHandlers'
  BY <1>1, <1>5, <1>7, PlaceKept DEF Idle
<1>. QED  BY <1>7, <1>8, <1>9, <1>10, <1>11 DEF Acts, Handled

LEMMA EndsAttempt ==
  ASSUME ServiceInv, NEW r \in Requests, NEW o \in Outcomes, EndAttempt(r, o)
  PROVE  Acts(r) /\ PlacesMatchHandlers'
<1>. USE DEF ServiceInv
<1>1. Goes(r, "endBudget") /\ "endBudget" \in Points
  BY DEF EndAttempt, Points, Ending
<1>2. request[r].pc = "endAttempt"
  BY DEF EndAttempt, IsAt
<1>3. attempt' = Commit(o, attempt, FinishedAttempt(r, "unstarted"))
  BY DEF EndAttempt
<1>4. faults' \in Nat /\ faults \in Nat /\ faults' = IF o = "ok" THEN faults ELSE faults + 1
  BY Faults DEF EndAttempt, ServiceType
<1>5. ServiceType' /\ activeCount' = activeCount /\ captures' = captures /\ hold' = hold
  BY <1>1, <1>3, <1>4, Moves, AttemptCall DEF ServiceType, EndAttempt
<1>6. \A s \in Requests : s # r => Undisturbed(s)
  BY <1>1, <1>3, <1>4, <1>5, Moves, AttemptCall DEF Undisturbed, Apart
<1>7. Handled(r) /\ ~request[r].started
  BY <1>2 DEF Handled, Known
<1>8. Known(r)'
  BY <1>1, <1>2, <1>5, <1>7, Moves DEF Handled, Known, Early, Calling
<1>9. Tidy(r)'
  <2>. SUFFICES ASSUME faults' = 0 PROVE Tidy(r)'
    BY DEF Tidy
  <2>1. faults = 0 /\ attempt'[r] # "running"
    BY <1>3, <1>4, AttemptCall
  <2>. QED  BY <1>1, <1>2, <1>5, <1>7, <2>1, Moves DEF Handled, Tidy, HoldsBudget, Early
<1>10. Salvages(r)'
  BY <1>1, <1>7, Moves DEF Salvages
<1>11. PlacesMatchHandlers'
  BY <1>1, <1>2, <1>5, Moves, PlaceKept DEF Idle
<1>. QED  BY <1>5, <1>6, <1>8, <1>9, <1>10, <1>11 DEF Acts, Handled

LEMMA EndsBudget ==
  ASSUME ServiceInv, NEW r \in Requests, NEW o \in Outcomes, EndBudget(r, o)
  PROVE  Acts(r) /\ PlacesMatchHandlers'
<1>. USE DEF ServiceInv
<1>1. Goes(r, "endCapture") /\ "endCapture" \in Points
  BY DEF EndBudget, Points, Ending
<1>2. request[r].pc = "endBudget"
  BY DEF EndBudget, IsAt
<1>3. IF request[r].started THEN SettleBudget(r, o, None) ELSE ReleaseBudget(r, o)
  BY DEF EndBudget
<1>4. faults' \in Nat /\ faults \in Nat /\ faults' = IF o = "ok" THEN faults ELSE faults + 1
  BY Faults DEF EndBudget, ServiceType
<1>5. /\ hold' \in [Requests -> Reservation]
      /\ \A s \in Requests : s # r => hold'[s] = hold[s]
      /\ hold[r].state # "held" => hold'[r] = hold[r]
      /\ hold[r].state = "held" /\ o # "failed" =>
           hold'[r].state = IF request[r].started THEN "settled" ELSE "released"
      /\ request[r].started /\ hold[r].state # "released" => hold'[r].state # "released"
  BY <1>3, SettledRow, ReleasedRow
<1>6. ServiceType' /\ activeCount' = activeCount /\ captures' = captures /\ attempt' = attempt
  BY <1>1, <1>4, <1>5, Moves DEF ServiceType, EndBudget
<1>7. \A s \in Requests : s # r => Undisturbed(s)
  BY <1>1, <1>4, <1>5, <1>6, Moves DEF Undisturbed, Apart
<1>8. Handled(r)
  OBVIOUS
<1>9. Known(r)'
  BY <1>1, <1>2, <1>5, <1>6, <1>8, Moves DEF Handled, Known, Early, Calling
<1>10. Tidy(r)'
  <2>. SUFFICES ASSUME faults' = 0 PROVE Tidy(r)'
    BY DEF Tidy
  <2>1. faults = 0 /\ o = "ok"
    BY <1>4
  <2>. QED  BY <1>1, <1>2, <1>5, <1>6, <1>8, <2>1, Moves DEF Handled, Tidy, HoldsBudget, Early
<1>11. Salvages(r)'
  <2>. SUFFICES ASSUME request[r].op = "solve", request[r].started, faults' <= 1 PROVE Salvages(r)'
    BY <1>1, Moves DEF Salvages
  <2>1. Ended(r) /\ Booked(r) /\ (Freed(r) \/ (request[r].owned /\ faults' = 1))
    BY <1>2, <1>4, <1>8 DEF Handled, Salvages
  <2>2. Ended(r)' /\ Booked(r)' /\ (Freed(r)' <=> Freed(r))
    BY <1>1, <1>5, <1>6, <2>1, Moves DEF Ended, Booked, Freed, Expense
  <2>. QED  BY <1>1, <2>1, <2>2, Moves DEF Salvages
<1>12. PlacesMatchHandlers'
  BY <1>1, <1>2, <1>6, Moves, PlaceKept DEF Idle
<1>. QED  BY <1>6, <1>7, <1>9, <1>10, <1>11, <1>12 DEF Acts, Handled

LEMMA EndsCapture ==
  ASSUME ServiceInv, NEW r \in Requests, NEW o \in Outcomes, EndCapture(r, o)
  PROVE  Acts(r) /\ PlacesMatchHandlers'
<1>. USE DEF ServiceInv
<1>. DEFINE cap == request[r].cap
<1>1. Goes(r, "done") /\ "done" \in Points
  BY DEF EndCapture, Points
<1>2. request[r].pc = "endCapture"
  BY DEF EndCapture, IsAt
<1>3. Handled(r) /\ cap \in Captures
  BY <1>2 DEF Handled, Known
<1>4. faults' \in Nat /\ faults \in Nat /\ faults' = IF o = "ok" THEN faults ELSE faults + 1
  BY Faults DEF EndCapture, ServiceType
<1>5. /\ captures' \in [Captures -> Row]
      /\ \A s \in Requests, d \in Captures : Apart(s, d)
      /\ \A d \in Captures : captures'[d].owner = captures[d].owner
                           /\ (d # cap => captures'[d] = captures[d])
                           /\ (captures[d].state # "held" => captures'[d] = captures[d])
      /\ o # "failed" /\ request[r].owned => captures'[cap].state # "held"
  <2>1. CASE request[r].owned
    <3>1. captures' = Commit(o, captures, Finished(cap, FALSE))
      BY <2>1 DEF EndCapture
    <3>. QED  BY <1>3, <3>1, Finishes
  <2>2. CASE ~request[r].owned
    <3>1. captures' = captures
      BY <2>2 DEF EndCapture, Commit
    <3>. QED  BY <2>2, <3>1 DEF Apart, ServiceType
  <2>. QED  BY <2>1, <2>2
<1>6. ServiceType' /\ attempt' = attempt /\ hold' = hold
  <2>1. activeCount' \in Nat
    BY DEF ServiceType, EndCapture
  <2>. QED  BY <1>1, <1>4, <1>5, <2>1, Moves DEF ServiceType, EndCapture
<1>7. \A s \in Requests : s # r => Undisturbed(s)
  BY <1>1, <1>4, <1>5, <1>6, Moves DEF Undisturbed
<1>8. Known(r)'
  <2>1. Apart(r, cap)
    BY <1>3, <1>5
  <2>2. captures[cap].state # "none" => captures'[cap].state # "none"
    BY <2>1 DEF Apart, Over
  <2>3. captures[cap].state \in Over => captures'[cap] = captures[cap]
    BY <2>1 DEF Apart, Over
  <2>. QED  BY <1>1, <1>2, <1>3, <1>6, <2>2, <2>3, Moves DEF Handled, Known, Early, Calling
<1>9. Tidy(r)'
  <2>. SUFFICES ASSUME faults' = 0 PROVE Tidy(r)'
    BY DEF Tidy
  <2>1. faults = 0 /\ o = "ok"
    BY <1>4
  <2>2. \A c \in Captures : captures'[c].owner = r => captures'[c].state # "held"
    BY <1>3, <1>5, <2>1 DEF Handled, Tidy
  <2>. QED  BY <1>1, <1>2, <1>3, <1>6, <2>1, <2>2, Moves DEF Handled, Tidy, HoldsBudget, Early
<1>10. Salvages(r)'
  <2>. SUFFICES ASSUME request[r].op = "solve", request[r].started, faults' <= 1 PROVE Salvages(r)'
    BY <1>1, Moves DEF Salvages
  <2>1. Ended(r) /\ Booked(r) /\ (Freed(r) \/ (request[r].owned /\ o = "ok"))
    BY <1>2, <1>3, <1>4 DEF Handled, Salvages
  <2>2. Ended(r)' /\ Booked(r)'
    BY <1>1, <1>6, <2>1, Moves DEF Ended, Booked, Expense
  <2>3. Freed(r)'
    BY <1>1, <1>3, <1>5, <2>1, Moves DEF Freed
  <2>. QED  BY <1>1, <2>2, <2>3, Moves DEF Salvages
<1>11. PlacesMatchHandlers'
  <2>1. InFlight' = InFlight \ {r} /\ r \in InFlight
    BY <1>1, <1>2, Moves DEF InFlight
  <2>2. Cardinality(InFlight') = Cardinality(InFlight) - 1
    BY <2>1, InFlightFinite, FS_RemoveElement
  <2>3. Cardinality(InFlight') \in Nat
    BY <2>1, InFlightFinite, FS_Subset, FS_CardinalityType
  <2>. QED  BY <2>2, <2>3, InFlightFinite, ServiceAssumption DEF PlacesMatchHandlers, EndCapture
<1>. QED  BY <1>6, <1>7, <1>8, <1>9, <1>10, <1>11 DEF Acts, Handled
-----------------------------------------------------------------------------
(* The surroundings *)

LEMMA Disconnects ==
  ASSUME ServiceInv, NEW r \in Requests, Disconnect(r)
  PROVE  ServiceType' /\ PlacesMatchHandlers' /\ \A s \in Requests : Undisturbed(s)
<1>. USE DEF ServiceInv
<1>1. request' \in [Requests -> Local]
  <2>1. request' = [request EXCEPT ![r].gone = TRUE] /\ request[r] \in Local
    BY DEF Disconnect, ServiceType
  <2>2. request'[r] \in Local
    BY <2>1 DEF ServiceType, Local
  <2>. QED  BY <2>1, <2>2 DEF ServiceType
<1>2. \A s \in Requests :
        /\ request'[s].pc = request[s].pc /\ request'[s].op = request[s].op
        /\ request'[s].cap = request[s].cap /\ request'[s].started = request[s].started
        /\ request'[s].owned = request[s].owned /\ request'[s].cost = request[s].cost
        /\ request'[s].told = request[s].told
  BY DEF Disconnect, ServiceType, Local
<1>3. ServiceType' /\ activeCount' = activeCount
  BY <1>1 DEF Disconnect, ServiceType, store
<1>4. PlacesMatchHandlers'
  BY <1>2, <1>3, PlaceKept DEF Idle
<1>. QED  BY <1>2, <1>3, <1>4 DEF Undisturbed, Apart, Disconnect, ServiceType, store

LEMMA Reaps ==
  ASSUME ServiceInv, NEW c \in Captures, Reap(c)
  PROVE  ServiceType' /\ PlacesMatchHandlers' /\ \A s \in Requests : Undisturbed(s)
<1>. USE DEF ServiceInv
<1>1. /\ captures' \in [Captures -> Row]
      /\ \A s \in Requests, d \in Captures : Apart(s, d)
  <2>1. captures' = Commit("ok", captures, Finished(c, FALSE)) /\ "ok" \in Outcomes
    BY DEF Reap, Commit, Outcomes
  <2>. QED  BY <2>1, Finishes
<1>2. /\ attempt' \in [Requests -> {"none", "running", "finished", "unknown", "unstarted"}]
      /\ \A s \in Requests :
           attempt'[s] = attempt[s] \/ (attempt[s] = "running" /\ attempt'[s] = "unknown")
  BY DEF Reap, FinishedAttempt, ServiceType
<1>3. /\ request' = request /\ activeCount' = activeCount /\ hold' = hold /\ day' = day
      /\ faults' = faults /\ faults \in Nat
  BY DEF Reap, ServiceType
<1>4. ServiceType'
  BY <1>1, <1>2, <1>3 DEF ServiceType
<1>5. PlacesMatchHandlers'
  BY <1>3, PlaceKept
<1>6. \A s \in Requests : Undisturbed(s)
  BY <1>1, <1>2, <1>3 DEF Undisturbed
<1>. QED  BY <1>4, <1>5, <1>6

LEMMA Passes ==
  ASSUME ServiceInv, (\E c \in Captures : Expire(c)) \/ NextDay \/ UNCHANGED captureVars
  PROVE  ServiceType' /\ PlacesMatchHandlers' /\ \A s \in Requests : Undisturbed(s)
<1>. USE DEF ServiceInv
<1>1. /\ request' = request /\ activeCount' = activeCount /\ captures' = captures /\ attempt' = attempt
      /\ hold' = hold /\ faults' = faults
  BY DEF Expire, NextDay, captureVars, store
<1>2. day' \in Days
  <2>1. day' = day \/ (day < MaxDay /\ day' = day + 1)
    BY DEF Expire, NextDay, captureVars
  <2>. QED  BY <2>1, ServiceAssumption DEF ServiceType, Days
<1>3. ServiceType'
  BY <1>1, <1>2 DEF ServiceType
<1>4. PlacesMatchHandlers'
  BY <1>1, PlaceKept
<1>. QED  BY <1>1, <1>3, <1>4 DEF Undisturbed, Apart, ServiceType

LEMMA Crashes ==
  ASSUME ServiceInv, Crash
  PROVE  ServiceInv'
<1>. USE DEF ServiceInv
<1>1. faults' = faults + 1 /\ faults \in Nat /\ activeCount' = 0 /\ captures' = captures
      /\ attempt' = attempt /\ hold' = hold /\ day' = day
  BY DEF Crash, Call, ServiceType, store
<1>2. ASSUME NEW s \in Requests
      PROVE  /\ request'[s] \in Local
             /\ request'[s].pc = IF request[s].pc \in {"new", "done"} THEN request[s].pc ELSE "crashed"
             /\ request'[s].op = request[s].op /\ request'[s].cap = request[s].cap
             /\ request'[s].started = request[s].started /\ request'[s].owned = request[s].owned
             /\ request'[s].cost = request[s].cost /\ request'[s].told = request[s].told
  <2>1. request[s] \in Local
    BY DEF ServiceType
  <2>2. CASE request[s].pc \in {"new", "done"}
    BY <2>1, <2>2 DEF Crash
  <2>3. CASE request[s].pc \notin {"new", "done"}
    <3>1. request'[s] = [request[s] EXCEPT !.pc = "crashed"]
      BY <2>3 DEF Crash
    <3>. QED  BY <2>1, <2>3, <3>1 DEF Local, Points
  <2>. QED  BY <2>2, <2>3
<1>3. ServiceType'
  <2>1. request' \in [Requests -> Local]
    BY <1>2 DEF Crash
  <2>. QED  BY <1>1, <2>1 DEF ServiceType
<1>4. PlacesMatchHandlers'
  <2>1. InFlight' = {}
    BY <1>2 DEF InFlight
  <2>. QED  BY <1>1, <2>1, FS_EmptySet, ServiceAssumption DEF PlacesMatchHandlers
<1>5. ASSUME NEW s \in Requests
      PROVE  Handled(s)'
  <2>1. Handled(s)
    OBVIOUS
  <2>2. Known(s)'
    BY <1>1, <1>2, <2>1 DEF Handled, Known, Early, Calling
  <2>3. Tidy(s)'
    BY <1>1 DEF Tidy
  <2>4. Salvages(s)'
    <3>. SUFFICES ASSUME request[s].op = "solve", request[s].started, faults' <= 1,
                         request[s].pc = "done"
                  PROVE  Ended(s)' /\ Booked(s)' /\ Freed(s)'
      BY <1>2 DEF Salvages
    <3>1. Ended(s) /\ Booked(s) /\ Freed(s)
      BY <1>1, <2>1 DEF Handled, Salvages
    <3>. QED  BY <1>1, <1>2, <3>1 DEF Ended, Booked, Freed, Expense
  <2>. QED  BY <2>2, <2>3, <2>4 DEF Handled
<1>. QED  BY <1>3, <1>4, <1>5
-----------------------------------------------------------------------------
(* The invariant and what follows from it *)

LEMMA Handles ==
  ASSUME ServiceInv, NEW r \in Requests, Arrive(r) \/ Handler(r)
  PROVE  Acts(r) /\ PlacesMatchHandlers'
BY Arrives, Admits, ReservesBudget, Begins, Generates, SettlesAttempt, SettlesCapture, SalvagesAttempt,
   SalvagesBudget, Reconciles, EndsAttempt, EndsBudget, EndsCapture DEF Handler, StoreCall

LEMMA ServiceStart ==
  ASSUME CaptureInit
  PROVE  ServiceInv
<1>. USE DEF CaptureInit
<1>1. ServiceType
  <2>1. NewRequest \in Local
    BY DEF NewRequest, Local, Points, Early
  <2>2. NoCapture \in Row
    BY DEF NoCapture, Row
  <2>3. [state |-> "none", day |-> 0, actual |-> 0] \in Reservation /\ 0 \in Days
    BY ServiceAssumption DEF Reservation, Days
  <2>. QED  BY <2>1, <2>2, <2>3 DEF ServiceType
<1>2. PlacesMatchHandlers
  <2>1. InFlight = {}
    BY DEF InFlight, NewRequest
  <2>. QED  BY <2>1, FS_EmptySet, ServiceAssumption DEF PlacesMatchHandlers
<1>3. ASSUME NEW r \in Requests
      PROVE  Handled(r)
  <2>1. Known(r)
    BY DEF Known, NewRequest, Early, Calling
  <2>2. \A c \in Captures : captures[c].owner # r
    BY NoneIsNew DEF NoCapture
  <2>3. Tidy(r)
    BY <2>2 DEF Tidy, HoldsBudget, NewRequest, Early
  <2>4. Salvages(r)
    BY DEF Salvages, NewRequest
  <2>. QED  BY <2>1, <2>3, <2>4 DEF Handled
<1>. QED  BY <1>1, <1>2, <1>3 DEF ServiceInv

LEMMA ServiceStep ==
  ASSUME ServiceInv, [CaptureNext]_captureVars
  PROVE  ServiceInv'
<1>1. ASSUME NEW r \in Requests, Arrive(r) \/ Handler(r)
      PROVE  ServiceInv'
  <2>1. Acts(r) /\ PlacesMatchHandlers'
    BY <1>1, Handles
  <2>2. \A s \in Requests : Handled(s)'
    BY <2>1, StillHandled DEF ServiceInv, Acts
  <2>. QED  BY <2>1, <2>2 DEF ServiceInv, Acts
<1>2. ASSUME ServiceType', PlacesMatchHandlers', \A s \in Requests : Undisturbed(s)
      PROVE  ServiceInv'
  BY <1>2, StillHandled DEF ServiceInv
<1>3. CASE \E r \in Requests : Disconnect(r)
  BY <1>2, <1>3, Disconnects
<1>4. CASE \E c \in Captures : Reap(c)
  BY <1>2, <1>4, Reaps
<1>5. CASE (\E c \in Captures : Expire(c)) \/ NextDay \/ UNCHANGED captureVars
  BY <1>2, <1>5, Passes
<1>6. CASE Crash
  BY <1>6, Crashes
<1>. QED  BY <1>1, <1>3, <1>4, <1>5, <1>6 DEF CaptureNext

(* In every reachable state each handler has left in the tables what its point  *)
(* says, and the device counts its handlers.                                    *)
THEOREM ServiceInvariant == CaptureSpec => []ServiceInv
BY ServiceStart, ServiceStep, PTL DEF CaptureSpec

(* The concurrency counter of a device counts exactly its running handlers.     *)
THEOREM PlacesMatch == CaptureSpec => []PlacesMatchHandlers
<1>1. ServiceInv => PlacesMatchHandlers
  BY DEF ServiceInv
<1>. QED  BY <1>1, ServiceInvariant, PTL

(* What the final event of a stream told of its capture stays so.               *)
THEOREM ReceiptsFinal == CaptureSpec => []ReceiptsAreFinal
<1>1. ServiceInv => ReceiptsAreFinal
  BY DEF ServiceInv, Handled, Known, ReceiptsAreFinal
<1>. QED  BY <1>1, ServiceInvariant, PTL

(* Whatever faults and disconnections there are, a call that was made is never  *)
(* booked as unstarted nor its budget given back.                               *)
THEOREM SpendingKept == CaptureSpec => []SpendingIsNeverErased
<1>1. ServiceInv => SpendingIsNeverErased
  BY DEF ServiceInv, Handled, Known, SpendingIsNeverErased
<1>. QED  BY <1>1, ServiceInvariant, PTL

(* A handler that met no fault leaves no attempt, budget or capture behind.     *)
THEOREM LeavesNothing == CaptureSpec => []NothingLeftBehind
<1>1. ServiceInv => NothingLeftBehind
  BY DEF ServiceInv, Handled, Tidy, HoldsBudget, NothingLeftBehind
<1>. QED  BY <1>1, ServiceInvariant, PTL

(* One fault at any store call leaves the accounting of a solve complete.       *)
THEOREM FaultSalvaged == CaptureSpec => []OneFaultIsSalvaged
<1>1. ServiceInv => OneFaultIsSalvaged
  BY DEF ServiceInv, Handled, Salvages, Ended, Booked, Freed, OneFaultIsSalvaged
<1>. QED  BY <1>1, ServiceInvariant, PTL
-----------------------------------------------------------------------------
(* Budget windows *)

LEMMA UpToFinite ==
  ASSUME NEW n \in Nat
  PROVE  IsFiniteSet(1..n) /\ Cardinality(1..n) = n
BY FS_Interval

(* Micros over a set of requests, and over one more. *)
Counted(S, f) == UNION {{r} \X (1..f[r]) : r \in S}

LEMMA CountedFinite ==
  ASSUME NEW S \in SUBSET Requests, NEW f, \A r \in S : f[r] \in Nat
  PROVE  IsFiniteSet(Counted(S, f)) /\ Micros(S, f) = Cardinality(Counted(S, f)) /\ Micros(S, f) \in Nat
<1>. DEFINE Parts == {{r} \X (1..f[r]) : r \in S}
<1>1. IsFiniteSet(Parts)
  <2>1. IsFiniteSet(S)
    BY FS_Subset, ServiceAssumption
  <2>2. [r \in S |-> {r} \X (1..f[r])] \in Surjection(S, Parts)
    BY DEF Surjection
  <2>. QED  BY <2>1, <2>2, FS_Surjection
<1>2. ASSUME NEW r \in S
      PROVE  IsFiniteSet({r} \X (1..f[r]))
  <2>1. IsFiniteSet({r})
    BY FS_Singleton
  <2>2. IsFiniteSet(1..f[r])
    BY UpToFinite
  <2>. QED  BY <2>1, <2>2, FS_Product
<1>3. \A P \in Parts : IsFiniteSet(P)
  BY <1>2
<1>4. IsFiniteSet(UNION Parts)
  BY <1>1, <1>3, FS_UNION
<1>. QED  BY <1>4, FS_CardinalityType DEF Counted, Micros

LEMMA MicrosSame ==
  ASSUME NEW S \in SUBSET Requests, NEW f, NEW g, \A r \in S : f[r] = g[r]
  PROVE  Micros(S, f) = Micros(S, g)
<1>1. {{r} \X (1..f[r]) : r \in S} = {{r} \X (1..g[r]) : r \in S}
  OBVIOUS
<1>. QED  BY <1>1 DEF Micros

LEMMA MicrosMore ==
  ASSUME NEW S \in SUBSET Requests, NEW r \in Requests, r \notin S, NEW f,
         \A s \in Requests : f[s] \in Nat
  PROVE  Micros(S \cup {r}, f) = Micros(S, f) + f[r]
<1>. DEFINE mine == {r} \X (1..f[r])
<1>1. Counted(S \cup {r}, f) = Counted(S, f) \cup mine
  BY DEF Counted
<1>2. Counted(S, f) \cap mine = {}
  BY DEF Counted
<1>3. IsFiniteSet(mine) /\ Cardinality(mine) = f[r]
  <2>1. IsFiniteSet({r}) /\ Cardinality({r}) = 1
    BY FS_Singleton
  <2>2. IsFiniteSet(1..f[r]) /\ Cardinality(1..f[r]) = f[r]
    BY UpToFinite
  <2>3. IsFiniteSet(mine) /\ Cardinality(mine) = Cardinality({r}) * Cardinality(1..f[r])
    BY <2>1, <2>2, FS_Product
  <2>. QED  BY <2>1, <2>2, <2>3
<1>4. /\ IsFiniteSet(Counted(S, f)) /\ Micros(S, f) = Cardinality(Counted(S, f)) /\ Micros(S, f) \in Nat
      /\ Micros(S \cup {r}, f) = Cardinality(Counted(S \cup {r}, f))
  BY CountedFinite
<1>5. Cardinality(Counted(S, f) \cup mine) = Cardinality(Counted(S, f)) + Cardinality(mine) - Cardinality({})
  BY <1>2, <1>3, <1>4, FS_Union
<1>6. Cardinality({}) = 0
  BY FS_EmptySet
<1>7. Micros(S \cup {r}, f) = Micros(S, f) + f[r] - 0
  BY <1>1, <1>3, <1>4, <1>5, <1>6, Zenon
<1>. QED  BY <1>4, <1>7

BudgetInv == window \in [Days -> [held : Int, spent : Int]] /\ BudgetRespected

(* The three ways in which a reservation and its window change. *)
Reserves(r) ==
  /\ hold[r].state = "none" /\ Affordable
  /\ hold' = [hold EXCEPT ![r].state = "held", ![r].day = day]
  /\ window' = [window EXCEPT ![day].held = @ + Upper]

Settles(r) ==
  /\ hold[r].state = "held"
  /\ \E cost \in Costs \cup {None} :
       hold' = SettledHold(r, cost) /\ window' = SettledWindow(r, cost)

Releases(r) ==
  /\ hold[r].state = "held"
  /\ hold' = [hold EXCEPT ![r].state = "released"]
  /\ window' = [window EXCEPT ![hold[r].day].held = @ - Upper]

LEMMA BudgetMoves ==
  ASSUME ServiceInv, [CaptureNext]_captureVars
  PROVE  \/ hold' = hold /\ window' = window
         \/ \E r \in Requests : Reserves(r) \/ Settles(r) \/ Releases(r)
<1>. USE DEF ServiceInv
<1>. DEFINE Goal == \/ hold' = hold /\ window' = window
                   \/ \E r \in Requests : Reserves(r) \/ Settles(r) \/ Releases(r)
<1>1. ASSUME NEW r \in Requests, NEW o \in Outcomes, ReserveBudget(r, o)
      PROVE  Goal
  <2>1. hold[r].state = "none"
    BY <1>1 DEF Handled, Known, ReserveBudget, IsAt
  <2>. QED  BY <1>1, <2>1 DEF ReserveBudget, Commit, Reserves
<1>2. ASSUME NEW r \in Requests, NEW o \in Outcomes, NEW cost \in Costs \cup {None},
             SettleBudget(r, o, cost)
      PROVE  Goal
  BY <1>2 DEF SettleBudget, Commit, SettledHold, SettledWindow, Settles
<1>3. ASSUME NEW r \in Requests, NEW o \in Outcomes, ReleaseBudget(r, o)
      PROVE  Goal
  BY <1>3 DEF ReleaseBudget, Commit, Releases
<1>4. ASSUME NEW r \in Requests, NEW o \in Outcomes, SettleAttempt(r, o) \/ SalvageBudget(r, o)
      PROVE  Goal
  <2>1. request[r].cost \in Costs \cup {None}
    BY DEF ServiceType, Local
  <2>. QED  BY <1>2, <1>4, <2>1 DEF SettleAttempt, SalvageBudget
<1>5. ASSUME NEW r \in Requests, NEW o \in Outcomes, EndBudget(r, o)
      PROVE  Goal
  BY <1>2, <1>3, <1>5 DEF EndBudget
<1>6. ASSUME NEW r \in Requests, NEW o \in Outcomes,
             \/ \E accepted \in BOOLEAN : BeginWithAttempt(r, o, accepted)
             \/ SettleCapture(r, o) \/ SalvageAttempt(r, o) \/ Reconcile(r, o)
             \/ EndAttempt(r, o) \/ EndCapture(r, o)
      PROVE  Goal
  BY <1>6 DEF BeginWithAttempt, SettleCapture, SalvageAttempt, Reconcile, EndAttempt, EndCapture, store
<1>7. ASSUME NEW r \in Requests, Arrive(r) \/ Admit(r) \/ Generated(r) \/ Disconnect(r)
      PROVE  Goal
  BY <1>7 DEF Arrive, Admit, Generated, Disconnect, store
<1>8. ASSUME \/ \E c \in Captures : Expire(c) \/ Reap(c)
             \/ NextDay \/ Crash \/ UNCHANGED captureVars
      PROVE  Goal
  BY <1>8 DEF Expire, Reap, NextDay, Crash, captureVars, store
<1>. QED  BY <1>1, <1>4, <1>5, <1>6, <1>7, <1>8 DEF CaptureNext, Handler, StoreCall

WindowSound(d) ==
  /\ window[d].held = Upper * Cardinality(Held(d))
  /\ window[d].spent = Micros(Spent(d), Actual)
  /\ window[d].held + window[d].spent <= Limit + Micros(Spent(d), Excess)

LEMMA SoundWindows ==
  /\ BudgetRespected <=> \A d \in Days : WindowSound(d)
  /\ BudgetRespected' <=> \A d \in Days : WindowSound(d)'
BY DEF BudgetRespected, WindowSound

LEMMA CostTypes ==
  ASSUME ServiceType, NEW d
  PROVE  /\ \A s \in Requests : Actual[s] \in Nat /\ Excess[s] \in Nat
         /\ Micros(Spent(d), Actual) \in Nat /\ Micros(Spent(d), Excess) \in Nat
         /\ Spent(d) \in SUBSET Requests
         /\ IsFiniteSet(Held(d)) /\ Cardinality(Held(d)) \in Nat
<1>1. \A s \in Requests : hold[s].actual \in Nat
  BY DEF ServiceType, Reservation
<1>2. \A s \in Requests : Actual[s] \in Nat /\ Excess[s] \in Nat
  BY <1>1, ServiceAssumption DEF Actual, Excess
<1>3. Spent(d) \in SUBSET Requests /\ Held(d) \in SUBSET Requests
  BY DEF Spent, Held
<1>4. Micros(Spent(d), Actual) \in Nat /\ Micros(Spent(d), Excess) \in Nat
  BY <1>2, <1>3, CountedFinite
<1>5. IsFiniteSet(Held(d)) /\ Cardinality(Held(d)) \in Nat
  BY <1>3, FS_Subset, FS_CardinalityType, ServiceAssumption
<1>. QED  BY <1>2, <1>3, <1>4, <1>5

(* What is spent of a day, when a reservation that is not settled in it changes. *)
LEMMA SpentSame ==
  ASSUME NEW r \in Requests, NEW d, \A s \in Requests : s # r => hold'[s] = hold[s],
         r \notin Spent(d), r \notin Spent(d)'
  PROVE  /\ Spent(d)' = Spent(d)
         /\ Micros(Spent(d)', Actual') = Micros(Spent(d), Actual)
         /\ Micros(Spent(d)', Excess') = Micros(Spent(d), Excess)
<1>1. Spent(d)' = Spent(d) /\ Spent(d) \in SUBSET Requests
  BY DEF Spent
<1>2. \A s \in Spent(d) : s \in Requests /\ hold'[s] = hold[s]
  BY DEF Spent
<1>3. \A s \in Spent(d) : Actual'[s] = Actual[s] /\ Excess'[s] = Excess[s]
  BY <1>2 DEF Actual, Excess
<1>4. /\ Micros(Spent(d), Actual') = Micros(Spent(d), Actual)
      /\ Micros(Spent(d), Excess') = Micros(Spent(d), Excess)
  BY <1>1, <1>3, MicrosSame
<1>. QED  BY <1>1, <1>4

LEMMA OtherDay ==
  ASSUME NEW r \in Requests, NEW d, \A s \in Requests : s # r => hold'[s] = hold[s],
         r \notin Spent(d) \cup Held(d), r \notin Spent(d)' \cup Held(d)',
         window'[d].held = window[d].held, window'[d].spent = window[d].spent, WindowSound(d)
  PROVE  WindowSound(d)'
<1>1. Held(d)' = Held(d)
  BY DEF Held
<1>2. /\ Micros(Spent(d)', Actual') = Micros(Spent(d), Actual)
      /\ Micros(Spent(d)', Excess') = Micros(Spent(d), Excess)
  BY SpentSame
<1>. QED  BY <1>1, <1>2 DEF WindowSound

LEMMA ReservationKeepsBudget ==
  ASSUME ServiceType, BudgetInv, NEW r \in Requests, Reserves(r)
  PROVE  BudgetInv'
<1>1. hold \in [Requests -> Reservation] /\ day \in Days
  BY DEF ServiceType
<1>2. /\ \A s \in Requests : s # r => hold'[s] = hold[s]
      /\ hold[r].state = "none" /\ hold'[r].state = "held" /\ hold'[r].day = day
  BY <1>1 DEF Reserves, Reservation
<1>3. /\ window' \in [Days -> [held : Int, spent : Int]]
      /\ \A d \in Days : /\ window'[d].spent = window[d].spent
                        /\ window'[d].held = window[d].held + (IF d = day THEN Upper ELSE 0)
  BY <1>1, ServiceAssumption DEF Reserves, BudgetInv
<1>4. ASSUME NEW d \in Days
      PROVE  WindowSound(d)'
  <2>1. WindowSound(d) /\ r \notin Spent(d) \cup Held(d) /\ r \notin Spent(d)'
    BY <1>2, SoundWindows DEF BudgetInv, Spent, Held
  <2>2. CASE d = day
    <3>1. Held(d)' = Held(d) \cup {r} /\ r \notin Held(d)
      BY <1>2, <2>2 DEF Held
    <3>2. Cardinality(Held(d)') = Cardinality(Held(d)) + 1
      BY <3>1, CostTypes, FS_AddElement
    <3>3. window'[d].held = Upper * Cardinality(Held(d)')
      BY <1>3, <2>1, <2>2, <3>2, CostTypes, ServiceAssumption DEF WindowSound
    <3>4. window'[d].held + window'[d].spent <= Limit
      BY <1>3, <2>2, ServiceAssumption DEF Affordable, Reserves, BudgetInv
    <3>5. window'[d].held + window'[d].spent \in Int /\ Micros(Spent(d), Excess) \in Nat
      BY <1>3, CostTypes
    <3>6. window'[d].held + window'[d].spent <= Limit + Micros(Spent(d), Excess)
      BY <3>4, <3>5, ServiceAssumption
    <3>. QED  BY <1>2, <1>3, <2>1, <3>3, <3>6, SpentSame DEF WindowSound
  <2>3. CASE d # day
    <3>1. r \notin Held(d)'
      BY <1>2, <2>3 DEF Held
    <3>2. window'[d].held = window[d].held /\ window'[d].spent = window[d].spent
      BY <1>3, <2>3 DEF BudgetInv
    <3>. QED  BY <1>2, <2>1, <3>1, <3>2, OtherDay
  <2>. QED  BY <2>2, <2>3
<1>. QED  BY <1>3, <1>4, SoundWindows DEF BudgetInv

LEMMA ReleaseKeepsBudget ==
  ASSUME ServiceType, BudgetInv, NEW r \in Requests, Releases(r)
  PROVE  BudgetInv'
<1>1. hold \in [Requests -> Reservation] /\ hold[r].day \in Days /\ hold[r].state = "held"
  BY DEF ServiceType, Reservation, Releases
<1>2. /\ \A s \in Requests : s # r => hold'[s] = hold[s]
      /\ hold'[r].state = "released" /\ hold'[r].day = hold[r].day
  BY <1>1 DEF Releases, Reservation
<1>3. /\ window' \in [Days -> [held : Int, spent : Int]]
      /\ \A d \in Days : /\ window'[d].spent = window[d].spent
                        /\ window'[d].held = window[d].held - (IF d = hold[r].day THEN Upper ELSE 0)
  BY <1>1, ServiceAssumption DEF Releases, BudgetInv
<1>4. ASSUME NEW d \in Days
      PROVE  WindowSound(d)'
  <2>1. WindowSound(d) /\ r \notin Spent(d) /\ r \notin Spent(d)' \cup Held(d)'
    BY <1>1, <1>2, SoundWindows DEF BudgetInv, Spent, Held
  <2>2. CASE d = hold[r].day
    <3>1. Held(d)' = Held(d) \ {r} /\ r \in Held(d)
      BY <1>1, <1>2, <2>2 DEF Held
    <3>2. Cardinality(Held(d)') = Cardinality(Held(d)) - 1
      BY <3>1, CostTypes, FS_RemoveElement
    <3>3. window'[d].held = Upper * Cardinality(Held(d)')
      BY <1>3, <2>1, <2>2, <3>2, CostTypes, ServiceAssumption DEF WindowSound
    <3>4. window[d].held \in Int /\ window[d].spent \in Int /\ Micros(Spent(d), Excess) \in Nat
      BY CostTypes DEF BudgetInv
    <3>5. window'[d].held + window'[d].spent <= Limit + Micros(Spent(d), Excess)
      BY <1>3, <2>1, <2>2, <3>4, ServiceAssumption DEF WindowSound
    <3>. QED  BY <1>2, <1>3, <2>1, <3>3, <3>5, SpentSame DEF WindowSound
  <2>3. CASE d # hold[r].day
    <3>1. r \notin Held(d)
      BY <2>3 DEF Held
    <3>2. window'[d].held = window[d].held /\ window'[d].spent = window[d].spent
      BY <1>3, <2>3 DEF BudgetInv
    <3>. QED  BY <1>2, <2>1, <3>1, <3>2, OtherDay
  <2>. QED  BY <2>2, <2>3
<1>. QED  BY <1>3, <1>4, SoundWindows DEF BudgetInv

LEMMA SettlementKeepsBudget ==
  ASSUME ServiceType, BudgetInv, NEW r \in Requests, Settles(r)
  PROVE  BudgetInv'
<1>1. hold \in [Requests -> Reservation] /\ hold[r].day \in Days /\ hold[r].state = "held"
  BY DEF ServiceType, Reservation, Settles
<1>2. PICK cost \in Costs \cup {None} :
        /\ hold' = [hold EXCEPT ![r].state = "settled", ![r].actual = Expense(cost)]
        /\ window' = [window EXCEPT ![hold[r].day].held = @ - Upper,
                                    ![hold[r].day].spent = @ + Expense(cost)]
  BY DEF Settles, SettledHold, SettledWindow
<1>3. PICK e \in Nat : e = Expense(cost)
  BY ServiceAssumption DEF Expense
<1>4. /\ \A s \in Requests : s # r => hold'[s] = hold[s]
      /\ hold'[r].state = "settled" /\ hold'[r].day = hold[r].day /\ hold'[r].actual = e
  BY <1>1, <1>2, <1>3 DEF Reservation
<1>5. /\ window' \in [Days -> [held : Int, spent : Int]]
      /\ \A d \in Days :
           /\ window'[d].spent = window[d].spent + (IF d = hold[r].day THEN e ELSE 0)
           /\ window'[d].held = window[d].held - (IF d = hold[r].day THEN Upper ELSE 0)
  BY <1>1, <1>2, <1>3, ServiceAssumption DEF BudgetInv
<1>6. ASSUME NEW d \in Days
      PROVE  WindowSound(d)'
  <2>1. WindowSound(d) /\ r \notin Spent(d) /\ r \notin Held(d)'
    BY <1>1, <1>4, SoundWindows DEF BudgetInv, Spent, Held
  <2>2. CASE d = hold[r].day
    <3>1. Held(d)' = Held(d) \ {r} /\ r \in Held(d) /\ Spent(d)' = Spent(d) \cup {r}
      BY <1>1, <1>4, <2>2 DEF Held, Spent
    <3>2. Cardinality(Held(d)') = Cardinality(Held(d)) - 1
      BY <3>1, CostTypes, FS_RemoveElement
    <3>3. window'[d].held = Upper * Cardinality(Held(d)')
      BY <1>5, <2>1, <2>2, <3>2, CostTypes, ServiceAssumption DEF WindowSound
    <3>4. /\ \A s \in Spent(d) : Actual'[s] = Actual[s] /\ Excess'[s] = Excess[s]
          /\ Actual'[r] = e /\ Excess'[r] = IF e > Upper THEN e - Upper ELSE 0
      BY <1>4, <2>1 DEF Actual, Excess, Spent
    <3>5. Spent(d) \in SUBSET Requests /\ \A s \in Requests : Actual'[s] \in Nat /\ Excess'[s] \in Nat
      <4>1. \A s \in Requests : hold'[s].actual \in Nat
        BY <1>1, <1>4 DEF Reservation
      <4>. QED  BY <4>1, ServiceAssumption DEF Spent, Actual, Excess
    <3>6. Micros(Spent(d)', Actual') = Micros(Spent(d), Actual) + e
      <4>1. Micros(Spent(d) \cup {r}, Actual') = Micros(Spent(d), Actual') + Actual'[r]
        BY <2>1, <3>5, MicrosMore
      <4>2. Micros(Spent(d), Actual') = Micros(Spent(d), Actual)
        BY <3>4, <3>5, MicrosSame
      <4>. QED  BY <3>1, <3>4, <4>1, <4>2
    <3>7. Micros(Spent(d)', Excess') = Micros(Spent(d), Excess) + Excess'[r]
      <4>1. Micros(Spent(d) \cup {r}, Excess') = Micros(Spent(d), Excess') + Excess'[r]
        BY <2>1, <3>5, MicrosMore
      <4>2. Micros(Spent(d), Excess') = Micros(Spent(d), Excess)
        BY <3>4, <3>5, MicrosSame
      <4>. QED  BY <3>1, <4>1, <4>2
    <3>8. window[d].held \in Int /\ window[d].spent \in Int /\ Micros(Spent(d), Excess) \in Nat
      BY CostTypes DEF BudgetInv
    <3>9. window'[d].held + window'[d].spent <= Limit + Micros(Spent(d)', Excess')
      BY <1>5, <2>1, <2>2, <3>4, <3>7, <3>8, ServiceAssumption DEF WindowSound
    <3>. QED  BY <1>5, <2>1, <2>2, <3>3, <3>6, <3>9 DEF WindowSound
  <2>3. CASE d # hold[r].day
    <3>1. r \notin Held(d) /\ r \notin Spent(d)'
      BY <1>4, <2>3 DEF Held, Spent
    <3>2. window'[d].held = window[d].held /\ window'[d].spent = window[d].spent
      BY <1>5, <2>3 DEF BudgetInv
    <3>. QED  BY <1>4, <2>1, <3>1, <3>2, OtherDay
  <2>. QED  BY <2>2, <2>3
<1>. QED  BY <1>5, <1>6, SoundWindows DEF BudgetInv

LEMMA BudgetStart ==
  ASSUME CaptureInit
  PROVE  BudgetInv
<1>. USE DEF CaptureInit
<1>1. window \in [Days -> [held : Int, spent : Int]]
  OBVIOUS
<1>2. ASSUME NEW d \in Days
      PROVE  WindowSound(d)
  <2>1. Held(d) = {} /\ Spent(d) = {}
    BY DEF Held, Spent
  <2>2. Cardinality(Held(d)) = 0
    BY <2>1, FS_EmptySet
  <2>3. Micros(Spent(d), Actual) = 0 /\ Micros(Spent(d), Excess) = 0
    <3>1. \A f : UNION {{r} \X (1..f[r]) : r \in {}} = {}
      OBVIOUS
    <3>. QED  BY <2>1, <3>1, FS_EmptySet DEF Micros
  <2>. QED  BY <2>2, <2>3, ServiceAssumption DEF WindowSound
<1>. QED  BY <1>1, <1>2, SoundWindows DEF BudgetInv

LEMMA BudgetStep ==
  ASSUME ServiceInv, BudgetInv, [CaptureNext]_captureVars
  PROVE  BudgetInv'
<1>1. CASE hold' = hold /\ window' = window
  <2>1. Actual' = Actual /\ Excess' = Excess
    BY <1>1 DEF Actual, Excess
  <2>2. \A d \in Days : Held(d)' = Held(d) /\ Spent(d)' = Spent(d)
    BY <1>1 DEF Held, Spent
  <2>3. \A d \in Days : WindowSound(d) => WindowSound(d)'
    BY <1>1, <2>1, <2>2 DEF WindowSound
  <2>. QED  BY <1>1, <2>3, SoundWindows DEF BudgetInv
<1>2. CASE \E r \in Requests : Reserves(r) \/ Settles(r) \/ Releases(r)
  BY <1>2, ReservationKeepsBudget, SettlementKeepsBudget, ReleaseKeepsBudget DEF ServiceInv
<1>. QED  BY <1>1, <1>2, BudgetMoves

(* However many captures are admitted at once, whatever their calls cost and     *)
(* whenever they settle, a window counts what its attempts hold and spent, and   *)
(* exceeds its limit by no more than the calls cost above what they reserved.    *)
THEOREM BudgetKept == CaptureSpec => []BudgetRespected
<1>1. CaptureInit => BudgetInv
  BY BudgetStart
<1>2. ServiceInv /\ BudgetInv /\ [CaptureNext]_captureVars => BudgetInv'
  BY BudgetStep
<1>3. BudgetInv => BudgetRespected
  BY DEF BudgetInv
<1>. QED  BY <1>1, <1>2, <1>3, ServiceInvariant, PTL DEF CaptureSpec
=============================================================================
