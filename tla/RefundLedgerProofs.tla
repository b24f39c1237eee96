------------------------ MODULE RefundLedgerProofs ------------------------
(***************************************************************************)
(* However many workers reconcile the refunds of an order, and however     *)
(* often and late their notices come, no snapshot is overwritten by an     *)
(* older one and no notice is closed before its state is on record.  What  *)
(* makes it work: claims of one refund have distinct generations, and the  *)
(* holder of the current one reads after every event it may close.         *)
(***************************************************************************)
EXTENDS RefundLedger, TLAPS

Busy(w) == worker[w].pc # "idle"
Target(w) == worker[w].event.refund

(* Finance's own reads enter only through the rechecks it queues. *)
TypeInv ==
  /\ provider \in [Refunds -> Snapshots]
  /\ inbox \in [Events -> [state : {"none", "received", "processing", "processed"},
                           generation : Nat, since : 0..MaxVersion]]
  /\ refund \in [Refunds -> [generation : Nat, snapshot : Snapshots]]
  /\ worker \in [Workers -> [pc : {"idle", "claimed", "read"}, event : Events \cup {None},
                             generation : Nat, snapshot : Snapshots]]
  /\ finance \in [pc : {"idle", "read", "compared"}, n : Nat,
                  seen : [Refunds -> Snapshots], differ : SUBSET Refunds]

(* A claim is of an event, and not newer than the refund's generation. *)
ClaimOf(w) ==
  Busy(w) => worker[w].event \in Events /\ worker[w].generation <= refund[Target(w)].generation

Claims == \A w \in Workers : ClaimOf(w)

(* No two claims of a refund share a generation. *)
Distinct ==
  \A v, w \in Workers :
    Busy(v) /\ Busy(w) /\ Target(v) = Target(w) /\ worker[v].generation = worker[w].generation
      => v = w

(* The ledger is never ahead of the provider. *)
Behind == \A r \in Refunds : refund[r].snapshot.version <= provider[r].version

(* A notice that arrived is of a change that happened. *)
Arrived ==
  \A e \in Events : e.kind = "notice" =>
    /\ inbox[e].state \in {"none", "processing", "processed"}
    /\ inbox[e].state # "none" => e.n <= provider[e.refund].version

(* A worker that would still be heard read after every event it would close. *)
Fresh(w) ==
  worker[w].pc = "read" =>
    /\ worker[w].snapshot.version <= provider[Target(w)].version
    /\ worker[w].generation = refund[Target(w)].generation =>
         /\ refund[Target(w)].snapshot.version <= worker[w].snapshot.version
         /\ \A e \in Events :
              e.kind = "notice" /\ e.refund = Target(w) /\ inbox[e].state = "processing" =>
                e.n <= worker[w].snapshot.version

AllFresh == \A w \in Workers : Fresh(w)

RefundInv ==
  TypeInv /\ Claims /\ Distinct /\ Behind /\ Arrived /\ AllFresh /\ ClosedNoticesAreReflected
-----------------------------------------------------------------------------
LEMMA EventFields ==
  ASSUME NEW e \in Events
  PROVE  e.refund \in Refunds /\ e.n \in Nat /\ e.kind \in {"notice", "recheck"}
BY DEF Events

LEMMA SuccessorsAreStatuses ==
  ASSUME NEW s \in Statuses
  PROVE  Successors(s) \subseteq Statuses
BY DEF Successors

LEMMA NoSnapshotType == NoSnapshot \in Snapshots
BY RefundAssumption DEF NoSnapshot, Snapshots, Statuses

(* A refund starts with no claim, no notice and no snapshot. *)
LEMMA InitRefund == Init => RefundInv
<1> SUFFICES ASSUME Init PROVE RefundInv  OBVIOUS
<1> USE DEF Init
<1>1. TypeInv
  BY NoSnapshotType, RefundAssumption DEF TypeInv, Idle, NotReading
<1>2. Claims /\ Distinct /\ AllFresh
  BY DEF Claims, ClaimOf, Distinct, AllFresh, Fresh, Busy, Idle
<1>3. Behind
  BY NoSnapshotType DEF Behind, Snapshots
<1>4. Arrived /\ ClosedNoticesAreReflected
  BY DEF Arrived, ClosedNoticesAreReflected
<1>5. QED  BY <1>1, <1>2, <1>3, <1>4 DEF RefundInv

(* The steps of the order and the reads of the finance job touch no claim. *)
LEMMA OtherInv ==
  ASSUME RefundInv, UNCHANGED <<provider, inbox, refund, worker>>,
         UNCHANGED finance \/ FinanceRead \/ FinanceCompare
  PROVE  RefundInv'
<1>1. TypeInv'
  <2>1. CASE UNCHANGED finance  BY <2>1 DEF RefundInv, TypeInv
  <2>2. CASE FinanceRead
    <3>1. finance' = [pc |-> "read", n |-> finance.n + 1, seen |-> provider, differ |-> finance.differ]
      BY <2>2 DEF FinanceRead, RefundInv, TypeInv
    <3>2. QED  BY <3>1 DEF RefundInv, TypeInv
  <2>3. CASE FinanceCompare
    <3>1. Differing(finance.seen) \in SUBSET Refunds  BY DEF Differing
    <3>2. QED  BY <2>3, <3>1 DEF FinanceCompare, RefundInv, TypeInv
  <2>4. QED  BY <2>1, <2>2, <2>3
<1>2. Claims' /\ Distinct' /\ Behind' /\ Arrived' /\ AllFresh' /\ ClosedNoticesAreReflected'
  BY DEF RefundInv, Claims, ClaimOf, Distinct, Behind, Arrived, AllFresh, Fresh, Busy, Target,
         ClosedNoticesAreReflected
<1>3. QED  BY <1>1, <1>2 DEF RefundInv

(* The provider moves on; what was read or announced stays behind it. *)
LEMMA ProviderChangeInv ==
  ASSUME RefundInv, NEW r \in Refunds, ProviderChange(r)
  PROVE  RefundInv'
<1> USE DEF RefundInv, TypeInv
<1>1. PICK s \in Statuses : provider' = [provider EXCEPT ![r] = [version |-> @.version + 1, status |-> s]]
  BY DEF ProviderChange, Successors
<1>2. UNCHANGED <<inbox, refund, worker, finance>> /\ provider[r].version < MaxVersion
  BY DEF ProviderChange
<1>3. provider[r].version \in 0..MaxVersion /\ MaxVersion \in Nat
  BY RefundAssumption DEF Snapshots
<1>4. [version |-> provider[r].version + 1, status |-> s] \in Snapshots
  BY <1>2, <1>3 DEF Snapshots
<1>5. TypeInv'
  BY <1>1, <1>2, <1>4
<1>6. \A x \in Refunds : /\ provider[x].version \in Int /\ provider'[x].version \in Int
                         /\ provider[x].version <= provider'[x].version
  BY <1>1, <1>3 DEF Snapshots
<1>7. Behind'
  <2>1. \A x \in Refunds : refund[x].snapshot.version \in Int  BY DEF Snapshots
  <2>2. QED  BY <1>2, <1>6, <2>1 DEF Behind
<1>8. Arrived'
  BY <1>2, <1>6, EventFields DEF Arrived
<1>9. AllFresh'
  <2> SUFFICES ASSUME NEW w \in Workers, worker[w].pc = "read"
               PROVE  worker[w].snapshot.version <= provider'[Target(w)].version
    BY <1>2 DEF AllFresh, Fresh, Target
  <2>1. Target(w) \in Refunds
    BY EventFields DEF Claims, ClaimOf, Busy, Target
  <2>2. worker[w].snapshot.version \in Int  BY DEF Snapshots
  <2>3. QED  BY <1>6, <2>1, <2>2 DEF AllFresh, Fresh
<1>10. Claims' /\ Distinct' /\ ClosedNoticesAreReflected'
  BY <1>2 DEF Claims, ClaimOf, Distinct, Busy, Target, ClosedNoticesAreReflected
<1>11. QED  BY <1>5, <1>7, <1>8, <1>9, <1>10


(* A new claim makes every earlier claim of the refund stale. *)
LEMMA ClaimInv ==
  ASSUME RefundInv, NEW w \in Workers, NEW e \in Events, Claim(w, e)
  PROVE  RefundInv'
<1> DEFINE t == e.refund
           next == refund[t].generation + 1
           mine == [pc |-> "claimed", event |-> e, generation |-> next, snapshot |-> NoSnapshot]
<1> USE DEF RefundInv, TypeInv
<1>1. e.refund \in Refunds /\ e.n \in Nat /\ e.kind \in {"notice", "recheck"}
  BY EventFields
<1>2. refund[t].generation \in Nat /\ next \in Nat
  BY <1>1
<1>3. /\ worker[w].pc = "idle" /\ Claimable(e)
      /\ refund' = [refund EXCEPT ![t].generation = next]
      /\ inbox' = [inbox EXCEPT ![e] =
           [state |-> "processing", generation |-> next,
            since |-> IF e.kind = "notice" THEN e.n ELSE inbox[e].since]]
      /\ worker' = [worker EXCEPT ![w] = mine]
      /\ UNCHANGED <<provider, order, decided, finance>>
  BY DEF Claim
<1>4. \A r \in Refunds : /\ refund'[r].snapshot = refund[r].snapshot
                         /\ refund'[r].generation = IF r = t THEN next ELSE refund[r].generation
  BY <1>1, <1>3
<1>5. \A f \in Events : inbox'[f].state = IF f = e THEN "processing" ELSE inbox[f].state
  BY <1>3
<1>6. \A v \in Workers : v # w => worker'[v] = worker[v]
  BY <1>3
<1>7. worker'[w].pc = "claimed" /\ worker'[w].event = e /\ worker'[w].generation = next
  BY <1>3
<1>8. \A v \in Workers : Busy(v) =>
        /\ v # w /\ Target(v) \in Refunds
        /\ worker[v].generation \in Nat /\ worker[v].generation <= refund[Target(v)].generation
  BY <1>3, EventFields DEF Busy, Target, Claims, ClaimOf
<1>9. \A v \in Workers : Busy(v)' => v = w \/ (Busy(v) /\ Target(v)' = Target(v))
  BY <1>6 DEF Busy, Target
<1>10. e.kind = "notice" => inbox[e].state # "processed" /\ e.n <= provider[t].version /\ e.n \in 0..MaxVersion
  BY <1>3 DEF Claimable, Events
<1>11. TypeInv'
  <2>1. refund' \in [Refunds -> [generation : Nat, snapshot : Snapshots]]
    BY <1>1, <1>2, <1>3
  <2>2. worker' \in [Workers -> [pc : {"idle", "claimed", "read"}, event : Events \cup {None},
                                 generation : Nat, snapshot : Snapshots]]
    BY <1>2, <1>3, NoSnapshotType
  <2>3. inbox' \in [Events -> [state : {"none", "received", "processing", "processed"},
                               generation : Nat, since : 0..MaxVersion]]
    <3>1. PICK s \in 0..MaxVersion : s = IF e.kind = "notice" THEN e.n ELSE inbox[e].since
      BY <1>10
    <3>2. QED  BY <1>2, <1>3, <3>1
  <2>4. QED  BY <1>3, <2>1, <2>2, <2>3
<1>12. Claims'
  <2> SUFFICES ASSUME NEW v \in Workers, Busy(v)'
               PROVE  worker'[v].event \in Events
                      /\ worker'[v].generation <= refund'[worker'[v].event.refund].generation
    BY DEF Claims, ClaimOf, Busy, Target
  <2>1. CASE v = w  BY <2>1, <1>1, <1>2, <1>4, <1>7
  <2>2. CASE v # w
    <3>1. Busy(v) /\ worker'[v] = worker[v]  BY <2>2, <1>6, <1>9
    <3>2. QED  BY <3>1, <1>2, <1>4, <1>8 DEF Claims, ClaimOf, Target
  <2>3. QED  BY <2>1, <2>2
<1>13. Distinct'
  <2> SUFFICES ASSUME NEW u \in Workers, NEW v \in Workers, Busy(u)', Busy(v)',
                      worker'[u].event.refund = worker'[v].event.refund,
                      worker'[u].generation = worker'[v].generation
               PROVE  u = v
    BY DEF Distinct, Busy, Target
  <2>1. ASSUME NEW x \in Workers, Busy(x), x # w, worker'[x].event.refund = t
        PROVE  worker'[x].generation # next
    BY <2>1, <1>2, <1>6, <1>8 DEF Target
  <2>2. CASE u = w \/ v = w  BY <2>1, <2>2, <1>7, <1>9
  <2>3. CASE u # w /\ v # w  BY <2>3, <1>6, <1>9 DEF Distinct, Target
  <2>4. QED  BY <2>2, <2>3
<1>14. Behind'
  BY <1>3, <1>4 DEF Behind
<1>15. Arrived'
  BY <1>3, <1>5, <1>10 DEF Arrived
<1>16. ClosedNoticesAreReflected'
  BY <1>4, <1>5, EventFields DEF ClosedNoticesAreReflected
<1>17. AllFresh'
  <2> SUFFICES ASSUME NEW v \in Workers, worker'[v].pc = "read"
               PROVE  Fresh(v)'
    BY DEF AllFresh, Fresh
  <2>1. v # w /\ worker'[v] = worker[v] /\ Busy(v) /\ Fresh(v)
    BY <1>6, <1>7 DEF Busy, AllFresh
  <2>2. Target(v)' = Target(v) /\ Target(v) \in Refunds
    BY <2>1, <1>8 DEF Target
  <2>3. CASE Target(v) = t
    <3>1. worker'[v].generation # refund'[Target(v)].generation
      BY <2>1, <2>3, <1>2, <1>4, <1>8
    <3>2. QED  BY <2>1, <2>2, <3>1, <1>3 DEF Fresh, Target
  <2>4. CASE Target(v) # t
    <3>1. \A f \in Events : f.refund = Target(v) => inbox'[f].state = inbox[f].state
      BY <2>4, <1>5
    <3>2. refund'[Target(v)].generation = refund[Target(v)].generation
          /\ refund'[Target(v)].snapshot = refund[Target(v)].snapshot
      BY <2>2, <2>4, <1>4
    <3>3. QED  BY <2>1, <2>2, <3>1, <3>2, <1>3 DEF Fresh, Target
  <2>5. QED  BY <2>3, <2>4
<1>18. QED  BY <1>11, <1>12, <1>13, <1>14, <1>15, <1>16, <1>17

(* A read sees the present state, which no notice and no snapshot is ahead of. *)
LEMMA ReadInv ==
  ASSUME RefundInv, NEW w \in Workers, Read(w)
  PROVE  RefundInv'
<1> DEFINE t == Target(w)
<1> USE DEF RefundInv, TypeInv
<1>1. Busy(w) /\ UNCHANGED <<provider, inbox, refund, finance>>
      /\ worker' = [worker EXCEPT ![w].pc = "read", ![w].snapshot = provider[t]]
  BY DEF Read, Busy, Target
<1>2. t \in Refunds
  BY <1>1, EventFields DEF Claims, ClaimOf, Target
<1>3. TypeInv'
  <2>1. provider[t] \in Snapshots  BY <1>2
  <2>2. worker[w] \in [pc : {"idle", "claimed", "read"}, event : Events \cup {None},
                       generation : Nat, snapshot : Snapshots]
    OBVIOUS
  <2>3. [worker[w] EXCEPT !.pc = "read", !.snapshot = provider[t]]
          \in [pc : {"idle", "claimed", "read"}, event : Events \cup {None},
               generation : Nat, snapshot : Snapshots]
    BY ONLY <2>1, <2>2
  <2>4. worker' = [worker EXCEPT ![w] = [worker[w] EXCEPT !.pc = "read", !.snapshot = provider[t]]]
    BY ONLY <1>1, <2>2, worker \in [Workers -> [pc : {"idle", "claimed", "read"}, event : Events \cup {None},
                                 generation : Nat, snapshot : Snapshots]]
  <2>5. worker' \in [Workers -> [pc : {"idle", "claimed", "read"}, event : Events \cup {None},
                                 generation : Nat, snapshot : Snapshots]]
    BY <2>3, <2>4
  <2>6. QED  BY <1>1, <2>5
<1>4. \A v \in Workers : /\ worker'[v].event = worker[v].event
                         /\ worker'[v].generation = worker[v].generation
                         /\ Busy(v)' <=> Busy(v)
                         /\ v # w => worker'[v] = worker[v]
  BY <1>1 DEF Busy
<1>5. Claims' /\ Distinct'
  BY <1>1, <1>4 DEF Claims, ClaimOf, Distinct, Target
<1>6. Behind' /\ Arrived' /\ ClosedNoticesAreReflected'
  BY <1>1 DEF Behind, Arrived, ClosedNoticesAreReflected
<1>7. AllFresh'
  <2> SUFFICES ASSUME NEW v \in Workers PROVE Fresh(v)'
    BY DEF AllFresh
  <2>1. CASE v # w
    BY <2>1, <1>1, <1>4 DEF AllFresh, Fresh, Target
  <2>2. CASE v = w
    <3>1. worker'[w].snapshot = provider[t] /\ Target(w)' = t
      BY <1>1 DEF Target
    <3>2. provider[t].version <= provider[t].version
      BY <1>2 DEF Snapshots
    <3>3. QED  BY <2>2, <3>1, <3>2, <1>1, <1>2 DEF Fresh, Behind, Arrived
  <2>3. QED  BY <2>1, <2>2
<1>8. QED  BY <1>3, <1>5, <1>6, <1>7

(* A worker that stops leaves the other claims as they are. *)
LEMMA StopKeeps ==
  ASSUME RefundInv, NEW w \in Workers, worker' = [worker EXCEPT ![w] = Idle],
         \A r \in Refunds : refund'[r].generation = refund[r].generation
  PROVE  /\ worker' \in [Workers -> [pc : {"idle", "claimed", "read"}, event : Events \cup {None},
                                     generation : Nat, snapshot : Snapshots]]
         /\ Claims' /\ Distinct'
         /\ \A v \in Workers : Busy(v)' => v # w /\ Busy(v) /\ worker'[v] = worker[v]
<1>1. worker \in [Workers -> [pc : {"idle", "claimed", "read"}, event : Events \cup {None},
                              generation : Nat, snapshot : Snapshots]]
  BY DEF RefundInv, TypeInv
<1>2. worker'[w].pc = "idle"  BY <1>1 DEF Idle
<1>3. \A v \in Workers : Busy(v)' => v # w /\ Busy(v) /\ worker'[v] = worker[v]
  BY <1>1, <1>2 DEF Busy
<1>4. Claims'
  BY <1>3, EventFields DEF RefundInv, Claims, ClaimOf, Target
<1>5. Distinct'
  BY <1>3 DEF RefundInv, Distinct, Target
<1>6. QED  BY <1>1, <1>3, <1>4, <1>5, NoSnapshotType DEF Idle

LEMMA LoseInv ==
  ASSUME RefundInv, NEW w \in Workers, Lose(w)
  PROVE  RefundInv'
<1>1. worker' = [worker EXCEPT ![w] = Idle] /\ UNCHANGED <<provider, inbox, refund, finance>>
  BY DEF Lose
<1>2. Claims' /\ Distinct' /\ \A v \in Workers : Busy(v)' => v # w /\ Busy(v) /\ worker'[v] = worker[v]
  BY <1>1, StopKeeps
<1>3. TypeInv'
  BY <1>1, StopKeeps DEF RefundInv, TypeInv
<1>4. Behind' /\ Arrived' /\ ClosedNoticesAreReflected'
  BY <1>1 DEF RefundInv, Behind, Arrived, ClosedNoticesAreReflected
<1>5. AllFresh'
  BY <1>1, <1>2 DEF RefundInv, AllFresh, Fresh, Busy, Target
<1>6. QED  BY <1>2, <1>3, <1>4, <1>5 DEF RefundInv


(* What a heard worker applies is no older than the snapshot and covers every     *)
(* notice it closes.                                                              *)
LEMMA CurrentApplies ==
  ASSUME RefundInv, NEW w \in Workers, Apply(w), Current(w)
  PROVE  /\ Target(w) \in Refunds
         /\ refund' = [refund EXCEPT ![Target(w)].snapshot = worker[w].snapshot]
         /\ inbox' = Closed(Target(w))
         /\ refund[Target(w)].generation = worker[w].generation
         /\ worker[w].snapshot \in Snapshots
         /\ worker[w].snapshot.version <= provider[Target(w)].version
         /\ refund[Target(w)].snapshot.version <= worker[w].snapshot.version
         /\ \A e \in Events :
              e.kind = "notice" /\ e.refund = Target(w) /\ inbox[e].state = "processing" =>
                e.n <= worker[w].snapshot.version
<1>1. worker[w].pc = "read"  BY DEF Apply
<1>2. Target(w) \in Refunds
  BY <1>1, EventFields DEF RefundInv, Claims, ClaimOf, Busy, Target
<1>3. /\ refund' = [refund EXCEPT ![Target(w)].snapshot = worker[w].snapshot]
      /\ inbox' = Closed(Target(w))
  BY DEF Apply, Target
<1>4. refund[Target(w)].generation = worker[w].generation
  BY DEF Current, Target
<1>5. worker[w].snapshot \in Snapshots
  BY DEF RefundInv, TypeInv
<1>6. Fresh(w)
  BY DEF RefundInv, AllFresh
<1>7. QED  BY <1>1, <1>2, <1>3, <1>4, <1>5, <1>6 DEF Fresh

LEMMA ClosedStates ==
  ASSUME NEW r \in Refunds, inbox' = Closed(r), TypeInv, NEW e \in Events
  PROVE  /\ e.refund # r => inbox'[e] = inbox[e]
         /\ inbox'[e].state = IF e.refund = r /\ inbox[e].state \in {"received", "processing"}
                              THEN "processed" ELSE inbox[e].state
         /\ inbox' \in [Events -> [state : {"none", "received", "processing", "processed"},
                                   generation : Nat, since : 0..MaxVersion]]
BY DEF Closed, TypeInv

(* Applying overtakes no other current claim, since there is none. *)
LEMMA ApplyInv ==
  ASSUME RefundInv, NEW w \in Workers, Apply(w)
  PROVE  RefundInv'
<1>1. worker' = [worker EXCEPT ![w] = Idle] /\ UNCHANGED <<provider, finance>> /\ worker[w].pc = "read"
  BY DEF Apply
<1>2. CASE ~Current(w)
  <2>1. UNCHANGED <<refund, inbox>>
    BY <1>2 DEF Apply
  <2>2. Claims' /\ Distinct' /\ \A v \in Workers : Busy(v)' => v # w /\ Busy(v) /\ worker'[v] = worker[v]
    BY <1>1, <2>1, StopKeeps
  <2>3. TypeInv'
    BY <1>1, <2>1, StopKeeps DEF RefundInv, TypeInv
  <2>4. Behind' /\ Arrived' /\ ClosedNoticesAreReflected'
    BY <1>1, <2>1 DEF RefundInv, Behind, Arrived, ClosedNoticesAreReflected
  <2>5. AllFresh'
    BY <1>1, <2>1, <2>2 DEF RefundInv, AllFresh, Fresh, Busy, Target
  <2>6. QED  BY <2>2, <2>3, <2>4, <2>5 DEF RefundInv
<1>3. CASE Current(w)
  <2> DEFINE t == Target(w)
             seen == worker[w].snapshot
  <2>1. /\ t \in Refunds /\ seen \in Snapshots
        /\ refund' = [refund EXCEPT ![t].snapshot = seen]
        /\ inbox' = Closed(t)
        /\ refund[t].generation = worker[w].generation
        /\ seen.version <= provider[t].version
        /\ refund[t].snapshot.version <= seen.version
        /\ \A e \in Events : e.kind = "notice" /\ e.refund = t /\ inbox[e].state = "processing" =>
             e.n <= seen.version
    BY <1>3, CurrentApplies
  <2>2. refund \in [Refunds -> [generation : Nat, snapshot : Snapshots]]
    BY DEF RefundInv, TypeInv
  <2>3. \A r \in Refunds : /\ refund'[r].generation = refund[r].generation
                           /\ refund'[r].snapshot = IF r = t THEN seen ELSE refund[r].snapshot
    BY <2>1, <2>2
  <2>4. \A e \in Events :
          /\ e.refund # t => inbox'[e] = inbox[e]
          /\ inbox'[e].state = IF e.refund = t /\ inbox[e].state \in {"received", "processing"}
                               THEN "processed" ELSE inbox[e].state
    BY <2>1, ClosedStates DEF RefundInv
  <2>5. Claims' /\ Distinct' /\ \A v \in Workers : Busy(v)' => v # w /\ Busy(v) /\ worker'[v] = worker[v]
    BY <1>1, <2>3, StopKeeps
  <2>6. TypeInv'
    <3>1. refund' \in [Refunds -> [generation : Nat, snapshot : Snapshots]]
      BY <2>1, <2>2
    <3>2. worker' \in [Workers -> [pc : {"idle", "claimed", "read"}, event : Events \cup {None},
                                   generation : Nat, snapshot : Snapshots]]
      BY <1>1, <2>3, StopKeeps
    <3>3. inbox' \in [Events -> [state : {"none", "received", "processing", "processed"},
                                 generation : Nat, since : 0..MaxVersion]]
      <4>1. CASE Events = {}  BY <2>1, <4>1 DEF Closed
      <4>2. CASE Events # {}  BY <2>1, <4>2, ClosedStates DEF RefundInv
      <4>3. QED  BY <4>1, <4>2
    <3>4. QED  BY <1>1, <3>1, <3>2, <3>3 DEF RefundInv, TypeInv
  <2>7. Behind'
    BY <1>1, <2>1, <2>3 DEF RefundInv, Behind
  <2>8. Arrived'
    BY <1>1, <2>4 DEF RefundInv, Arrived
  <2>9. ClosedNoticesAreReflected'
    <3> SUFFICES ASSUME NEW e \in Events, e.kind = "notice", inbox'[e].state = "processed"
                 PROVE  refund'[e.refund].snapshot.version >= e.n
      BY DEF ClosedNoticesAreReflected
    <3>1. e.refund \in Refunds /\ e.n \in Nat  BY EventFields
    <3>2. inbox[e].state \in {"none", "processing", "processed"}
      BY DEF RefundInv, Arrived
    <3>3. refund[e.refund].snapshot.version \in Int /\ seen.version \in Int
      BY <2>1, <2>2, <3>1 DEF Snapshots
    <3>4. CASE e.refund # t
      BY <3>4, <2>3, <2>4, <3>1 DEF RefundInv, ClosedNoticesAreReflected
    <3>5. CASE e.refund = t /\ inbox[e].state = "processing"
      BY <3>5, <2>1, <2>3, <3>1, <3>3
    <3>6. CASE e.refund = t /\ inbox[e].state = "processed"
      <4>1. refund[t].snapshot.version >= e.n
        BY <3>6 DEF RefundInv, ClosedNoticesAreReflected
      <4>2. QED  BY <3>6, <4>1, <2>1, <2>3, <3>1, <3>3
    <3>7. QED  BY <3>2, <3>4, <3>5, <3>6, <2>4
  <2>10. AllFresh'
    <3> SUFFICES ASSUME NEW v \in Workers, worker'[v].pc = "read"
                 PROVE  Fresh(v)'
      BY DEF AllFresh, Fresh
    <3>1. v # w /\ Busy(v) /\ worker'[v] = worker[v]
      BY <2>5 DEF Busy
    <3>2. Fresh(v) /\ Target(v)' = Target(v) /\ Target(v) \in Refunds
      BY <3>1, EventFields DEF RefundInv, AllFresh, Claims, ClaimOf, Target
    <3>3. CASE Target(v) = t
      <4>1. worker[v].generation # worker[w].generation
        BY <1>1, <3>1, <3>3 DEF RefundInv, Distinct, Busy
      <4>2. worker'[v].generation # refund'[Target(v)].generation
        BY <2>1, <2>3, <3>1, <3>3, <4>1
      <4>3. QED  BY <1>1, <3>1, <3>2, <4>2 DEF Fresh, Target
    <3>4. CASE Target(v) # t
      <4>1. \A e \in Events : e.refund = Target(v) => inbox'[e] = inbox[e]
        BY <3>4, <2>4
      <4>2. refund'[Target(v)].generation = refund[Target(v)].generation
            /\ refund'[Target(v)].snapshot = refund[Target(v)].snapshot
        BY <3>2, <3>4, <2>3
      <4>3. QED  BY <1>1, <3>1, <3>2, <4>1, <4>2 DEF Fresh, Target
    <3>5. QED  BY <3>3, <3>4
  <2>11. QED  BY <2>5, <2>6, <2>7, <2>8, <2>9, <2>10 DEF RefundInv
<1>4. QED  BY <1>2, <1>3

(* Queueing rechecks touches no notice. *)
LEMMA QueueRefundsInv ==
  ASSUME RefundInv, QueueRefunds
  PROVE  RefundInv'
<1> DEFINE queued(e) == e.kind = "recheck" /\ e.n = finance.n /\ e.refund \in finance.differ
<1>1. UNCHANGED <<provider, refund, worker>> /\ finance' = [NotReading EXCEPT !.n = finance.n]
  BY DEF QueueRefunds
<1>2. inbox' = [e \in Events |->
        IF queued(e) THEN [inbox[e] EXCEPT !.state = "received", !.since = finance.seen[e.refund].version]
        ELSE inbox[e]]
  BY DEF QueueRefunds
<1>3. \A e \in Events : finance.seen[e.refund].version \in 0..MaxVersion
  BY EventFields DEF RefundInv, TypeInv, Snapshots
<1>4. inbox' \in [Events -> [state : {"none", "received", "processing", "processed"},
                             generation : Nat, since : 0..MaxVersion]]
  <2> SUFFICES ASSUME NEW e \in Events
               PROVE  inbox'[e] \in [state : {"none", "received", "processing", "processed"},
                                     generation : Nat, since : 0..MaxVersion]
    BY <1>2
  <2>1. inbox[e] \in [state : {"none", "received", "processing", "processed"},
                      generation : Nat, since : 0..MaxVersion]
    BY DEF RefundInv, TypeInv
  <2>2. CASE queued(e)
    <3>1. PICK s \in 0..MaxVersion : s = finance.seen[e.refund].version  BY <1>3
    <3>2. inbox'[e] = [inbox[e] EXCEPT !.state = "received", !.since = s]  BY <1>2, <2>2, <3>1
    <3>3. QED  BY <2>1, <3>2
  <2>3. CASE ~queued(e)  BY <1>2, <2>1, <2>3
  <2>4. QED  BY <2>2, <2>3
<1>5. finance' \in [pc : {"idle", "read", "compared"}, n : Nat,
                    seen : [Refunds -> Snapshots], differ : SUBSET Refunds]
  BY <1>1, NoSnapshotType DEF RefundInv, TypeInv, NotReading
<1>6. TypeInv'
  BY <1>1, <1>4, <1>5 DEF RefundInv, TypeInv
<1>7. \A e \in Events : e.kind = "notice" => inbox'[e] = inbox[e]
  BY <1>2
<1>8. Claims' /\ Distinct' /\ Behind'
  BY <1>1 DEF RefundInv, Claims, ClaimOf, Distinct, Behind, Busy, Target
<1>9. Arrived' /\ ClosedNoticesAreReflected' /\ AllFresh'
  BY <1>1, <1>7 DEF RefundInv, Arrived, ClosedNoticesAreReflected, AllFresh, Fresh, Target
<1>10. QED  BY <1>6, <1>8, <1>9 DEF RefundInv

LEMMA RefundStep == RefundInv /\ [Next]_vars => RefundInv'
<1> SUFFICES ASSUME RefundInv, [Next]_vars PROVE RefundInv'  OBVIOUS
<1>1. CASE \E r \in Refunds : ProviderChange(r)  BY <1>1, ProviderChangeInv
<1>2. CASE \E w \in Workers : Read(w)  BY <1>2, ReadInv
<1>3. CASE \E w \in Workers : Lose(w)  BY <1>3, LoseInv
<1>4. CASE \E w \in Workers : Apply(w)  BY <1>4, ApplyInv
<1>5. CASE \E w \in Workers, e \in Events : Claim(w, e)  BY <1>5, ClaimInv
<1>6. CASE CreditPaidOrder  BY <1>6, OtherInv DEF CreditPaidOrder
<1>7. CASE \E d \in Decisions, q \in 0..Questions : DecidePartial(d, q)
  BY <1>7, OtherInv DEF DecidePartial
<1>8. CASE FinanceRead \/ FinanceCompare
  BY <1>8, OtherInv DEF FinanceRead, FinanceCompare
<1>9. CASE QueueRefunds  BY <1>9, QueueRefundsInv
<1>10. CASE UNCHANGED vars  BY <1>10, OtherInv DEF vars
<1>11. QED
  BY <1>1, <1>2, <1>3, <1>4, <1>5, <1>6, <1>7, <1>8, <1>9, <1>10 DEF Next
-----------------------------------------------------------------------------
(* The claims, reads and notices are as the invariant says in every state. *)
THEOREM RefundInvariant == Spec => []RefundInv
<1>1. RefundInv /\ [Next]_vars => RefundInv'  BY RefundStep
<1>2. QED  BY InitRefund, <1>1, PTL DEF Spec

(* applyRefund closes a notice only when the ledger holds the state it announced  *)
(* or a later one, however many workers, notices, repetitions and losses.         *)
THEOREM NoticesReflected == Spec => []ClosedNoticesAreReflected
<1>1. RefundInv => ClosedNoticesAreReflected  BY DEF RefundInv
<1>2. QED  BY RefundInvariant, <1>1, PTL

Onward == \A r \in Refunds : refund'[r].snapshot.version >= refund[r].snapshot.version

LEMMA StepGoesOnward ==
  ASSUME RefundInv, Next
  PROVE  Onward
<1>1. \A r \in Refunds : refund[r].snapshot.version \in Int
  BY DEF RefundInv, TypeInv, Snapshots
<1>2. CASE UNCHANGED refund  BY <1>1, <1>2 DEF Onward
<1>3. ASSUME NEW w \in Workers, NEW e \in Events, Claim(w, e)  PROVE Onward
  <2>1. \A r \in Refunds : refund'[r].snapshot = refund[r].snapshot
    BY <1>3, EventFields DEF Claim, RefundInv, TypeInv
  <2>2. QED  BY <1>1, <2>1 DEF Onward
<1>4. ASSUME NEW w \in Workers, Apply(w)  PROVE Onward
  <2>1. CASE ~Current(w)  BY <1>2, <1>4, <2>1 DEF Apply
  <2>2. CASE Current(w)
    <3>1. /\ Target(w) \in Refunds /\ worker[w].snapshot \in Snapshots
          /\ refund' = [refund EXCEPT ![Target(w)].snapshot = worker[w].snapshot]
          /\ refund[Target(w)].snapshot.version <= worker[w].snapshot.version
      BY <1>4, <2>2, CurrentApplies
    <3>2. \A r \in Refunds :
            refund'[r].snapshot = IF r = Target(w) THEN worker[w].snapshot ELSE refund[r].snapshot
      BY <3>1 DEF RefundInv, TypeInv
    <3>3. worker[w].snapshot.version \in Int  BY <3>1 DEF Snapshots
    <3>4. QED  BY <1>1, <3>1, <3>2, <3>3 DEF Onward
  <2>3. QED  BY <2>1, <2>2
<1>5. CASE \E r \in Refunds : ProviderChange(r)  BY <1>2, <1>5 DEF ProviderChange
<1>6. CASE \E w \in Workers : Read(w) \/ Lose(w)  BY <1>2, <1>6 DEF Read, Lose
<1>7. CASE CreditPaidOrder \/ FinanceRead \/ FinanceCompare \/ QueueRefunds
  BY <1>2, <1>7 DEF CreditPaidOrder, FinanceRead, FinanceCompare, QueueRefunds
<1>8. CASE \E d \in Decisions, q \in 0..Questions : DecidePartial(d, q)
  BY <1>2, <1>8 DEF DecidePartial
<1>9. QED  BY <1>3, <1>4, <1>5, <1>6, <1>7, <1>8 DEF Next

(* applyRefund never replaces a snapshot by one that was read before it.          *)
THEOREM NoSnapshotGoesBack == Spec => SnapshotsNeverGoBack
<1>1. RefundInv /\ [Next]_vars => [Onward]_vars
  BY StepGoesOnward DEF vars
<1>2. QED  BY RefundInvariant, <1>1, PTL DEF Spec, SnapshotsNeverGoBack, Onward

-----------------------------------------------------------------------------
(* The policy of a credited order is that of the refunds on record and of the     *)
(* owner's decision, whatever was applied, credited or decided last.              *)
PolicyInv ==
  /\ DOMAIN order = {"credited", "decision", "policy"}
  /\ order.credited => order.policy = RefundPolicy(Facts(refund), order.decision)

LEMMA RefreshedPolicy ==
  ASSUME NEW x, DOMAIN x = {"credited", "decision", "policy"}, NEW rows
  PROVE  /\ DOMAIN Refreshed(x, rows) = {"credited", "decision", "policy"}
         /\ Refreshed(x, rows).credited = x.credited /\ Refreshed(x, rows).decision = x.decision
         /\ x.credited => Refreshed(x, rows).policy = RefundPolicy(Facts(rows), x.decision)
BY DEF Refreshed

LEMMA PolicyStep ==
  ASSUME RefundInv, PolicyInv, [Next]_vars
  PROVE  PolicyInv'
<1>1. CASE UNCHANGED <<refund, order>>
  BY <1>1 DEF PolicyInv
<1>2. ASSUME NEW w \in Workers, NEW e \in Events, Claim(w, e)  PROVE PolicyInv'
  <2>1. \A r \in Refunds : refund'[r].snapshot = refund[r].snapshot
    BY <1>2, EventFields DEF Claim, RefundInv, TypeInv
  <2>2. Facts(refund)' = Facts(refund)
    BY <2>1 DEF Facts
  <2>3. UNCHANGED order
    BY <1>2 DEF Claim
  <2>. QED  BY <2>2, <2>3 DEF PolicyInv, Facts
<1>3. ASSUME NEW w \in Workers, Apply(w)  PROVE PolicyInv'
  <2>1. CASE ~Current(w)
    BY <1>1, <1>3, <2>1 DEF Apply
  <2>2. CASE Current(w)
    <3>1. order' = Refreshed(order, refund')
      BY <1>3, <2>2 DEF Apply
    <3>2. PICK rows : rows = refund'
      OBVIOUS
    <3>3. PICK x : x = order
      OBVIOUS
    <3>4. /\ DOMAIN order' = {"credited", "decision", "policy"}
          /\ order'.decision = order.decision
          /\ order'.credited => order'.policy = RefundPolicy(Facts(rows), order.decision)
      BY <3>1, <3>2, <3>3, RefreshedPolicy DEF PolicyInv
    <3>. QED  BY <3>2, <3>4 DEF PolicyInv, Facts
  <2>. QED  BY <2>1, <2>2
<1>4. CASE CreditPaidOrder
  <2>. DEFINE x == [order EXCEPT !.credited = TRUE]
  <2>1. DOMAIN x = {"credited", "decision", "policy"} /\ x.decision = order.decision
    BY DEF PolicyInv
  <2>2. order' = Refreshed(x, refund) /\ UNCHANGED refund
    BY <1>4 DEF CreditPaidOrder
  <2>. HIDE DEF x
  <2>3. /\ DOMAIN order' = {"credited", "decision", "policy"}
        /\ order'.credited = x.credited /\ order'.decision = x.decision
        /\ x.credited => order'.policy = RefundPolicy(Facts(refund), x.decision)
    BY <2>1, <2>2, RefreshedPolicy
  <2>. QED  BY <2>2, <2>3 DEF PolicyInv, Facts
<1>5. ASSUME NEW d \in Decisions, NEW q \in 0..Questions, DecidePartial(d, q)  PROVE PolicyInv'
  <2>. DEFINE x == [order EXCEPT !.decision = [fingerprint |-> order.policy.fingerprint, questions |-> q]]
  <2>1. DOMAIN x = {"credited", "decision", "policy"}
    BY DEF PolicyInv
  <2>2. order' = Refreshed(x, refund) /\ UNCHANGED refund
    BY <1>5 DEF DecidePartial
  <2>. HIDE DEF x
  <2>3. /\ DOMAIN order' = {"credited", "decision", "policy"}
        /\ order'.credited = x.credited /\ order'.decision = x.decision
        /\ x.credited => order'.policy = RefundPolicy(Facts(refund), x.decision)
    BY <2>1, <2>2, RefreshedPolicy
  <2>. QED  BY <2>2, <2>3 DEF PolicyInv, Facts
<1>6. CASE \E r \in Refunds : ProviderChange(r)  BY <1>1, <1>6 DEF ProviderChange
<1>7. CASE \E w \in Workers : Read(w) \/ Lose(w)  BY <1>1, <1>7 DEF Read, Lose
<1>8. CASE FinanceRead \/ FinanceCompare \/ QueueRefunds
  BY <1>1, <1>8 DEF FinanceRead, FinanceCompare, QueueRefunds
<1>. QED  BY <1>1, <1>2, <1>3, <1>4, <1>5, <1>6, <1>7, <1>8 DEF Next, vars

LEMMA PolicyRow ==
  ASSUME NEW facts, NEW decision
  PROVE  LET p == RefundPolicy(facts, decision)
             returned == Cents(facts, "succeeded")
             underway == Cents(facts, "pending")
             approved == decision # None /\ decision.fingerprint = facts
         IN /\ p.frozen <=> (\/ returned + underway > OrderAmount \/ underway > 0 \/ returned = OrderAmount
                             \/ returned > 0 /\ returned # OrderAmount /\ ~approved)
            /\ p.target =
                 IF returned + underway > OrderAmount THEN 0 ELSE IF returned = OrderAmount THEN Questions
                 ELSE IF returned > 0 /\ returned # OrderAmount /\ approved THEN decision.questions ELSE 0
<1>1. PICK returned : returned = Cents(facts, "succeeded")
  OBVIOUS
<1>2. PICK underway : underway = Cents(facts, "pending")
  OBVIOUS
<1>. DEFINE integrity == returned + underway > OrderAmount
            full == returned = OrderAmount
            partial == returned > 0 /\ ~full
            approved == decision # None /\ decision.fingerprint = facts
            held == integrity \/ underway > 0 \/ full \/ (partial /\ ~approved)
            target == IF integrity THEN 0 ELSE IF full THEN Questions
                      ELSE IF partial /\ approved THEN decision.questions ELSE 0
            review == IF integrity THEN "integrity" ELSE IF partial /\ ~approved THEN "partial" ELSE "none"
<1>3. RefundPolicy(facts, decision) = [frozen |-> held, target |-> target, review |-> review, fingerprint |-> facts]
  BY <1>1, <1>2, Zenon DEF RefundPolicy
<1>. HIDE DEF held, target, review
<1>4. (RefundPolicy(facts, decision).frozen <=> held) /\ RefundPolicy(facts, decision).target = target
  BY <1>3
<1>. QED  BY <1>1, <1>2, <1>4 DEF held, target

LEMMA PolicyFollowsMoney ==
  ASSUME PolicyInv
  PROVE  QuestionsFollowMoney
<1>. DEFINE facts == Facts(refund)
            returned == Cents(facts, "succeeded")
            underway == Cents(facts, "pending")
            approved == order.decision # None /\ order.decision.fingerprint = facts
<1>1. SUFFICES ASSUME order.credited
      PROVE  /\ underway > 0 => order.policy.frozen
             /\ returned = OrderAmount /\ underway = 0 => order.policy.target = Questions
             /\ returned = 0 /\ underway = 0 => ~order.policy.frozen /\ order.policy.target = 0
             /\ returned > 0 /\ ~order.policy.frozen =>
                  order.decision # None /\ order.decision.fingerprint = facts
                  /\ order.policy.target = order.decision.questions
  BY DEF QuestionsFollowMoney
<1>2. order.policy = RefundPolicy(facts, order.decision)
  BY <1>1 DEF PolicyInv
<1>. HIDE DEF facts
<1>3. /\ order.policy.frozen <=> (\/ returned + underway > OrderAmount \/ underway > 0 \/ returned = OrderAmount
                                  \/ returned > 0 /\ returned # OrderAmount /\ ~approved)
      /\ order.policy.target =
           IF returned + underway > OrderAmount THEN 0 ELSE IF returned = OrderAmount THEN Questions
           ELSE IF returned > 0 /\ returned # OrderAmount /\ approved THEN order.decision.questions ELSE 0
  BY <1>2, PolicyRow
<1>. HIDE DEF returned, underway
<1>. QED  BY <1>3, RefundAssumption

(* Spendable questions follow the money on record: refreshOrder leaves none spendable *)
(* while a refund is pending or unreviewed, and revokes all after a full refund.      *)
THEOREM MoneyFollowed == Spec => []QuestionsFollowMoney
<1>1. Init => PolicyInv
  BY DEF Init, PolicyInv
<1>2. RefundInv /\ PolicyInv /\ [Next]_vars => PolicyInv'
  BY PolicyStep
<1>3. PolicyInv => QuestionsFollowMoney
  BY PolicyFollowsMoney
<1>. QED  BY RefundInvariant, <1>1, <1>2, <1>3, PTL DEF Spec
=============================================================================
