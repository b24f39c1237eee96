----------------------------- MODULE Observation -----------------------------
(***************************************************************************)
(* What a desktop client reports about its captures, and what the server   *)
(* may conclude from silence (desktop/core/reliability.mjs and             *)
(* observation-journal.mjs, and the settings of desktop/main.mjs that hold *)
(* the same choice; server/src/observation.ts, observation-sql.ts and the  *)
(* routes /v1/device-observation and /v1/events/batch).                    *)
(*                                                                         *)
(* A client numbers its events, queues them in a journal on disk and sends *)
(* them under a consent epoch.  Once the queue is empty it claims coverage *)
(* of a window: that it reported all there was.  The server keeps a claim  *)
(* as complete only if it can verify it.  Several installations may hold   *)
(* the credential of one device.  Every request may be lost, before or     *)
(* after the server acted on it, and every write may fail.                 *)
(*                                                                         *)
(* The clock counts what is stamped: events, choices and adoptions.  So    *)
(* the time of an event identifies it, and claims are identified by their  *)
(* content.                                                                *)
(***************************************************************************)
EXTENDS Integers, FiniteSets, Null

CONSTANTS
  Clients,     \* installations with the credential of the device
  QueueLimit,  \* events of a journal's queue (100 in the code)
  Allowances   \* bounds: installs, events, choices, stops, failed requests, failed writes and
               \* reads, weeks

ASSUME ObservationAssumption ==
  /\ QueueLimit \in Nat \ {0}
  /\ Allowances \subseteq [{"installs", "events", "choices", "stops", "requests", "writes", "weeks"} -> Nat]

(* What a journal and a request hold. *)
Preference == [epoch : Nat, sharing : BOOLEAN, since : Nat]
Report == [epoch : Nat, seq : Nat, at : Nat]
Window == [epoch : Nat, from : Nat, to : Nat, lo : Nat, hi : Nat, drops : Nat, complete : BOOLEAN]
Journal == [epoch : Nat, sharing : BOOLEAN, since : Nat, pending : BOOLEAN, explicit : BOOLEAN,
            adopt : BOOLEAN, seq : Nat, covered : Nat, from : Nat, drops : Nat, gap : BOOLEAN,
            late : BOOLEAN, claim : Window \cup {None}, queue : SUBSET Report, clean : BOOLEAN]

ASSUME ObservationNoneAssumption == None \notin Preference \cup Window \cup Journal

VARIABLES
  clock,        \* the last stamp
  journal,      \* the journal in memory; None while the client does not run
  disk,         \* the journal on disk; None before the first start
  settings,     \* whether to share, by the settings file and the settings in memory
  flush,        \* where the flush of each client is, and the answer it handles
  preferences,  \* device_observation_preferences
  receipts,     \* product_event_receipts
  claims,       \* device_observation: claims and whether they were kept as complete
  happened,     \* every event of a client that shares, reported or not
  forgotten,    \* those no record is left of when the process ended
  chosen,       \* when a user switched sharing on
  overridden,   \* when a start went by the settings file and shared, unlike its journal
  allowance     \* what is left of the bounds

observationVars ==
  <<clock, journal, disk, settings, flush, preferences, receipts, claims,
    happened, forgotten, chosen, overridden, allowance>>
events == <<happened, forgotten>>
choices == <<chosen, overridden>>
past == <<events, choices>>
server == <<preferences, receipts, claims>>

Still == [pc |-> "idle", answer |-> None]

ObservationInit ==
  /\ clock = 0
  /\ journal = [c \in Clients |-> None]
  /\ disk = [c \in Clients |-> None]
  /\ settings = [c \in Clients |-> [file |-> TRUE, memory |-> TRUE]]
  /\ flush = [c \in Clients |-> Still]
  /\ preferences = {}
  /\ receipts = {}
  /\ claims = {}
  /\ happened = {} /\ forgotten = {}
  /\ chosen = {} /\ overridden = {}
  /\ allowance \in Allowances

Took(what) == [allowance EXCEPT ![what] = @ - 1]

-----------------------------------------------------------------------------
(* The journal. *)

FreshJournal(epoch, sharing, now) ==
  [epoch |-> epoch, sharing |-> sharing, since |-> now, pending |-> TRUE, explicit |-> FALSE,
   adopt |-> TRUE, seq |-> 0, covered |-> 0, from |-> now, drops |-> 0, gap |-> FALSE,
   late |-> FALSE, claim |-> None, queue |-> {}, clean |-> FALSE]

(* late: the gap is newer than the claim that is pending. *)
Gap(j) == [j EXCEPT !.gap = TRUE, !.late = TRUE]

(* resetSharing: the journal begins anew under the next epoch. *)
ResetSharing(j, sharing, now) ==
  IF sharing = j.sharing THEN j
  ELSE [FreshJournal(j.epoch + 1, sharing, now) EXCEPT !.explicit = TRUE, !.adopt = FALSE]

(* persist; a failed write leaves the file as it was. *)
Persist(c, j, left) ==
  \/ /\ journal' = [journal EXCEPT ![c] = j]
     /\ disk' = [disk EXCEPT ![c] = j]
     /\ allowance' = left
  \/ /\ left.writes > 0
     /\ journal' = [journal EXCEPT ![c] = Gap(j)]
     /\ UNCHANGED disk
     /\ allowance' = [left EXCEPT !.writes = @ - 1]

(* onPreference: the setting in memory, then the file; the write may fail. *)
Saved(c, v) == [settings EXCEPT ![c] = [file |-> v, memory |-> v]]
Unsaved(c, v) == [settings EXCEPT ![c].memory = v]

Dropped(j, n) == IF n = 0 THEN j ELSE Gap([j EXCEPT !.drops = @ + n])

Shares(c) == journal[c] # None /\ journal[c].sharing

(* prune, of what is a week old: events before t, and a window that began before t. *)
Pruned(j, t) ==
  LET kept == {e \in j.queue : e.at >= t}
      i == Dropped([j EXCEPT !.queue = kept], Cardinality(j.queue \ kept))
  IN IF i.from < t THEN Gap([i EXCEPT !.from = t, !.claim = None]) ELSE i

Oldest(queue) == CHOOSE e \in queue : \A o \in queue : e.at <= o.at

(* appendEvent: prune keeps the newest events. *)
Appended(j, now) ==
  LET i == [j EXCEPT !.queue = @ \cup {[epoch |-> j.epoch, seq |-> j.seq, at |-> now]},
                     !.seq = @ + 1]
  IN IF Cardinality(i.queue) <= QueueLimit THEN i
     ELSE Dropped([i EXCEPT !.queue = @ \ {Oldest(@)}], 1)

(* A week may have passed: what is older than t is pruned. *)
Weeks(t) == t = 0 \/ allowance.weeks > 0
Waited(t) == IF t = 0 THEN allowance ELSE Took("weeks")

(* record.  While the service has switched telemetry off, an event leaves only a gap. *)
Record(c, enabled, t) ==
  /\ Shares(c) /\ allowance.events > 0
  /\ Weeks(t) /\ (t = 0 \/ enabled)
  /\ clock' = clock + 1
  /\ happened' = happened \cup {[client |-> c, at |-> clock + 1]}
  /\ LET j == IF enabled THEN Appended(Pruned(journal[c], t), clock + 1) ELSE Gap(journal[c])
     IN Persist(c, j, [Waited(t) EXCEPT !.events = @ - 1])
  /\ UNCHANGED <<settings, flush, server, forgotten, choices>>

(* setEnabled: a running flush is cut off.  The choice is written to the journal and then to *)
(* the settings; when the journal cannot be written, the settings page has already taken it. *)
SetEnabled(c) ==
  /\ journal[c] # None /\ allowance.choices > 0
  /\ clock' = clock + 1
  /\ flush' = [flush EXCEPT ![c] = Still]
  /\ LET v == ~journal[c].sharing
         j == ResetSharing(journal[c], v, clock + 1)
         fails == /\ allowance.writes > 0
                  /\ allowance' = [Took("choices") EXCEPT !.writes = @ - 1]
     IN /\ chosen' = IF v THEN chosen \cup {clock + 1} ELSE chosen
        /\ \/ /\ journal' = [journal EXCEPT ![c] = j] /\ disk' = [disk EXCEPT ![c] = j]
              /\ \/ settings' = Saved(c, v) /\ allowance' = Took("choices")
                 \/ settings' = Unsaved(c, v) /\ fails
           \/ /\ journal' = [journal EXCEPT ![c] = Gap(j)] /\ UNCHANGED disk
              /\ settings' \in {settings, Unsaved(c, v)} /\ fails
  /\ UNCHANGED <<server, events, overridden>>

(* Other settings are changed and written: with the choice in memory, or that of the journal *)
(* when the settings page is asked for it again.                                             *)
SaveOtherSettings(c) ==
  /\ journal[c] # None
  /\ \E v \in {settings[c].memory, journal[c].sharing} : settings' = Saved(c, v)
  /\ UNCHANGED <<clock, journal, disk, flush, server, past, allowance>>

(* resume *)
Resumed(j) ==
  LET i == [j EXCEPT !.clean = FALSE, !.pending = TRUE] IN IF j.clean THEN i ELSE Gap(i)

(* The constructor goes on with the journal i.  Where the settings file says otherwise, its    *)
(* choice takes effect like one the user just made; a file that is missing says to share.      *)
StartOn(c, file, i, left) ==
  LET r == ResetSharing(i, file, clock + 1)
      j == IF file THEN r ELSE [r EXCEPT !.queue = {}, !.claim = None]
  IN /\ \/ file = settings[c].file /\ Persist(c, j, left)
        \/ /\ file /\ ~settings[c].file /\ left.writes > 0
           /\ Persist(c, j, [left EXCEPT !.writes = @ - 1])
     /\ settings' = [settings EXCEPT ![c] = [file |-> file, memory |-> j.sharing]]
     /\ clock' = IF j.since = clock + 1 THEN clock + 1 ELSE clock
     /\ overridden' = IF file /\ ~i.sharing THEN overridden \cup {clock + 1} ELSE overridden

(* A first start; one with the journal on disk; and one that cannot read it. *)
Start(c, t) ==
  /\ journal[c] = None
  /\ \E file \in BOOLEAN :
       \/ /\ disk[c] = None /\ allowance.installs > 0 /\ t = 0
          /\ StartOn(c, file, FreshJournal(0, file, clock + 1), Took("installs"))
       \/ /\ disk[c] # None /\ Weeks(t)
          /\ StartOn(c, file, Pruned(Resumed(disk[c]), t), Waited(t))
       \/ /\ disk[c] # None /\ allowance.writes > 0 /\ t = 0
          /\ StartOn(c, file, Gap(FreshJournal(0, file, clock + 1)), Took("writes"))
  /\ UNCHANGED <<flush, server, events, chosen>>

(* The next claim of the journal will not be a complete one. *)
Doubts(j) == j.gap /\ (j.claim = None \/ j.late)

(* What the server does not have, nor the journal on disk, which knows nothing of it. *)
Forgotten(c) ==
  IF disk[c] # None /\ disk[c].clean /\ ~Doubts(disk[c])
  THEN {h \in happened : /\ h.client = c
                         /\ \A r \in receipts : r.at # h.at
                         /\ \A e \in disk[c].queue : e.at # h.at}
  ELSE {}

(* stop, while captures are open or not; or a crash, or a stop that could not write. *)
StopClient(c) ==
  /\ journal[c] # None /\ allowance.stops > 0
  /\ journal' = [journal EXCEPT ![c] = None]
  /\ \/ /\ disk' = [disk EXCEPT ![c] = [journal[c] EXCEPT !.clean = TRUE]]
        /\ UNCHANGED forgotten
     \/ disk' = [disk EXCEPT ![c] = Gap(journal[c])] /\ UNCHANGED forgotten
     \/ UNCHANGED disk /\ forgotten' = forgotten \cup Forgotten(c)
  /\ allowance' = Took("stops")
  /\ flush' = [flush EXCEPT ![c] = Still]
  /\ UNCHANGED <<clock, settings, server, happened, choices>>

-----------------------------------------------------------------------------
(* The server. *)

Top == IF preferences = {} THEN None
       ELSE CHOOSE p \in preferences : \A q \in preferences : q.epoch <= p.epoch

Before(e) == {p \in preferences : p.epoch < e}
After(e) == {p \in preferences : p.epoch > e}

(* Defective variant: an epoch is registered again with other contents. *)
AcceptsPreferenceAgain(p) ==
  /\ \A q \in Before(p.epoch) : q.since <= p.since
  /\ \A q \in After(p.epoch) : p.since <= q.since

(* preference: an epoch is never overwritten, and epochs take effect in their order. *)
AcceptsPreference(p) ==
  IF \E q \in preferences : q.epoch = p.epoch THEN p \in preferences
  ELSE /\ \A q \in Before(p.epoch) : q.since <= p.since
       /\ \A q \in After(p.epoch) : p.since <= q.since

(* events: what is accepted, by the preference on top. *)
AcceptsEvent(e) ==
  /\ Top # None /\ Top.sharing /\ e.epoch = Top.epoch /\ e.at >= Top.since
  /\ \A r \in receipts : r.at # e.at /\ ~(r.epoch = e.epoch /\ r.seq = e.seq)

(* verifiedCoverage *)
Verified(k) ==
  LET rows == {r \in receipts : r.epoch = k.epoch /\ r.seq >= k.lo /\ r.seq < k.hi}
  IN /\ k.complete /\ k.drops = 0
     /\ \E p \in preferences : p.epoch = k.epoch /\ p.sharing /\ p.since <= k.from
     /\ \A q \in After(k.epoch) : k.to <= q.since
     /\ Cardinality(rows) = k.hi - k.lo
     /\ \A r \in rows : k.from <= r.at /\ r.at <= k.to

-----------------------------------------------------------------------------
(* A flush of a client. *)

In(c, pc) == flush[c].pc = pc
Turn(c, pc, answer) == flush' = [flush EXCEPT ![c] = [pc |-> pc, answer |-> answer]]

(* The oldest events, as many as the configuration of the client allows. *)
Batches(queue) == {b \in SUBSET queue : b # {} /\ \A e \in b, o \in queue \ b : e.at <= o.at}

(* The next step of a flush whose preference is in agreement. *)
Onwards(c, j) ==
  IF ~j.sharing THEN Turn(c, "idle", None)
  ELSE IF j.queue = {} THEN Turn(c, "coverage", None)
  ELSE \E b \in Batches(j.queue) : Turn(c, "events", b)

StartFlush(c, t) ==
  /\ journal[c] # None /\ In(c, "idle")
  /\ journal[c].sharing \/ journal[c].pending
  /\ Weeks(t)
  /\ LET j == Pruned(journal[c], t) IN
       /\ Persist(c, j, Waited(t))
       /\ IF j.pending THEN Turn(c, "get", None) ELSE Onwards(c, j)
  /\ UNCHANGED <<clock, settings, server, past>>

ServeGet(c) ==
  /\ In(c, "get")
  /\ Turn(c, "got", Top)
  /\ UNCHANGED <<clock, journal, disk, settings, server, past, allowance>>

PreferenceOf(j) == [epoch |-> j.epoch, sharing |-> j.sharing, since |-> j.since]

(* Under a choice made offline, the queued events go over to the new epoch. *)
Renumbered(j, epoch) ==
  Gap([j EXCEPT !.epoch = epoch, !.claim = None,
                !.queue = {[e EXCEPT !.epoch = epoch] : e \in @}])

(* reconcile *)
Reconciled(j, p, now) ==
  CASE p = None -> [j EXCEPT !.adopt = FALSE]
    [] p = PreferenceOf(j) -> [j EXCEPT !.pending = FALSE, !.explicit = FALSE, !.adopt = FALSE]
    [] p # None /\ p # PreferenceOf(j) /\ (j.adopt \/ (~j.explicit /\ p.epoch >= j.epoch)) ->
         Gap([FreshJournal(IF p.sharing THEN p.epoch + 1 ELSE p.epoch, p.sharing, now)
                EXCEPT !.since = IF p.sharing THEN now ELSE p.since,
                       !.pending = p.sharing, !.adopt = FALSE])
    [] p # None /\ p # PreferenceOf(j) /\ ~j.adopt /\ (j.explicit \/ p.epoch < j.epoch) ->
         IF p.epoch >= j.epoch THEN Renumbered(j, p.epoch + 1) ELSE j

(* A setting that cannot be written ends the flush. *)
HandleGet(c) ==
  /\ In(c, "got")
  /\ LET j == Reconciled(journal[c], flush[c].answer, clock + 1) IN
       /\ clock' = IF j.since = clock + 1 THEN clock + 1 ELSE clock
       /\ \/ /\ settings' = Saved(c, j.sharing)
             /\ IF j.pending
                THEN /\ journal' = [journal EXCEPT ![c] = j]
                     /\ Turn(c, "post", PreferenceOf(j))
                     /\ UNCHANGED <<disk, allowance>>
                ELSE Persist(c, j, allowance) /\ Onwards(c, j)
          \/ /\ allowance.writes > 0
             /\ settings' = Unsaved(c, j.sharing)
             /\ Persist(c, j, Took("writes"))
             /\ Turn(c, "idle", None)
  /\ UNCHANGED <<server, past>>

(* Refused with 409, or answered with the preference now on top. *)
ServePost(c) ==
  /\ In(c, "post")
  /\ LET p == flush[c].answer IN
       IF AcceptsPreference(p)
       THEN /\ preferences' = preferences \cup {p}
            /\ Turn(c, "posted", IF \E q \in preferences : q.epoch > p.epoch THEN Top ELSE p)
       ELSE /\ UNCHANGED preferences
            /\ Turn(c, "posted", None)
  /\ UNCHANGED <<clock, journal, disk, settings, receipts, claims, past, allowance>>

HandlePost(c) ==
  /\ In(c, "posted")
  /\ LET p == flush[c].answer
         j == [journal[c] EXCEPT !.pending = FALSE, !.explicit = FALSE, !.adopt = FALSE]
     IN IF p # None /\ p = PreferenceOf(journal[c])
        THEN Persist(c, j, allowance) /\ Onwards(c, j)
        ELSE Persist(c, journal[c], allowance) /\ Turn(c, "idle", None)
  /\ UNCHANGED <<clock, settings, server, past>>

(* The answer is how many of the events were rejected; a repeated one is not. *)
ServeEvents(c) ==
  /\ In(c, "events")
  /\ LET batch == flush[c].answer
         taken == {e \in batch : AcceptsEvent(e)}
     IN /\ receipts' = receipts \cup taken
        /\ Turn(c, "acked", [batch |-> batch, rejected |-> Cardinality(batch \ (taken \cup receipts))])
  /\ UNCHANGED <<clock, journal, disk, settings, preferences, claims, past, allowance>>

(* acknowledgeEvents *)
Acknowledged(j, batch, rejected) ==
  LET i == [j EXCEPT !.queue = {e \in @ : \A b \in batch : b.at # e.at}]
  IN IF rejected = 0 THEN i ELSE [Dropped(i, rejected) EXCEPT !.pending = TRUE]

HandleEvents(c) ==
  /\ In(c, "acked")
  /\ LET j == Acknowledged(journal[c], flush[c].answer.batch, flush[c].answer.rejected) IN
       /\ Persist(c, j, allowance)
       /\ Turn(c, IF j.queue = {} THEN "coverage" ELSE "idle", None)
  /\ UNCHANGED <<clock, settings, server, past>>

(* prepareCoverage; a pending claim is repeated as it was. *)
Prepared(j) ==
  IF j.claim # None THEN j
  ELSE [j EXCEPT !.late = FALSE,
                 !.claim = [epoch |-> j.epoch, from |-> j.from, to |-> clock, lo |-> j.covered,
                            hi |-> j.seq, drops |-> j.drops, complete |-> ~j.gap]]

PrepareCoverage(c) ==
  /\ In(c, "coverage")
  /\ IF journal[c].sharing /\ journal[c].queue = {}
     THEN LET j == Prepared(journal[c]) IN Persist(c, j, allowance) /\ Turn(c, "claim", j.claim)
     ELSE Turn(c, "idle", None) /\ UNCHANGED <<journal, disk, allowance>>
  /\ UNCHANGED <<clock, settings, server, past>>

ServeCoverage(c) ==
  /\ In(c, "claim")
  /\ LET k == flush[c].answer IN
       claims' = IF \E o \in claims : o.client = c /\ o.claim = k THEN claims
                 ELSE claims \cup {[client |-> c, claim |-> k, complete |-> Verified(k)]}
  /\ Turn(c, "claimed", flush[c].answer)
  /\ UNCHANGED <<clock, journal, disk, settings, preferences, receipts, past, allowance>>

(* Defective variant: any gap is settled by the answer. *)
SettledAlways(j, k) ==
  [j EXCEPT !.covered = k.hi, !.from = k.to, !.drops = @ - k.drops, !.claim = None,
            !.gap = FALSE, !.late = FALSE]

(* acknowledgeCoverage *)
Settled(j, k) ==
  [j EXCEPT !.covered = k.hi, !.from = k.to, !.drops = IF @ > k.drops THEN @ - k.drops ELSE 0,
            !.claim = None, !.gap = @ /\ j.late, !.late = FALSE]

HandleCoverage(c) ==
  /\ In(c, "claimed")
  /\ LET k == flush[c].answer
         j == IF journal[c].claim = k THEN Settled(journal[c], k) ELSE journal[c]
     IN Persist(c, j, allowance)
  /\ Turn(c, "idle", None)
  /\ UNCHANGED <<clock, settings, server, past>>

(* The request or its answer is lost. *)
FailFlush(c) ==
  /\ ~In(c, "idle") /\ allowance.requests > 0
  /\ Persist(c, journal[c], Took("requests"))
  /\ Turn(c, "idle", None)
  /\ UNCHANGED <<clock, settings, server, past>>

-----------------------------------------------------------------------------
Flushes(c) ==
  \/ ServeGet(c) \/ HandleGet(c) \/ ServePost(c) \/ HandlePost(c)
  \/ ServeEvents(c) \/ HandleEvents(c) \/ PrepareCoverage(c) \/ ServeCoverage(c) \/ HandleCoverage(c)

ObservationNext ==
  \E c \in Clients :
    \/ SetEnabled(c) \/ SaveOtherSettings(c) \/ StopClient(c) \/ FailFlush(c) \/ Flushes(c)
    \/ \E t \in 0 .. clock : Start(c, t) \/ StartFlush(c, t) \/ \E b \in BOOLEAN : Record(c, b, t)

ObservationSpec == ObservationInit /\ [][ObservationNext]_observationVars

-----------------------------------------------------------------------------
(* Properties. *)

Received(o, expected) ==
  \A h \in expected : h.client = o.client /\ o.claim.from < h.at /\ h.at <= o.claim.to =>
    \E r \in receipts : r.at = h.at

(* A window the server keeps as complete is complete: every event of the client in it has a   *)
(* receipt, whatever was dropped, rejected, repeated, interrupted or could not be written,     *)
(* unless the last record of the event went with its process.                                  *)
CompleteIsComplete == \A o \in claims : o.complete => Received(o, happened \ forgotten)

(* Events lost to storage problems and restarts leave their window partial or unknown          *)
(* (docs/official-api.md:506-507).                                                             *)
LossesArePartial == \A o \in claims : o.complete => Received(o, happened)

Reopened(p, q) ==
  \E o \in preferences : /\ p.epoch < o.epoch /\ o.epoch <= q.epoch
                         /\ o.sharing /\ o.since \in chosen \cup overridden

(* Once an opt-out is registered, a later epoch shares only if somebody switched sharing on  *)
(* again, or the settings file of an installation that started said so: no installation that *)
(* is new, adopts or repeats an older choice overrides it.                                     *)
OptOutsHold ==
  \A p, q \in preferences : ~p.sharing /\ q.sharing /\ p.epoch <= q.epoch => Reopened(p, q)
=============================================================================
