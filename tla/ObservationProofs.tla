--------------------------- MODULE ObservationProofs ---------------------------
(***************************************************************************)
(* However many requests, writes and reads fail, clients stop and choices  *)
(* cross: an opt-out holds until somebody opts in again or a settings file *)
(* says so; and a window that the server keeps as complete is complete,    *)
(* but for the events whose last record went with the process.             *)
(*                                                                         *)
(* What makes the first work: an epoch is registered once, and whoever     *)
(* shares without a choice of his own took over the epoch before, which    *)
(* shared.  What makes the second work: as long as a journal has nothing   *)
(* to doubt, every event since its last claim has a receipt or waits in    *)
(* its queue, and the next claim is made when the queue is empty.          *)
(***************************************************************************)
EXTENDS Observation, FiniteSetTheorems, TLAPS

-----------------------------------------------------------------------------
(* A journal j, whose client's events happened at the times H; those at R have receipts. *)

Since(j) == IF j.claim = None THEN j.from ELSE j.claim.to
Waiting(j) == {e.at : e \in j.queue}

WindowHolds(k, H, R) == k.complete => \A t \in H : k.from < t /\ t <= k.to => t \in R

(* A claim that says it is complete is. *)
Sound(j, H, R, now) ==
  /\ j \in Journal
  /\ IsFiniteSet(j.queue)
  /\ j.late => j.gap
  /\ j.claim # None => j.claim.to <= now /\ WindowHolds(j.claim, H, R)

(* Without a doubt, every event since the last claim is reported or waits. *)
Open(j, H, R) ==
  j.sharing /\ ~Doubts(j) => \A t \in H : Since(j) < t => t \in R \cup Waiting(j)

-----------------------------------------------------------------------------
(* The journals of a client. *)

Times(c) == {h.at : h \in {x \in happened \ forgotten : x.client = c}}
Reported == {r.at : r \in receipts}

(* Whoever shares chose to, or is the first epoch, or took over the epoch before, which shared. *)
Backed(p) ==
  p.sharing => \/ p.since \in chosen \cup overridden
               \/ p.epoch = 0
               \/ \E q \in preferences : q.sharing /\ q.epoch = p.epoch - 1

(* A choice that was made here and is not registered yet is a choice. *)
Choice(j) ==
  /\ j.since <= clock
  /\ Backed(j)
  /\ j.explicit /\ j.sharing => j.since \in chosen \cup overridden

Held(c, j) == Sound(j, Times(c), Reported, clock) /\ Choice(j)
Fits(c, j) == Open(j, Times(c), Reported)

(* A file that says it is clean is only believed by the next start. *)
Journals(c) ==
  /\ journal[c] # None => Held(c, journal[c]) /\ Fits(c, journal[c])
  /\ disk[c] # None => /\ Held(c, disk[c])
                       /\ journal[c] = None /\ disk[c].clean => Fits(c, disk[c])

(* What the flush f of a client with the journal j holds. *)
Talks(c, j, f) ==
  /\ f.pc = "got" => f.answer = None \/ f.answer \in preferences
  /\ f.pc = "post" => f.answer = PreferenceOf(j)
  /\ f.pc = "events" => IsFiniteSet(f.answer)
  /\ f.pc = "acked" => /\ f.answer.rejected \in Nat
                       /\ f.answer.rejected = 0 => \A e \in f.answer.batch : e.at \in Reported
  /\ f.pc \in {"claim", "claimed"} => /\ f.answer \in Window /\ f.answer.to <= clock
                                      /\ WindowHolds(f.answer, Times(c), Reported)

Flushing(c) ==
  /\ flush[c].pc # "idle" => journal[c] # None
  /\ Talks(c, journal[c], flush[c])

-----------------------------------------------------------------------------
(* The server. *)

Traces(q, e) ==
  \/ \E p \in preferences : p.sharing /\ p.epoch = e
  \/ \E o \in preferences : /\ e < o.epoch /\ o.epoch <= q.epoch /\ o.sharing
                            /\ o.since \in chosen \cup overridden

(* An epoch is registered once, and there is a newest one; and back from an epoch that shares, *)
(* every epoch shared, down to the last choice.                                                *)
Registered ==
  /\ preferences \subseteq Preference
  /\ \A p \in preferences : p.since <= clock
  /\ \A p, q \in preferences : p.epoch = q.epoch => p = q
  /\ preferences # {} => \E p \in preferences : \A q \in preferences : q.epoch <= p.epoch
  /\ \A q \in preferences : q.sharing => \A e \in 0 .. q.epoch : Traces(q, e)

(* Nothing happens any more in a window that was claimed. *)
Claimed == CompleteIsComplete /\ \A o \in claims : o.claim \in Window /\ o.claim.to <= clock

Typed ==
  /\ clock \in Nat
  /\ journal \in [Clients -> Journal \cup {None}]
  /\ disk \in [Clients -> Journal \cup {None}]
  /\ flush = [c \in Clients |-> flush[c]]
  /\ happened \subseteq [client : Clients, at : 0 .. clock]

ObservationInv ==
  /\ Typed /\ Registered /\ Claimed
  /\ \A c \in Clients : Journals(c) /\ Flushing(c)

-----------------------------------------------------------------------------
(* Lemmas about a journal. *)

LEMMA Reports == ASSUME NEW j \in Journal
                 PROVE  /\ j.queue \subseteq Report /\ j.seq \in Nat /\ j.epoch \in Nat /\ j.from \in Nat
                        /\ j.covered \in Nat /\ j.drops \in Nat /\ j.since \in Nat
                        /\ j.claim \in Window \cup {None}
                        /\ \A e \in j.queue : e.epoch \in Nat /\ e.seq \in Nat /\ e.at \in Nat
BY DEF Journal, Report

(* What happens later does not matter to the claim, nor what is received. *)
LEMMA SoundLater ==
  ASSUME NEW j, NEW H, NEW R, NEW now \in Nat, Sound(j, H, R, now),
         NEW G \in SUBSET Nat, NEW later \in Nat, now <= later, \A t \in G : t \in H \/ t > now,
         NEW Q, R \subseteq Q
  PROVE  Sound(j, G, Q, later)
<1>1. j.claim # None => j.claim.to \in Nat /\ j.claim.to <= now
  BY Reports DEF Sound, Window
<1>2. j.claim # None => \A t \in G : t <= j.claim.to => t \in H
  <2> SUFFICES ASSUME j.claim # None, NEW t \in G, t <= j.claim.to PROVE t \in H
    OBVIOUS
  <2>1. t \in H \/ t > now
    OBVIOUS
  <2>2. CASE t > now
    <3>1. t \in Nat /\ j.claim.to \in Nat /\ j.claim.to <= now
      BY <1>1
    <3>2. QED  BY <2>2, <3>1
  <2>3. QED  BY <2>1, <2>2
<1>3. QED  BY <1>1, <1>2 DEF Sound, WindowHolds

LEMMA OpenLater ==
  ASSUME NEW j, NEW H, NEW R, Open(j, H, R), NEW G \in SUBSET H, NEW Q, R \subseteq Q
  PROVE  Open(j, G, Q)
BY DEF Open

(* j was chosen as i was. *)
AsChosen(j, i) ==
  j.epoch = i.epoch /\ j.sharing = i.sharing /\ j.since = i.since /\ (j.explicit => i.explicit)

(* j says no more than i does, when those at R have receipts. *)
Less(j, i, R) ==
  /\ AsChosen(j, i)
  /\ j \in Journal /\ IsFiniteSet(j.queue) /\ (j.late => j.gap)
  /\ j.claim = None \/ j.claim = i.claim
  /\ \/ ~j.sharing
     \/ Doubts(j)
     \/ ~Doubts(i) /\ Since(j) = Since(i) /\ Waiting(i) \subseteq Waiting(j) \cup R

LEMMA LessIsSound ==
  ASSUME NEW j, NEW i, NEW R, Less(j, i, R), NEW H, NEW now
  PROVE  /\ Sound(i, H, R, now) => Sound(j, H, R, now)
         /\ Open(i, H, R) => Open(j, H, R)
<1>1. Sound(i, H, R, now) => Sound(j, H, R, now)
  BY DEF Less, Sound
<1>2. Open(i, H, R) => Open(j, H, R)
  BY DEF Less, AsChosen, Open
<1>3. QED  BY <1>1, <1>2

LEMMA SameIsLess ==
  ASSUME NEW j \in Journal, IsFiniteSet(j.queue), j.late => j.gap, NEW R PROVE Less(j, j, R)
BY DEF Less, AsChosen

LEMMA LessAgain ==
  ASSUME NEW i, NEW j, NEW k, NEW R, Less(k, j, R), Less(j, i, R) PROVE Less(k, i, R)
<1>1. AsChosen(k, i) /\ (k.claim = None \/ k.claim = i.claim)
  BY DEF Less, AsChosen
<1>2. CASE ~k.sharing \/ Doubts(k)
  BY <1>1, <1>2 DEF Less
<1>3. CASE ~Doubts(j) /\ Since(k) = Since(j) /\ Waiting(j) \subseteq Waiting(k) \cup R /\ k.sharing
  BY <1>1, <1>3 DEF Less, AsChosen
<1>4. QED  BY <1>2, <1>3 DEF Less

LEMMA GapIsLess ==
  ASSUME NEW j \in Journal, IsFiniteSet(j.queue), NEW R
  PROVE  /\ Less(Gap(j), j, R) /\ Doubts(Gap(j)) /\ Gap(j) \in Journal /\ Gap(j) # None
         /\ Gap(j).queue = j.queue /\ PreferenceOf(Gap(j)) = PreferenceOf(j)
<1>1. PICK g : g = Gap(j)
  OBVIOUS
<1>2. /\ g \in Journal /\ g.gap /\ g.late /\ g.queue = j.queue /\ g.claim = j.claim
      /\ AsChosen(g, j)
  BY <1>1 DEF Gap, AsChosen, Journal
<1>3. Doubts(g) /\ PreferenceOf(g) = PreferenceOf(j)
  BY <1>2 DEF Doubts, AsChosen, PreferenceOf
<1>4. QED  BY <1>1, <1>2, <1>3, ObservationNoneAssumption DEF Less

(* Fewer wait: those that have receipts, or the journal doubts afterwards. *)
LEMMA LeavingIsLess ==
  ASSUME NEW j \in Journal, IsFiniteSet(j.queue), j.late => j.gap, NEW q \in SUBSET j.queue, NEW R
  PROVE  LET k == [j EXCEPT !.queue = q]
         IN /\ k \in Journal /\ IsFiniteSet(k.queue) /\ (k.late => k.gap) /\ AsChosen(k, j)
            /\ k.claim = j.claim /\ k.pending = j.pending
            /\ (\A e \in j.queue \ q : e.at \in R) => Less(k, j, R)
<1>1. PICK k : k = [j EXCEPT !.queue = q]
  OBVIOUS
<1>2. IsFiniteSet(q) /\ q \in SUBSET Report
  BY FS_Subset, Reports
<1>3. /\ k \in Journal /\ k.queue = q /\ (k.late => k.gap) /\ AsChosen(k, j)
      /\ k.claim = j.claim /\ k.pending = j.pending /\ k.gap = j.gap /\ k.late = j.late /\ k.from = j.from
  BY <1>1, <1>2 DEF AsChosen, Journal
<1>4. Since(k) = Since(j) /\ (Doubts(k) <=> Doubts(j))
  BY <1>3 DEF Since, Doubts
<1>5. ASSUME \A e \in j.queue \ q : e.at \in R PROVE Less(k, j, R)
  <2>1. Waiting(j) \subseteq Waiting(k) \cup R
    BY <1>3, <1>5 DEF Waiting
  <2>2. QED  BY <1>2, <1>3, <1>4, <2>1 DEF Less
<1>6. QED  BY <1>1, <1>2, <1>3, <1>5

LEMMA DroppedIsGap ==
  ASSUME NEW j \in Journal, IsFiniteSet(j.queue), NEW n \in Nat, n # 0
  PROVE  LET d == Dropped(j, n)
         IN /\ d \in Journal /\ IsFiniteSet(d.queue) /\ d.late /\ d.gap /\ Doubts(d)
            /\ AsChosen(d, j) /\ d.claim = j.claim /\ d.queue = j.queue
<1>1. PICK m \in Nat : m = j.drops + n
  BY Reports
<1>2. PICK i : i = [j EXCEPT !.drops = m]
  OBVIOUS
<1>3. i \in Journal /\ i.claim = j.claim /\ i.queue = j.queue /\ AsChosen(i, j)
  BY <1>2 DEF AsChosen, Journal
<1>4. PICK d : d = Gap(i)
  OBVIOUS
<1>5. /\ d \in Journal /\ d.late /\ d.gap /\ AsChosen(d, i) /\ d.claim = i.claim /\ d.queue = i.queue
  BY <1>3, <1>4 DEF Gap, AsChosen, Journal
<1>6. d = Dropped(j, n)
  BY <1>1, <1>2, <1>4 DEF Dropped
<1>7. QED  BY <1>3, <1>5, <1>6 DEF Doubts, AsChosen

LEMMA PrunedIsLess ==
  ASSUME NEW j \in Journal, IsFiniteSet(j.queue), j.late => j.gap, NEW t \in Nat, NEW R
  PROVE  Less(Pruned(j, t), j, R)
<1>1. PICK q \in SUBSET j.queue : q = {e \in j.queue : e.at >= t}
  OBVIOUS
<1>2. PICK k : k = [j EXCEPT !.queue = q]
  OBVIOUS
<1>3. PICK n \in Nat : n = Cardinality(j.queue \ q)
  BY FS_Subset, FS_CardinalityType
<1>4. PICK i : i = Dropped(k, n)
  OBVIOUS
<1>5. Pruned(j, t) = IF i.from < t THEN Gap([i EXCEPT !.from = t, !.claim = None]) ELSE i
  BY <1>1, <1>2, <1>3, <1>4 DEF Pruned
<1>6. /\ k \in Journal /\ IsFiniteSet(k.queue) /\ (k.late => k.gap) /\ AsChosen(k, j) /\ k.claim = j.claim
      /\ (\A e \in j.queue \ q : e.at \in R) => Less(k, j, R)
  BY <1>2, LeavingIsLess
<1>7. Less(i, j, R)
  <2>1. CASE n = 0
    <3>1. j.queue \ q = {}
      BY <1>3, <2>1, FS_Subset, FS_EmptySet
    <3>2. QED  BY <1>4, <1>6, <2>1, <3>1 DEF Dropped
  <2>2. CASE n # 0
    <3>1. /\ i \in Journal /\ IsFiniteSet(i.queue) /\ i.late /\ i.gap /\ Doubts(i)
          /\ AsChosen(i, k) /\ i.claim = k.claim
      BY <1>4, <1>6, <2>2, DroppedIsGap
    <3>2. QED  BY <1>6, <3>1 DEF Less, AsChosen
  <2>3. QED  BY <2>1, <2>2
<1>8. CASE i.from < t
  <2>1. PICK g : g = [i EXCEPT !.from = t, !.claim = None]
    OBVIOUS
  <2>2. g \in Journal /\ g.claim = None /\ AsChosen(g, i) /\ g.queue = i.queue
    BY <1>7, <2>1 DEF AsChosen, Less, Journal
  <2>3. PICK h : h = Gap(g)
    OBVIOUS
  <2>4. Less(h, g, R) /\ Doubts(h)
    BY <1>7, <2>2, <2>3, GapIsLess DEF Less
  <2>5. Less(h, j, R)
    BY <1>7, <2>2, <2>4 DEF Less, AsChosen
  <2>6. QED  BY <1>5, <1>8, <2>1, <2>3, <2>5
<1>9. QED  BY <1>5, <1>7, <1>8

LEMMA ResumedIsLess ==
  ASSUME NEW j \in Journal, IsFiniteSet(j.queue), j.late => j.gap, NEW R
  PROVE  /\ Less(Resumed(j), j, R)
         /\ j.clean \/ Doubts(Resumed(j))
<1>1. PICK i : i = [j EXCEPT !.clean = FALSE, !.pending = TRUE]
  OBVIOUS
<1>2. /\ i \in Journal /\ AsChosen(i, j) /\ i.claim = j.claim /\ i.queue = j.queue
      /\ i.gap = j.gap /\ i.late = j.late /\ i.from = j.from
  BY <1>1 DEF AsChosen, Journal
<1>3. Since(i) = Since(j) /\ (Doubts(i) <=> Doubts(j)) /\ Waiting(i) = Waiting(j)
  BY <1>2 DEF Since, Doubts, Waiting
<1>4. Less(i, j, R)
  BY <1>2, <1>3 DEF Less
<1>5. Less(Gap(i), i, R) /\ Doubts(Gap(i))
  BY <1>2, GapIsLess
<1>6. Resumed(j) = IF j.clean THEN i ELSE Gap(i)
  BY <1>1 DEF Resumed
<1>7. QED  BY <1>4, <1>5, <1>6, LessAgain

(* What was sent leaves the queue: without a rejection it was received. *)
LEMMA AcknowledgedIsLess ==
  ASSUME NEW j \in Journal, IsFiniteSet(j.queue), j.late => j.gap, NEW batch, NEW rejected \in Nat,
         NEW R, rejected = 0 => \A b \in batch : b.at \in R
  PROVE  Less(Acknowledged(j, batch, rejected), j, R)
<1>1. PICK q \in SUBSET j.queue : q = {e \in j.queue : \A b \in batch : b.at # e.at}
  OBVIOUS
<1>2. PICK k : k = [j EXCEPT !.queue = q]
  OBVIOUS
<1>3. /\ k \in Journal /\ IsFiniteSet(k.queue) /\ (k.late => k.gap) /\ AsChosen(k, j) /\ k.claim = j.claim
      /\ (\A e \in j.queue \ q : e.at \in R) => Less(k, j, R)
  BY <1>2, LeavingIsLess
<1>4. PICK d : d = Dropped(k, rejected)
  OBVIOUS
<1>5. Acknowledged(j, batch, rejected) = IF rejected = 0 THEN k ELSE [d EXCEPT !.pending = TRUE]
  BY <1>1, <1>2, <1>4 DEF Acknowledged
<1>6. CASE rejected = 0
  <2>1. \A e \in j.queue \ q : e.at \in R
    BY <1>1, <1>6
  <2>2. QED  BY <1>3, <1>5, <1>6, <2>1
<1>7. CASE rejected # 0
  <2>1. /\ d \in Journal /\ IsFiniteSet(d.queue) /\ d.late /\ d.gap /\ AsChosen(d, k) /\ d.claim = k.claim
    BY <1>3, <1>4, <1>7, DroppedIsGap
  <2>2. PICK m : m = [d EXCEPT !.pending = TRUE]
    OBVIOUS
  <2>3. /\ m \in Journal /\ m.queue = d.queue /\ m.late /\ m.gap /\ AsChosen(m, d) /\ m.claim = d.claim
    BY <2>1, <2>2 DEF AsChosen, Journal
  <2>4. Less(m, j, R)
    BY <1>3, <2>1, <2>3 DEF Less, AsChosen, Doubts
  <2>5. QED  BY <1>5, <1>7, <2>2, <2>4
<1>8. QED  BY <1>6, <1>7

(* A journal that begins anew. *)
LEMMA BeginningIsSound ==
  ASSUME NEW j \in Journal, j.queue = {}, j.claim = None, j.late => j.gap,
         NEW H \in SUBSET Nat, \A t \in H : t <= j.from, NEW R, NEW now
  PROVE  Sound(j, H, R, now) /\ Open(j, H, R)
<1>1. Sound(j, H, R, now)
  BY FS_EmptySet DEF Sound
<1>2. \A t \in H : ~(Since(j) < t)
  BY Reports DEF Since
<1>3. QED  BY <1>1, <1>2 DEF Open

(* An event waits under the next number; the oldest one may be dropped for it. *)
LEMMA AppendingKeeps ==
  ASSUME NEW now \in Nat, NEW j, NEW H \in SUBSET (0 .. now), NEW R, Sound(j, H, R, now)
  PROVE  LET i == Appended(j, now + 1)
         IN /\ i # None /\ AsChosen(i, j) /\ Sound(i, H \cup {now + 1}, R, now + 1)
            /\ Open(j, H, R) => Open(i, H \cup {now + 1}, R)
<1>1. j \in Journal /\ IsFiniteSet(j.queue) /\ (j.late => j.gap)
  BY DEF Sound
<1>2. PICK n \in Nat : n = j.seq + 1
  BY <1>1, Reports
<1>3. PICK later \in Nat : later = now + 1 /\ now <= later
  OBVIOUS
<1>4. PICK e \in Report : e = [epoch |-> j.epoch, seq |-> j.seq, at |-> later] /\ e.at = later
  <2>1. j.epoch \in Nat /\ j.seq \in Nat
    BY <1>1, Reports
  <2>2. [epoch |-> j.epoch, seq |-> j.seq, at |-> later] \in Report
    BY <2>1 DEF Report
  <2>3. QED  BY <2>2
<1>5. PICK k : k = [j EXCEPT !.queue = j.queue \cup {e}, !.seq = n]
  OBVIOUS
<1>6. IsFiniteSet(j.queue \cup {e}) /\ j.queue \cup {e} \in SUBSET Report
  BY <1>1, <1>4, Reports, FS_AddElement
<1>7. /\ k \in Journal /\ k.queue = j.queue \cup {e} /\ k.gap = j.gap /\ k.late = j.late
      /\ k.claim = j.claim /\ k.from = j.from /\ AsChosen(k, j)
  BY <1>1, <1>5, <1>6 DEF AsChosen, Journal
<1>8. PICK G : G = H \cup {later}
  OBVIOUS
<1>9. Sound(j, G, R, later)
  <2>1. G \in SUBSET Nat /\ \A t \in G : t \in H \/ t > now
    BY <1>3, <1>8
  <2>2. QED  BY <1>3, <2>1, SoundLater
<1>10. Sound(k, G, R, later)
  BY <1>6, <1>7, <1>9 DEF Sound
<1>11. ASSUME Open(j, H, R) PROVE Open(k, G, R)
  <2>1. Waiting(k) = Waiting(j) \cup {later}
    BY <1>4, <1>7 DEF Waiting
  <2>2. Since(k) = Since(j) /\ (Doubts(k) <=> Doubts(j)) /\ k.sharing = j.sharing
    BY <1>7 DEF Since, Doubts, AsChosen
  <2>3. QED  BY <1>8, <1>11, <2>1, <2>2 DEF Open
<1>12. PICK q \in SUBSET k.queue : q = k.queue \ {Oldest(k.queue)}
  OBVIOUS
<1>13. PICK m : m = [k EXCEPT !.queue = q]
  OBVIOUS
<1>14. m \in Journal /\ IsFiniteSet(m.queue) /\ AsChosen(m, k) /\ m.claim = k.claim
  BY <1>1, <1>6, <1>7, <1>13, LeavingIsLess
<1>15. PICK d : d = Dropped(m, 1)
  OBVIOUS
<1>16. Less(d, k, R)
  <2>1. /\ d \in Journal /\ IsFiniteSet(d.queue) /\ d.late /\ d.gap /\ Doubts(d)
        /\ AsChosen(d, m) /\ d.claim = m.claim
    BY <1>14, <1>15, DroppedIsGap
  <2>2. QED  BY <1>14, <2>1 DEF Less, AsChosen
<1>17. PICK i : i = Appended(j, now + 1)
  OBVIOUS
<1>18. i = k \/ i = d
  BY <1>2, <1>3, <1>4, <1>5, <1>12, <1>13, <1>15, <1>17 DEF Appended
<1>19. i # None /\ AsChosen(i, j) /\ Sound(i, G, R, later) /\ (Open(j, H, R) => Open(i, G, R))
  <2>1. CASE i = k
    BY <1>7, <1>10, <1>11, <2>1, ObservationNoneAssumption
  <2>2. CASE i = d
    <3>1. d \in Journal /\ AsChosen(d, j)
      BY <1>7, <1>16 DEF Less, AsChosen
    <3>2. Sound(d, G, R, later) /\ (Open(k, G, R) => Open(d, G, R))
      BY <1>10, <1>16, LessIsSound
    <3>3. QED  BY <1>11, <2>2, <3>1, <3>2, ObservationNoneAssumption
  <2>3. QED  BY <1>18, <2>1, <2>2
<1>20. QED  BY <1>3, <1>8, <1>17, <1>19

(* A journal that goes over to a new epoch has a gap. *)
LEMMA RenumberingKeeps ==
  ASSUME NEW j, NEW H, NEW R, NEW now, Sound(j, H, R, now), NEW epoch \in Nat
  PROVE  LET i == Renumbered(j, epoch)
         IN /\ i # None /\ i.epoch = epoch /\ i.sharing = j.sharing /\ i.since = j.since
            /\ i.explicit = j.explicit
            /\ Sound(i, H, R, now) /\ Open(i, H, R)
<1>1. j \in Journal /\ IsFiniteSet(j.queue)
  BY DEF Sound
<1>2. PICK q : q = {[e EXCEPT !.epoch = epoch] : e \in j.queue}
  OBVIOUS
<1>3. q \in SUBSET Report /\ IsFiniteSet(q)
  <2>1. q \in SUBSET Report
    BY <1>1, <1>2, Reports DEF Report
  <2>2. PICK f : f = [e \in j.queue |-> [e EXCEPT !.epoch = epoch]]
    OBVIOUS
  <2>3. f \in Surjection(j.queue, q)
    BY <1>2, <2>2 DEF Surjection
  <2>4. QED  BY <1>1, <2>1, <2>3, FS_Surjection
<1>4. PICK k : k = [j EXCEPT !.epoch = epoch, !.claim = None, !.queue = q]
  OBVIOUS
<1>5. PICK i : i = Gap(k)
  OBVIOUS
<1>6. k \in Journal /\ k.epoch = epoch /\ k.sharing = j.sharing /\ k.since = j.since
      /\ k.explicit = j.explicit /\ k.claim = None /\ k.queue = q
  BY <1>1, <1>3, <1>4 DEF Journal
<1>7. i \in Journal /\ i.epoch = epoch /\ i.sharing = j.sharing /\ i.since = j.since
      /\ i.explicit = j.explicit /\ i.claim = None /\ i.queue = q /\ i.gap /\ i.late
  BY <1>5, <1>6 DEF Gap, Journal
<1>8. Sound(i, H, R, now) /\ Open(i, H, R) /\ i # None
  BY <1>3, <1>7, ObservationNoneAssumption DEF Sound, Open, Doubts
<1>9. i = Renumbered(j, epoch)
  BY <1>2, <1>4, <1>5 DEF Renumbered
<1>10. QED  BY <1>7, <1>8, <1>9

(* A claim says that it is complete only if nothing waits and every event was received. *)
LEMMA PreparingKeeps ==
  ASSUME NEW j, NEW R, NEW H \in SUBSET (0 .. clock), clock \in Nat,
         Sound(j, H, R, clock), Open(j, H, R), j.sharing, j.queue = {}
  PROVE  LET i == Prepared(j)
         IN /\ i # None /\ AsChosen(i, j) /\ i.claim \in Window
            /\ Sound(i, H, R, clock) /\ Open(i, H, R)
<1>1. j \in Journal /\ IsFiniteSet(j.queue)
  BY DEF Sound
<1>2. CASE j.claim # None
  BY <1>1, <1>2, Reports, ObservationNoneAssumption DEF Prepared, AsChosen
<1>3. CASE j.claim = None
  <2>1. PICK now \in Nat : now = clock
    OBVIOUS
  <2>2. PICK w : w = [epoch |-> j.epoch, from |-> j.from, to |-> now, lo |-> j.covered,
                      hi |-> j.seq, drops |-> j.drops, complete |-> ~j.gap]
    OBVIOUS
  <2>3. PICK i : i = [j EXCEPT !.late = FALSE, !.claim = w]
    OBVIOUS
  <2>4. w \in Window /\ w.from = j.from /\ w.to = now /\ w.complete = ~j.gap /\ w # None
    <3>1. j.epoch \in Nat /\ j.from \in Nat /\ j.covered \in Nat /\ j.seq \in Nat /\ j.drops \in Nat
      BY <1>1, Reports
    <3>2. PICK complete \in BOOLEAN : complete = ~j.gap
      OBVIOUS
    <3>3. w \in Window
      BY <2>2, <3>1, <3>2 DEF Window
    <3>4. QED  BY <2>2, <3>3, ObservationNoneAssumption
  <2>5. i \in Journal /\ AsChosen(i, j) /\ i.claim = w /\ ~i.late /\ i.queue = j.queue
    BY <1>1, <2>3, <2>4 DEF AsChosen, Journal
  <2>6. WindowHolds(w, H, R)
    <3>1. w.complete => ~Doubts(j) /\ Since(j) = w.from /\ Waiting(j) = {}
      BY <1>3, <2>4 DEF Doubts, Since, Waiting
    <3>2. QED  BY <3>1 DEF WindowHolds, Open
  <2>7. Sound(i, H, R, clock)
    BY <1>1, <2>1, <2>4, <2>5, <2>6 DEF Sound
  <2>8. Open(i, H, R)
    <3>1. Since(i) = now /\ \A t \in H : ~(now < t)
      BY <2>1, <2>4, <2>5 DEF Since
    <3>2. QED  BY <3>1 DEF Open
  <2>9. i = Prepared(j) /\ i # None
    BY <1>3, <2>1, <2>2, <2>3, <2>5, ObservationNoneAssumption DEF Prepared
  <2>10. QED  BY <2>4, <2>5, <2>7, <2>8, <2>9
<1>4. QED  BY <1>2, <1>3

(* The next window begins where the claim ended, with the gap if that is newer than the claim. *)
LEMMA SettlingKeeps ==
  ASSUME NEW j, NEW R, NEW H, NEW now, Sound(j, H, R, now), Open(j, H, R), j.claim # None
  PROVE  LET i == Settled(j, j.claim)
         IN i # None /\ AsChosen(i, j) /\ Sound(i, H, R, now) /\ Open(i, H, R)
<1>1. j \in Journal /\ IsFiniteSet(j.queue)
  BY DEF Sound
<1>2. PICK k \in Window : k = j.claim
  BY <1>1, Reports
<1>3. PICK d \in Nat : d = IF j.drops > k.drops THEN j.drops - k.drops ELSE 0
  BY <1>1, Reports DEF Window
<1>4. PICK g \in BOOLEAN : g = (j.gap /\ j.late)
  OBVIOUS
<1>5. PICK i : i = [j EXCEPT !.covered = k.hi, !.from = k.to, !.drops = d, !.claim = None,
                             !.gap = g, !.late = FALSE]
  OBVIOUS
<1>6. i \in Journal /\ AsChosen(i, j) /\ i.claim = None /\ ~i.late /\ i.gap = g
      /\ i.queue = j.queue /\ i.from = k.to
  <2>1. i \in Journal
    BY <1>1, <1>2, <1>5 DEF Journal, Window
  <2>2. AsChosen(i, j) /\ i.queue = j.queue
    BY <1>1, <1>5 DEF AsChosen, Journal
  <2>3. i.claim = None /\ ~i.late /\ i.gap = g /\ i.from = k.to
    BY <1>1, <1>5 DEF Journal
  <2>4. QED  BY <2>1, <2>2, <2>3
<1>7. Sound(i, H, R, now)
  BY <1>1, <1>6 DEF Sound
<1>8. Since(i) = Since(j) /\ Waiting(i) = Waiting(j) /\ (Doubts(i) <=> Doubts(j)) /\ i.sharing = j.sharing
  BY <1>2, <1>4, <1>6 DEF Since, Waiting, Doubts, AsChosen
<1>9. Open(i, H, R)
  BY <1>8 DEF Open
<1>10. i = Settled(j, j.claim) /\ i # None
  BY <1>2, <1>3, <1>4, <1>5, <1>6, ObservationNoneAssumption DEF Settled
<1>11. QED  BY <1>6, <1>7, <1>9, <1>10

-----------------------------------------------------------------------------
(* Steps, and what they leave as it was. *)

(* What a step only adds to. *)
Later ==
  /\ clock' \in Nat /\ clock <= clock'
  /\ chosen \subseteq chosen' /\ overridden \subseteq overridden'
  /\ preferences \subseteq preferences' /\ receipts \subseteq receipts'
  /\ forgotten \subseteq forgotten'
  /\ happened' \subseteq [client : Clients, at : 0 .. clock']
  /\ \A h \in happened' \ happened : h.at > clock

(* Nothing happens to the client c, but what is forgotten. *)
Quiet(c) == \A h \in happened' \ happened : h.client # c

(* A step of the client c, or of the server for it. *)
Frame(c) == Later /\ \A b \in Clients \ {c} : Quiet(b)

LEMMA TimesLater ==
  ASSUME Typed, Later, NEW c
  PROVE  /\ Times(c)' \in SUBSET Nat /\ Reported \subseteq Reported'
         /\ \A t \in Times(c)' : t \in Times(c) \/ t > clock
         /\ Quiet(c) => Times(c)' \subseteq Times(c)
<1>1. \A h \in happened' : h.at \in Nat
  BY DEF Later
<1>2. Times(c)' \in SUBSET Nat
  BY <1>1 DEF Times
<1>3. Reported \subseteq Reported'
  BY DEF Reported, Later
<1>4. \A t \in Times(c)' : t \in Times(c) \/ t > clock
  BY DEF Times, Later
<1>5. Quiet(c) => Times(c)' \subseteq Times(c)
  BY DEF Times, Later, Quiet
<1>6. QED  BY <1>2, <1>3, <1>4, <1>5

LEMMA ChoiceStays == ASSUME Typed, Later, NEW j, j \in Journal, Choice(j) PROVE Choice(j)'
<1>1. j.since <= clock'
  BY Reports DEF Choice, Later, Typed
<1>2. Backed(j)'
  BY DEF Choice, Backed, Later
<1>3. QED  BY <1>1, <1>2 DEF Choice, Later

LEMMA HeldStays == ASSUME Typed, Later, NEW c, NEW j, Held(c, j) PROVE Held(c, j)'
<1>1. PICK H : H = Times(c)
  OBVIOUS
<1>2. PICK G : G = Times(c)'
  OBVIOUS
<1>3. PICK R : R = Reported
  OBVIOUS
<1>4. PICK Q : Q = Reported'
  OBVIOUS
<1>5. PICK now \in Nat, later \in Nat : now = clock /\ later = clock' /\ now <= later
  BY DEF Later, Typed
<1>6. G \in SUBSET Nat /\ R \subseteq Q /\ \A t \in G : t \in H \/ t > now
  BY <1>1, <1>2, <1>3, <1>4, <1>5, TimesLater
<1>7. Sound(j, H, R, now)
  BY <1>1, <1>3, <1>5 DEF Held
<1>8. Sound(j, G, Q, later)
  BY <1>5, <1>6, <1>7, SoundLater
<1>9. Choice(j)'
  BY <1>7, ChoiceStays DEF Held, Sound
<1>10. QED  BY <1>2, <1>4, <1>5, <1>8, <1>9 DEF Held

LEMMA FitsStays == ASSUME Typed, Later, NEW c, Quiet(c), NEW j, Fits(c, j) PROVE Fits(c, j)'
<1>1. PICK H : H = Times(c)
  OBVIOUS
<1>2. PICK G : G = Times(c)'
  OBVIOUS
<1>3. PICK R : R = Reported
  OBVIOUS
<1>4. PICK Q : Q = Reported'
  OBVIOUS
<1>5. G \in SUBSET H /\ R \subseteq Q
  BY <1>1, <1>2, <1>3, <1>4, TimesLater
<1>6. Open(j, H, R)
  BY <1>1, <1>3 DEF Fits
<1>7. Open(j, G, Q)
  BY <1>5, <1>6, OpenLater
<1>8. QED  BY <1>2, <1>4, <1>7 DEF Fits

LEMMA TalksStays ==
  ASSUME Typed, Later, NEW c, NEW j, NEW f, Talks(c, j, f), NEW i, PreferenceOf(i) = PreferenceOf(j)
  PROVE  Talks(c, i, f)'
<1>1. Reported \subseteq Reported' /\ \A t \in Times(c)' : t \in Times(c) \/ t > clock
  BY TimesLater
<1>2. PICK k : k = f.answer
  OBVIOUS
<1>3. k \in Window /\ k.to <= clock /\ WindowHolds(k, Times(c), Reported) =>
        k.to <= clock' /\ WindowHolds(k, Times(c), Reported)'
  <2> SUFFICES ASSUME k \in Window, k.to <= clock, WindowHolds(k, Times(c), Reported)
               PROVE  k.to <= clock' /\ WindowHolds(k, Times(c), Reported)'
    OBVIOUS
  <2>1. k.to \in Nat
    BY DEF Window
  <2>2. k.to <= clock'
    BY <2>1 DEF Typed, Later
  <2>3. \A t \in Times(c)' : t <= k.to => t \in Times(c)
    <3>1. \A t \in Times(c)' : t \in Nat
      BY TimesLater
    <3>2. QED  BY <1>1, <2>1, <3>1 DEF Typed
  <2>4. WindowHolds(k, Times(c), Reported)'
    BY <1>1, <2>3 DEF WindowHolds
  <2>5. QED  BY <2>2, <2>4
<1>4. QED  BY <1>1, <1>2, <1>3 DEF Talks, Later

LEMMA RegisteredStays == ASSUME Registered, Typed, Later, UNCHANGED preferences PROVE Registered'
<1>1. \A p \in preferences : p.since <= clock'
  BY DEF Registered, Later, Typed, Preference
<1>2. \A q, e : Traces(q, e) => Traces(q, e)'
  BY DEF Traces, Later
<1>3. QED  BY <1>1, <1>2 DEF Registered

LEMMA ClaimedStays == ASSUME Typed, Claimed, Later, UNCHANGED claims PROVE Claimed'
<1>1. \A o \in claims : o.claim \in Window /\ o.claim.to \in Nat /\ o.claim.to <= clock
  BY DEF Claimed, Window
<1>2. \A o \in claims : o.claim.to <= clock'
  BY <1>1 DEF Later, Typed
<1>3. \A h \in happened' : h.at \in Nat
  BY DEF Later
<1>4. CompleteIsComplete'
  <2>1. SUFFICES ASSUME NEW o \in claims, o.complete, NEW h \in happened' \ forgotten',
                        h.client = o.client, o.claim.from < h.at, h.at <= o.claim.to
                 PROVE  \E r \in receipts' : r.at = h.at
    BY DEF CompleteIsComplete, Received
  <2>2. h \in happened \ forgotten
    BY <1>1, <1>3, <2>1 DEF Later, Typed
  <2>3. \E r \in receipts : r.at = h.at
    BY <2>1, <2>2 DEF Claimed, CompleteIsComplete, Received
  <2>4. QED  BY <2>3 DEF Later
<1>5. QED  BY <1>1, <1>2, <1>4 DEF Claimed

LEMMA StepKeeps ==
  ASSUME ObservationInv, NEW c \in Clients, Frame(c), Registered', Claimed',
         NEW i \in Journal \cup {None}, NEW d \in Journal \cup {None}, NEW f,
         journal' = [journal EXCEPT ![c] = i], disk' = [disk EXCEPT ![c] = d],
         flush' = [flush EXCEPT ![c] = f],
         i # None => Held(c, i)' /\ Fits(c, i)',
         d # None => Held(c, d)' /\ (i = None /\ d.clean => Fits(c, d)'),
         f.pc # "idle" => i # None, Talks(c, i, f)'
  PROVE  ObservationInv'
<1>1. Typed
  BY DEF ObservationInv
<1>2. journal'[c] = i /\ disk'[c] = d /\ flush'[c] = f
  BY <1>1 DEF Typed
<1>3. Typed'
  BY <1>1 DEF Typed, Frame, Later
<1>4. Journals(c)'
  BY <1>2 DEF Journals
<1>5. Flushing(c)'
  BY <1>2 DEF Flushing
<1>6. ASSUME NEW b \in Clients \ {c} PROVE Journals(b)' /\ Flushing(b)'
  <2>1. journal'[b] = journal[b] /\ disk'[b] = disk[b] /\ flush'[b] = flush[b]
    BY <1>1 DEF Typed
  <2>2. Journals(b) /\ Flushing(b) /\ Later /\ Quiet(b)
    BY DEF ObservationInv, Frame
  <2>3. PICK j : j = journal[b]
    OBVIOUS
  <2>4. PICK e : e = disk[b]
    OBVIOUS
  <2>5. PICK g : g = flush[b]
    OBVIOUS
  <2>6. (j # None => Held(b, j)' /\ Fits(b, j)')
    BY <1>1, <2>2, <2>3, HeldStays, FitsStays DEF Journals
  <2>7. e # None => Held(b, e)' /\ (j = None /\ e.clean => Fits(b, e)')
    BY <1>1, <2>2, <2>3, <2>4, HeldStays, FitsStays DEF Journals
  <2>8. Talks(b, j, g)'
    BY <1>1, <2>2, <2>3, <2>5, TalksStays DEF Flushing
  <2>9. Journals(b)'
    BY <2>1, <2>3, <2>4, <2>6, <2>7 DEF Journals
  <2>10. Flushing(b)'
    BY <2>1, <2>2, <2>3, <2>5, <2>8 DEF Flushing
  <2>11. QED  BY <2>9, <2>10
<1>7. QED  BY <1>3, <1>4, <1>5, <1>6 DEF ObservationInv

-----------------------------------------------------------------------------
(* The steps of a client that write its journal. *)

(* The journal is j, in the file too or not; or it has a gap, and the file is as it was. *)
Writes(c, j) ==
  \/ journal' = [journal EXCEPT ![c] = j] /\ disk' = [disk EXCEPT ![c] = j]
  \/ journal' = [journal EXCEPT ![c] = j] /\ UNCHANGED disk
  \/ journal' = [journal EXCEPT ![c] = Gap(j)] /\ UNCHANGED disk

LEMMA PersistWrites == ASSUME NEW c, NEW j, NEW left, Persist(c, j, left) PROVE Writes(c, j)
BY DEF Persist, Writes

LEMMA WritingKeeps ==
  ASSUME ObservationInv, NEW c \in Clients, Frame(c), UNCHANGED server, NEW j, j # None, Writes(c, j),
         Held(c, j)', Fits(c, j)', NEW f, flush' = [flush EXCEPT ![c] = f], Talks(c, j, f)'
  PROVE  ObservationInv'
<1>1. Typed /\ Later /\ j \in Journal /\ IsFiniteSet(j.queue) /\ UNCHANGED <<preferences, claims>>
  BY DEF ObservationInv, Frame, Held, Sound, server
<1>2. Registered' /\ Claimed'
  BY <1>1, RegisteredStays, ClaimedStays DEF ObservationInv
<1>3. PICK g : g = Gap(j)
  OBVIOUS
<1>4. PICK R : R = Reported'
  OBVIOUS
<1>5. Less(g, j, R) /\ g \in Journal /\ g # None /\ PreferenceOf(g) = PreferenceOf(j)
  BY <1>1, <1>3, GapIsLess
<1>6. Held(c, g)' /\ Fits(c, g)'
  <2>1. PICK H : H = Times(c)'
    OBVIOUS
  <2>2. PICK now : now = clock'
    OBVIOUS
  <2>3. Sound(j, H, R, now) /\ Open(j, H, R) /\ Choice(j)'
    BY <1>4, <2>1, <2>2 DEF Held, Fits
  <2>4. Sound(g, H, R, now) /\ Open(g, H, R)
    BY <1>5, <2>3, LessIsSound
  <2>5. Choice(g)'
    BY <1>5, <2>3 DEF Choice, Backed, Less, AsChosen
  <2>6. QED  BY <1>4, <2>1, <2>2, <2>4, <2>5 DEF Held, Fits
<1>7. Talks(c, g, f)'
  BY <1>5 DEF Talks
<1>8. PICK e : e = disk[c]
  OBVIOUS
<1>9. e \in Journal \cup {None} /\ (e # None => Held(c, e)')
  <2>1. e # None => Held(c, e)
    BY <1>8 DEF ObservationInv, Journals
  <2>2. QED  BY <1>1, <1>8, <2>1, HeldStays DEF Typed
<1>10. disk' = disk => disk' = [disk EXCEPT ![c] = e]
  BY <1>1, <1>8 DEF Typed
<1>11. CASE journal' = [journal EXCEPT ![c] = j] /\ disk' = [disk EXCEPT ![c] = j]
  BY <1>1, <1>2, <1>11, StepKeeps
<1>12. CASE journal' = [journal EXCEPT ![c] = j] /\ UNCHANGED disk
  BY <1>1, <1>2, <1>9, <1>10, <1>12, StepKeeps
<1>13. CASE journal' = [journal EXCEPT ![c] = Gap(j)] /\ UNCHANGED disk
  BY <1>2, <1>3, <1>5, <1>6, <1>7, <1>9, <1>10, <1>13, StepKeeps
<1>14. QED  BY <1>11, <1>12, <1>13 DEF Writes

(* A flush that has no answer to handle, nor anything to send but a finite batch. *)
Unanswered(f) ==
  /\ f.pc \notin {"got", "post", "acked", "claim", "claimed"}
  /\ f.pc = "events" => IsFiniteSet(f.answer)

LEMMA RestKeeps ==
  ASSUME Typed, UNCHANGED <<clock, server, past>>, NEW c
  PROVE  /\ Frame(c) /\ Quiet(c) /\ Later
         /\ Times(c)' = Times(c) /\ Reported' = Reported
         /\ \A j : Choice(j) => Choice(j)'
         /\ UNCHANGED <<happened, forgotten, chosen, overridden, preferences, receipts, claims>>
<1>1. UNCHANGED <<happened, forgotten, chosen, overridden, preferences, receipts, claims>>
  BY DEF server, past, events, choices
<1>2. Later /\ \A b : Quiet(b)
  BY <1>1 DEF Later, Quiet, Typed
<1>3. QED  BY <1>1, <1>2 DEF Frame, Times, Reported, Choice, Backed

LEMMA Running ==
  ASSUME ObservationInv, NEW c \in Clients, NEW i, i = journal[c], i # None
  PROVE  /\ Held(c, i) /\ Fits(c, i) /\ Choice(i) /\ i \in Journal /\ IsFiniteSet(i.queue) /\ (i.late => i.gap)
         /\ Sound(i, Times(c), Reported, clock) /\ Open(i, Times(c), Reported)
         /\ Typed /\ Registered /\ Claimed /\ Talks(c, i, flush[c])
BY DEF ObservationInv, Journals, Held, Fits, Sound, Flushing

(* A step at which nothing happens, and which changes no choice. *)
LEMMA ResultKeeps ==
  ASSUME ObservationInv, NEW c \in Clients, journal[c] # None, UNCHANGED <<clock, server, past>>,
         NEW j, j # None, AsChosen(j, journal[c]), Writes(c, j),
         Sound(j, Times(c), Reported, clock), Open(j, Times(c), Reported),
         NEW f, flush' = [flush EXCEPT ![c] = f], Unanswered(f) \/ Talks(c, j, f)'
  PROVE  ObservationInv'
<1>1. Typed
  BY DEF ObservationInv
<1>2. /\ Frame(c) /\ Times(c)' = Times(c) /\ Reported' = Reported
      /\ UNCHANGED <<chosen, overridden, preferences>>
  BY <1>1, RestKeeps
<1>3. Choice(j)'
  <2>1. PICK i : i = journal[c]
    OBVIOUS
  <2>2. Choice(i)
    BY <2>1, Running
  <2>3. QED  BY <1>2, <2>1, <2>2 DEF Choice, Backed, AsChosen
<1>4. Held(c, j)' /\ Fits(c, j)'
  BY <1>2, <1>3 DEF Held, Fits
<1>5. Talks(c, j, f)'
  BY DEF Talks, Unanswered
<1>6. QED  BY <1>2, <1>4, <1>5, WritingKeeps

LEMMA LessKeeps ==
  ASSUME ObservationInv, NEW c \in Clients, journal[c] # None, UNCHANGED <<clock, server, past>>,
         NEW j, Less(j, journal[c], Reported), Writes(c, j),
         NEW f, flush' = [flush EXCEPT ![c] = f], Unanswered(f)
  PROVE  ObservationInv'
<1>1. PICK i : i = journal[c]
  OBVIOUS
<1>2. Sound(i, Times(c), Reported, clock) /\ Open(i, Times(c), Reported)
  BY <1>1, Running
<1>3. Sound(j, Times(c), Reported, clock) /\ Open(j, Times(c), Reported)
  BY <1>1, <1>2, LessIsSound
<1>4. AsChosen(j, journal[c]) /\ j # None
  BY ObservationNoneAssumption DEF Less
<1>5. QED  BY <1>3, <1>4, ResultKeeps

LEMMA OnwardTalks ==
  ASSUME NEW c, NEW j, Onwards(c, j), IsFiniteSet(j.queue)
  PROVE  \E f : flush' = [flush EXCEPT ![c] = f] /\ Unanswered(f)
<1>1. PICK pc, a : /\ Turn(c, pc, a) /\ pc \in {"idle", "events", "coverage"}
                   /\ pc = "events" => a \in SUBSET j.queue
  BY DEF Onwards, Batches
<1>2. PICK f : f = [pc |-> pc, answer |-> a]
  OBVIOUS
<1>3. f.pc = pc /\ f.answer = a /\ flush' = [flush EXCEPT ![c] = f]
  BY <1>1, <1>2 DEF Turn
<1>4. ASSUME pc = "events" PROVE IsFiniteSet(a)
  <2>1. PICK q : q = j.queue
    OBVIOUS
  <2>2. a \in SUBSET q /\ IsFiniteSet(q)
    BY <1>1, <1>4, <2>1
  <2>3. QED  BY <2>2, FS_Subset
<1>5. QED  BY <1>1, <1>3, <1>4 DEF Unanswered

LEMMA TurnTalks ==
  ASSUME NEW c, NEW pc, NEW a, Turn(c, pc, a), pc \notin {"got", "post", "events", "acked", "claim", "claimed"}
  PROVE  \E f : flush' = [flush EXCEPT ![c] = f] /\ Unanswered(f)
<1>1. PICK f : f = [pc |-> pc, answer |-> a]
  OBVIOUS
<1>2. f.pc = pc /\ flush' = [flush EXCEPT ![c] = f]
  BY <1>1 DEF Turn
<1>3. QED  BY <1>2 DEF Unanswered

LEMMA StartFlushKeeps ==
  ASSUME ObservationInv, NEW c \in Clients, NEW t \in Nat, StartFlush(c, t) PROVE ObservationInv'
<1>1. PICK i : i = journal[c]
  OBVIOUS
<1>2. i # None /\ i \in Journal /\ IsFiniteSet(i.queue) /\ (i.late => i.gap)
  BY <1>1, Running DEF StartFlush
<1>3. PICK j : j = Pruned(i, t)
  OBVIOUS
<1>4. PICK R : R = Reported
  OBVIOUS
<1>5. Less(j, i, R) /\ IsFiniteSet(j.queue)
  BY <1>2, <1>3, PrunedIsLess DEF Less
<1>6. /\ Writes(c, j) /\ UNCHANGED <<clock, server, past>>
      /\ IF j.pending THEN Turn(c, "get", None) ELSE Onwards(c, j)
  BY <1>1, <1>3, PersistWrites DEF StartFlush
<1>7. PICK f : flush' = [flush EXCEPT ![c] = f] /\ Unanswered(f)
  BY <1>5, <1>6, OnwardTalks, TurnTalks
<1>8. QED  BY <1>1, <1>2, <1>4, <1>5, <1>6, <1>7, LessKeeps

LEMMA FailFlushKeeps == ASSUME ObservationInv, NEW c \in Clients, FailFlush(c) PROVE ObservationInv'
<1>1. PICK i : i = journal[c]
  OBVIOUS
<1>2. i # None
  BY <1>1 DEF FailFlush, In, ObservationInv, Flushing
<1>3. i \in Journal /\ IsFiniteSet(i.queue) /\ (i.late => i.gap)
  BY <1>1, <1>2, Running
<1>4. PICK R : R = Reported
  OBVIOUS
<1>5. Less(i, i, R)
  BY <1>3, SameIsLess
<1>6. Writes(c, i) /\ Turn(c, "idle", None) /\ UNCHANGED <<clock, server, past>>
  BY <1>1, PersistWrites DEF FailFlush
<1>7. PICK f : flush' = [flush EXCEPT ![c] = f] /\ Unanswered(f)
  BY <1>6, TurnTalks
<1>8. QED  BY <1>1, <1>2, <1>4, <1>5, <1>6, <1>7, LessKeeps

LEMMA HandlePostKeeps == ASSUME ObservationInv, NEW c \in Clients, HandlePost(c) PROVE ObservationInv'
<1>1. PICK i : i = journal[c]
  OBVIOUS
<1>2. i # None
  BY <1>1 DEF HandlePost, In, ObservationInv, Flushing
<1>3. i \in Journal /\ IsFiniteSet(i.queue) /\ (i.late => i.gap)
  BY <1>1, <1>2, Running
<1>4. PICK R : R = Reported
  OBVIOUS
<1>5. PICK j : j = [i EXCEPT !.pending = FALSE, !.explicit = FALSE, !.adopt = FALSE]
  OBVIOUS
<1>6. /\ j \in Journal /\ AsChosen(j, i) /\ j.queue = i.queue /\ j.claim = i.claim
      /\ j.gap = i.gap /\ j.late = i.late /\ j.from = i.from
  BY <1>3, <1>5 DEF AsChosen, Journal
<1>7. Less(j, i, R)
  <2>1. Since(j) = Since(i) /\ Waiting(j) = Waiting(i) /\ (Doubts(j) <=> Doubts(i))
    BY <1>6 DEF Since, Waiting, Doubts
  <2>2. QED  BY <1>3, <1>6, <2>1 DEF Less
<1>8. UNCHANGED <<clock, server, past>>
  BY DEF HandlePost
<1>9. CASE Persist(c, j, allowance) /\ Onwards(c, j)
  <2>1. PICK f : flush' = [flush EXCEPT ![c] = f] /\ Unanswered(f)
    BY <1>3, <1>6, <1>9, OnwardTalks
  <2>2. Writes(c, j)
    BY <1>9, PersistWrites
  <2>3. QED  BY <1>1, <1>2, <1>4, <1>7, <1>8, <2>1, <2>2, LessKeeps
<1>10. CASE Persist(c, i, allowance) /\ Turn(c, "idle", None)
  <2>1. PICK f : flush' = [flush EXCEPT ![c] = f] /\ Unanswered(f)
    BY <1>10, TurnTalks
  <2>2. Writes(c, i) /\ Less(i, i, R)
    BY <1>3, <1>10, PersistWrites, SameIsLess
  <2>3. QED  BY <1>1, <1>2, <1>4, <1>8, <2>1, <2>2, LessKeeps
<1>11. QED  BY <1>1, <1>5, <1>9, <1>10 DEF HandlePost

LEMMA HandleEventsKeeps == ASSUME ObservationInv, NEW c \in Clients, HandleEvents(c) PROVE ObservationInv'
<1>1. PICK i : i = journal[c]
  OBVIOUS
<1>2. i # None /\ flush[c].pc = "acked"
  BY <1>1 DEF HandleEvents, In, ObservationInv, Flushing
<1>3. i \in Journal /\ IsFiniteSet(i.queue) /\ (i.late => i.gap) /\ Talks(c, i, flush[c])
  BY <1>1, <1>2, Running
<1>4. PICK R : R = Reported
  OBVIOUS
<1>5. PICK batch, rejected : batch = flush[c].answer.batch /\ rejected = flush[c].answer.rejected
  OBVIOUS
<1>6. rejected \in Nat /\ (rejected = 0 => \A b \in batch : b.at \in R)
  BY <1>2, <1>3, <1>4, <1>5 DEF Talks
<1>7. PICK j : j = Acknowledged(i, batch, rejected)
  OBVIOUS
<1>8. Less(j, i, R)
  BY <1>3, <1>6, <1>7, AcknowledgedIsLess
<1>9. PICK pc \in {"coverage", "idle"} : pc = IF j.queue = {} THEN "coverage" ELSE "idle"
  OBVIOUS
<1>10. Writes(c, j) /\ Turn(c, pc, None) /\ UNCHANGED <<clock, server, past>>
  BY <1>1, <1>5, <1>7, <1>9, PersistWrites DEF HandleEvents
<1>11. PICK f : flush' = [flush EXCEPT ![c] = f] /\ Unanswered(f)
  BY <1>10, TurnTalks
<1>12. QED  BY <1>1, <1>2, <1>4, <1>8, <1>10, <1>11, LessKeeps

LEMMA PrepareCoverageKeeps == ASSUME ObservationInv, NEW c \in Clients, PrepareCoverage(c) PROVE ObservationInv'
<1>1. PICK i : i = journal[c]
  OBVIOUS
<1>2. i # None /\ UNCHANGED <<clock, server, past>>
  BY <1>1 DEF PrepareCoverage, In, ObservationInv, Flushing
<1>3. /\ i \in Journal /\ IsFiniteSet(i.queue) /\ (i.late => i.gap) /\ Typed
      /\ Sound(i, Times(c), Reported, clock) /\ Open(i, Times(c), Reported)
  BY <1>1, <1>2, Running
<1>4. CASE i.sharing /\ i.queue = {}
  <2>1. PICK j : j = Prepared(i)
    OBVIOUS
  <2>2. PICK H : H = Times(c)
    OBVIOUS
  <2>3. PICK R : R = Reported
    OBVIOUS
  <2>4. clock \in Nat /\ H \in SUBSET (0 .. clock)
    BY <1>3, <2>2 DEF Typed, Times
  <2>5. j # None /\ AsChosen(j, i) /\ j.claim \in Window /\ Sound(j, H, R, clock) /\ Open(j, H, R)
    BY <1>3, <1>4, <2>1, <2>2, <2>3, <2>4, PreparingKeeps
  <2>6. Writes(c, j) /\ Turn(c, "claim", j.claim)
    BY <1>1, <1>4, <2>1, PersistWrites DEF PrepareCoverage
  <2>7. PICK f : f = [pc |-> "claim", answer |-> j.claim]
    OBVIOUS
  <2>8. flush' = [flush EXCEPT ![c] = f] /\ f.pc = "claim" /\ f.answer = j.claim
    BY <2>6, <2>7 DEF Turn
  <2>9. j.claim # None
    BY <2>5, ObservationNoneAssumption
  <2>10. Talks(c, j, f)'
    <3>1. Times(c)' = H /\ Reported' = R /\ UNCHANGED clock
      BY <1>2, <1>3, <2>2, <2>3, RestKeeps
    <3>2. j.claim.to <= clock' /\ WindowHolds(j.claim, H, R)
      BY <2>5, <2>9, <3>1 DEF Sound
    <3>3. QED  BY <2>5, <2>8, <3>1, <3>2 DEF Talks
  <2>11. QED  BY <1>1, <1>2, <2>2, <2>3, <2>5, <2>6, <2>8, <2>10, ResultKeeps
<1>5. CASE ~(i.sharing /\ i.queue = {})
  <2>1. Turn(c, "idle", None) /\ UNCHANGED <<journal, disk>>
    BY <1>1, <1>5 DEF PrepareCoverage
  <2>2. PICK f : flush' = [flush EXCEPT ![c] = f] /\ Unanswered(f)
    BY <2>1, TurnTalks
  <2>3. PICK R : R = Reported
    OBVIOUS
  <2>4. Less(i, i, R) /\ Writes(c, i)
    BY <1>1, <1>3, <2>1, SameIsLess DEF Writes, Typed
  <2>5. QED  BY <1>1, <1>2, <2>2, <2>3, <2>4, LessKeeps
<1>6. QED  BY <1>4, <1>5

LEMMA HandleCoverageKeeps == ASSUME ObservationInv, NEW c \in Clients, HandleCoverage(c) PROVE ObservationInv'
<1>1. PICK i : i = journal[c]
  OBVIOUS
<1>2. i # None /\ UNCHANGED <<clock, server, past>> /\ Talks(c, i, flush[c]) /\ flush[c].pc = "claimed"
  BY <1>1 DEF HandleCoverage, In, ObservationInv, Flushing
<1>3. Sound(i, Times(c), Reported, clock) /\ Open(i, Times(c), Reported)
  BY <1>1, <1>2, Running
<1>4. PICK k : k = flush[c].answer
  OBVIOUS
<1>5. PICK j : j = IF i.claim = k THEN Settled(i, k) ELSE i
  OBVIOUS
<1>6. k # None
  BY <1>2, <1>4, ObservationNoneAssumption DEF Talks
<1>7. j # None /\ AsChosen(j, i) /\ Sound(j, Times(c), Reported, clock) /\ Open(j, Times(c), Reported)
  <2>1. CASE i.claim = k
    BY <1>3, <1>5, <1>6, <2>1, SettlingKeeps
  <2>2. CASE i.claim # k
    BY <1>2, <1>3, <1>5, <2>2 DEF AsChosen
  <2>3. QED  BY <2>1, <2>2
<1>8. Writes(c, j) /\ Turn(c, "idle", None)
  BY <1>1, <1>4, <1>5, PersistWrites DEF HandleCoverage
<1>9. PICK f : flush' = [flush EXCEPT ![c] = f] /\ Unanswered(f)
  BY <1>8, TurnTalks
<1>10. QED  BY <1>1, <1>2, <1>7, <1>8, <1>9, ResultKeeps

LEMMA RecordKeeps ==
  ASSUME ObservationInv, NEW c \in Clients, NEW enabled \in BOOLEAN, NEW t \in Nat, Record(c, enabled, t)
  PROVE  ObservationInv'
<1>1. PICK i : i = journal[c]
  OBVIOUS
<1>2. /\ i # None /\ i \in Journal /\ IsFiniteSet(i.queue) /\ (i.late => i.gap) /\ Typed /\ Choice(i)
      /\ Talks(c, i, flush[c])
  BY <1>1, Running DEF Record, Shares
<1>3. PICK H : H = Times(c)
  OBVIOUS
<1>4. PICK R : R = Reported
  OBVIOUS
<1>5. PICK now \in Nat : now = clock
  BY <1>2 DEF Typed
<1>6. PICK later \in Nat : later = now + 1 /\ now <= later
  OBVIOUS
<1>7. Sound(i, H, R, now) /\ Open(i, H, R)
  BY <1>1, <1>2, <1>3, <1>4, <1>5, Running
<1>8. PICK new : new = [client |-> c, at |-> later]
  OBVIOUS
<1>9. /\ new.client = c /\ new.at = later /\ clock' = later /\ happened' = happened \cup {new}
      /\ UNCHANGED <<flush, server, forgotten, choices>>
  BY <1>5, <1>6, <1>8 DEF Record
<1>10. Frame(c) /\ Later
  <2>1. happened \subseteq [client : Clients, at : 0 .. later] /\ new \in [client : Clients, at : 0 .. later]
    BY <1>2, <1>5, <1>6, <1>8 DEF Typed
  <2>2. QED  BY <1>5, <1>6, <1>9, <2>1 DEF Frame, Later, Quiet, server, choices
<1>11. PICK G : G = Times(c)'
  OBVIOUS
<1>12. G \in SUBSET (H \cup {later}) /\ Reported' = R /\ H \in SUBSET (0 .. now)
  BY <1>2, <1>3, <1>4, <1>5, <1>9, <1>11 DEF Times, Reported, server, Typed
<1>13. PICK j : j = IF enabled THEN Appended(Pruned(i, t), later) ELSE Gap(i)
  OBVIOUS
<1>14. j # None /\ AsChosen(j, i) /\ Sound(j, H \cup {later}, R, later) /\ Open(j, H \cup {later}, R)
  <2>1. CASE enabled
    <3>1. PICK p : p = Pruned(i, t)
      OBVIOUS
    <3>2. Less(p, i, R)
      BY <1>2, <3>1, PrunedIsLess
    <3>3. Sound(p, H, R, now) /\ Open(p, H, R)
      BY <1>7, <3>2, LessIsSound
    <3>4. PICK a : a = Appended(p, now + 1)
      OBVIOUS
    <3>5. a # None /\ AsChosen(a, p) /\ Sound(a, H \cup {now + 1}, R, now + 1) /\ Open(a, H \cup {now + 1}, R)
      BY <1>12, <3>3, <3>4, AppendingKeeps
    <3>6. a = j
      BY <1>6, <1>13, <2>1, <3>1, <3>4
    <3>7. QED  BY <1>6, <3>2, <3>5, <3>6 DEF Less, AsChosen
  <2>2. CASE ~enabled
    <3>1. Less(j, i, R) /\ Doubts(j) /\ j # None
      BY <1>2, <1>13, <2>2, GapIsLess
    <3>2. H \cup {later} \in SUBSET Nat /\ \A s \in H \cup {later} : s \in H \/ s > now
      BY <1>6, <1>12
    <3>3. Sound(i, H \cup {later}, R, later)
      BY <1>6, <1>7, <3>2, SoundLater
    <3>4. Sound(j, H \cup {later}, R, later)
      BY <3>1, <3>3, LessIsSound
    <3>5. QED  BY <3>1, <3>4 DEF Less, Open
  <2>3. QED  BY <2>1, <2>2
<1>15. Held(c, j)' /\ Fits(c, j)'
  <2>1. Choice(j)'
    <3>1. Choice(i)'
      BY <1>2, <1>10, ChoiceStays
    <3>2. QED  BY <1>14, <3>1 DEF Choice, Backed, AsChosen
  <2>2. Sound(j, G, R, later) /\ Open(j, G, R)
    <3>1. \A s \in G : s \in H \cup {later}
      BY <1>12
    <3>2. Open(j, G, R)
      BY <1>14, <3>1 DEF Open
    <3>3. Sound(j, G, R, later)
      BY <1>14, <3>1 DEF Sound, WindowHolds
    <3>4. QED  BY <3>2, <3>3
  <2>3. QED  BY <1>9, <1>11, <1>12, <2>1, <2>2 DEF Held, Fits
<1>16. Writes(c, j)
  BY <1>1, <1>5, <1>6, <1>13, PersistWrites DEF Record
<1>17. PICK f : f = flush[c]
  OBVIOUS
<1>18. flush' = [flush EXCEPT ![c] = f]
  BY <1>2, <1>9, <1>17 DEF Typed
<1>19. Talks(c, j, f)'
  <2>1. PreferenceOf(j) = PreferenceOf(i) /\ Talks(c, i, f)
    BY <1>2, <1>14, <1>17 DEF AsChosen, PreferenceOf
  <2>2. QED  BY <1>2, <1>10, <2>1, TalksStays
<1>20. UNCHANGED server
  BY <1>9
<1>21. QED  BY <1>10, <1>14, <1>15, <1>16, <1>18, <1>19, <1>20, WritingKeeps

-----------------------------------------------------------------------------
(* The steps that begin a journal anew, start or stop. *)

(* The choice that is made now; whoever shares by it chose to, or the settings file said so. *)
LEMMA BeginningKeeps ==
  ASSUME ObservationInv, NEW c \in Clients, Frame(c), Quiet(c), UNCHANGED server,
         NEW j \in Journal, Writes(c, j), j.queue = {}, j.claim = None, j.late => j.gap,
         clock' <= j.from, Choice(j)',
         NEW f, flush' = [flush EXCEPT ![c] = f], Talks(c, j, f)'
  PROVE  ObservationInv'
<1>1. PICK G : G = Times(c)'
  OBVIOUS
<1>2. PICK Q : Q = Reported'
  OBVIOUS
<1>3. PICK later : later = clock'
  OBVIOUS
<1>4. G \in SUBSET Nat /\ \A t \in G : t <= j.from
  <2>1. \A h \in happened' : h.at \in 0 .. later /\ later \in Nat /\ later <= j.from /\ j.from \in Nat
    BY <1>3, Reports DEF Frame, Later
  <2>2. \A t \in G : t \in 0 .. later /\ later \in Nat /\ later <= j.from /\ j.from \in Nat
    BY <1>1, <2>1 DEF Times
  <2>3. QED  BY <2>2
<1>5. Sound(j, G, Q, later) /\ Open(j, G, Q)
  BY <1>4, BeginningIsSound
<1>6. Held(c, j)' /\ Fits(c, j)'
  BY <1>1, <1>2, <1>3, <1>5 DEF Held, Fits
<1>7. j # None
  BY ObservationNoneAssumption
<1>8. QED  BY <1>6, <1>7, WritingKeeps

LEMMA Resetting ==
  ASSUME NEW i \in Journal, NEW share \in BOOLEAN, share # i.sharing, NEW now \in Nat
  PROVE  LET j == ResetSharing(i, share, now)
         IN /\ j \in Journal /\ j.queue = {} /\ j.claim = None /\ ~j.late /\ j.from = now /\ j.since = now
            /\ j.sharing = share
<1>1. PICK n \in Nat : n = i.epoch + 1
  BY Reports
<1>2. PICK j : j = [FreshJournal(n, share, now) EXCEPT !.explicit = TRUE, !.adopt = FALSE]
  OBVIOUS
<1>3. /\ j \in Journal /\ j.queue = {} /\ j.claim = None /\ ~j.late /\ j.from = now /\ j.since = now
      /\ j.sharing = share
  BY <1>2 DEF FreshJournal, Journal
<1>4. j = ResetSharing(i, share, now)
  BY <1>1, <1>2 DEF ResetSharing
<1>5. QED  BY <1>3, <1>4

LEMMA SetEnabledKeeps == ASSUME ObservationInv, NEW c \in Clients, SetEnabled(c) PROVE ObservationInv'
<1>1. PICK i : i = journal[c]
  OBVIOUS
<1>2. i \in Journal /\ Typed
  BY <1>1, Running DEF SetEnabled
<1>3. PICK share \in BOOLEAN : share = ~i.sharing
  OBVIOUS
<1>4. PICK now \in Nat : now = clock + 1
  BY <1>2 DEF Typed
<1>5. PICK j : j = ResetSharing(i, share, now)
  OBVIOUS
<1>6. /\ j \in Journal /\ j.queue = {} /\ j.claim = None /\ ~j.late /\ j.from = now /\ j.since = now
      /\ j.sharing = share
  <2>1. i.sharing \in BOOLEAN
    BY <1>2 DEF Journal
  <2>2. share # i.sharing
    BY <1>3, <2>1
  <2>3. QED  BY <1>2, <1>5, <2>2, Resetting
<1>7. PICK f : f = Still
  OBVIOUS
<1>8. /\ clock' = now /\ flush' = [flush EXCEPT ![c] = f]
      /\ chosen' = (IF share THEN chosen \cup {now} ELSE chosen)
      /\ UNCHANGED <<server, events, overridden>>
  BY <1>1, <1>3, <1>4, <1>7 DEF SetEnabled
<1>9. Writes(c, j)
  BY <1>1, <1>3, <1>4, <1>5 DEF SetEnabled, Writes
<1>10. Frame(c) /\ Quiet(c)
  BY <1>2, <1>4, <1>8 DEF Frame, Later, Quiet, Typed, server, events
<1>11. Choice(j)'
  BY <1>3, <1>4, <1>6, <1>8 DEF Choice, Backed
<1>12. Talks(c, j, f)'
  BY <1>7 DEF Talks, Still
<1>13. clock' <= j.from
  BY <1>4, <1>6, <1>8
<1>14. UNCHANGED server
  BY <1>8
<1>15. QED  BY <1>6, <1>8, <1>9, <1>10, <1>11, <1>12, <1>13, <1>14, BeginningKeeps

LEMMA SaveSettingsKeeps == ASSUME ObservationInv, NEW c \in Clients, SaveOtherSettings(c) PROVE ObservationInv'
<1>1. PICK i : i = journal[c]
  OBVIOUS
<1>2. /\ i # None /\ UNCHANGED <<journal, disk, flush>> /\ UNCHANGED <<clock, server, past>>
  BY <1>1 DEF SaveOtherSettings
<1>3. /\ Sound(i, Times(c), Reported, clock) /\ Open(i, Times(c), Reported) /\ Typed
      /\ Talks(c, i, flush[c])
  BY <1>1, <1>2, Running
<1>4. PICK f : f = flush[c]
  OBVIOUS
<1>5. flush' = [flush EXCEPT ![c] = f]
  BY <1>2, <1>3, <1>4 DEF Typed
<1>6. Talks(c, i, f)'
  <2>1. Later
    BY <1>2, <1>3, RestKeeps
  <2>2. QED  BY <1>3, <1>4, <2>1, TalksStays
<1>7. Writes(c, i) /\ AsChosen(i, i)
  BY <1>1, <1>2, <1>3 DEF Writes, Typed, AsChosen
<1>8. QED  BY <1>1, <1>2, <1>3, <1>5, <1>6, <1>7, ResultKeeps

LEMMA FreshIsJournal ==
  ASSUME NEW share \in BOOLEAN, NEW now \in Nat, NEW i, i \in {FreshJournal(0, share, now), Gap(FreshJournal(0, share, now))}
  PROVE  /\ i \in Journal /\ i.queue = {} /\ i.claim = None /\ (i.late => i.gap) /\ i.from = now /\ i.since = now
         /\ i.sharing = share /\ i.epoch = 0 /\ ~i.explicit
<1>1. PICK k : k = FreshJournal(0, share, now)
  OBVIOUS
<1>2. /\ k \in Journal /\ k.queue = {} /\ k.claim = None /\ (k.late => k.gap) /\ k.from = now /\ k.since = now
      /\ k.sharing = share /\ k.epoch = 0 /\ ~k.explicit
  BY <1>1 DEF FreshJournal, Journal
<1>3. PICK g : g = Gap(k)
  OBVIOUS
<1>4. /\ g \in Journal /\ g.queue = {} /\ g.claim = None /\ (g.late => g.gap) /\ g.from = now /\ g.since = now
      /\ g.sharing = share /\ g.epoch = 0 /\ ~g.explicit
  BY <1>2, <1>3 DEF Gap, Journal
<1>5. i = k \/ i = g
  BY <1>1, <1>3
<1>6. QED  BY <1>2, <1>4, <1>5

(* Whoever does not share keeps nothing that waits, nor a claim. *)
Quietened(i, file) == IF file THEN i ELSE [i EXCEPT !.queue = {}, !.claim = None]

LEMMA QuieteningKeeps ==
  ASSUME NEW i \in Journal, NEW file \in BOOLEAN, i.sharing = file
  PROVE  LET j == Quietened(i, file)
         IN /\ j \in Journal /\ AsChosen(j, i)
            /\ j.from = i.from /\ j.late = i.late /\ j.gap = i.gap
            /\ j.queue = i.queue \/ j.queue = {}
            /\ j.claim = i.claim \/ j.claim = None
            /\ ~j.sharing \/ j = i
<1>1. PICK k : k = [i EXCEPT !.queue = {}, !.claim = None]
  OBVIOUS
<1>2. /\ k \in Journal /\ AsChosen(k, i) /\ k.from = i.from /\ k.late = i.late /\ k.gap = i.gap
      /\ k.queue = {} /\ k.claim = None /\ k.sharing = i.sharing
  BY <1>1 DEF AsChosen, Journal
<1>3. AsChosen(i, i)
  BY DEF AsChosen
<1>4. QED  BY <1>1, <1>2, <1>3 DEF Quietened

LEMMA StartKeeps == ASSUME ObservationInv, NEW c \in Clients, NEW t \in Nat, Start(c, t) PROVE ObservationInv'
<1>1. Typed /\ journal[c] = None /\ flush[c].pc = "idle" /\ UNCHANGED <<flush, server, events, chosen>>
  BY DEF ObservationInv, Flushing, Start
<1>2. PICK now \in Nat : now = clock + 1
  BY <1>1 DEF Typed
<1>3. PICK d : d = disk[c]
  OBVIOUS
<1>4. PICK file \in BOOLEAN : \E i, left :
        /\ StartOn(c, file, i, left)
        /\ \/ i \in {FreshJournal(0, file, now), Gap(FreshJournal(0, file, now))}
           \/ d # None /\ i = Pruned(Resumed(d), t)
  BY <1>2, <1>3 DEF Start
<1>5. PICK i, left :
        /\ StartOn(c, file, i, left)
        /\ \/ i \in {FreshJournal(0, file, now), Gap(FreshJournal(0, file, now))}
           \/ d # None /\ i = Pruned(Resumed(d), t)
  BY <1>4
<1>6. PICK r : r = ResetSharing(i, file, now)
  OBVIOUS
<1>7. PICK j : j = Quietened(r, file)
  OBVIOUS
<1>8. /\ Writes(c, j)
      /\ clock' = (IF j.since = now THEN now ELSE clock)
      /\ overridden' = (IF file /\ ~i.sharing THEN overridden \cup {now} ELSE overridden)
  BY <1>5, <1>2, <1>6, <1>7, PersistWrites DEF StartOn, Quietened
<1>9. Frame(c) /\ Quiet(c) /\ UNCHANGED server
  BY <1>1, <1>2, <1>8 DEF Frame, Later, Quiet, Typed, server, events
<1>10. PICK f : f = flush[c]
  OBVIOUS
<1>11. flush' = [flush EXCEPT ![c] = f] /\ Talks(c, j, f)'
  BY <1>1, <1>10 DEF Typed, Talks
<1>12. ASSUME r \in Journal, r.queue = {}, r.claim = None, r.late => r.gap, r.from = now, r.since = now,
              r.sharing = file, (r.epoch = 0 /\ ~r.explicit) \/ (file => now \in overridden')
       PROVE  ObservationInv'
  <2>1. /\ j \in Journal /\ j.queue = {} /\ j.claim = None /\ (j.late => j.gap) /\ j.from = now /\ AsChosen(j, r)
    BY <1>7, <1>12, QuieteningKeeps
  <2>2. j.since = now /\ j.sharing = file /\ j.epoch = r.epoch /\ (j.explicit => r.explicit)
    BY <1>12, <2>1 DEF AsChosen
  <2>3. clock' = now /\ clock' <= j.from
    BY <1>8, <2>1, <2>2
  <2>4. Choice(j)'
    BY <1>12, <2>2, <2>3 DEF Choice, Backed
  <2>5. QED  BY <1>8, <1>9, <1>11, <2>1, <2>3, <2>4, BeginningKeeps
<1>13. CASE i \in {FreshJournal(0, file, now), Gap(FreshJournal(0, file, now))}
  <2>1. /\ i \in Journal /\ i.queue = {} /\ i.claim = None /\ (i.late => i.gap) /\ i.from = now /\ i.since = now
        /\ i.sharing = file /\ i.epoch = 0 /\ ~i.explicit
    BY <1>13, FreshIsJournal
  <2>2. r = i
    BY <1>6, <2>1 DEF ResetSharing
  <2>3. QED  BY <1>12, <2>1, <2>2
<1>14. CASE d # None /\ i = Pruned(Resumed(d), t)
  <2>1. Held(c, d) /\ (d.clean => Fits(c, d))
    BY <1>1, <1>3, <1>14 DEF ObservationInv, Journals
  <2>2. PICK H : H = Times(c)
    OBVIOUS
  <2>3. PICK R : R = Reported
    OBVIOUS
  <2>4. PICK m : m = Resumed(d)
    OBVIOUS
  <2>5. Sound(d, H, R, clock) /\ (d.clean => Open(d, H, R)) /\ Choice(d)
    BY <2>1, <2>2, <2>3 DEF Held, Fits
  <2>6. Less(m, d, R) /\ (d.clean \/ Doubts(m))
    BY <2>4, <2>5, ResumedIsLess DEF Sound
  <2>7. Less(i, m, R)
    BY <1>14, <2>4, <2>6, PrunedIsLess DEF Less
  <2>8. Sound(m, H, R, clock) /\ Open(m, H, R)
    BY <2>5, <2>6, LessIsSound DEF Open
  <2>9. Sound(i, H, R, clock) /\ Open(i, H, R)
    BY <2>7, <2>8, LessIsSound
  <2>10. i \in Journal /\ AsChosen(i, d) /\ d \in Journal
    BY <2>5, <2>6, <2>7 DEF Less, AsChosen, Sound
  <2>11. CASE file # i.sharing
    <3>1. /\ r \in Journal /\ r.queue = {} /\ r.claim = None /\ ~r.late /\ r.from = now /\ r.since = now
          /\ r.sharing = file
      BY <1>6, <2>10, <2>11, Resetting
    <3>2. file => now \in overridden'
      BY <1>8, <2>11
    <3>3. QED  BY <1>12, <3>1, <3>2
  <2>12. CASE file = i.sharing
    <3>1. r = i
      BY <1>6, <2>12 DEF ResetSharing
    <3>2. /\ j \in Journal /\ AsChosen(j, i) /\ j.late = i.late /\ j.gap = i.gap
          /\ j.queue = i.queue \/ j.queue = {}
          /\ j.claim = i.claim \/ j.claim = None
          /\ ~j.sharing \/ j = i
      BY <1>7, <2>10, <2>12, <3>1, QuieteningKeeps
    <3>3. Sound(j, H, R, clock) /\ Open(j, H, R) /\ j # None
      BY <2>9, <3>2, FS_EmptySet, ObservationNoneAssumption DEF Sound, Open
    <3>4. Choice(j)
      BY <2>5, <2>10, <3>2 DEF Choice, Backed, AsChosen
    <3>5. Held(c, j) /\ Fits(c, j)
      BY <2>2, <2>3, <3>3, <3>4 DEF Held, Fits
    <3>6. Held(c, j)' /\ Fits(c, j)'
      BY <1>1, <1>9, <3>5, HeldStays, FitsStays DEF Frame
    <3>7. QED  BY <1>8, <1>9, <1>11, <3>3, <3>6, WritingKeeps
  <2>13. QED  BY <2>11, <2>12
<1>15. QED  BY <1>5, <1>13, <1>14

(* What a journal on disk that is clean does not know of is forgotten when the process ends. *)
LEMMA ForgettingFits ==
  ASSUME NEW c, NEW d, d = disk[c], d # None, d.clean, forgotten' = forgotten \cup Forgotten(c),
         UNCHANGED <<happened, receipts>>
  PROVE  Fits(c, d)'
<1>1. CASE Doubts(d)
  BY <1>1 DEF Fits, Open
<1>2. CASE ~Doubts(d)
  <2>1. Forgotten(c) = {h \in happened : /\ h.client = c
                                         /\ \A r \in receipts : r.at # h.at
                                         /\ \A e \in d.queue : e.at # h.at}
    BY <1>2 DEF Forgotten
  <2>2. \A t \in Times(c)' : t \in Reported' \cup Waiting(d)
    BY <2>1 DEF Times, Reported, Waiting
  <2>3. QED  BY <2>2 DEF Fits, Open
<1>3. QED  BY <1>1, <1>2

LEMMA StopKeeps == ASSUME ObservationInv, NEW c \in Clients, StopClient(c) PROVE ObservationInv'
<1>1. PICK i : i = journal[c]
  OBVIOUS
<1>2. /\ i # None /\ i \in Journal /\ IsFiniteSet(i.queue) /\ (i.late => i.gap) /\ Typed
      /\ Held(c, i) /\ Fits(c, i)
  BY <1>1, Running DEF StopClient
<1>3. PICK f : f = Still
  OBVIOUS
<1>4. PICK n : n = None
  OBVIOUS
<1>5. /\ journal' = [journal EXCEPT ![c] = n] /\ flush' = [flush EXCEPT ![c] = f]
      /\ UNCHANGED <<clock, server, happened, choices>>
  BY <1>3, <1>4 DEF StopClient
<1>6. PICK d : d = disk[c]
  OBVIOUS
<1>7. PICK k : k = [i EXCEPT !.clean = TRUE]
  OBVIOUS
<1>8. PICK g : g = Gap(i)
  OBVIOUS
<1>9. \/ disk' = [disk EXCEPT ![c] = k] /\ UNCHANGED forgotten
      \/ disk' = [disk EXCEPT ![c] = g] /\ UNCHANGED forgotten
      \/ disk' = [disk EXCEPT ![c] = d] /\ forgotten' = forgotten \cup Forgotten(c)
  BY <1>1, <1>2, <1>6, <1>7, <1>8 DEF StopClient, Typed
<1>10. Frame(c) /\ Quiet(c) /\ Later /\ UNCHANGED <<preferences, claims, receipts>>
  BY <1>2, <1>5, <1>9 DEF Frame, Later, Quiet, Typed, server, choices
<1>11. Registered' /\ Claimed'
  BY <1>2, <1>10, RegisteredStays, ClaimedStays DEF ObservationInv
<1>12. Talks(c, n, f)' /\ f.pc = "idle"
  BY <1>3 DEF Talks, Still
<1>13. PICK R : R = Reported
  OBVIOUS
<1>14. Less(k, i, R) /\ Less(g, i, R)
  <2>1. /\ k \in Journal /\ AsChosen(k, i) /\ k.queue = i.queue /\ k.claim = i.claim
        /\ k.gap = i.gap /\ k.late = i.late /\ k.from = i.from
    BY <1>2, <1>7 DEF AsChosen, Journal
  <2>2. Since(k) = Since(i) /\ Waiting(k) = Waiting(i) /\ (Doubts(k) <=> Doubts(i))
    BY <2>1 DEF Since, Waiting, Doubts
  <2>3. Less(k, i, R)
    BY <1>2, <2>1, <2>2 DEF Less
  <2>4. QED  BY <1>2, <1>8, <2>3, GapIsLess
<1>15. \A j \in {k, g} : j \in Journal /\ Held(c, j)' /\ Fits(c, j)'
  <2> TAKE j \in {k, g}
  <2>1. Less(j, i, R)
    BY <1>14
  <2>2. PICK H : H = Times(c)
    OBVIOUS
  <2>3. Sound(j, H, R, clock) /\ Open(j, H, R)
    BY <1>2, <1>13, <2>1, <2>2, LessIsSound DEF Held, Fits
  <2>4. Choice(j)
    BY <1>2, <2>1 DEF Held, Choice, Backed, Less, AsChosen
  <2>5. Held(c, j) /\ Fits(c, j)
    BY <1>13, <2>2, <2>3, <2>4 DEF Held, Fits
  <2>6. QED  BY <1>2, <1>10, <2>1, <2>5, HeldStays, FitsStays DEF Less
<1>16. d \in Journal \cup {None} /\ (d # None => Held(c, d)')
  <2>1. d # None => Held(c, d)
    BY <1>6 DEF ObservationInv, Journals
  <2>2. QED  BY <1>2, <1>6, <1>10, <2>1, HeldStays DEF Typed
<1>17. n \in Journal \cup {None}
  BY <1>4
<1>18. CASE disk' = [disk EXCEPT ![c] = k]
  BY <1>4, <1>5, <1>10, <1>11, <1>12, <1>15, <1>17, <1>18, StepKeeps
<1>19. CASE disk' = [disk EXCEPT ![c] = g]
  BY <1>4, <1>5, <1>10, <1>11, <1>12, <1>15, <1>17, <1>19, StepKeeps
<1>20. CASE disk' = [disk EXCEPT ![c] = d] /\ forgotten' = forgotten \cup Forgotten(c)
  <2>1. d # None /\ d.clean => Fits(c, d)'
    BY <1>5, <1>6, <1>10, <1>20, ForgettingFits
  <2>2. QED  BY <1>4, <1>5, <1>10, <1>11, <1>12, <1>16, <1>17, <1>20, <2>1, StepKeeps
<1>21. QED  BY <1>9, <1>18, <1>19, <1>20

-----------------------------------------------------------------------------
(* The answer to what the preference is. *)

(* What an answer does to a journal that differs from it. *)
LEMMA Reconciling ==
  ASSUME NEW j \in Journal, NEW p \in Preference \cup {None}, NEW now
  PROVE  /\ p # None /\ p # PreferenceOf(j) /\ (j.adopt \/ (~j.explicit /\ p.epoch >= j.epoch)) =>
              Reconciled(j, p, now) =
                Gap([FreshJournal(IF p.sharing THEN p.epoch + 1 ELSE p.epoch, p.sharing, now)
                       EXCEPT !.since = IF p.sharing THEN now ELSE p.since,
                              !.pending = p.sharing, !.adopt = FALSE])
         /\ p # None /\ p # PreferenceOf(j) /\ ~j.adopt /\ (j.explicit \/ p.epoch < j.epoch) =>
              Reconciled(j, p, now) = IF p.epoch >= j.epoch THEN Renumbered(j, p.epoch + 1) ELSE j
<1>1. PreferenceOf(j) # None
  <2>1. PreferenceOf(j) \in Preference
    BY DEF PreferenceOf, Preference, Journal
  <2>2. QED  BY <2>1, ObservationNoneAssumption
<1>2. p # None => p.epoch \in Nat /\ j.epoch \in Nat
  BY Reports DEF Preference
<1>3. p # None => ~(p.epoch >= j.epoch /\ p.epoch < j.epoch)
  BY <1>2
<1> HIDE DEF Gap, FreshJournal, Renumbered
<1>4. QED  BY <1>1, <1>2, <1>3 DEF Reconciled

(* The journal that begins anew, when the newest preference is taken over. *)
TakenOver(e, since, share, now) ==
  [FreshJournal(e, share, now) EXCEPT !.since = since, !.pending = share, !.adopt = FALSE]

LEMMA TakingOver ==
  ASSUME NEW e \in Nat, NEW since \in Nat, NEW share \in BOOLEAN, NEW now \in Nat
  PROVE  LET k == TakenOver(e, since, share, now)
         IN /\ k \in Journal /\ k.queue = {} /\ k.claim = None /\ k.covered = 0 /\ ~k.clean
            /\ k.from = now /\ k.since = since /\ k.sharing = share /\ k.epoch = e /\ k.pending = share
            /\ ~k.adopt /\ ~k.explicit
<1>1. PICK k : k = TakenOver(e, since, share, now)
  OBVIOUS
<1>2. /\ k \in Journal /\ k.queue = {} /\ k.claim = None /\ k.covered = 0 /\ ~k.clean
      /\ k.from = now /\ k.since = since /\ k.sharing = share /\ k.epoch = e /\ k.pending = share
      /\ ~k.adopt /\ ~k.explicit
  BY <1>1 DEF TakenOver, FreshJournal, Journal
<1>3. QED  BY <1>1, <1>2

LEMMA Adopting ==
  ASSUME NEW i \in Journal, NEW p \in Preference, p # None, p # PreferenceOf(i), NEW now \in Nat,
         i.adopt \/ (~i.explicit /\ p.epoch >= i.epoch)
  PROVE  LET j == Reconciled(i, p, now)
         IN /\ j \in Journal /\ j.queue = {} /\ j.claim = None /\ j.gap
            /\ j.from = now /\ ~j.adopt /\ ~j.explicit
            /\ j.since = IF p.sharing THEN now ELSE p.since
            /\ j.epoch = IF p.sharing THEN p.epoch + 1 ELSE p.epoch
            /\ j.sharing = p.sharing /\ j.pending = p.sharing
<1>1. p.epoch \in Nat /\ p.sharing \in BOOLEAN /\ p.since \in Nat
  BY DEF Preference
<1>2. PICK e \in Nat : e = IF p.sharing THEN p.epoch + 1 ELSE p.epoch
  BY <1>1
<1>3. PICK since \in Nat : since = IF p.sharing THEN now ELSE p.since
  BY <1>1
<1>4. PICK share \in BOOLEAN : share = p.sharing
  BY <1>1
<1>5. PICK k : k = TakenOver(e, since, share, now)
  OBVIOUS
<1>6. /\ k \in Journal /\ k.queue = {} /\ k.claim = None /\ k.covered = 0 /\ ~k.clean
      /\ k.from = now /\ k.since = since /\ k.sharing = share /\ k.epoch = e /\ k.pending = share
      /\ ~k.adopt /\ ~k.explicit
  BY <1>5, TakingOver
<1>7. PICK j : j = Gap(k)
  OBVIOUS
<1>8. /\ j \in Journal /\ j.queue = {} /\ j.claim = None /\ j.gap
      /\ j.from = now /\ j.since = since /\ j.sharing = share /\ j.epoch = e /\ j.pending = share
      /\ ~j.adopt /\ ~j.explicit
  BY <1>6, <1>7 DEF Gap, Journal
<1>9. j = Reconciled(i, p, now)
  <2>1. Reconciled(i, p, now) =
          Gap([FreshJournal(IF p.sharing THEN p.epoch + 1 ELSE p.epoch, p.sharing, now)
                 EXCEPT !.since = IF p.sharing THEN now ELSE p.since, !.pending = p.sharing, !.adopt = FALSE])
    BY Reconciling
  <2>2. QED  BY <1>2, <1>3, <1>4, <1>5, <1>7, <2>1 DEF TakenOver
<1>10. QED  BY <1>2, <1>3, <1>4, <1>8, <1>9

(* What a flush holds on to when the client takes in an answer: its preference, or what is next. *)
LEMMA AnsweringKeeps ==
  ASSUME ObservationInv, NEW c \in Clients, HandleGet(c), NEW j, j = Reconciled(journal[c], flush[c].answer, clock + 1),
         j # None, IsFiniteSet(j.queue)
  PROVE  /\ Writes(c, j) /\ Frame(c) /\ Quiet(c) /\ Later /\ UNCHANGED <<server, past>>
         /\ clock' = (IF j.since = clock + 1 THEN clock + 1 ELSE clock)
         /\ \E f : flush' = [flush EXCEPT ![c] = f] /\ Talks(c, j, f)'
<1>1. /\ clock' = (IF j.since = clock + 1 THEN clock + 1 ELSE clock)
      /\ UNCHANGED <<server, past>>
      /\ \/ /\ j.pending /\ journal' = [journal EXCEPT ![c] = j] /\ UNCHANGED disk
            /\ Turn(c, "post", PreferenceOf(j))
         \/ Persist(c, j, allowance) /\ Onwards(c, j)
         \/ Persist(c, j, Took("writes")) /\ Turn(c, "idle", None)
  BY DEF HandleGet
<1>2. Frame(c) /\ Quiet(c) /\ Later
  BY <1>1 DEF Frame, Later, Quiet, Typed, ObservationInv, server, past, events, choices
<1>3. Writes(c, j)
  BY <1>1, PersistWrites DEF Writes
<1>4. \A f : Unanswered(f) => Talks(c, j, f)'
  BY DEF Unanswered, Talks
<1>5. \E f : flush' = [flush EXCEPT ![c] = f] /\ Talks(c, j, f)'
  <2>1. CASE Turn(c, "post", PreferenceOf(j))
    <3>1. PICK f : f = [pc |-> "post", answer |-> PreferenceOf(j)]
      OBVIOUS
    <3>2. f.pc = "post" /\ f.answer = PreferenceOf(j) /\ flush' = [flush EXCEPT ![c] = f]
      BY <2>1, <3>1 DEF Turn
    <3>3. Talks(c, j, f)'
      BY <3>2 DEF Talks
    <3>4. QED  BY <3>2, <3>3
  <2>2. CASE Onwards(c, j)
    BY <1>4, <2>2, OnwardTalks
  <2>3. CASE Turn(c, "idle", None)
    BY <1>4, <2>3, TurnTalks
  <2>4. QED  BY <1>1, <2>1, <2>2, <2>3
<1>6. QED  BY <1>1, <1>2, <1>3, <1>5

(* The newest preference is taken over: the journal begins anew under it, or under the next epoch. *)
LEMMA AdoptingKeeps ==
  ASSUME ObservationInv, NEW c \in Clients, HandleGet(c), journal[c] # None,
         flush[c].answer \in preferences, flush[c].answer # PreferenceOf(journal[c]),
         journal[c].adopt \/ (~journal[c].explicit /\ flush[c].answer.epoch >= journal[c].epoch)
  PROVE  ObservationInv'
<1>1. PICK i : i = journal[c]
  OBVIOUS
<1>2. PICK p : p = flush[c].answer
  OBVIOUS
<1>3. i \in Journal /\ Typed /\ Registered
  BY <1>1, Running
<1>4. p \in preferences /\ p \in Preference /\ p.since <= clock /\ p # None
  BY <1>2, <1>3, ObservationNoneAssumption DEF Registered
<1>5. p.epoch \in Nat /\ p.sharing \in BOOLEAN /\ p.since \in Nat
  BY <1>4 DEF Preference
<1>6. PICK now \in Nat : now = clock + 1
  BY <1>3 DEF Typed
<1>7. PICK j : j = Reconciled(i, p, now)
  OBVIOUS
<1>8. p # PreferenceOf(i) /\ (i.adopt \/ (~i.explicit /\ p.epoch >= i.epoch))
  BY <1>1, <1>2
<1>9. /\ j \in Journal /\ j.queue = {} /\ j.claim = None /\ j.gap
      /\ j.from = now /\ ~j.adopt /\ ~j.explicit
      /\ j.since = IF p.sharing THEN now ELSE p.since
      /\ j.epoch = IF p.sharing THEN p.epoch + 1 ELSE p.epoch
      /\ j.sharing = p.sharing /\ j.pending = p.sharing
  BY <1>3, <1>4, <1>6, <1>7, <1>8, Adopting
<1>10. j # None /\ IsFiniteSet(j.queue)
  BY <1>9, ObservationNoneAssumption, FS_EmptySet
<1>11. j = Reconciled(journal[c], flush[c].answer, clock + 1)
  BY <1>1, <1>2, <1>6, <1>7
<1>12. /\ Writes(c, j) /\ Frame(c) /\ Quiet(c) /\ Later /\ UNCHANGED <<server, past>>
       /\ clock' = (IF j.since = clock + 1 THEN clock + 1 ELSE clock)
       /\ \E f : flush' = [flush EXCEPT ![c] = f] /\ Talks(c, j, f)'
  BY <1>10, <1>11, AnsweringKeeps
<1>13. PICK f : flush' = [flush EXCEPT ![c] = f] /\ Talks(c, j, f)'
  BY <1>12
<1>14. Choice(j)'
  <2>1. CASE p.sharing
    <3>1. p.epoch = j.epoch - 1 /\ p \in preferences'
      BY <1>4, <1>5, <1>9, <1>12, <2>1 DEF server
    <3>2. Backed(j)'
      BY <2>1, <3>1 DEF Backed
    <3>3. j.since <= clock'
      BY <1>6, <1>9, <1>12, <2>1
    <3>4. QED  BY <1>9, <3>2, <3>3 DEF Choice
  <2>2. CASE ~p.sharing
    <3>1. j.since <= clock'
      BY <1>3, <1>4, <1>5, <1>6, <1>9, <1>12, <2>2 DEF Typed
    <3>2. QED  BY <1>9, <2>2, <3>1 DEF Choice, Backed
  <2>3. QED  BY <2>1, <2>2
<1>15. clock' <= j.from
  BY <1>3, <1>6, <1>9, <1>12 DEF Typed
<1>16. UNCHANGED server
  BY <1>12
<1>17. QED  BY <1>9, <1>12, <1>13, <1>14, <1>15, <1>16, BeginningKeeps

(* The journal is kept: as it was, or under the epoch after the newest preference. *)
LEMMA InsistingKeeps ==
  ASSUME ObservationInv, NEW c \in Clients, HandleGet(c), NEW i, i = journal[c], i # None,
         NEW j, j = Reconciled(i, flush[c].answer, clock + 1), j # None,
         j.sharing = i.sharing, j.since = i.since, j.explicit => i.explicit,
         Sound(j, Times(c), Reported, clock), Open(j, Times(c), Reported), Backed(j)
  PROVE  ObservationInv'
<1>1. Typed /\ Choice(i) /\ i \in Journal
  BY Running
<1>2. i.since \in Nat /\ clock \in Nat /\ i.since <= clock
  BY <1>1, Reports DEF Typed, Choice
<1>3. IsFiniteSet(j.queue)
  BY DEF Sound
<1>4. /\ Writes(c, j) /\ Frame(c) /\ Quiet(c) /\ Later /\ UNCHANGED <<server, past>>
      /\ \E f : flush' = [flush EXCEPT ![c] = f] /\ Talks(c, j, f)'
  BY <1>3, AnsweringKeeps
<1>5. PICK f : flush' = [flush EXCEPT ![c] = f] /\ Talks(c, j, f)'
  BY <1>4
<1>6. Choice(j)
  BY <1>1 DEF Choice
<1>7. Held(c, j) /\ Fits(c, j)
  BY <1>6 DEF Held, Fits
<1>8. Held(c, j)' /\ Fits(c, j)'
  BY <1>1, <1>4, <1>7, HeldStays, FitsStays
<1>9. UNCHANGED server
  BY <1>4
<1>10. QED  BY <1>4, <1>5, <1>8, <1>9, WritingKeeps

LEMMA HandleGetKeeps == ASSUME ObservationInv, NEW c \in Clients, HandleGet(c) PROVE ObservationInv'
<1>1. PICK i : i = journal[c]
  OBVIOUS
<1>2. PICK p : p = flush[c].answer
  OBVIOUS
<1>3. i # None /\ flush[c].pc = "got"
  BY <1>1 DEF HandleGet, In, ObservationInv, Flushing
<1>4. /\ i \in Journal /\ IsFiniteSet(i.queue) /\ (i.late => i.gap) /\ Typed /\ Registered
      /\ Choice(i) /\ Talks(c, i, flush[c])
      /\ Sound(i, Times(c), Reported, clock) /\ Open(i, Times(c), Reported)
  BY <1>1, <1>3, Running
<1>5. p = None \/ (p \in preferences /\ p \in Preference)
  BY <1>2, <1>3, <1>4 DEF Talks, Registered
<1>6. PICK now : now = clock + 1
  OBVIOUS
<1>7. PICK j : j = Reconciled(i, p, now)
  OBVIOUS
<1>8. PICK H : H = Times(c)
  OBVIOUS
<1>9. PICK R : R = Reported
  OBVIOUS
<1>10. PICK time : time = clock
  OBVIOUS
<1>11. Sound(i, H, R, time) /\ Open(i, H, R)
  BY <1>4, <1>8, <1>9, <1>10
<1>12. CASE p = None \/ p = PreferenceOf(i)
  <2>1. PICK k : k = [i EXCEPT !.adopt = FALSE]
    OBVIOUS
  <2>2. PICK m : m = [i EXCEPT !.pending = FALSE, !.explicit = FALSE, !.adopt = FALSE]
    OBVIOUS
  <2>3. \A l \in {k, m} : /\ l \in Journal /\ AsChosen(l, i) /\ l.queue = i.queue /\ l.claim = i.claim
                          /\ l.gap = i.gap /\ l.late = i.late /\ l.from = i.from
    BY <1>4, <2>1, <2>2 DEF AsChosen, Journal
  <2>4. j \in {k, m}
    <3>1. PreferenceOf(i) # None
      <4>1. PreferenceOf(i) \in Preference
        BY <1>4 DEF PreferenceOf, Preference, Journal
      <4>2. QED  BY <4>1, ObservationNoneAssumption
    <3>2. CASE p = None
      BY <1>7, <2>1, <3>1, <3>2 DEF Reconciled
    <3>3. CASE p = PreferenceOf(i)
      BY <1>7, <2>2, <3>1, <3>3 DEF Reconciled
    <3>4. QED  BY <1>12, <3>2, <3>3
  <2>5. /\ j \in Journal /\ AsChosen(j, i) /\ j.queue = i.queue /\ j.claim = i.claim
        /\ j.gap = i.gap /\ j.late = i.late /\ j.from = i.from
    BY <2>3, <2>4
  <2>6. Since(j) = Since(i) /\ Waiting(j) = Waiting(i) /\ (Doubts(j) <=> Doubts(i))
    BY <2>5 DEF Since, Waiting, Doubts
  <2>7. Less(j, i, R)
    BY <1>4, <2>5, <2>6 DEF Less
  <2>8. Sound(j, H, R, time) /\ Open(j, H, R)
    BY <1>11, <2>7, LessIsSound
  <2>9. Backed(j) /\ j # None /\ j.sharing = i.sharing /\ j.since = i.since /\ (j.explicit => i.explicit)
    BY <1>4, <2>5, ObservationNoneAssumption DEF Choice, Backed, AsChosen
  <2>10. QED  BY <1>1, <1>2, <1>3, <1>6, <1>7, <1>8, <1>9, <1>10, <2>8, <2>9, InsistingKeeps
<1>13. CASE p # None /\ p # PreferenceOf(i)
  <2>1. p.epoch \in Nat /\ i.epoch \in Nat /\ i.adopt \in BOOLEAN /\ i.explicit \in BOOLEAN
    BY <1>4, <1>5, <1>13, Reports DEF Preference, Journal
  <2>2. CASE i.adopt \/ (~i.explicit /\ p.epoch >= i.epoch)
    BY <1>1, <1>2, <1>3, <1>5, <1>13, <2>2, AdoptingKeeps
  <2>3. CASE ~i.adopt /\ (i.explicit \/ p.epoch < i.epoch)
    <3>1. j = IF p.epoch >= i.epoch THEN Renumbered(i, p.epoch + 1) ELSE i
      BY <1>4, <1>5, <1>7, <1>13, <2>3, Reconciling
    <3>2. CASE p.epoch >= i.epoch
      <4>1. PICK n \in Nat : n = p.epoch + 1
        BY <2>1
      <4>2. PICK k : k = Renumbered(i, n)
        OBVIOUS
      <4>3. /\ k # None /\ k.sharing = i.sharing /\ k.since = i.since /\ k.explicit = i.explicit
            /\ Sound(k, H, R, time) /\ Open(k, H, R)
        BY <1>11, <4>2, RenumberingKeeps
      <4>4. k = j /\ i.explicit
        BY <2>1, <2>3, <3>1, <3>2, <4>1, <4>2
      <4>5. Backed(j)
        BY <1>4, <4>3, <4>4 DEF Choice, Backed
      <4>6. QED  BY <1>1, <1>2, <1>3, <1>6, <1>7, <1>8, <1>9, <1>10, <4>3, <4>4, <4>5, InsistingKeeps
    <3>3. CASE ~(p.epoch >= i.epoch)
      <4>1. j = i /\ Backed(i)
        BY <1>4, <3>1, <3>3 DEF Choice
      <4>2. QED  BY <1>1, <1>2, <1>3, <1>4, <1>6, <1>7, <4>1, InsistingKeeps
    <3>4. QED  BY <3>2, <3>3
  <2>4. QED  BY <2>1, <2>2, <2>3
<1>14. QED  BY <1>12, <1>13

-----------------------------------------------------------------------------
(* The steps of the server. *)

LEMMA TopIsNewest ==
  ASSUME Registered
  PROVE  \/ preferences = {} /\ Top = None
         \/ Top \in preferences /\ Top # None /\ \A q \in preferences : q.epoch <= Top.epoch
<1>1. \A p \in preferences : p # None
  BY ObservationNoneAssumption DEF Registered
<1>2. CASE preferences = {}
  BY <1>2 DEF Top
<1>3. CASE preferences # {}
  <2>1. \E p \in preferences : \A q \in preferences : q.epoch <= p.epoch
    BY <1>3 DEF Registered
  <2>2. Top = CHOOSE p \in preferences : \A q \in preferences : q.epoch <= p.epoch
    BY <1>3 DEF Top
  <2>3. QED  BY <1>1, <2>1, <2>2
<1>4. QED  BY <1>2, <1>3

(* An epoch that is registered is new, or was registered with the same contents. *)
LEMMA AcceptingKeeps ==
  ASSUME Registered, NEW p \in Preference, p.since <= clock, Backed(p), AcceptsPreference(p),
         preferences' = preferences \cup {p}, UNCHANGED <<clock, chosen, overridden>>
  PROVE  Registered'
<1>1. \A q \in preferences : q.epoch = p.epoch => p \in preferences
  BY DEF AcceptsPreference
<1>2. p.epoch \in Nat /\ \A q \in preferences : q.epoch \in Nat
  BY DEF Registered, Preference
<1>3. \A q, r \in preferences' : q.epoch = r.epoch => q = r
  BY <1>1 DEF Registered
<1>4. \E q \in preferences' : \A r \in preferences' : r.epoch <= q.epoch
  <2>1. CASE preferences = {}
    BY <1>2, <2>1
  <2>2. CASE preferences # {}
    <3>1. PICK t \in preferences : \A q \in preferences : q.epoch <= t.epoch
      BY <2>2 DEF Registered
    <3>2. CASE p.epoch <= t.epoch
      BY <3>1, <3>2
    <3>3. CASE ~(p.epoch <= t.epoch)
      BY <1>2, <3>1, <3>3
    <3>4. QED  BY <3>2, <3>3
  <2>3. QED  BY <2>1, <2>2
<1>5. \A q, e : Traces(q, e) => Traces(q, e)'
  BY DEF Traces
<1>6. ASSUME p.sharing, NEW e \in 0 .. p.epoch PROVE Traces(p, e)'
  <2>1. CASE e = p.epoch
    BY <1>6, <2>1 DEF Traces
  <2>2. CASE e # p.epoch /\ p.since \in chosen \cup overridden
    BY <1>2, <1>6, <2>2 DEF Traces
  <2>3. CASE e # p.epoch /\ p.since \notin chosen \cup overridden
    <3>1. PICK q \in preferences : q.sharing /\ q.epoch = p.epoch - 1
      BY <1>2, <1>6, <2>3 DEF Backed
    <3>2. Traces(q, e)
      BY <1>2, <2>3, <3>1 DEF Registered
    <3>3. QED  BY <1>2, <3>1, <3>2 DEF Traces
  <2>4. QED  BY <2>1, <2>2, <2>3
<1>7. QED  BY <1>3, <1>4, <1>5, <1>6 DEF Registered

(* The server answers a client, and no journal changes. *)
LEMMA ServingKeeps ==
  ASSUME ObservationInv, NEW c \in Clients, UNCHANGED <<clock, journal, disk, past>>,
         preferences \subseteq preferences', receipts \subseteq receipts', Registered', Claimed',
         journal[c] # None, NEW f, flush' = [flush EXCEPT ![c] = f], Talks(c, journal[c], f)'
  PROVE  ObservationInv'
<1>1. Typed
  BY DEF ObservationInv
<1>2. Frame(c) /\ Later /\ Quiet(c)
  BY <1>1 DEF Frame, Later, Quiet, Typed, past, events, choices
<1>3. PICK i : i = journal[c]
  OBVIOUS
<1>4. PICK d : d = disk[c]
  OBVIOUS
<1>5. /\ i \in Journal \cup {None} /\ journal' = [journal EXCEPT ![c] = i] /\ i # None
      /\ d \in Journal \cup {None} /\ disk' = [disk EXCEPT ![c] = d]
  BY <1>1, <1>3, <1>4 DEF Typed
<1>6. Held(c, i)' /\ Fits(c, i)'
  <2>1. Held(c, i) /\ Fits(c, i)
    BY <1>3, <1>5, Running
  <2>2. QED  BY <1>1, <1>2, <2>1, HeldStays, FitsStays
<1>7. d # None => Held(c, d)'
  <2>1. d # None => Held(c, d)
    BY <1>4 DEF ObservationInv, Journals
  <2>2. QED  BY <1>1, <1>2, <2>1, HeldStays
<1>8. Talks(c, i, f)'
  BY <1>3 DEF Talks
<1>9. QED  BY <1>2, <1>5, <1>6, <1>7, <1>8, StepKeeps

LEMMA Serving ==
  ASSUME ObservationInv, NEW c \in Clients, flush[c].pc # "idle"
  PROVE  /\ journal[c] # None /\ journal[c] \in Journal /\ Choice(journal[c]) /\ Typed /\ Registered /\ Claimed
         /\ Talks(c, journal[c], flush[c])
BY Running DEF ObservationInv, Flushing

LEMMA ServeGetKeeps == ASSUME ObservationInv, NEW c \in Clients, ServeGet(c) PROVE ObservationInv'
<1>1. /\ journal[c] # None /\ Typed /\ Registered /\ Claimed /\ UNCHANGED <<clock, journal, disk, past, server>>
  BY Serving DEF ServeGet, In
<1>2. UNCHANGED <<preferences, receipts, claims>>
  BY <1>1 DEF server
<1>3. PICK f : f = [pc |-> "got", answer |-> Top]
  OBVIOUS
<1>4. flush' = [flush EXCEPT ![c] = f] /\ f.pc = "got" /\ f.answer = Top
  BY <1>3 DEF ServeGet, Turn
<1>5. Talks(c, journal[c], f)'
  BY <1>1, <1>2, <1>4, TopIsNewest DEF Talks
<1>6. Registered' /\ Claimed'
  BY <1>1, <1>2, RestKeeps, RegisteredStays, ClaimedStays
<1>7. QED  BY <1>1, <1>2, <1>4, <1>5, <1>6, ServingKeeps

LEMMA ServePostKeeps == ASSUME ObservationInv, NEW c \in Clients, ServePost(c) PROVE ObservationInv'
<1>1. PICK i : i = journal[c]
  OBVIOUS
<1>2. PICK p : p = PreferenceOf(i)
  OBVIOUS
<1>3. /\ i # None /\ i \in Journal /\ Choice(i) /\ Typed /\ Registered /\ Claimed /\ flush[c].answer = p
      /\ UNCHANGED <<clock, journal, disk, receipts, claims, past>>
  BY <1>1, <1>2, Serving DEF ServePost, In, Talks
<1>4. p \in Preference /\ p.since <= clock /\ Backed(p)
  <2>1. p \in Preference /\ p.epoch = i.epoch /\ p.sharing = i.sharing /\ p.since = i.since
    BY <1>2, <1>3 DEF PreferenceOf, Preference, Journal
  <2>2. QED  BY <1>3, <2>1 DEF Choice, Backed
<1>5. PICK f : f = flush'[c]
  OBVIOUS
<1>6. /\ flush' = [flush EXCEPT ![c] = f] /\ f.pc = "posted"
      /\ \/ AcceptsPreference(p) /\ preferences' = preferences \cup {p}
         \/ UNCHANGED preferences
  BY <1>3, <1>5 DEF ServePost, Turn, Typed
<1>7. Talks(c, journal[c], f)'
  BY <1>6 DEF Talks
<1>8. Later /\ UNCHANGED <<clock, chosen, overridden>>
  BY <1>3, <1>6 DEF Later, Typed, past, events, choices
<1>9. Registered' /\ Claimed'
  BY <1>3, <1>4, <1>6, <1>8, AcceptingKeeps, RegisteredStays, ClaimedStays
<1>10. QED  BY <1>1, <1>3, <1>6, <1>7, <1>8, <1>9, ServingKeeps DEF Later

LEMMA ServeEventsKeeps == ASSUME ObservationInv, NEW c \in Clients, ServeEvents(c) PROVE ObservationInv'
<1>1. PICK batch : batch = flush[c].answer
  OBVIOUS
<1>2. /\ journal[c] # None /\ Typed /\ Registered /\ Claimed /\ IsFiniteSet(batch)
      /\ UNCHANGED <<clock, journal, disk, preferences, claims, past>>
  BY <1>1, Serving DEF ServeEvents, In, Talks
<1>3. PICK taken \in SUBSET batch : taken = {e \in batch : AcceptsEvent(e)}
  OBVIOUS
<1>4. PICK left \in SUBSET batch : left = batch \ (taken \cup receipts)
  OBVIOUS
<1>5. PICK n \in Nat : n = Cardinality(left) /\ (n = 0 => left = {})
  <2>1. IsFiniteSet(left)
    BY <1>2, FS_Subset
  <2>2. QED  BY <2>1, FS_CardinalityType, FS_EmptySet
<1>6. PICK a : a = [batch |-> batch, rejected |-> n]
  OBVIOUS
<1>7. PICK f : f = [pc |-> "acked", answer |-> a]
  OBVIOUS
<1>8. /\ flush' = [flush EXCEPT ![c] = f] /\ f.pc = "acked" /\ f.answer.rejected = n /\ f.answer.batch = batch
      /\ receipts' = receipts \cup taken
  BY <1>1, <1>3, <1>4, <1>5, <1>6, <1>7 DEF ServeEvents, Turn
<1>9. Talks(c, journal[c], f)'
  <2>1. n = 0 => \A e \in batch : e \in receipts'
    BY <1>4, <1>5, <1>8
  <2>2. n = 0 => \A e \in batch : e.at \in Reported'
    BY <2>1 DEF Reported
  <2>3. QED  BY <1>8, <2>2 DEF Talks
<1>10. Later
  BY <1>2, <1>8 DEF Later, Typed, past, events, choices
<1>11. Registered' /\ Claimed'
  BY <1>2, <1>10, RegisteredStays, ClaimedStays
<1>12. QED  BY <1>2, <1>8, <1>9, <1>10, <1>11, ServingKeeps DEF Later

LEMMA ServeCoverageKeeps == ASSUME ObservationInv, NEW c \in Clients, ServeCoverage(c) PROVE ObservationInv'
<1>1. PICK k : k = flush[c].answer
  OBVIOUS
<1>2. /\ journal[c] # None /\ Typed /\ Registered /\ Claimed
      /\ k \in Window /\ k.to <= clock /\ WindowHolds(k, Times(c), Reported)
      /\ UNCHANGED <<clock, journal, disk, preferences, receipts, past>>
  BY <1>1, Serving DEF ServeCoverage, In, Talks
<1>3. PICK f : f = [pc |-> "claimed", answer |-> k]
  OBVIOUS
<1>4. flush' = [flush EXCEPT ![c] = f] /\ f.pc = "claimed" /\ f.answer = k
  BY <1>1, <1>3 DEF ServeCoverage, Turn
<1>5. /\ UNCHANGED <<happened, forgotten, chosen, overridden>>
      /\ Times(c)' = Times(c) /\ Reported' = Reported
  BY <1>2 DEF past, events, choices, Times, Reported
<1>6. Talks(c, journal[c], f)'
  BY <1>2, <1>4, <1>5 DEF Talks
<1>7. PICK new : new = [client |-> c, claim |-> k, complete |-> Verified(k)]
  OBVIOUS
<1>8. claims' \subseteq claims \cup {new} /\ new.client = c /\ new.claim = k /\ (new.complete => k.complete)
  BY <1>1, <1>7 DEF ServeCoverage, Verified
<1>9. ASSUME new.complete PROVE Received(new, happened \ forgotten)
  <2>1. SUFFICES ASSUME NEW h \in happened \ forgotten, h.client = c, k.from < h.at, h.at <= k.to
                 PROVE  \E r \in receipts : r.at = h.at
    BY <1>8 DEF Received
  <2>2. h.at \in Times(c)
    BY <2>1 DEF Times
  <2>3. h.at \in Reported
    BY <1>2, <1>8, <1>9, <2>1, <2>2 DEF WindowHolds
  <2>4. QED  BY <2>3 DEF Reported
<1>10. CompleteIsComplete'
  <2>1. SUFFICES ASSUME NEW o \in claims', o.complete PROVE Received(o, happened \ forgotten)
    BY <1>2, <1>5 DEF CompleteIsComplete, Received
  <2>2. CASE o \in claims
    BY <1>2, <2>1, <2>2 DEF Claimed, CompleteIsComplete
  <2>3. CASE o = new
    BY <1>9, <2>1, <2>3
  <2>4. QED  BY <1>8, <2>2, <2>3
<1>11. Claimed'
  BY <1>2, <1>8, <1>10 DEF Claimed
<1>12. Registered'
  BY <1>2, <1>5 DEF Registered, Traces
<1>13. QED  BY <1>2, <1>4, <1>6, <1>11, <1>12, ServingKeeps

-----------------------------------------------------------------------------
(* The theorems. *)

LEMMA ObservationInitially == ASSUME ObservationInit PROVE ObservationInv
<1>1. Typed
  BY DEF ObservationInit, Typed
<1>2. Registered /\ Claimed
  BY <1>1 DEF ObservationInit, Registered, Claimed, CompleteIsComplete
<1>3. \A c \in Clients : Journals(c) /\ Flushing(c)
  BY DEF ObservationInit, Journals, Flushing, Talks, Still
<1>4. QED  BY <1>1, <1>2, <1>3 DEF ObservationInv

LEMMA ObservationStep ==
  ASSUME ObservationInv, [ObservationNext]_observationVars PROVE ObservationInv'
<1>1. CASE UNCHANGED observationVars
  <2>1. /\ UNCHANGED <<clock, journal, disk, flush, preferences, receipts, claims>>
        /\ UNCHANGED <<happened, forgotten, chosen, overridden>>
    BY <1>1 DEF observationVars
  <2>2. Typed' /\ Registered' /\ Claimed'
    BY <2>1 DEF ObservationInv, Typed, Registered, Traces, Claimed, CompleteIsComplete, Received
  <2>3. Reported' = Reported /\ \A c : Times(c)' = Times(c)
    BY <2>1 DEF Reported, Times
  <2>4. \A j : Choice(j)' <=> Choice(j)
    BY <2>1 DEF Choice, Backed
  <2>5. \A c, j : (Held(c, j)' <=> Held(c, j)) /\ (Fits(c, j)' <=> Fits(c, j))
    BY <2>1, <2>3, <2>4 DEF Held, Fits
  <2>6. \A c \in Clients : Journals(c)' /\ Flushing(c)'
    BY <2>1, <2>3, <2>5 DEF ObservationInv, Journals, Flushing, Talks
  <2>7. QED  BY <2>2, <2>6 DEF ObservationInv
<1>2. CASE ObservationNext
  <2>1. PICK c \in Clients :
          \/ SetEnabled(c) \/ SaveOtherSettings(c) \/ StopClient(c) \/ FailFlush(c) \/ Flushes(c)
          \/ \E t \in 0 .. clock : Start(c, t) \/ StartFlush(c, t) \/ \E b \in BOOLEAN : Record(c, b, t)
    BY <1>2 DEF ObservationNext
  <2>2. CASE SetEnabled(c) \/ SaveOtherSettings(c) \/ StopClient(c) \/ FailFlush(c)
    BY <2>2, SetEnabledKeeps, SaveSettingsKeeps, StopKeeps, FailFlushKeeps
  <2>3. CASE \E t \in 0 .. clock : Start(c, t) \/ StartFlush(c, t) \/ \E b \in BOOLEAN : Record(c, b, t)
    <3>1. PICK t \in Nat : Start(c, t) \/ StartFlush(c, t) \/ \E b \in BOOLEAN : Record(c, b, t)
      BY <2>3 DEF ObservationInv, Typed
    <3>2. QED  BY <3>1, StartKeeps, StartFlushKeeps, RecordKeeps
  <2>4. CASE Flushes(c)
    BY <2>4, ServeGetKeeps, HandleGetKeeps, ServePostKeeps, HandlePostKeeps, ServeEventsKeeps,
       HandleEventsKeeps, PrepareCoverageKeeps, ServeCoverageKeeps, HandleCoverageKeeps
       DEF Flushes
  <2>5. QED  BY <2>1, <2>2, <2>3, <2>4
<1>3. QED  BY <1>1, <1>2

(* The inductive invariant: of the events of a client that shares, all since the last claim of   *)
(* its journal have receipts or wait in it, unless the journal will say that it doubts so; and   *)
(* back from every preference that shares, somebody switched sharing on, a settings file said    *)
(* so or every epoch shared.                                                                     *)
THEOREM ObservationInvariant == ObservationSpec => []ObservationInv
<1>1. ObservationInit => ObservationInv
  BY ObservationInitially
<1>2. ObservationInv /\ [ObservationNext]_observationVars => ObservationInv'
  BY ObservationStep
<1>3. QED  BY <1>1, <1>2, PTL DEF ObservationSpec

(* verifiedCoverage and the claims of reliability.mjs: a window that the server keeps as        *)
(* complete is complete, whatever was dropped, rejected, repeated, interrupted or could not be  *)
(* written, but for the events whose last record went with their process.                       *)
THEOREM VerifiedWindowsAreComplete == ObservationSpec => []CompleteIsComplete
<1>1. ObservationInv => CompleteIsComplete
  BY DEF ObservationInv, Claimed
<1>2. QED  BY <1>1, ObservationInvariant, PTL

(* preference, reconcile and resetSharing: once an opt-out is registered, a later epoch shares   *)
(* only if somebody switched sharing on again or an installation started from a settings file    *)
(* that said so, however requests and writes fail and clients restart.                           *)
THEOREM OptOutsAreKept == ObservationSpec => []OptOutsHold
<1>1. ObservationInv => OptOutsHold
  <2>1. SUFFICES ASSUME Registered, NEW p \in preferences, NEW q \in preferences,
                        ~p.sharing, q.sharing, p.epoch <= q.epoch
                 PROVE  Reopened(p, q)
    BY DEF ObservationInv, OptOutsHold
  <2>2. p.epoch \in 0 .. q.epoch
    BY <2>1 DEF Registered, Preference
  <2>3. Traces(q, p.epoch)
    BY <2>1, <2>2 DEF Registered
  <2>4. ~\E r \in preferences : r.sharing /\ r.epoch = p.epoch
    BY <2>1 DEF Registered
  <2>5. QED  BY <2>3, <2>4 DEF Traces, Reopened
<1>2. QED  BY <1>1, ObservationInvariant, PTL

=============================================================================
