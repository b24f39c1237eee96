------------------------- MODULE QuotaLedgerProofs -------------------------
(***************************************************************************)
(* The question ledger is correct for every set of captures and orders,    *)
(* every allowance, lease and window.  First the sums that define the      *)
(* balance, then one lemma per operator on the quota, then the inductive   *)
(* invariant, from it the properties that QuotaLedger states and that the  *)
(* ledger implements QuestionEntitlement; and last two strengthenings: the *)
(* terms of the daily lots, for the entitlement of holds, and the bond of  *)
(* a recovery with its solve, for the compensation of failed ones.         *)
(***************************************************************************)
EXTENDS QuotaLedger, FiniteSetTheorems, TLAPS

-----------------------------------------------------------------------------
(* Sums over lots *)

(* The balance is a sum over finitely many lots. *)
LEMMA LotsFinite == IsFiniteSet(Lots)
<1>1. \A t \in Time : Day(t) \in 0..(MaxTime + DayOffset)
  BY LedgerAssumption DEF Day, Time
<1>2. IsFiniteSet(0..(MaxTime + DayOffset))
  BY FS_Interval, LedgerAssumption
<1>3. IsFiniteSet(Days)
  <2>1. Days \in SUBSET (0..(MaxTime + DayOffset))  BY <1>1 DEF Days
  <2>2. QED  BY ONLY <2>1, <1>2, FS_Subset
<1>4. \A k : IsFiniteSet({k})
  BY FS_Singleton
<1>5. ASSUME NEW k, NEW S, IsFiniteSet(S)  PROVE IsFiniteSet({k} \X S)
  BY <1>4, <1>5, FS_Product
<1>6. IsFiniteSet({InitialLot})
  BY FS_Singleton
<1>7. IsFiniteSet({InitialLot} \cup ({"trial_daily"} \X Days))
  BY <1>3, <1>5, <1>6, FS_Union
<1>8. IsFiniteSet(({InitialLot} \cup ({"trial_daily"} \X Days)) \cup PlusLots)
  BY <1>3, <1>5, <1>7, FS_Union DEF PlusLots
<1>9. IsFiniteSet((({InitialLot} \cup ({"trial_daily"} \X Days)) \cup PlusLots)
                    \cup ({"order"} \X PaidOrders))
  BY <1>5, <1>8, FS_Union, LedgerAssumption
<1>10. IsFiniteSet(((({InitialLot} \cup ({"trial_daily"} \X Days)) \cup PlusLots)
                     \cup ({"order"} \X PaidOrders)) \cup ({"gift"} \X Gifts))
  BY <1>5, <1>9, FS_Union, LedgerAssumption
<1>11. IsFiniteSet(((((({InitialLot} \cup ({"trial_daily"} \X Days)) \cup PlusLots)
                     \cup ({"order"} \X PaidOrders)) \cup ({"gift"} \X Gifts)))
                     \cup ({"recovery"} \X Captures))
  BY <1>5, <1>10, FS_Union, LedgerAssumption
<1>12. QED
  BY <1>11 DEF Lots

(* The questions that Total counts. *)
Counted(S, f) == {p \in S \X (1..MaxLot) : p[2] <= f[p[1]]}

LEMMA CountedFinite ==
  ASSUME NEW S \in SUBSET Lots, NEW f
  PROVE  IsFiniteSet(Counted(S, f)) /\ Total(S, f) = Cardinality(Counted(S, f))
<1>1. IsFiniteSet(S)  BY LotsFinite, FS_Subset
<1>2. IsFiniteSet(1..MaxLot)  BY FS_Interval, LedgerAssumption
<1>3. IsFiniteSet(S \X (1..MaxLot))  BY <1>1, <1>2, FS_Product
<1>4. Counted(S, f) \in SUBSET (S \X (1..MaxLot))  BY DEF Counted
<1>5. IsFiniteSet(Counted(S, f))  BY ONLY <1>3, <1>4, FS_Subset
<1>6. QED  BY <1>5 DEF Total, Counted

LEMMA TotalType ==
  ASSUME NEW S \in SUBSET Lots, NEW f
  PROVE  Total(S, f) \in Nat
BY CountedFinite, FS_CardinalityType

LEMMA TotalSame ==
  ASSUME NEW S \in SUBSET Lots, NEW f, NEW g, \A l \in S : f[l] = g[l]
  PROVE  Total(S, f) = Total(S, g)
<1>1. Counted(S, f) = Counted(S, g)  BY DEF Counted
<1>2. QED  BY <1>1 DEF Total, Counted

LEMMA TotalSplit ==
  ASSUME NEW S \in SUBSET Lots, NEW f
  PROVE  Total(Lots, f) = Total(S, f) + Total(Lots \ S, f)
<1>1. Counted(Lots, f) = Counted(S, f) \cup Counted(Lots \ S, f)  BY DEF Counted
<1>2. Counted(S, f) \cap Counted(Lots \ S, f) = {}  BY DEF Counted
<1>3. /\ IsFiniteSet(Counted(S, f)) /\ IsFiniteSet(Counted(Lots \ S, f))
      /\ Cardinality(Counted(S, f)) \in Nat /\ Cardinality(Counted(Lots \ S, f)) \in Nat
  BY CountedFinite, FS_CardinalityType
<1>4. Cardinality(Counted(Lots, f))
        = Cardinality(Counted(S, f)) + Cardinality(Counted(Lots \ S, f)) - Cardinality({})
  BY <1>1, <1>2, <1>3, FS_Union
<1>5. QED  BY <1>3, <1>4, FS_EmptySet, CountedFinite

LEMMA TotalSingle ==
  ASSUME NEW l \in Lots, NEW f, f[l] \in 0..MaxLot
  PROVE  Total({l}, f) = f[l]
<1>1. Counted({l}, f) = {l} \X (1..f[l])
  BY LedgerAssumption DEF Counted
<1>2. IsFiniteSet({l}) /\ Cardinality({l}) = 1  BY FS_Singleton
<1>3. IsFiniteSet(1..f[l]) /\ Cardinality(1..f[l]) = f[l]
  <2>1. PICK n \in Nat : n = f[l]
    BY LedgerAssumption
  <2>2. IsFiniteSet(1..n) /\ Cardinality(1..n) = IF 1 > n THEN 0 ELSE n - 1 + 1
    BY FS_Interval
  <2>3. Cardinality(1..n) = n
    BY <2>2
  <2>4. QED  BY <2>1, <2>2, <2>3
<1>4. Cardinality({l} \X (1..f[l])) = Cardinality({l}) * Cardinality(1..f[l])
  <2>1. IsFiniteSet({l})  BY <1>2
  <2>2. IsFiniteSet(1..f[l])  BY <1>3
  <2>3. QED  BY ONLY <2>1, <2>2, FS_Product
<1>5. 1 * f[l] = f[l]  OBVIOUS
<1>6. QED  BY <1>1, <1>2, <1>3, <1>4, <1>5 DEF Total, Counted

(* A balance follows the one lot that changes. *)
LEMMA TotalUpdate ==
  ASSUME NEW l \in Lots, NEW f, NEW g, f[l] \in 0..MaxLot, g[l] \in 0..MaxLot,
         \A m \in Lots \ {l} : f[m] = g[m]
  PROVE  Total(Lots, g) = Total(Lots, f) + g[l] - f[l]
<1>1. Total(Lots \ {l}, f) = Total(Lots \ {l}, g)  BY TotalSame
<1>2. Total(Lots, f) = Total({l}, f) + Total(Lots \ {l}, f)  BY TotalSplit
<1>3. Total(Lots, g) = Total({l}, g) + Total(Lots \ {l}, g)  BY TotalSplit
<1>4. Total({l}, f) = f[l] /\ Total({l}, g) = g[l]  BY TotalSingle
<1>5. Total(Lots \ {l}, f) \in Nat  BY TotalType
<1>6. QED  BY <1>1, <1>2, <1>3, <1>4, <1>5

-----------------------------------------------------------------------------
(* Lots and balances *)

(* A row of quota_lots in good standing, before and after its refund policy is     *)
(* applied.                                                                        *)
SoundLot(x) ==
  /\ x \in LotRow
  /\ x.held <= x.remaining
  /\ x.remaining + x.revoked <= x.granted
GoodLot(x) ==
  /\ SoundLot(x)
  /\ x.revoked = Least(x.target, x.remaining + x.revoked - x.held)

Balanced(q) == q.balance = Total(Lots, Availability(q.lot))

GoodQuota(q) ==
  /\ q \in [balance : Nat, lot : [Lots -> LotRow]]
  /\ \A l \in Lots : GoodLot(q.lot[l])
  /\ Balanced(q)

(* What was charged to a lot. *)
Spent(x) == x.granted - x.remaining - x.revoked

(* r is q after a bookkeeping operation: still good, with the same holds and the   *)
(* same charges on every lot.                                                      *)
Kept(q, r) ==
  /\ GoodQuota(r)
  /\ \A l \in Lots : /\ r.lot[l].held = q.lot[l].held
                     /\ Spent(r.lot[l]) = Spent(q.lot[l])

(* y is x on the same terms: the same grant and expiry, and not newly frozen.       *)
SameTerms(x, y) ==
  /\ y.granted = x.granted /\ y.expires = x.expires
  /\ y.frozen => x.frozen

LEMMA KeptTrans ==
  ASSUME NEW q, NEW r, NEW s, Kept(q, r), Kept(r, s)
  PROVE  Kept(q, s)
BY DEF Kept

LEMMA AvailableType ==
  ASSUME NEW x, SoundLot(x)
  PROVE  Available(x) \in 0..MaxLot
BY LedgerAssumption DEF SoundLot, LotRow, Available

(* Changing one lot, and the balance by what that changes, keeps the balance right. *)
LEMMA OneLotChanges ==
  ASSUME NEW q, GoodQuota(q), NEW l \in Lots, NEW x, GoodLot(x),
         NEW b, b = q.balance + Available(x) - Available(q.lot[l])
  PROVE  GoodQuota([balance |-> b, lot |-> [q.lot EXCEPT ![l] = x]])
<1> DEFINE r == [balance |-> b, lot |-> [q.lot EXCEPT ![l] = x]]
           f == Availability(q.lot)
           g == Availability(r.lot)
<1>1. r.lot \in [Lots -> LotRow] /\ r.lot[l] = x /\ \A m \in Lots \ {l} : r.lot[m] = q.lot[m]
  BY DEF GoodQuota, GoodLot, SoundLot
<1>2. \A m \in Lots : GoodLot(r.lot[m])
  BY <1>1 DEF GoodQuota
<1>3. f[l] = Available(q.lot[l]) /\ g[l] = Available(x)
  BY <1>1 DEF Availability
<1>4. f[l] \in 0..MaxLot /\ g[l] \in 0..MaxLot
  BY <1>3, AvailableType DEF GoodQuota, GoodLot
<1>5. \A m \in Lots \ {l} : f[m] = g[m]
  BY <1>1 DEF Availability
<1>6. Total(Lots, g) = Total(Lots, f) + g[l] - f[l]
  <2> HIDE DEF f, g
  <2>1. QED  BY <1>4, <1>5, TotalUpdate
<1>7. Total(Lots, g) \in Nat
  BY TotalType
<1>8. b = Total(Lots, g)
  BY <1>3, <1>6 DEF GoodQuota, Balanced
<1>9. QED
  BY <1>1, <1>2, <1>7, <1>8 DEF GoodQuota, Balanced

(* The refund policy makes a good lot of a sound one, whatever it asks for. *)
LEMMA LotPolicy ==
  ASSUME NEW x, SoundLot(x), NEW frozen \in BOOLEAN, NEW target \in 0..MaxLot
  PROVE  LET y == ApplyLotPolicy(x, frozen, target)
         IN  /\ GoodLot(y)
             /\ y.held = x.held
             /\ Spent(y) = Spent(x)
             /\ y.granted = x.granted
             /\ y.expires = x.expires
             /\ y.frozen = frozen
             /\ y.target = target
<1>0. SUFFICES ASSUME NEW y, y = ApplyLotPolicy(x, frozen, target)
               PROVE  /\ GoodLot(y)
                      /\ y.held = x.held
                      /\ Spent(y) = Spent(x)
                      /\ y.granted = x.granted
                      /\ y.expires = x.expires
                      /\ y.frozen = frozen
                      /\ y.target = target
  OBVIOUS
<1> DEFINE unspent == x.remaining + x.revoked
           revoked == Least(target, unspent - x.held)
<1>1. y = [granted |-> x.granted, remaining |-> unspent - revoked, held |-> x.held,
           revoked |-> revoked, target |-> target, frozen |-> frozen, expires |-> x.expires]
  BY <1>0 DEF ApplyLotPolicy, SoundLot, LotRow
<1>2. /\ x.granted \in 0..MaxLot /\ x.remaining \in 0..MaxLot /\ x.held \in 0..MaxLot
      /\ x.revoked \in 0..MaxLot /\ x.expires \in Nat
      /\ x.held <= x.remaining /\ x.remaining + x.revoked <= x.granted
  BY DEF SoundLot, LotRow
<1>3. /\ revoked \in 0..MaxLot /\ revoked <= unspent - x.held /\ unspent - revoked \in 0..MaxLot
  BY <1>2, LedgerAssumption DEF Least
<1>4. SoundLot(y)
  BY <1>1, <1>2, <1>3 DEF SoundLot, LotRow
<1>5. y.remaining + y.revoked = unspent
  BY <1>1, <1>2, <1>3
<1>6. y.revoked = Least(y.target, y.remaining + y.revoked - y.held)
  <2>1. y.revoked = revoked /\ y.target = target /\ y.held = x.held
    BY <1>1
  <2>2. y.remaining + y.revoked - y.held = unspent - x.held
    BY <1>1, <1>2, <1>3, <1>5, <2>1
  <2>3. QED  BY <2>1, <2>2
<1>7. Spent(y) = Spent(x)
  BY <1>1, <1>2, <1>3 DEF Spent
<1>8. QED
  BY <1>1, <1>4, <1>6, <1>7 DEF GoodLot

LEMMA ApplyRefundLotKeeps ==
  ASSUME NEW q, GoodQuota(q), NEW l \in Lots, NEW frozen \in BOOLEAN, NEW target \in 0..MaxLot
  PROVE  Kept(q, ApplyRefundLot(q, l, frozen, target))
<1> DEFINE x == ApplyLotPolicy(q.lot[l], frozen, target)
           r == ApplyRefundLot(q, l, frozen, target)
<1>1. GoodLot(x) /\ x.held = q.lot[l].held /\ Spent(x) = Spent(q.lot[l])
  BY LotPolicy DEF GoodQuota, GoodLot
<1>2. r = [balance |-> q.balance + Available(x) - Available(q.lot[l]),
           lot |-> [q.lot EXCEPT ![l] = x]]
  BY DEF ApplyRefundLot
<1>3. GoodQuota(r)
  <2> HIDE DEF x, r
  <2>1. QED  BY <1>1, <1>2, OneLotChanges
<1>4. r.lot[l] = x /\ \A m \in Lots \ {l} : r.lot[m] = q.lot[m]
  BY <1>2 DEF GoodQuota
<1>5. QED
  BY <1>1, <1>3, <1>4 DEF Kept

(* A grant adds a lot that did not exist. *)
LEMMA GrantKeeps ==
  ASSUME NEW q, GoodQuota(q), NEW l \in Lots, q.lot[l].granted = 0,
         NEW n \in 1..MaxLot, NEW expires \in Nat
  PROVE  Kept(q, Grant(q, l, n, expires))
<1> DEFINE x == NewLot(n, expires)
           r == Grant(q, l, n, expires)
<1>1. GoodLot(x) /\ x.held = 0 /\ Spent(x) = 0 /\ Available(x) = n
  BY LedgerAssumption DEF NewLot, GoodLot, SoundLot, LotRow, Least, Spent, Available
<1>2. q.lot[l].held = 0 /\ Spent(q.lot[l]) = 0 /\ Available(q.lot[l]) = 0
  <2>1. SoundLot(q.lot[l])  BY DEF GoodQuota, GoodLot
  <2>2. q.lot[l].held = 0 /\ q.lot[l].remaining = 0 /\ q.lot[l].revoked = 0
    BY <2>1, LedgerAssumption DEF SoundLot, LotRow
  <2>3. QED  BY <2>2 DEF Spent, Available
<1>3. r = [balance |-> q.balance + n, lot |-> [q.lot EXCEPT ![l] = x]]
  BY DEF Grant
<1>4. q.balance + n = q.balance + Available(x) - Available(q.lot[l])
  BY <1>1, <1>2 DEF GoodQuota
<1>5. GoodQuota(r)
  <2> HIDE DEF x, r
  <2>1. QED  BY <1>1, <1>3, <1>4, OneLotChanges
<1>6. r.lot[l] = x /\ \A m \in Lots \ {l} : r.lot[m] = q.lot[m]
  BY <1>3 DEF GoodQuota
<1>7. QED
  BY <1>1, <1>2, <1>5, <1>6 DEF Kept

(* The syncs revoke what is unspent in the lots that are over. *)
LEMMA RevokeLotsKeeps ==
  ASSUME NEW q, GoodQuota(q), NEW S \in SUBSET Lots
  PROVE  /\ Kept(q, RevokeLots(q, S))
         /\ \A l \in Lots \ S : RevokeLots(q, S).lot[l] = q.lot[l]
<1> DEFINE r == RevokeLots(q, S)
           f == Availability(q.lot)
           g == Availability(r.lot)
<1>1. /\ r.balance = q.balance + Total(S, g) - Total(S, f)
      /\ r = [balance |-> r.balance, lot |-> r.lot]
      /\ r.lot = [l \in Lots |-> IF l \in S
                                 THEN ApplyLotPolicy(q.lot[l], FALSE, q.lot[l].granted)
                                 ELSE q.lot[l]]
  BY DEF RevokeLots
<1> HIDE DEF r
<1>2. \A l \in Lots : GoodLot(q.lot[l]) /\ q.lot[l].granted \in 0..MaxLot
  BY DEF GoodQuota, GoodLot, SoundLot, LotRow
<1>3. \A l \in Lots : /\ GoodLot(r.lot[l])
                      /\ r.lot[l].held = q.lot[l].held
                      /\ Spent(r.lot[l]) = Spent(q.lot[l])
                      /\ l \notin S => r.lot[l] = q.lot[l]
  <2>1. SUFFICES ASSUME NEW l \in Lots
                 PROVE  /\ GoodLot(r.lot[l]) /\ r.lot[l].held = q.lot[l].held
                        /\ Spent(r.lot[l]) = Spent(q.lot[l])
                        /\ l \notin S => r.lot[l] = q.lot[l]
    OBVIOUS
  <2>2. CASE l \notin S
    BY <1>1, <1>2, <2>2
  <2>3. CASE l \in S
    <3>1. r.lot[l] = ApplyLotPolicy(q.lot[l], FALSE, q.lot[l].granted)
      BY <1>1, <2>3
    <3>2. /\ SoundLot(q.lot[l]) /\ q.lot[l].granted \in 0..MaxLot
      BY <1>2 DEF GoodLot
    <3>3. PICK frozen \in BOOLEAN : frozen = FALSE
      OBVIOUS
    <3>6. r.lot[l] = ApplyLotPolicy(q.lot[l], frozen, q.lot[l].granted)
      BY <3>1, <3>3
    <3>4. /\ GoodLot(r.lot[l]) /\ r.lot[l].held = q.lot[l].held
          /\ Spent(r.lot[l]) = Spent(q.lot[l])
      BY ONLY <3>2, <3>6, frozen \in BOOLEAN, LotPolicy
    <3>5. QED  BY <2>3, <3>4
  <2>4. QED  BY <2>2, <2>3
<1>4. r.lot \in [Lots -> LotRow]
  BY <1>1, <1>3 DEF GoodLot, SoundLot
<1>5. \A l \in Lots \ S : f[l] = g[l]
  BY <1>3 DEF Availability
<1>6. Total(Lots \ S, f) = Total(Lots \ S, g)
  <2> HIDE DEF f, g
  <2>1. QED  BY <1>5, TotalSame
<1>7. /\ Total(Lots, f) = Total(S, f) + Total(Lots \ S, f)
      /\ Total(Lots, g) = Total(S, g) + Total(Lots \ S, g)
  BY TotalSplit
<1>8. /\ Total(S, f) \in Nat /\ Total(S, g) \in Nat /\ Total(Lots \ S, g) \in Nat
  BY TotalType
<1>9. r.balance = Total(Lots, g) /\ r.balance \in Nat
  BY <1>1, <1>6, <1>7, <1>8 DEF GoodQuota, Balanced
<1>10. GoodQuota(r)
  BY <1>1, <1>3, <1>4, <1>9 DEF GoodQuota, Balanced
<1>11. QED
  BY <1>3, <1>10 DEF Kept, r

(* An expiry date is no part of the balance. *)
LEMMA NewExpiryKeeps ==
  ASSUME NEW q, GoodQuota(q), NEW l \in Lots, NEW expires \in Nat
  PROVE  Kept(q, [q EXCEPT !.lot[l].expires = expires])
<1> DEFINE x == [q.lot[l] EXCEPT !.expires = expires]
           r == [q EXCEPT !.lot[l].expires = expires]
<1>1. GoodLot(q.lot[l]) /\ q.lot[l] \in LotRow
  BY DEF GoodQuota, GoodLot, SoundLot
<1>2. /\ x \in LotRow
      /\ x.granted = q.lot[l].granted /\ x.remaining = q.lot[l].remaining
      /\ x.held = q.lot[l].held /\ x.revoked = q.lot[l].revoked
      /\ x.target = q.lot[l].target /\ x.frozen = q.lot[l].frozen
  BY <1>1 DEF LotRow
<1>3. GoodLot(x) /\ Available(x) = Available(q.lot[l]) /\ Spent(x) = Spent(q.lot[l])
  BY <1>1, <1>2 DEF GoodLot, SoundLot, Available, Spent
<1>4. Available(x) \in 0..MaxLot
  BY <1>3, AvailableType DEF GoodLot
<1>5. q.balance \in Nat /\ q.balance = q.balance + Available(x) - Available(q.lot[l])
  BY <1>3, <1>4 DEF GoodQuota
<1>6. r = [balance |-> q.balance, lot |-> [q.lot EXCEPT ![l] = x]]
  BY DEF GoodQuota
<1>7. GoodQuota(r)
  <2> HIDE DEF x, r
  <2>1. QED  BY <1>3, <1>5, <1>6, OneLotChanges
<1>8. r.lot[l] = x /\ \A m \in Lots \ {l} : r.lot[m] = q.lot[m]
  BY <1>6 DEF GoodQuota
<1>9. QED
  BY <1>2, <1>3, <1>7, <1>8 DEF Kept

(* What the operations read beside the lots. *)
Context ==
  /\ now \in Time
  /\ trial \in [eligible : BOOLEAN, activated : Nat, expires : Nat]
  /\ plan \in [from : Nat, until : Nat, ended : BOOLEAN]

LEMMA Windows ==
  ASSUME Context
  PROVE  /\ TrialLot(Day(now)) \in Lots
         /\ PlusLot(Day(now)) \in Lots
         /\ DayEnd(now) \in Nat /\ now < DayEnd(now)
<1>1. now \in Nat /\ DayLength \in Nat \ {0} /\ DayOffset \in Nat
  BY LedgerAssumption DEF Context, Time
<1>2. DayEnd(now) \in Nat /\ now < DayEnd(now)
  BY <1>1 DEF Day, DayEnd
<1>3. Day(now) \in Days
  BY DEF Context, Days
<1>4. QED
  BY <1>2, <1>3 DEF Lots, PlusLots, TrialLot, PlusLot

LEMMA SyncFreeTrialKeeps ==
  ASSUME Context, NEW q, GoodQuota(q),
         NEW t \in [eligible : BOOLEAN, activated : Nat, expires : Nat]
  PROVE  Kept(q, SyncFreeTrial(q, t))
<1> DEFINE S == {l \in Lots : /\ q.lot[l].expires <= now
                              /\ q.lot[l].target # q.lot[l].granted}
           x == RevokeLots(q, S)
           today == TrialLot(Day(now))
           expires == Least(DayEnd(now), t.expires)
<1>1. Kept(q, x)
  BY RevokeLotsKeeps
<1>2. today \in Lots /\ expires \in Nat /\ DailyTrial \in 1..MaxLot
  BY Windows, LedgerAssumption DEF Least
<1>3. SyncFreeTrial(q, t) = IF TrialActive(t) /\ x.lot[today].granted = 0
                            THEN Grant(x, today, DailyTrial, expires)
                            ELSE x
  BY DEF SyncFreeTrial
<1> HIDE DEF x, today, expires
<1>4. CASE TrialActive(t) /\ x.lot[today].granted = 0
  <2>1. Kept(x, Grant(x, today, DailyTrial, expires))
    BY <1>1, <1>2, <1>4, GrantKeeps DEF Kept
  <2>2. QED  BY <1>1, <1>3, <1>4, <2>1, KeptTrans
<1>5. CASE ~(TrialActive(t) /\ x.lot[today].granted = 0)
  BY <1>1, <1>3, <1>5
<1>6. QED  BY <1>4, <1>5

LEMMA SyncPlusKeeps ==
  ASSUME Context, NEW q, GoodQuota(q)
  PROVE  Kept(q, SyncPlus(q))
<1> DEFINE S == {l \in PlusLots : q.lot[l].target # q.lot[l].granted}
           today == PlusLot(Day(now))
           expires == Least(DayEnd(now), plan.until)
           renewed == [q EXCEPT !.lot[today].expires = expires]
<1>1. today \in Lots /\ expires \in Nat /\ DailyPlus \in 1..MaxLot
  BY Windows, LedgerAssumption DEF Least, Context
<1>2. S \in SUBSET Lots
  BY DEF Lots
<1>3. /\ ~PlusActive => SyncPlus(q) = RevokeLots(q, S)
      /\ PlusActive /\ q.lot[today].granted = 0
           => SyncPlus(q) = Grant(q, today, DailyPlus, expires)
      /\ PlusActive /\ q.lot[today].granted # 0
           => SyncPlus(q) = ApplyRefundLot(renewed, today, FALSE, 0)
  BY DEF SyncPlus
<1> HIDE DEF S, today, expires
<1>4. CASE ~PlusActive
  BY <1>2, <1>3, <1>4, RevokeLotsKeeps
<1>5. CASE PlusActive /\ q.lot[today].granted = 0
  BY <1>1, <1>3, <1>5, GrantKeeps
<1>6. CASE PlusActive /\ q.lot[today].granted # 0
  <2>1. Kept(q, renewed)
    BY <1>1, NewExpiryKeeps
  <2>2. PICK frozen \in BOOLEAN : frozen = FALSE
    OBVIOUS
  <2>3. Kept(renewed, ApplyRefundLot(renewed, today, frozen, 0))
    <3> HIDE DEF renewed
    <3>1. 0 \in 0..MaxLot  BY LedgerAssumption
    <3>2. QED  BY <1>1, <2>1, <3>1, ApplyRefundLotKeeps DEF Kept
  <2>4. SyncPlus(q) = ApplyRefundLot(renewed, today, frozen, 0)
    BY <1>3, <1>6, <2>2
  <2>5. QED
    <3> HIDE DEF renewed
    <3>1. QED  BY <2>1, <2>3, <2>4, KeptTrans
<1>7. QED  BY <1>4, <1>5, <1>6

LEMMA SyncedKeeps ==
  ASSUME Context, NEW q, GoodQuota(q),
         NEW t \in [eligible : BOOLEAN, activated : Nat, expires : Nat]
  PROVE  Kept(q, Synced(q, t))
<1>1. Kept(q, SyncFreeTrial(q, t))  BY SyncFreeTrialKeeps
<1>2. Kept(SyncFreeTrial(q, t), SyncPlus(SyncFreeTrial(q, t)))
  BY <1>1, SyncPlusKeeps DEF Kept
<1>3. QED  BY <1>1, <1>2, KeptTrans DEF Synced

(* A hold takes one available question of a lot. *)
LEMMA HoldOnTakes ==
  ASSUME NEW q, GoodQuota(q), NEW l \in Lots,
         q.lot[l].remaining > q.lot[l].held, ~q.lot[l].frozen
  PROVE  LET r == HoldOn(q, l)
         IN  /\ GoodQuota(r)
             /\ r.lot[l].held = q.lot[l].held + 1
             /\ \A m \in Lots \ {l} : r.lot[m] = q.lot[m]
             /\ \A m \in Lots : Spent(r.lot[m]) = Spent(q.lot[m])
             /\ SameTerms(q.lot[l], r.lot[l])
<1> DEFINE x == [q.lot[l] EXCEPT !.held = @ + 1]
           r == HoldOn(q, l)
<1>1. SoundLot(q.lot[l]) /\ GoodLot(q.lot[l])
  BY DEF GoodQuota, GoodLot
<1>2. /\ q.lot[l].granted \in 0..MaxLot /\ q.lot[l].remaining \in 0..MaxLot
      /\ q.lot[l].held \in 0..MaxLot /\ q.lot[l].revoked \in 0..MaxLot
      /\ q.lot[l].target \in 0..MaxLot
      /\ q.lot[l].remaining + q.lot[l].revoked <= q.lot[l].granted
  BY <1>1 DEF SoundLot, LotRow
<1>3. /\ x \in LotRow
      /\ x.held = q.lot[l].held + 1
      /\ x.granted = q.lot[l].granted /\ x.remaining = q.lot[l].remaining
      /\ x.revoked = q.lot[l].revoked /\ x.target = q.lot[l].target
      /\ x.frozen = q.lot[l].frozen /\ x.expires = q.lot[l].expires
  <2>1. q.lot[l].held + 1 \in 0..MaxLot  BY <1>2, LedgerAssumption
  <2>2. QED  BY <1>1, <2>1 DEF SoundLot, LotRow
<1>4. SoundLot(x)
  BY <1>2, <1>3 DEF SoundLot
<1>5. x.revoked = Least(x.target, x.remaining + x.revoked - x.held)
  BY <1>1, <1>2, <1>3 DEF GoodLot, Least
<1>6. Available(x) = Available(q.lot[l]) - 1 /\ Spent(x) = Spent(q.lot[l])
  BY <1>2, <1>3 DEF Available, Spent
<1>7. r = [balance |-> q.balance - 1, lot |-> [q.lot EXCEPT ![l] = x]]
  BY DEF HoldOn
<1>8. Available(q.lot[l]) \in 0..MaxLot
  BY <1>1, AvailableType
<1>9. q.balance - 1 = q.balance + Available(x) - Available(q.lot[l])
  BY <1>6, <1>8 DEF GoodQuota
<1>10. GoodQuota(r)
  <2> HIDE DEF x, r
  <2>1. QED  BY <1>4, <1>5, <1>7, <1>9, OneLotChanges DEF GoodLot
<1>11. r.lot[l] = x /\ \A m \in Lots \ {l} : r.lot[m] = q.lot[m]
  BY <1>7 DEF GoodQuota
<1>12. SameTerms(q.lot[l], r.lot[l])
  BY <1>3, <1>11 DEF SameTerms
<1>13. QED
  BY <1>3, <1>6, <1>10, <1>11, <1>12

(* A settlement gives a hold back, charged or not, and revokes first. *)
LEMMA SettleOnEnds ==
  ASSUME NEW q, GoodQuota(q), NEW l \in Lots, q.lot[l].held > 0, NEW charge \in BOOLEAN
  PROVE  LET r == SettleOn(q, l, charge)
         IN  /\ GoodQuota(r)
             /\ r.lot[l].held = q.lot[l].held - 1
             /\ Spent(r.lot[l]) = Spent(q.lot[l]) + (IF charge THEN 1 ELSE 0)
             /\ \A m \in Lots \ {l} : r.lot[m] = q.lot[m]
             /\ SameTerms(q.lot[l], r.lot[l])
<1> DEFINE p == q.lot[l]
           x == [p EXCEPT !.held = @ - 1, !.remaining = IF charge THEN @ - 1 ELSE @]
           b == IF charge \/ x.frozen THEN q.balance ELSE q.balance + 1
           after == ApplyLotPolicy(x, x.frozen, x.target)
           r == SettleOn(q, l, charge)
<1>1. GoodLot(p) /\ SoundLot(p) /\ p \in LotRow /\ p.held > 0
  BY DEF GoodQuota, GoodLot, SoundLot
<1> HIDE DEF p
<1>2. /\ p.granted \in 0..MaxLot /\ p.remaining \in 0..MaxLot /\ p.held \in 0..MaxLot
      /\ p.revoked \in 0..MaxLot /\ p.target \in 0..MaxLot /\ p.frozen \in BOOLEAN
      /\ p.held <= p.remaining /\ p.remaining + p.revoked <= p.granted /\ p.held > 0
  BY <1>1 DEF SoundLot, LotRow
<1>3. /\ x \in LotRow
      /\ x.held = p.held - 1
      /\ x.remaining = IF charge THEN p.remaining - 1 ELSE p.remaining
      /\ x.granted = p.granted /\ x.revoked = p.revoked
      /\ x.target = p.target /\ x.frozen = p.frozen /\ x.expires = p.expires
  <2>1. /\ p.held - 1 \in 0..MaxLot
        /\ (IF charge THEN p.remaining - 1 ELSE p.remaining) \in 0..MaxLot
    BY <1>2, LedgerAssumption
  <2>2. QED  BY <1>1, <2>1 DEF LotRow
<1>4. SoundLot(x)
  BY <1>2, <1>3 DEF SoundLot
<1>5. Spent(x) = Spent(p) + (IF charge THEN 1 ELSE 0)
  BY <1>2, <1>3 DEF Spent
<1>6. /\ Available(p) \in 0..MaxLot /\ Available(x) \in 0..MaxLot
      /\ b = q.balance + Available(x) - Available(p)
  <2>1. Available(p) \in 0..MaxLot /\ Available(x) \in 0..MaxLot
    BY <1>1, <1>4, AvailableType
  <2>2. q.balance \in Nat
    BY DEF GoodQuota
  <2>3. QED  BY <1>2, <1>3, <2>1, <2>2 DEF Available
<1>7. /\ GoodLot(after) /\ after.held = x.held /\ Spent(after) = Spent(x)
      /\ after.granted = x.granted /\ after.expires = x.expires /\ after.frozen = x.frozen
  <2>1. x.frozen \in BOOLEAN /\ x.target \in 0..MaxLot
    BY <1>2, <1>3
  <2> HIDE DEF x
  <2>2. QED  BY <1>4, <2>1, LotPolicy
<1>8. r = [balance |-> b + Available(after) - Available(x), lot |-> [q.lot EXCEPT ![l] = after]]
  <2>1. q.lot \in [Lots -> LotRow]
    BY DEF GoodQuota
  <2>2. r = ApplyRefundLot([balance |-> b, lot |-> [q.lot EXCEPT ![l] = x]], l, x.frozen, x.target)
    BY DEF SettleOn, p
  <2>3. [q.lot EXCEPT ![l] = x][l] = x
    BY <2>1
  <2> HIDE DEF x, b
  <2>4. QED  BY <2>1, <2>2, <2>3 DEF ApplyRefundLot
<1>9. b + Available(after) - Available(x) = q.balance + Available(after) - Available(q.lot[l])
  <2>1. Available(after) \in 0..MaxLot
    BY <1>7, AvailableType DEF GoodLot
  <2>2. q.balance \in Nat
    BY DEF GoodQuota
  <2> HIDE DEF x, b, after
  <2>3. QED  BY <1>6, <2>1, <2>2 DEF p
<1>10. GoodQuota(r)
  <2> HIDE DEF x, b, after, r
  <2>1. QED  BY <1>7, <1>8, <1>9, OneLotChanges
<1>11. r.lot[l] = after /\ \A m \in Lots \ {l} : r.lot[m] = q.lot[m]
  BY <1>8 DEF GoodQuota
<1>12. r.lot[l].held = q.lot[l].held - 1
  BY <1>3, <1>7, <1>11 DEF p
<1>13. Spent(r.lot[l]) = Spent(q.lot[l]) + (IF charge THEN 1 ELSE 0)
  BY <1>5, <1>7, <1>11 DEF p
<1>14. SameTerms(q.lot[l], r.lot[l])
  BY <1>3, <1>7, <1>11 DEF SameTerms, p
<1>15. QED
  BY <1>10, <1>11, <1>12, <1>13, <1>14

LEMMA KeptSelf ==
  ASSUME NEW q, GoodQuota(q)
  PROVE  Kept(q, q)
BY DEF Kept

LEMMA CompensateKeeps ==
  ASSUME NEW q, GoodQuota(q), NEW p \in Captures
  PROVE  Kept(q, Compensate(q, p))
<1>1. RecoveryLot(p) \in Lots
  BY DEF Lots, RecoveryLot
<1>2. Never \in Nat /\ 1 \in 1..MaxLot
  BY LedgerAssumption DEF Never
<1>3. CASE q.lot[RecoveryLot(p)].granted = 0
  BY <1>1, <1>2, <1>3, GrantKeeps DEF Compensate
<1>4. CASE q.lot[RecoveryLot(p)].granted # 0
  BY <1>4, KeptSelf DEF Compensate
<1>5. QED  BY <1>3, <1>4
-----------------------------------------------------------------------------
(* The inductive invariant *)

CapturesType == captures \in [Captures -> CaptureRow]

(* Where a capture's question comes from: a solve holds one of a lot from its       *)
(* admission on, a follow-up has a parent and never a question.                     *)
CaptureBinding(c) ==
  /\ captures[c].state = "none" => captures[c].op = "solve" /\ captures[c].lot = None
  /\ captures[c].state # "none" /\ captures[c].op = "solve" => captures[c].lot \in Lots
  /\ captures[c].op # "solve" => /\ captures[c].lot = None
                                 /\ captures[c].parent \in Captures
                                 /\ captures[c].state \in {"held", "released"}
CaptureBindings == \A c \in Captures : CaptureBinding(c)

SweepType == sweep \in [at : Time, todo : SUBSET Captures]

Charges == \A l \in Lots : Spent(quota.lot[l]) = Cardinality(SettledOn(l))

LedgerInv ==
  /\ Context
  /\ plan \in Plans \cup {NoPlan}
  /\ SweepType
  /\ CapturesType
  /\ CaptureBindings
  /\ GoodQuota(quota)
  /\ HoldsMatchCaptures
  /\ Charges

(* The invariant gives each safety property of the ledger. *)
LEMMA InvImplies ==
  ASSUME LedgerInv
  PROVE  /\ TypeOK /\ LotChecks /\ BalanceMatchesLots /\ HoldsMatchCaptures
         /\ QuestionsConserved /\ RevocationComesFirst
<1>1. TypeOK
  BY DEF LedgerInv, TypeOK, Context, SweepType, CapturesType, GoodQuota
<1>2. \A l \in Lots : GoodLot(quota.lot[l]) /\ SoundLot(quota.lot[l])
  BY DEF LedgerInv, GoodQuota, GoodLot
<1>3. \A l \in Lots : LET x == quota.lot[l]
                      IN  /\ x.granted \in Nat /\ x.remaining \in Nat /\ x.held \in Nat
                          /\ x.revoked \in Nat /\ x.target \in Nat
  BY <1>2, LedgerAssumption DEF SoundLot, LotRow
<1>4. LotChecks
  BY <1>2, <1>3 DEF LotChecks, SoundLot
<1>5. BalanceMatchesLots
  BY DEF LedgerInv, GoodQuota, Balanced, BalanceMatchesLots
<1>6. HoldsMatchCaptures
  BY DEF LedgerInv
<1>7. QuestionsConserved
  <2>1. SUFFICES ASSUME NEW l \in Lots
                 PROVE  quota.lot[l].remaining + quota.lot[l].revoked + Cardinality(SettledOn(l))
                          = quota.lot[l].granted
    BY DEF QuestionsConserved
  <2>2. Cardinality(SettledOn(l)) = quota.lot[l].granted - quota.lot[l].remaining
                                      - quota.lot[l].revoked
    BY DEF LedgerInv, Charges, Spent
  <2>3. QED  BY <1>3, <2>2
<1>8. RevocationComesFirst
  <2>1. SUFFICES ASSUME NEW l \in Lots, quota.lot[l].revoked < quota.lot[l].target
                 PROVE  quota.lot[l].remaining = quota.lot[l].held
    BY DEF RevocationComesFirst
  <2>2. quota.lot[l].revoked = Least(quota.lot[l].target, quota.lot[l].remaining
                                       + quota.lot[l].revoked - quota.lot[l].held)
    BY <1>2 DEF GoodLot
  <2>3. QED  BY <1>3, <2>1, <2>2 DEF Least
<1>9. QED  BY <1>1, <1>4, <1>5, <1>6, <1>7, <1>8

LEMMA TakersFinite ==
  ASSUME NEW l
  PROVE  /\ IsFiniteSet(HeldOn(l)) /\ Cardinality(HeldOn(l)) \in Nat
         /\ IsFiniteSet(SettledOn(l)) /\ Cardinality(SettledOn(l)) \in Nat
<1>1. IsFiniteSet(Captures)
  BY LedgerAssumption
<1>2. HeldOn(l) \in SUBSET Captures /\ SettledOn(l) \in SUBSET Captures
  BY DEF HeldOn, SettledOn
<1>3. IsFiniteSet(HeldOn(l)) /\ IsFiniteSet(SettledOn(l))
  BY ONLY <1>1, <1>2, FS_Subset
<1>4. QED
  BY ONLY <1>3, FS_CardinalityType

LEMMA InitInv == Init => LedgerInv
<1> SUFFICES ASSUME Init PROVE LedgerInv
  OBVIOUS
<1> USE DEF Init
<1>1. Context
  BY LedgerAssumption DEF Context, Time, NoPlan, Never
<1>2. plan \in Plans \cup {NoPlan} /\ SweepType
  BY LedgerAssumption DEF SweepType, Time
<1>3. CapturesType /\ CaptureBindings
  BY LedgerAssumption DEF CapturesType, CaptureBindings, CaptureBinding, CaptureRow,
    NoRequest, Operations, Time
<1>4. InitialLot \in Lots /\ Never \in Nat /\ 0 \in 0..MaxLot /\ InitialGrant \in 0..MaxLot
  BY LedgerAssumption DEF Lots, Never
<1>5. ASSUME NEW n \in 0..MaxLot
      PROVE  GoodLot(NewLot(n, Never)) /\ Available(NewLot(n, Never)) = n
             /\ NewLot(n, Never).held = 0 /\ Spent(NewLot(n, Never)) = 0
  BY <1>4, LedgerAssumption
    DEF GoodLot, SoundLot, LotRow, NewLot, Least, Available, Spent
<1>6. \A l \in Lots : /\ quota.lot[l] = NewLot(IF l = InitialLot THEN InitialGrant ELSE 0, Never)
                      /\ (IF l = InitialLot THEN InitialGrant ELSE 0) \in 0..MaxLot
  BY <1>4
<1>7. \A l \in Lots : /\ GoodLot(quota.lot[l]) /\ quota.lot[l].held = 0
                      /\ Spent(quota.lot[l]) = 0
                      /\ Available(quota.lot[l]) = IF l = InitialLot THEN InitialGrant ELSE 0
  BY <1>5, <1>6
<1>8. quota.lot \in [Lots -> LotRow]
  <2>1. \A l \in Lots : quota.lot[l] \in LotRow
    BY <1>7 DEF GoodLot, SoundLot
  <2>2. QED  BY <2>1
<1>9. quota.balance = Total(Lots, Availability(quota.lot))
  <2> DEFINE f == Availability(quota.lot)
             g == [l \in Lots |-> 0]
  <2>1. f[InitialLot] = InitialGrant /\ g[InitialLot] = 0
        /\ \A m \in Lots \ {InitialLot} : g[m] = f[m]
    BY <1>4, <1>7 DEF Availability
  <2>2. Total(Lots, g) = 0
    <3>1. Counted(Lots, g) = {}
      BY LedgerAssumption DEF Counted
    <3>2. QED  BY <3>1, FS_EmptySet DEF Total, Counted
  <2>3. Total(Lots, f) = Total(Lots, g) + f[InitialLot] - g[InitialLot]
    <3>1. f[InitialLot] \in 0..MaxLot /\ g[InitialLot] \in 0..MaxLot
      BY <1>4, <2>1
    <3> HIDE DEF f, g
    <3>2. QED  BY <1>4, <2>1, <3>1, TotalUpdate
  <2>4. quota.balance = InitialGrant
    OBVIOUS
  <2>5. QED  BY <1>4, <2>1, <2>2, <2>3, <2>4
<1>10. GoodQuota(quota)
  <2>1. quota.balance \in Nat
    BY <1>4
  <2>2. QED  BY <1>7, <1>8, <1>9, <2>1 DEF GoodQuota, Balanced
<1>11. \A l \in Lots : HeldOn(l) = {} /\ SettledOn(l) = {}
  BY DEF HeldOn, SettledOn, NoRequest
<1>12. HoldsMatchCaptures /\ Charges
  BY <1>7, <1>11, FS_EmptySet DEF HoldsMatchCaptures, Charges
<1>13. QED
  BY <1>1, <1>2, <1>3, <1>10, <1>12 DEF LedgerInv

(* A step that neither holds nor ends a question only has to keep the quota good.   *)
LEMMA BookkeepingStep ==
  ASSUME LedgerInv, Kept(quota, quota'),
         \A l \in Lots : HeldOn(l)' = HeldOn(l) /\ SettledOn(l)' = SettledOn(l)
  PROVE  GoodQuota(quota') /\ HoldsMatchCaptures' /\ Charges'
BY DEF LedgerInv, Kept, HoldsMatchCaptures, Charges

LEMMA SyncStep ==
  ASSUME LedgerInv, quota' = Synced(quota, trial), UNCHANGED captures
  PROVE  GoodQuota(quota') /\ HoldsMatchCaptures' /\ Charges'
<1>1. Kept(quota, quota')
  BY SyncedKeeps DEF LedgerInv, Context
<1>2. \A l \in Lots : HeldOn(l)' = HeldOn(l) /\ SettledOn(l)' = SettledOn(l)
  BY DEF HeldOn, SettledOn
<1>3. QED  BY <1>1, <1>2, BookkeepingStep

LEMMA NewCaptureType ==
  ASSUME now \in Time, NEW op \in Operations, NEW parent \in Captures \cup {None},
         NEW lot \in Lots \cup {None}
  PROVE  NewCapture(op, parent, lot) \in CaptureRow
<1>1. now + Lease(op) \in Nat
  BY LedgerAssumption DEF Time, Lease
<1> DEFINE e == now + Lease(op)
<1> HIDE DEF e
<1>2. [state |-> "held", op |-> op, lot |-> lot, parent |-> parent, created |-> now,
       expires |-> e, usable |-> FALSE, explained |-> None, recovered |-> None] \in CaptureRow
  BY <1>1 DEF CaptureRow, e
<1>3. QED  BY <1>2 DEF NewCapture, e

LEMMA BeginSolveInv ==
  ASSUME LedgerInv, NEW c \in Captures, NEW exclusive, NEW allowPurchased,
         BeginSolve(c, exclusive, allowPurchased)
  PROVE  LedgerInv'
<1> DEFINE q == Synced(quota, trial)
<1>1. PICK l \in Preferred(q, allowPurchased) :
        /\ quota' = HoldOn(q, l)
        /\ captures' = [captures EXCEPT ![c] = NewCapture("solve", None, l)]
  BY DEF BeginSolve
<1>2. captures[c].state = "none" /\ UNCHANGED <<now, trial, plan, sweep>>
  BY DEF BeginSolve
<1>3. Kept(quota, q)
  BY SyncedKeeps DEF LedgerInv, Context
<1>4. l \in Lots /\ q.lot[l].remaining > q.lot[l].held /\ ~q.lot[l].frozen
  BY <1>1 DEF Preferred, Spendable
<1> HIDE DEF q
<1>5. /\ GoodQuota(quota')
      /\ quota'.lot[l].held = quota.lot[l].held + 1
      /\ \A m \in Lots \ {l} : quota'.lot[m].held = quota.lot[m].held
      /\ \A m \in Lots : Spent(quota'.lot[m]) = Spent(quota.lot[m])
  BY <1>1, <1>3, <1>4, HoldOnTakes DEF Kept
<1>6. /\ NewCapture("solve", None, l).state = "held"
      /\ NewCapture("solve", None, l).op = "solve"
      /\ NewCapture("solve", None, l).lot = l
  BY DEF NewCapture
<1>7. CapturesType' /\ CaptureBindings'
  <2>1. now \in Time /\ now + SolveLease \in Nat /\ CapturesType /\ CaptureBindings
    BY LedgerAssumption DEF LedgerInv, Context, Time
  <2>2. NewCapture("solve", None, l) \in CaptureRow
    BY <1>4, <2>1, NewCaptureType DEF Operations
  <2>3. CapturesType'
    BY <1>1, <2>1, <2>2 DEF CapturesType
  <2>4. \A d \in Captures : captures'[d] = IF d = c THEN NewCapture("solve", None, l) ELSE captures[d]
    BY <1>1, <2>1 DEF CapturesType
  <2>5. ASSUME NEW d \in Captures PROVE CaptureBinding(d)'
    <3>1. CASE d = c
      BY <1>4, <1>6, <2>4, <3>1 DEF CaptureBinding
    <3>2. CASE d # c
      BY <2>1, <2>4, <3>2 DEF CaptureBindings, CaptureBinding
    <3>3. QED  BY <3>1, <3>2
  <2>6. QED  BY <2>3, <2>5 DEF CaptureBindings
<1>8. /\ captures'[c].state = "held" /\ captures'[c].lot = l
      /\ \A d \in Captures \ {c} : captures'[d] = captures[d]
  BY <1>1, <1>6 DEF LedgerInv, CapturesType
<1>9. \A m \in Lots : /\ HeldOn(m)' = IF m = l THEN HeldOn(m) \cup {c} ELSE HeldOn(m)
                      /\ SettledOn(m)' = SettledOn(m)
  BY <1>2, <1>8 DEF HeldOn, SettledOn
<1>10. c \notin HeldOn(l)
  BY <1>2 DEF HeldOn
<1>11. HoldsMatchCaptures' /\ Charges'
  <2>1. Cardinality(HeldOn(l) \cup {c}) = Cardinality(HeldOn(l)) + 1
    BY <1>10, TakersFinite, FS_AddElement
  <2>2. HoldsMatchCaptures'
    BY <1>4, <1>5, <1>9, <2>1 DEF LedgerInv, HoldsMatchCaptures
  <2>3. Charges'
    BY <1>5, <1>9 DEF LedgerInv, Charges
  <2>4. QED  BY <2>2, <2>3
<1>12. QED
  BY <1>2, <1>5, <1>7, <1>11 DEF LedgerInv, Context, SweepType

LEMMA BeginFollowUpInv ==
  ASSUME LedgerInv, NEW c \in Captures, NEW op \in {"explain", "recover"},
         NEW p \in Captures, NEW answer, BeginFollowUp(c, op, p, answer)
  PROVE  LedgerInv'
<1> DEFINE x == NewCapture(op, p, None)
<1>1. /\ captures[c].state = "none" /\ captures[p].state = "settled" /\ captures[p].op = "solve"
      /\ c # p
      /\ UNCHANGED <<now, trial, plan, sweep>>
  BY DEF BeginFollowUp, Usable
<1>2. CapturesType /\ CaptureBindings /\ now \in Time
  BY DEF LedgerInv, Context
<1>3. x.state = "held" /\ x.op = op /\ x.lot = None /\ x.parent = p
  BY DEF NewCapture
<1>4. x \in CaptureRow
  BY <1>2, NewCaptureType DEF Operations
<1> HIDE DEF x
<1>5. captures' = [captures EXCEPT
        ![c] = x,
        ![p].explained = IF op = "explain" THEN c ELSE @,
        ![p].recovered = IF op = "recover" THEN c ELSE @]
  BY DEF BeginFollowUp, x
<1>6. /\ captures'[c] = x
      /\ captures'[p] = [captures[p] EXCEPT
           !.explained = IF op = "explain" THEN c ELSE @,
           !.recovered = IF op = "recover" THEN c ELSE @]
      /\ \A d \in Captures \ {c, p} : captures'[d] = captures[d]
      /\ DOMAIN captures' = Captures
      /\ captures' = [d \in Captures |-> captures'[d]]
  BY <1>1, <1>2, <1>5 DEF CapturesType
<1>7. captures[p] \in CaptureRow
  BY <1>2 DEF CapturesType
<1>8. /\ captures'[p] \in CaptureRow
      /\ captures'[p].state = captures[p].state /\ captures'[p].op = captures[p].op
      /\ captures'[p].lot = captures[p].lot
  BY <1>6, <1>7 DEF CaptureRow
<1>9. CapturesType'
  <2>1. \A d \in Captures : captures'[d] \in CaptureRow
    BY <1>2, <1>4, <1>6, <1>8 DEF CapturesType
  <2>2. QED  BY <1>6, <2>1 DEF CapturesType
<1>10. CaptureBindings'
  <2>1. SUFFICES ASSUME NEW d \in Captures PROVE CaptureBinding(d)'
    BY DEF CaptureBindings
  <2>2. CaptureBinding(d)
    BY <1>2 DEF CaptureBindings
  <2>3. CASE d = c
    BY <1>3, <1>6, <2>3 DEF CaptureBinding
  <2>4. CASE d = p
    BY <1>1, <1>8, <2>2, <2>4 DEF CaptureBinding
  <2>5. CASE d \notin {c, p}
    BY <1>6, <2>2, <2>5 DEF CaptureBinding
  <2>6. QED  BY <2>3, <2>4, <2>5
<1>11. \A l \in Lots : HeldOn(l)' = HeldOn(l) /\ SettledOn(l)' = SettledOn(l)
  <2>1. captures[c].state \notin {"held", "settled"} /\ \A l \in Lots : x.lot # l
    BY <1>1, <1>3, NoLotIsNone
  <2>2. \A l \in Lots, d \in Captures :
          (captures'[d].lot = l /\ captures'[d].state = "held")
            <=> (captures[d].lot = l /\ captures[d].state = "held")
    BY <1>6, <1>8, <2>1
  <2>3. \A l \in Lots, d \in Captures :
          (captures'[d].lot = l /\ captures'[d].state = "settled")
            <=> (captures[d].lot = l /\ captures[d].state = "settled")
    BY <1>6, <1>8, <2>1
  <2>4. QED  BY <2>2, <2>3 DEF HeldOn, SettledOn
<1>12. quota' = Synced(quota, trial)
  BY DEF BeginFollowUp
<1>13. Kept(quota, quota')
  BY <1>12, SyncedKeeps DEF LedgerInv, Context
<1>14. GoodQuota(quota') /\ HoldsMatchCaptures' /\ Charges'
  BY <1>11, <1>13, BookkeepingStep
<1>15. QED
  BY <1>1, <1>9, <1>10, <1>14 DEF LedgerInv, Context, SweepType

(* What a terminal outcome does to the quota: a solve gives its hold back and is   *)
(* charged or not, a follow-up leaves every hold and every charge alone.           *)
LEMMA FinishedQuotaEnds ==
  ASSUME LedgerInv, NEW c \in Captures, captures[c].state = "held",
         NEW charge \in BOOLEAN, NEW usable \in BOOLEAN
  PROVE  LET q == FinishedQuota(c, charge, usable)
             l == captures[c].lot
         IN  /\ GoodQuota(q)
             /\ captures[c].op = "solve" =>
                  /\ l \in Lots
                  /\ q.lot[l].held = quota.lot[l].held - 1
                  /\ Spent(q.lot[l]) = Spent(quota.lot[l]) + (IF Charged(c, charge) THEN 1 ELSE 0)
                  /\ \A m \in Lots \ {l} : q.lot[m] = quota.lot[m]
                  /\ SameTerms(quota.lot[l], q.lot[l])
             /\ captures[c].op # "solve" => Kept(quota, q)
<1> DEFINE q == FinishedQuota(c, charge, usable)
           l == captures[c].lot
<1>1. GoodQuota(quota) /\ HoldsMatchCaptures /\ CaptureBinding(c)
  BY DEF LedgerInv, CaptureBindings
<1>2. CASE captures[c].op = "solve"
  <2>1. l \in Lots
    BY <1>1, <1>2 DEF CaptureBinding
  <2>2. c \in HeldOn(l)
    BY DEF HeldOn
  <2>3. quota.lot[l].held > 0
    <3>1. quota.lot[l].held = Cardinality(HeldOn(l))
      BY <1>1, <2>1 DEF HoldsMatchCaptures
    <3>2. Cardinality(HeldOn(l)) # 0
      BY <2>2, TakersFinite, FS_EmptySet
    <3>3. QED  BY <3>1, <3>2, TakersFinite
  <2>4. PICK ch \in BOOLEAN : ch = Charged(c, charge)
    BY DEF Charged
  <2>5. q = SettleOn(quota, l, ch)
    BY <1>2, <2>4 DEF FinishedQuota
  <2>6. /\ GoodQuota(q)
        /\ q.lot[l].held = quota.lot[l].held - 1
        /\ Spent(q.lot[l]) = Spent(quota.lot[l]) + (IF ch THEN 1 ELSE 0)
        /\ \A m \in Lots \ {l} : q.lot[m] = quota.lot[m]
        /\ SameTerms(quota.lot[l], q.lot[l])
    BY <1>1, <2>1, <2>3, <2>5, SettleOnEnds
  <2>7. QED  BY <1>2, <2>1, <2>4, <2>6
<1>3. CASE captures[c].op # "solve"
  <2>1. captures[c].parent \in Captures
    BY <1>1, <1>3 DEF CaptureBinding
  <2>2. q = quota \/ q = Compensate(quota, captures[c].parent)
    BY <1>3 DEF FinishedQuota
  <2>3. Kept(quota, q)
    BY <1>1, <2>1, <2>2, CompensateKeeps, KeptSelf
  <2>4. QED  BY <1>3, <2>3 DEF Kept
<1>4. QED  BY <1>2, <1>3

LEMMA FinishedChanges ==
  ASSUME NEW c \in Captures, NEW charge \in BOOLEAN, NEW usable \in BOOLEAN,
         captures' = FinishedCaptures(c, charge, usable)
  PROVE  \E st \in {"settled", "released"}, us \in BOOLEAN :
           /\ st = "settled" <=> captures[c].op = "solve" /\ Charged(c, charge)
           /\ captures[c].op # "solve" => (us <=> usable)
           /\ captures' = [captures EXCEPT ![c].state = st, ![c].usable = us]
<1> DEFINE settled == captures[c].op = "solve" /\ Charged(c, charge)
           st == IF settled THEN "settled" ELSE "released"
           us == usable /\ (captures[c].op = "solve" => Charged(c, charge))
<1>1. us \in BOOLEAN /\ st \in {"settled", "released"}
  OBVIOUS
<1>2. captures' = [captures EXCEPT ![c].state = st, ![c].usable = us]
  BY DEF FinishedCaptures
<1>3. st = "settled" <=> settled
  OBVIOUS
<1>4. captures[c].op # "solve" => (us <=> usable)
  OBVIOUS
<1>5. QED  BY <1>1, <1>2, <1>3, <1>4

(* A terminal outcome of a held capture ends its hold, and charges at most once.    *)
LEMMA FinishedStep ==
  ASSUME LedgerInv, NEW c \in Captures, captures[c].state = "held",
         NEW charge \in BOOLEAN, NEW usable \in BOOLEAN,
         Kept(FinishedQuota(c, charge, usable), quota'),
         captures' = FinishedCaptures(c, charge, usable)
  PROVE  CapturesType' /\ CaptureBindings' /\ GoodQuota(quota') /\ HoldsMatchCaptures' /\ Charges'
<1> DEFINE q == FinishedQuota(c, charge, usable)
           l == captures[c].lot
           settled == captures[c].op = "solve" /\ Charged(c, charge)
<1>1. CapturesType /\ CaptureBindings /\ GoodQuota(quota) /\ HoldsMatchCaptures /\ Charges
  BY DEF LedgerInv
<1>2. captures[c] \in CaptureRow
  BY <1>1 DEF CapturesType
<1>3. PICK st \in {"settled", "released"}, us \in BOOLEAN :
        /\ st = "settled" <=> settled
        /\ captures' = [captures EXCEPT ![c].state = st, ![c].usable = us]
  BY FinishedChanges
<1>4. /\ captures'[c] = [captures[c] EXCEPT !.state = st, !.usable = us]
      /\ \A d \in Captures \ {c} : captures'[d] = captures[d]
      /\ captures' = [d \in Captures |-> captures'[d]]
  BY <1>1, <1>3 DEF CapturesType
<1>5. /\ captures'[c] \in CaptureRow
      /\ captures'[c].state = st /\ captures'[c].op = captures[c].op
      /\ captures'[c].lot = l /\ captures'[c].parent = captures[c].parent
  BY <1>2, <1>4 DEF CaptureRow
<1>6. CapturesType'
  <2>1. \A d \in Captures : captures'[d] \in CaptureRow
    BY <1>1, <1>4, <1>5 DEF CapturesType
  <2>2. QED  BY <1>4, <2>1 DEF CapturesType
<1>7. CaptureBindings'
  <2>1. SUFFICES ASSUME NEW d \in Captures PROVE CaptureBinding(d)'
    BY DEF CaptureBindings
  <2>2. CaptureBinding(d)
    BY <1>1 DEF CaptureBindings
  <2>3. CASE d = c
    BY <1>3, <1>5, <2>2, <2>3 DEF CaptureBinding
  <2>4. CASE d # c
    BY <1>4, <2>2, <2>4 DEF CaptureBinding
  <2>5. QED  BY <2>3, <2>4
<1> HIDE DEF settled
<1>8. PICK k : k = captures[c].lot
  OBVIOUS
<1>9. \A d \in Captures :
        /\ d # c => captures'[d].lot = captures[d].lot /\ captures'[d].state = captures[d].state
        /\ captures'[c].lot = k /\ captures'[c].state = st
  BY <1>4, <1>5, <1>8
<1>10. \A m \in Lots \ {k} : HeldOn(m)' = HeldOn(m) /\ SettledOn(m)' = SettledOn(m)
  <2>1. SUFFICES ASSUME NEW m \in Lots \ {k}
                 PROVE  HeldOn(m)' = HeldOn(m) /\ SettledOn(m)' = SettledOn(m)
    OBVIOUS
  <2>2. \A d \in Captures : /\ (captures'[d].lot = m) <=> (captures[d].lot = m)
                            /\ captures[d].lot = m => captures'[d].state = captures[d].state
    BY <1>8, <1>9
  <2>3. QED  BY <2>2 DEF HeldOn, SettledOn
<1>11. CASE captures[c].op = "solve"
  <2>1. /\ k \in Lots
        /\ q.lot[k].held = quota.lot[k].held - 1
        /\ Spent(q.lot[k]) = Spent(quota.lot[k]) + (IF Charged(c, charge) THEN 1 ELSE 0)
        /\ \A m \in Lots \ {k} : q.lot[m] = quota.lot[m]
    BY <1>8, <1>11, FinishedQuotaEnds
  <2>2. Charged(c, charge) <=> st = "settled"
    BY <1>3, <1>11 DEF settled
  <2>3. Kept(q, quota')
    OBVIOUS
  <2> HIDE DEF q
  <2>4. /\ GoodQuota(quota')
        /\ quota'.lot[k].held = quota.lot[k].held - 1
        /\ Spent(quota'.lot[k]) = Spent(quota.lot[k]) + (IF st = "settled" THEN 1 ELSE 0)
        /\ \A m \in Lots \ {k} : /\ quota'.lot[m].held = quota.lot[m].held
                                 /\ Spent(quota'.lot[m]) = Spent(quota.lot[m])
    BY <2>1, <2>2, <2>3 DEF Kept
  <2>5. c \in HeldOn(k) /\ c \notin SettledOn(k)
    BY <1>8 DEF HeldOn, SettledOn
  <2>6. HeldOn(k)' = HeldOn(k) \ {c}
    BY <1>3, <1>9, <2>1 DEF HeldOn
  <2>7. SettledOn(k)' = IF st = "settled" THEN SettledOn(k) \cup {c} ELSE SettledOn(k)
    BY <1>9, <2>1, <2>5 DEF SettledOn
  <2>8. /\ Cardinality(HeldOn(k) \ {c}) = Cardinality(HeldOn(k)) - 1
        /\ Cardinality(SettledOn(k) \cup {c}) = Cardinality(SettledOn(k)) + 1
    BY <2>5, TakersFinite, FS_AddElement, FS_RemoveElement
  <2>9. HoldsMatchCaptures'
    BY <1>1, <1>10, <2>1, <2>4, <2>6, <2>8 DEF HoldsMatchCaptures
  <2>10. Charges'
    <3>1. Cardinality(SettledOn(k)') = Cardinality(SettledOn(k)) + (IF st = "settled" THEN 1 ELSE 0)
      BY <2>7, <2>8, TakersFinite
    <3>2. Spent(quota'.lot[k]) = Cardinality(SettledOn(k)')
      BY <1>1, <2>1, <2>4, <3>1 DEF Charges
    <3>3. QED  BY <1>1, <1>10, <2>4, <3>2 DEF Charges
  <2>11. QED  BY <1>6, <1>7, <2>4, <2>9, <2>10
<1>12. CASE captures[c].op # "solve"
  <2>1. k = None
    BY <1>1, <1>8, <1>12 DEF CaptureBindings, CaptureBinding
  <2>2. Kept(quota, q)
    BY <1>12, FinishedQuotaEnds
  <2>3. Kept(q, quota')
    OBVIOUS
  <2> HIDE DEF q
  <2>4. Kept(quota, quota')
    BY <2>2, <2>3, KeptTrans
  <2>5. \A m \in Lots : HeldOn(m)' = HeldOn(m) /\ SettledOn(m)' = SettledOn(m)
    BY <1>10, <2>1, NoLotIsNone
  <2>6. QED  BY <1>6, <1>7, <2>4, <2>5, BookkeepingStep
<1>13. QED  BY <1>11, <1>12

LEMMA FinishInv ==
  ASSUME LedgerInv, NEW c \in Captures, NEW charge \in BOOLEAN, NEW usable \in BOOLEAN,
         Finish(c, charge, usable)
  PROVE  LedgerInv'
<1> DEFINE q == FinishedQuota(c, charge, usable)
<1>1. /\ captures[c].state = "held" /\ quota' = Synced(q, trial)
      /\ captures' = FinishedCaptures(c, charge, usable)
      /\ UNCHANGED <<now, trial, plan, sweep>>
  BY DEF Finish
<1>2. GoodQuota(q)
  BY <1>1, FinishedQuotaEnds
<1>3. Kept(q, quota')
  BY <1>1, <1>2, SyncedKeeps DEF LedgerInv, Context
<1>4. CapturesType' /\ CaptureBindings' /\ GoodQuota(quota') /\ HoldsMatchCaptures' /\ Charges'
  BY <1>1, <1>3, FinishedStep
<1>5. QED
  BY <1>1, <1>4 DEF LedgerInv, Context, SweepType

LEMMA ReapVisitInv ==
  ASSUME LedgerInv, NEW c \in Captures, ReapVisit(c)
  PROVE  LedgerInv'
<1>1. SweepType' /\ UNCHANGED <<now, trial, plan>>
  BY DEF ReapVisit, LedgerInv, SweepType
<1>2. CASE captures[c].state = "held" /\ captures[c].expires <= sweep.at
  <2>1. PICK charge \in BOOLEAN, usable \in BOOLEAN : charge = FALSE /\ usable = FALSE
    OBVIOUS
  <2>2. /\ quota' = FinishedQuota(c, charge, usable)
        /\ captures' = FinishedCaptures(c, charge, usable)
    BY <1>2, <2>1 DEF ReapVisit
  <2>3. Kept(FinishedQuota(c, charge, usable), quota')
    BY <1>2, <2>2, FinishedQuotaEnds, KeptSelf
  <2>4. CapturesType' /\ CaptureBindings' /\ GoodQuota(quota') /\ HoldsMatchCaptures' /\ Charges'
    BY <1>2, <2>2, <2>3, FinishedStep
  <2>5. QED  BY <1>1, <2>4 DEF LedgerInv, Context
<1>3. CASE ~(captures[c].state = "held" /\ captures[c].expires <= sweep.at)
  <2>1. UNCHANGED <<quota, captures>>
    BY <1>3 DEF ReapVisit
  <2>2. QED
    BY <1>1, <2>1 DEF LedgerInv, Context, CapturesType, CaptureBindings, CaptureBinding,
      HoldsMatchCaptures, Charges, HeldOn, SettledOn
<1>4. QED  BY <1>2, <1>3

LEMMA ReapSelectInv ==
  ASSUME LedgerInv, ReapSelect
  PROVE  LedgerInv'
<1>1. UNCHANGED <<now, quota, captures, trial, plan>>
  BY DEF ReapSelect
<1>2. SweepType'
  <2>1. PICK S \in SUBSET {c \in Captures : captures[c].state = "held" /\ captures[c].expires <= now} :
          sweep' = [at |-> now, todo |-> S]
    BY DEF ReapSelect
  <2>2. now \in Time /\ S \in SUBSET Captures
    BY DEF LedgerInv, Context
  <2>3. QED  BY <1>1, <2>1, <2>2 DEF SweepType
<1>3. QED
  BY <1>1, <1>2 DEF LedgerInv, Context, CapturesType, CaptureBindings, CaptureBinding,
    HoldsMatchCaptures, Charges, HeldOn, SettledOn

(* A step that leaves the captures and the reaper alone only has to keep the quota. *)
LEMMA AccountStep ==
  ASSUME LedgerInv, Kept(quota, quota'), UNCHANGED <<captures, sweep>>,
         Context', plan' \in Plans \cup {NoPlan}
  PROVE  LedgerInv'
<1>1. \A l \in Lots : HeldOn(l)' = HeldOn(l) /\ SettledOn(l)' = SettledOn(l)
  BY DEF HeldOn, SettledOn
<1>2. GoodQuota(quota') /\ HoldsMatchCaptures' /\ Charges'
  BY <1>1, BookkeepingStep
<1>3. CapturesType' /\ CaptureBindings' /\ SweepType'
  BY DEF LedgerInv, CapturesType, CaptureBindings, CaptureBinding, SweepType
<1>4. QED  BY <1>2, <1>3 DEF LedgerInv

LEMMA ReadAccountInv ==
  ASSUME LedgerInv, ReadAccount
  PROVE  LedgerInv'
<1>1. Kept(quota, quota')
  BY SyncedKeeps DEF LedgerInv, Context, ReadAccount
<1>2. QED  BY <1>1, AccountStep DEF LedgerInv, Context, ReadAccount

LEMMA ClaimFreeTrialInv ==
  ASSUME LedgerInv, ClaimFreeTrial
  PROVE  LedgerInv'
<1> DEFINE first == trial.activated = Never
           t == IF first THEN [trial EXCEPT !.activated = now, !.expires = now + TrialLength]
                         ELSE trial
           q == IF first THEN [quota EXCEPT !.lot[InitialLot].expires = now] ELSE quota
<1>1. trial' = t /\ quota' = Synced(q, t) /\ UNCHANGED <<now, captures, plan, sweep>>
  BY DEF ClaimFreeTrial
<1>2. Context /\ GoodQuota(quota) /\ now \in Nat
  BY LedgerAssumption DEF LedgerInv, Context, Time
<1>3. t \in [eligible : BOOLEAN, activated : Nat, expires : Nat]
  <2>1. PICK e \in Nat : e = now + TrialLength
    BY <1>2, LedgerAssumption
  <2>2. t = [trial EXCEPT !.activated = now, !.expires = e] \/ t = trial
    BY <2>1
  <2>3. [trial EXCEPT !.activated = now, !.expires = e]
          \in [eligible : BOOLEAN, activated : Nat, expires : Nat]
    BY <1>2, <2>1 DEF Context
  <2>4. QED  BY <1>2, <2>2, <2>3 DEF Context
<1>4. Kept(quota, q)
  <2>1. InitialLot \in Lots
    BY DEF Lots
  <2>2. Kept(quota, [quota EXCEPT !.lot[InitialLot].expires = now])
    BY <1>2, <2>1, NewExpiryKeeps
  <2>3. QED  BY <1>2, <2>2, KeptSelf
<1> HIDE DEF t, q
<1>5. Kept(q, quota')
  BY <1>1, <1>2, <1>3, <1>4, SyncedKeeps DEF Kept
<1>6. Kept(quota, quota')
  BY <1>4, <1>5, KeptTrans
<1>7. Context' /\ plan' \in Plans \cup {NoPlan}
  BY <1>1, <1>3 DEF LedgerInv, Context
<1>8. QED  BY <1>1, <1>6, <1>7, AccountStep

LEMMA CreditInv ==
  ASSUME LedgerInv, NEW g \in Gifts, Credit(g)
  PROVE  LedgerInv'
<1>1. GiftLot(g) \in Lots /\ Never \in Nat /\ CreditQuestions \in 1..MaxLot
  BY LedgerAssumption DEF Lots, GiftLot, Never
<1>2. Kept(quota, quota')
  BY <1>1, GrantKeeps DEF LedgerInv, Credit
<1>3. QED  BY <1>2, AccountStep DEF LedgerInv, Context, Credit

LEMMA PayOrderInv ==
  ASSUME LedgerInv, NEW o \in PaidOrders, NEW frozen \in BOOLEAN,
         NEW target \in 0..CreditQuestions, PayOrder(o, frozen, target)
  PROVE  LedgerInv'
<1> DEFINE q == Grant(quota, OrderLot(o), CreditQuestions, Never)
<1>1. OrderLot(o) \in Lots /\ Never \in Nat /\ CreditQuestions \in 1..MaxLot
  BY LedgerAssumption DEF Lots, OrderLot, Never
<1>2. target \in 0..MaxLot
  BY <1>1, LedgerAssumption
<1>3. Kept(quota, q)
  BY <1>1, GrantKeeps DEF LedgerInv, PayOrder
<1>4. quota' = ApplyRefundLot(q, OrderLot(o), frozen, target)
      /\ UNCHANGED <<now, captures, trial, plan, sweep>>
  BY DEF PayOrder
<1> HIDE DEF q
<1>5. Kept(q, quota')
  BY <1>1, <1>2, <1>3, <1>4, ApplyRefundLotKeeps DEF Kept
<1>6. Kept(quota, quota')
  BY <1>3, <1>5, KeptTrans
<1>7. QED  BY <1>4, <1>6, AccountStep DEF LedgerInv, Context

LEMMA RefreshOrderInv ==
  ASSUME LedgerInv, NEW o \in PaidOrders, NEW frozen \in BOOLEAN,
         NEW target \in 0..CreditQuestions, RefreshOrder(o, frozen, target)
  PROVE  LedgerInv'
<1>1. OrderLot(o) \in Lots /\ target \in 0..MaxLot
  BY LedgerAssumption DEF Lots, OrderLot
<1>2. Kept(quota, quota')
  BY <1>1, ApplyRefundLotKeeps DEF LedgerInv, RefreshOrder
<1>3. QED  BY <1>2, AccountStep DEF LedgerInv, Context, RefreshOrder

LEMMA PlanChangesInv ==
  ASSUME LedgerInv, NEW p \in Plans, PlanChanges(p)
  PROVE  LedgerInv'
<1>1. Kept(quota, quota')
  BY KeptSelf DEF LedgerInv, PlanChanges
<1>2. Context'
  BY LedgerAssumption DEF LedgerInv, Context, PlanChanges
<1>3. QED  BY <1>1, <1>2, AccountStep DEF PlanChanges

LEMMA TickInv ==
  ASSUME LedgerInv, Tick
  PROVE  LedgerInv'
<1>1. Kept(quota, quota')
  BY KeptSelf DEF LedgerInv, Tick
<1>2. Context'
  BY LedgerAssumption DEF LedgerInv, Context, Tick, Time
<1>3. QED  BY <1>1, <1>2, AccountStep DEF LedgerInv, Tick

LEMMA StutterInv ==
  ASSUME LedgerInv, UNCHANGED ledgerVars
  PROVE  LedgerInv'
<1>1. Kept(quota, quota')
  BY KeptSelf DEF LedgerInv, ledgerVars
<1>2. QED  BY <1>1, AccountStep DEF LedgerInv, Context, ledgerVars

LEMMA NextInv == LedgerInv /\ [Next]_ledgerVars => LedgerInv'
<1> SUFFICES ASSUME LedgerInv, [Next]_ledgerVars PROVE LedgerInv'
  OBVIOUS
<1>1. CASE Requests
  <2>1. ASSUME NEW c \in Captures, NEW exclusive \in BOOLEAN, NEW allowPurchased \in BOOLEAN,
               BeginSolve(c, exclusive, allowPurchased)
        PROVE  LedgerInv'
    BY <2>1, BeginSolveInv
  <2>2. ASSUME NEW c \in Captures, NEW p \in Captures, NEW answer \in Captures,
               NEW op \in {"explain", "recover"}, BeginFollowUp(c, op, p, answer)
        PROVE  LedgerInv'
    BY <2>2, BeginFollowUpInv
  <2>3. ASSUME NEW c \in Captures, NEW charge \in BOOLEAN, NEW usable \in BOOLEAN,
               Finish(c, charge, usable)
        PROVE  LedgerInv'
    BY <2>3, FinishInv
  <2>4. CASE ReadAccount
    BY <2>4, ReadAccountInv
  <2>5. CASE ClaimFreeTrial
    BY <2>5, ClaimFreeTrialInv
  <2>6. QED  BY <1>1, <2>1, <2>2, <2>3, <2>4, <2>5 DEF Requests
<1>2. CASE Reaper
  BY <1>2, ReapSelectInv, ReapVisitInv DEF Reaper
<1>3. CASE Payments
  BY <1>3, CreditInv, PayOrderInv, RefreshOrderInv, PlanChangesInv DEF Payments
<1>4. CASE Tick
  BY <1>4, TickInv
<1>5. CASE UNCHANGED ledgerVars
  BY <1>5, StutterInv
<1>6. QED  BY <1>1, <1>2, <1>3, <1>4, <1>5 DEF Next
-----------------------------------------------------------------------------
(* The theorems *)

(* The ledger's invariant holds in every state that the operations of             *)
(* billing-sql.ts reach, whatever their order.                                    *)
THEOREM InvHolds == Spec => []LedgerInv
<1>1. Init => LedgerInv  BY InitInv
<1>2. LedgerInv /\ [Next]_ledgerVars => LedgerInv'  BY NextInv
<1>3. QED  BY <1>1, <1>2, PTL DEF Spec

(* Every row keeps its type: no operation takes a count out of its column.        *)
THEOREM TypeCorrect == Spec => []TypeOK
<1>1. LedgerInv => TypeOK  BY InvImplies
<1>2. QED  BY <1>1, InvHolds, PTL

(* No operation on the ledger is ever rolled back by a CHECK of quota_lots.       *)
THEOREM ChecksHold == Spec => []LotChecks
<1>1. LedgerInv => LotChecks  BY InvImplies
<1>2. QED  BY <1>1, InvHolds, PTL

(* quotaFor never throws "Quota ledger balance mismatch".                         *)
THEOREM BalanceCorrect == Spec => []BalanceMatchesLots
<1>1. LedgerInv => BalanceMatchesLots  BY InvImplies
<1>2. QED  BY <1>1, InvHolds, PTL

(* However finish, the reaper and a refund meet, a lot holds exactly one question *)
(* for each held solve.                                                           *)
THEOREM HoldsCorrect == Spec => []HoldsMatchCaptures
<1>1. LedgerInv => HoldsMatchCaptures  BY InvImplies
<1>2. QED  BY <1>1, InvHolds, PTL

(* No question is lost or charged twice.                                          *)
THEOREM Conservation == Spec => []QuestionsConserved
<1>1. LedgerInv => QuestionsConserved  BY InvImplies
<1>2. QED  BY <1>1, InvHolds, PTL

(* A released question goes to what the lot still owes before it can be spent.    *)
THEOREM RevocationFirst == Spec => []RevocationComesFirst
<1>1. LedgerInv => RevocationComesFirst  BY InvImplies
<1>2. QED  BY <1>1, InvHolds, PTL
-----------------------------------------------------------------------------
(* The refinement: each step of the store holds one question, ends one hold, or   *)
(* leaves both alone, and the entitlement of a lot always covers what is held and  *)
(* charged in it.                                                                  *)

LEMMA SameCardinality ==
  ASSUME NEW S
  PROVE  Entitlement!Cardinality(S) = Cardinality(S)
BY DEF Entitlement!Cardinality, Cardinality, Entitlement!IsFiniteSet, IsFiniteSet

LEMMA StatusType ==
  ASSUME LedgerInv, NEW c \in Captures
  PROVE  /\ Status[c] = IF captures[c].op # "solve" THEN "none"
                        ELSE IF captures[c].state = "settled" THEN "charged"
                        ELSE captures[c].state
         /\ From[c] = captures[c].lot
         /\ Status[c] \in {"held", "charged"} =>
              /\ captures[c].op = "solve" /\ captures[c].lot \in Lots
              /\ captures[c].state \in {"held", "settled"}
<1>1. captures[c] \in CaptureRow /\ CaptureBinding(c)
  BY DEF LedgerInv, CapturesType, CaptureBindings
<1>2. captures[c].state \in {"none", "held", "settled", "released"}
  BY <1>1 DEF CaptureRow
<1>3. QED  BY <1>1, <1>2 DEF Status, From, CaptureBinding

(* What a lot entitles to covers what was taken from it, because a hold takes from  *)
(* what remains and a charge was taken from what was granted and not revoked.       *)
LEMMA InvCovers ==
  ASSUME LedgerInv
  PROVE  Entitled \in [Lots -> Nat] /\ Entitlement!Covered
<1>1. \A l \in Lots : LET x == quota.lot[l]
                      IN  /\ x.granted \in Nat /\ x.remaining \in Nat /\ x.held \in Nat
                          /\ x.revoked \in Nat
                          /\ x.held <= x.remaining /\ x.remaining + x.revoked <= x.granted
  BY LedgerAssumption DEF LedgerInv, GoodQuota, GoodLot, SoundLot, LotRow
<1>2. \A l \in Lots : Entitled[l] = quota.lot[l].granted - quota.lot[l].revoked
  BY DEF Entitled
<1>3. Entitled \in [Lots -> Nat]
  <2>1. \A l \in Lots : quota.lot[l].granted - quota.lot[l].revoked \in Nat
    BY <1>1
  <2>2. QED  BY <2>1 DEF Entitled
<1>4. ASSUME NEW l \in Lots
      PROVE  Cardinality({c \in Captures : From[c] = l /\ Status[c] \in {"held", "charged"}})
               <= Entitled[l]
  <2>1. {c \in Captures : From[c] = l /\ Status[c] \in {"held", "charged"}}
          \in SUBSET (HeldOn(l) \cup SettledOn(l))
    BY StatusType DEF HeldOn, SettledOn
  <2>2. HeldOn(l) \cap SettledOn(l) = {}
    BY DEF HeldOn, SettledOn
  <2>3. /\ IsFiniteSet(HeldOn(l) \cup SettledOn(l))
        /\ Cardinality(HeldOn(l) \cup SettledOn(l))
             = Cardinality(HeldOn(l)) + Cardinality(SettledOn(l)) - Cardinality({})
    BY <2>2, TakersFinite, FS_Union
  <2>4. Cardinality(HeldOn(l) \cup SettledOn(l)) = Cardinality(HeldOn(l)) + Cardinality(SettledOn(l))
    BY <2>3, FS_EmptySet, TakersFinite
  <2>5. Cardinality({c \in Captures : From[c] = l /\ Status[c] \in {"held", "charged"}})
          <= Cardinality(HeldOn(l) \cup SettledOn(l))
    BY <2>1, <2>3, FS_Subset
  <2>6. /\ Cardinality(HeldOn(l)) = quota.lot[l].held
        /\ Cardinality(SettledOn(l))
             = quota.lot[l].granted - quota.lot[l].remaining - quota.lot[l].revoked
    BY DEF LedgerInv, HoldsMatchCaptures, Charges, Spent
  <2>7. Cardinality({c \in Captures : From[c] = l /\ Status[c] \in {"held", "charged"}}) \in Nat
    BY <2>1, <2>3, FS_Subset, FS_CardinalityType
  <2>8. Cardinality(HeldOn(l) \cup SettledOn(l)) <= Entitled[l]
    BY <1>1, <1>2, <2>4, <2>6
  <2>9. QED  BY <1>3, <2>4, <2>5, <2>7, <2>8, TakersFinite
<1>5. QED  BY <1>3, <1>4, SameCardinality DEF Entitlement!Covered, Entitlement!TakenFrom

Covers == Entitled \in [Lots -> Nat] /\ Entitlement!Covered

LEMMA InvCoversNext == LedgerInv' => Entitled' \in [Lots -> Nat] /\ Entitlement!Covered'
<1>1. LedgerInv => Covers  BY InvCovers DEF Covers
<1>2. LedgerInv' => Covers'  BY <1>1, PTL
<1>3. QED  BY <1>2 DEF Covers

LEMMA InitEntitles ==
  ASSUME Init
  PROVE  Entitlement!Init
<1>1. LedgerInv
  BY InitInv
<1>2. Entitled \in [Lots -> Nat]
  BY <1>1, InvCovers
<1>3. Status = [c \in Captures |-> "none"] /\ From = [c \in Captures |-> None]
  BY DEF Init, NoRequest, Status, From
<1>4. QED  BY <1>2, <1>3 DEF Entitlement!Init

(* A step that moves no capture to another status or another lot is an abstract    *)
(* step that at most changes what the lots entitle to.                             *)
LEMMA SameStep ==
  ASSUME LedgerInv', \A c \in Captures : Status'[c] = Status[c] /\ From'[c] = From[c]
  PROVE  Entitlement!Next
<1>1. Status' = Status /\ From' = From
  BY DEF Status, From
<1>2. Entitled' \in [Lots -> Nat] /\ Entitlement!Covered'
  BY InvCoversNext
<1>3. QED  BY <1>1, <1>2 DEF Entitlement!Next

LEMMA UnchangedStep ==
  ASSUME LedgerInv', UNCHANGED captures
  PROVE  Entitlement!Next
BY SameStep DEF Status, From

LEMMA BeginSolveHolds ==
  ASSUME LedgerInv, LedgerInv', NEW c \in Captures, NEW exclusive, NEW allowPurchased,
         BeginSolve(c, exclusive, allowPurchased)
  PROVE  Entitlement!Next
<1>1. PICK l \in Lots : captures' = [captures EXCEPT ![c] = NewCapture("solve", None, l)]
  BY DEF BeginSolve, Preferred, Spendable
<1>2. captures[c].state = "none"
  BY DEF BeginSolve
<1>3. captures[c].op = "solve" /\ CapturesType
  BY <1>2 DEF LedgerInv, CaptureBindings, CaptureBinding
<1>4. PICK x : x = NewCapture("solve", None, l)
  OBVIOUS
<1>5. x.state = "held" /\ x.op = "solve" /\ x.lot = l
  BY <1>4 DEF NewCapture
<1>6. \A d \in Captures : captures'[d] = IF d = c THEN x ELSE captures[d]
  BY <1>1, <1>3, <1>4 DEF CapturesType
<1>7. /\ Status[c] = "none"
      /\ Status' = [Status EXCEPT ![c] = "held"]
      /\ From' = [From EXCEPT ![c] = l]
  <2>1. Status[c] = "none"
    BY <1>2, <1>3 DEF Status
  <2>2. Status' = [Status EXCEPT ![c] = "held"]
    BY <1>5, <1>6 DEF Status
  <2>3. From' = [From EXCEPT ![c] = l]
    BY <1>5, <1>6 DEF From
  <2>4. QED  BY <2>1, <2>2, <2>3
<1>8. Entitled' \in [Lots -> Nat] /\ Entitlement!Covered'
  BY InvCoversNext
<1>9. Entitlement!Hold(c)
  BY <1>7 DEF Entitlement!Hold
<1>10. QED  BY <1>8, <1>9 DEF Entitlement!Next

LEMMA BeginFollowUpHoldsNothing ==
  ASSUME LedgerInv, LedgerInv', NEW c \in Captures, NEW op \in {"explain", "recover"},
         NEW p \in Captures, NEW answer, BeginFollowUp(c, op, p, answer)
  PROVE  Entitlement!Next
<1>1. captures[c].state = "none" /\ c # p
  BY DEF BeginFollowUp, Usable
<1>2. captures[c].op = "solve" /\ captures[c].lot = None /\ CapturesType
  BY <1>1 DEF LedgerInv, CaptureBindings, CaptureBinding
<1>3. PICK x : x = NewCapture(op, p, None)
  OBVIOUS
<1>4. x.op = op /\ x.lot = None
  BY <1>3 DEF NewCapture
<1>5. captures' = [captures EXCEPT
        ![c] = x,
        ![p].explained = IF op = "explain" THEN c ELSE @,
        ![p].recovered = IF op = "recover" THEN c ELSE @]
  BY <1>3 DEF BeginFollowUp
<1>6. /\ captures'[c] = x
      /\ captures'[p] = [captures[p] EXCEPT
           !.explained = IF op = "explain" THEN c ELSE @,
           !.recovered = IF op = "recover" THEN c ELSE @]
      /\ \A d \in Captures \ {c, p} : captures'[d] = captures[d]
  BY <1>1, <1>2, <1>5 DEF CapturesType
<1>7. /\ captures'[p].state = captures[p].state /\ captures'[p].op = captures[p].op
      /\ captures'[p].lot = captures[p].lot
  BY <1>2, <1>6 DEF CapturesType, CaptureRow
<1>8. ASSUME NEW d \in Captures
      PROVE  Status'[d] = Status[d] /\ From'[d] = From[d]
  <2>1. CASE d = c
    BY <1>1, <1>2, <1>4, <1>6, <2>1 DEF Status, From
  <2>2. CASE d = p
    BY <1>7, <2>2 DEF Status, From
  <2>3. CASE d \notin {c, p}
    BY <1>6, <2>3 DEF Status, From
  <2>4. QED  BY <2>1, <2>2, <2>3
<1>9. QED  BY <1>8, SameStep

(* A terminal outcome ends the hold of a solve, once: the outcome of a capture that *)
(* is no longer held changes nothing.                                               *)
LEMMA FinishedEnds ==
  ASSUME LedgerInv, LedgerInv', NEW c \in Captures, captures[c].state = "held",
         NEW charge \in BOOLEAN, NEW usable \in BOOLEAN,
         captures' = FinishedCaptures(c, charge, usable)
  PROVE  Entitlement!Next
<1>1. CapturesType /\ captures[c] \in CaptureRow
  BY DEF LedgerInv, CapturesType
<1>2. PICK st \in {"settled", "released"}, us \in BOOLEAN :
        captures' = [captures EXCEPT ![c].state = st, ![c].usable = us]
  BY FinishedChanges
<1>3. /\ captures'[c].state = st /\ captures'[c].op = captures[c].op
      /\ captures'[c].lot = captures[c].lot
      /\ \A d \in Captures \ {c} : captures'[d] = captures[d]
  BY <1>1, <1>2 DEF CapturesType, CaptureRow
<1>4. From' = From
  BY <1>3 DEF From
<1>5. CASE captures[c].op = "solve"
  <2>1. Status[c] = "held"
    BY <1>5 DEF Status
  <2>2. PICK outcome \in {"charged", "released"} :
          outcome = IF st = "settled" THEN "charged" ELSE "released"
    OBVIOUS
  <2>3. Status' = [Status EXCEPT ![c] = outcome]
    BY <1>2, <1>3, <1>5, <2>2 DEF Status
  <2>4. Entitlement!End(c)
    BY <1>4, <2>1, <2>3 DEF Entitlement!End
  <2>5. Entitled' \in [Lots -> Nat] /\ Entitlement!Covered'
    BY InvCoversNext
  <2>6. QED  BY <2>4, <2>5 DEF Entitlement!Next
<1>6. CASE captures[c].op # "solve"
  <2>1. \A d \in Captures : Status'[d] = Status[d]
    BY <1>3, <1>6 DEF Status
  <2>2. QED  BY <1>4, <2>1, SameStep
<1>7. QED  BY <1>5, <1>6

LEMMA NextEntitles ==
  ASSUME LedgerInv, LedgerInv', [Next]_ledgerVars
  PROVE  [Entitlement!Next]_(Entitlement!vars)
<1>1. CASE Requests
  <2>1. ASSUME NEW c \in Captures, NEW exclusive \in BOOLEAN, NEW allowPurchased \in BOOLEAN,
               BeginSolve(c, exclusive, allowPurchased)
        PROVE  Entitlement!Next
    BY <2>1, BeginSolveHolds
  <2>2. ASSUME NEW c \in Captures, NEW p \in Captures, NEW answer \in Captures,
               NEW op \in {"explain", "recover"}, BeginFollowUp(c, op, p, answer)
        PROVE  Entitlement!Next
    BY <2>2, BeginFollowUpHoldsNothing
  <2>3. ASSUME NEW c \in Captures, NEW charge \in BOOLEAN, NEW usable \in BOOLEAN,
               Finish(c, charge, usable)
        PROVE  Entitlement!Next
    BY <2>3, FinishedEnds DEF Finish
  <2>4. CASE ReadAccount \/ ClaimFreeTrial
    BY <2>4, UnchangedStep DEF ReadAccount, ClaimFreeTrial
  <2>5. QED  BY <1>1, <2>1, <2>2, <2>3, <2>4 DEF Requests
<1>2. CASE Reaper
  <2>1. CASE ReapSelect
    BY <2>1, UnchangedStep DEF ReapSelect
  <2>2. ASSUME NEW c \in Captures, ReapVisit(c)
        PROVE  Entitlement!Next
    <3>1. CASE captures[c].state = "held" /\ captures[c].expires <= sweep.at
      <4>1. PICK charge \in BOOLEAN, usable \in BOOLEAN : charge = FALSE /\ usable = FALSE
        OBVIOUS
      <4>2. captures' = FinishedCaptures(c, charge, usable)
        BY <2>2, <3>1, <4>1 DEF ReapVisit
      <4>3. QED  BY <3>1, <4>2, FinishedEnds
    <3>2. CASE ~(captures[c].state = "held" /\ captures[c].expires <= sweep.at)
      BY <2>2, <3>2, UnchangedStep DEF ReapVisit
    <3>3. QED  BY <3>1, <3>2
  <2>3. QED  BY <1>2, <2>1, <2>2 DEF Reaper
<1>3. CASE Payments
  <2>1. UNCHANGED captures
    BY <1>3 DEF Payments, Credit, PayOrder, RefreshOrder, PlanChanges
  <2>2. QED  BY <2>1, UnchangedStep
<1>4. CASE Tick
  BY <1>4, UnchangedStep DEF Tick
<1>5. CASE UNCHANGED ledgerVars
  BY <1>5, UnchangedStep DEF ledgerVars
<1>6. QED  BY <1>1, <1>2, <1>3, <1>4, <1>5 DEF Next

(* Every behaviour of the store is one that QuestionEntitlement allows: a capture   *)
(* takes at most one question and its hold ends once, in a charge or a release.     *)
THEOREM LedgerEntitles == Spec => KeepsEntitlement
<1>1. Init => Entitlement!Init
  BY InitEntitles
<1>2. LedgerInv /\ LedgerInv' /\ [Next]_ledgerVars => [Entitlement!Next]_(Entitlement!vars)
  BY NextEntitles
<1>3. QED
  BY <1>1, <1>2, InvHolds, PTL DEF Spec, KeepsEntitlement, Entitlement!Spec
-----------------------------------------------------------------------------
(* What the syncs do to the terms of each lot, and what they leave spendable *)

Idle(x) == x.remaining = x.held

(* The daily window d has begun, and where it ends. *)
Begun(d) == d * DayLength <= now + DayOffset
End(d) == (d + 1) * DayLength - DayOffset

LEMMA TodayBegun ==
  ASSUME Context
  PROVE  Begun(Day(now)) /\ DayEnd(now) = End(Day(now))
<1>1. now + DayOffset \in Nat /\ DayLength \in Nat \ {0}
  BY LedgerAssumption DEF Context, Time
<1>2. Day(now) * DayLength <= now + DayOffset
  BY <1>1 DEF Day
<1>3. QED  BY <1>2 DEF Begun, End, DayEnd

(* A window that has begun and not ended is today's. *)
LEMMA OnlyToday ==
  ASSUME Context, NEW d \in Days, Begun(d), now < End(d)
  PROVE  d = Day(now)
<1>1. PICK m \in Nat, n \in Nat \ {0} : m = now + DayOffset /\ n = DayLength
  BY LedgerAssumption DEF Context, Time
<1>2. PICK e \in Int : e = Day(now) /\ e * n <= m /\ m < (e + 1) * n
  <2>1. (m \div n) \in Int /\ (m \div n) * n <= m /\ m < ((m \div n) + 1) * n
    BY <1>1
  <2>2. QED  BY <1>1, <2>1 DEF Day
<1>3. d \in Int
  <2>1. PICK s \in Time : d = Day(s)
    BY DEF Days
  <2>2. QED  BY <2>1, LedgerAssumption DEF Day, Time
<1>4. PICK f \in Int : f = d
  BY <1>3
<1>5. f * n <= m /\ m < (f + 1) * n
  <2>1. f * n <= m
    BY <1>1, <1>4 DEF Begun
  <2>2. now < (f + 1) * n - DayOffset
    BY <1>1, <1>4 DEF End
  <2>3. now \in Int /\ DayOffset \in Int /\ (f + 1) * n \in Int
    BY LedgerAssumption DEF Context, Time
  <2>4. QED  BY <1>1, <2>1, <2>2, <2>3
<1>6. f * n < (e + 1) * n /\ e * n < (f + 1) * n
  BY <1>2, <1>5
<1>7. ASSUME NEW a \in Int, NEW b \in Int, a * n < (b + 1) * n
      PROVE  a <= b
  <2>1. SUFFICES ASSUME b + 1 <= a PROVE FALSE
    BY <1>7
  <2>2. PICK k \in Nat : a = (b + 1) + k
    <3>1. a - (b + 1) \in Nat /\ a = (b + 1) + (a - (b + 1))
      BY <2>1
    <3>2. QED  BY <3>1
  <2>3. a * n = (b + 1) * n + k * n /\ k * n \in Nat
    BY <2>2
  <2>4. QED  BY <1>7, <2>3
<1>8. f <= e /\ e <= f
  BY <1>6, <1>7
<1>9. QED  BY <1>2, <1>4, <1>8

(* A lot that owes all its questions has none to spend. *)
LEMMA OwedIsIdle ==
  ASSUME NEW x, GoodLot(x), x.target = x.granted
  PROVE  Idle(x)
<1>1. /\ x.granted \in Nat /\ x.remaining \in Nat /\ x.held \in Nat /\ x.revoked \in Nat
      /\ x.held <= x.remaining /\ x.remaining + x.revoked <= x.granted
      /\ x.revoked = Least(x.granted, x.remaining + x.revoked - x.held)
  BY LedgerAssumption DEF GoodLot, SoundLot, LotRow
<1>2. PICK g \in Nat, m \in Nat, h \in Nat, v \in Nat :
        g = x.granted /\ m = x.remaining /\ h = x.held /\ v = x.revoked
  BY <1>1
<1>3. h <= m /\ m + v <= g /\ v = IF g <= m + v - h THEN g ELSE m + v - h
  BY <1>1, <1>2 DEF Least
<1>4. m = h
  BY <1>3
<1>5. QED  BY <1>2, <1>4 DEF Idle

LEMMA TermsSelf == ASSUME NEW x PROVE SameTerms(x, x)
BY DEF SameTerms

LEMMA TermsTrans ==
  ASSUME NEW x, NEW y, NEW z, SameTerms(x, y), SameTerms(y, z)
  PROVE  SameTerms(x, z)
BY DEF SameTerms

LEMMA RevokeTerms ==
  ASSUME NEW q, GoodQuota(q), NEW S \in SUBSET Lots, NEW l \in Lots
  PROVE  LET y == RevokeLots(q, S).lot[l]
         IN  SameTerms(q.lot[l], y) /\ (l \in S => Idle(y)) /\ (l \notin S => y = q.lot[l])
<1>1. CASE l \notin S
  BY <1>1, RevokeLotsKeeps, TermsSelf
<1>2. CASE l \in S
  <2>1. PICK x : x = q.lot[l]
    OBVIOUS
  <2>2. PICK frozen \in BOOLEAN : frozen = FALSE
    OBVIOUS
  <2>3. PICK y : y = RevokeLots(q, S).lot[l]
    OBVIOUS
  <2>4. y = ApplyLotPolicy(x, frozen, x.granted)
    BY <1>2, <2>1, <2>2, <2>3 DEF RevokeLots
  <2>5. SoundLot(x) /\ x.granted \in 0..MaxLot
    BY <2>1 DEF GoodQuota, GoodLot, SoundLot, LotRow
  <2>6. GoodLot(y) /\ y.granted = x.granted /\ y.expires = x.expires /\ y.frozen = frozen
        /\ y.target = x.granted
    BY <2>4, <2>5, LotPolicy
  <2>7. Idle(y)
    BY <2>6, OwedIsIdle
  <2>8. SameTerms(x, y)
    BY <2>2, <2>6 DEF SameTerms
  <2>9. QED  BY <1>2, <2>1, <2>3, <2>7, <2>8
<1>3. QED  BY <1>1, <1>2

LEMMA GrantTerms ==
  ASSUME NEW q, GoodQuota(q), NEW l \in Lots, NEW n, NEW expires
  PROVE  LET r == Grant(q, l, n, expires)
         IN  r.lot[l] = NewLot(n, expires) /\ \A m \in Lots \ {l} : r.lot[m] = q.lot[m]
BY DEF Grant, GoodQuota

LEMMA PolicyTerms ==
  ASSUME NEW q, GoodQuota(q), NEW l \in Lots, NEW frozen \in BOOLEAN, NEW target \in 0..MaxLot
  PROVE  LET r == ApplyRefundLot(q, l, frozen, target)
         IN  /\ r.lot[l].granted = q.lot[l].granted /\ r.lot[l].expires = q.lot[l].expires
             /\ r.lot[l].frozen = frozen
             /\ \A m \in Lots \ {l} : r.lot[m] = q.lot[m]
<1>1. PICK x : x = ApplyLotPolicy(q.lot[l], frozen, target)
  OBVIOUS
<1>2. SoundLot(q.lot[l])
  BY DEF GoodQuota, GoodLot
<1>3. x.granted = q.lot[l].granted /\ x.expires = q.lot[l].expires /\ x.frozen = frozen
  BY <1>1, <1>2, LotPolicy
<1>4. PICK r : r = ApplyRefundLot(q, l, frozen, target)
  OBVIOUS
<1>5. r.lot = [q.lot EXCEPT ![l] = x]
  BY <1>1, <1>4 DEF ApplyRefundLot
<1>6. r.lot[l] = x /\ \A m \in Lots \ {l} : r.lot[m] = q.lot[m]
  BY <1>5 DEF GoodQuota
<1>7. QED  BY <1>3, <1>4, <1>6

(* The trial's sync grants today's lot or keeps every lot's terms, and nothing that is over *)
(* stays spendable.                                                                         *)
TodaysTrial(l, x, t) ==
  l = TrialLot(Day(now)) /\ TrialActive(t) /\ x = NewLot(DailyTrial, Least(DayEnd(now), t.expires))
Lapses(x) == x.expires <= now => Idle(x)

LEMMA SyncFreeTrialTerms ==
  ASSUME Context, NEW q, GoodQuota(q),
         NEW t \in [eligible : BOOLEAN, activated : Nat, expires : Nat], NEW l \in Lots
  PROVE  LET y == SyncFreeTrial(q, t).lot[l]
         IN  (SameTerms(q.lot[l], y) \/ TodaysTrial(l, y, t)) /\ Lapses(y)
<1>1. PICK S : S = {k \in Lots : q.lot[k].expires <= now /\ q.lot[k].target # q.lot[k].granted}
  OBVIOUS
<1>2. PICK x : x = RevokeLots(q, S)
  OBVIOUS
<1>3. PICK today : today = TrialLot(Day(now))
  OBVIOUS
<1>4. PICK expires : expires = Least(DayEnd(now), t.expires)
  OBVIOUS
<1>5. SyncFreeTrial(q, t) = IF TrialActive(t) /\ x.lot[today].granted = 0
                            THEN Grant(x, today, DailyTrial, expires) ELSE x
  BY <1>1, <1>2, <1>3, <1>4 DEF SyncFreeTrial
<1>6. S \in SUBSET Lots
  BY <1>1
<1>7. GoodQuota(x)
  BY <1>2, <1>6, RevokeLotsKeeps DEF Kept
<1>8. SameTerms(q.lot[l], x.lot[l]) /\ (l \in S => Idle(x.lot[l])) /\ (l \notin S => x.lot[l] = q.lot[l])
  BY <1>2, <1>6, RevokeTerms
<1>9. Lapses(x.lot[l])
  <2>1. SUFFICES ASSUME x.lot[l].expires <= now, l \notin S PROVE Idle(x.lot[l])
    BY <1>8 DEF Lapses
  <2>2. q.lot[l].expires <= now
    BY <1>8, <2>1
  <2>3. q.lot[l].target = q.lot[l].granted
    BY <1>1, <2>1, <2>2
  <2>4. GoodLot(q.lot[l])
    BY DEF GoodQuota
  <2>5. QED  BY <1>8, <2>1, <2>3, <2>4, OwedIsIdle
<1>10. today \in Lots /\ DayEnd(now) \in Nat /\ now < DayEnd(now)
  BY <1>3, Windows
<1>11. CASE TrialActive(t) /\ x.lot[today].granted = 0 /\ l = today
  <2>1. SyncFreeTrial(q, t).lot[l] = NewLot(DailyTrial, expires)
    BY <1>5, <1>7, <1>10, <1>11, GrantTerms
  <2>2. now < expires /\ now \in Nat /\ expires \in Nat
    <3>1. now \in Nat /\ now < t.expires /\ t.expires \in Nat
      BY <1>11, LedgerAssumption DEF TrialActive, Context, Time
    <3>2. QED  BY <1>4, <1>10, <3>1 DEF Least
  <2>3. Lapses(NewLot(DailyTrial, expires))
    BY <2>2 DEF Lapses, NewLot
  <2>4. TodaysTrial(l, NewLot(DailyTrial, expires), t)
    BY <1>3, <1>4, <1>11 DEF TodaysTrial
  <2>5. QED  BY <2>1, <2>3, <2>4
<1>12. CASE ~(TrialActive(t) /\ x.lot[today].granted = 0 /\ l = today)
  <2>1. SyncFreeTrial(q, t).lot[l] = x.lot[l]
    BY <1>5, <1>7, <1>10, <1>12, GrantTerms
  <2>2. QED  BY <1>8, <1>9, <2>1
<1>13. QED  BY <1>11, <1>12

(* Plus's sync likewise; without a plan no daily lot of it is spendable. *)
TodaysPlus(l, x) ==
  /\ l = PlusLot(Day(now)) /\ PlusActive
  /\ x.granted > 0 /\ ~x.frozen /\ now < x.expires /\ x.expires <= DayEnd(now)

LEMMA SyncPlusTerms ==
  ASSUME Context, NEW q, GoodQuota(q), NEW l \in Lots, Lapses(q.lot[l])
  PROVE  LET y == SyncPlus(q).lot[l]
         IN  /\ SameTerms(q.lot[l], y) \/ TodaysPlus(l, y)
             /\ Lapses(y)
             /\ ~PlusActive /\ l \in PlusLots => Idle(y)
<1>1. PICK S : S = {k \in PlusLots : q.lot[k].target # q.lot[k].granted}
  OBVIOUS
<1>2. PICK today : today = PlusLot(Day(now))
  OBVIOUS
<1>3. PICK expires : expires = Least(DayEnd(now), plan.until)
  OBVIOUS
<1>4. today \in Lots /\ expires \in Nat /\ expires <= DayEnd(now) /\ (PlusActive => now < expires)
  <2>1. DayEnd(now) \in Nat /\ now < DayEnd(now) /\ plan.until \in Nat /\ today \in Lots
    BY <1>2, Windows DEF Context
  <2>2. QED  BY <1>3, <2>1 DEF Least, PlusActive
<1>5. /\ ~PlusActive => SyncPlus(q) = RevokeLots(q, S)
      /\ PlusActive /\ q.lot[today].granted = 0
           => SyncPlus(q) = Grant(q, today, DailyPlus, expires)
      /\ PlusActive /\ q.lot[today].granted # 0
           => SyncPlus(q) = ApplyRefundLot([q EXCEPT !.lot[today].expires = expires], today, FALSE, 0)
  BY <1>1, <1>2, <1>3 DEF SyncPlus
<1>6. CASE ~PlusActive
  <2>1. PICK y : y = RevokeLots(q, S).lot[l]
    OBVIOUS
  <2>2. S \in SUBSET Lots
    BY <1>1 DEF Lots
  <2>3. SameTerms(q.lot[l], y) /\ (l \in S => Idle(y)) /\ (l \notin S => y = q.lot[l])
    BY <2>1, <2>2, RevokeTerms
  <2>4. Lapses(y)
    BY <2>3 DEF Lapses
  <2>5. l \in PlusLots => Idle(y)
    <3>1. SUFFICES ASSUME l \in PlusLots, l \notin S PROVE Idle(y)
      BY <2>3
    <3>2. q.lot[l].target = q.lot[l].granted /\ GoodLot(q.lot[l])
      BY <1>1, <3>1 DEF GoodQuota
    <3>3. QED  BY <2>3, <3>1, <3>2, OwedIsIdle
  <2>6. QED  BY <1>5, <1>6, <2>1, <2>3, <2>4, <2>5
<1>7. CASE PlusActive /\ l # today
  <2>1. SyncPlus(q).lot[l] = q.lot[l]
    <3>1. CASE q.lot[today].granted = 0
      BY <1>4, <1>5, <1>7, <3>1, GrantTerms
    <3>2. CASE q.lot[today].granted # 0
      <4>1. PICK p : p = [q EXCEPT !.lot[today].expires = expires]
        OBVIOUS
      <4>2. GoodQuota(p) /\ p.lot[l] = q.lot[l]
        <5>1. GoodQuota(p)
          BY <1>4, <4>1, NewExpiryKeeps DEF Kept
        <5>2. p.lot = [q.lot EXCEPT ![today] = [q.lot[today] EXCEPT !.expires = expires]]
          BY <4>1 DEF GoodQuota
        <5>3. QED  BY <1>7, <5>1, <5>2 DEF GoodQuota
      <4>3. PICK frozen \in BOOLEAN, target \in 0..MaxLot : frozen = FALSE /\ target = 0
        <5>1. 0 \in 0..MaxLot  BY LedgerAssumption
        <5>2. QED  BY ONLY <5>1
      <4>4. SyncPlus(q) = ApplyRefundLot(p, today, frozen, target)
        BY <1>5, <1>7, <3>2, <4>1, <4>3
      <4>5. \A m \in Lots \ {today} : ApplyRefundLot(p, today, frozen, target).lot[m] = p.lot[m]
        BY <1>4, <4>2, PolicyTerms
      <4>6. QED  BY <1>7, <4>2, <4>4, <4>5
    <3>3. QED  BY <3>1, <3>2
  <2>2. QED  BY <1>7, <2>1, TermsSelf
<1>8. CASE PlusActive /\ l = today
  <2>1. PICK y : y = SyncPlus(q).lot[l]
    OBVIOUS
  <2>2. y.granted > 0 /\ ~y.frozen /\ y.expires = expires
    <3>1. CASE q.lot[today].granted = 0
      <4>1. y = NewLot(DailyPlus, expires)
        BY <1>4, <1>5, <1>8, <2>1, <3>1, GrantTerms
      <4>2. QED  BY <4>1, LedgerAssumption DEF NewLot
    <3>2. CASE q.lot[today].granted # 0
      <4>1. PICK p : p = [q EXCEPT !.lot[today].expires = expires]
        OBVIOUS
      <4>2. GoodQuota(p) /\ p.lot[l].granted = q.lot[l].granted /\ p.lot[l].expires = expires
        <5>1. GoodQuota(p)
          BY <1>4, <4>1, NewExpiryKeeps DEF Kept
        <5>2. q.lot \in [Lots -> LotRow] /\ q.lot[l] \in LotRow
          BY DEF GoodQuota
        <5>3. p.lot[l] = [q.lot[l] EXCEPT !.expires = expires]
          <6>1. p.lot = [q.lot EXCEPT ![today] = [q.lot[today] EXCEPT !.expires = expires]]
            BY <4>1 DEF GoodQuota
          <6>2. QED  BY <1>8, <5>2, <6>1
        <5>4. QED  BY <5>1, <5>2, <5>3 DEF LotRow
      <4>3. PICK frozen \in BOOLEAN, target \in 0..MaxLot : frozen = FALSE /\ target = 0
        <5>1. 0 \in 0..MaxLot  BY LedgerAssumption
        <5>2. QED  BY ONLY <5>1
      <4>4. SyncPlus(q) = ApplyRefundLot(p, today, frozen, target)
        BY <1>5, <1>8, <3>2, <4>1, <4>3
      <4>5. y.granted = q.lot[l].granted /\ y.expires = expires /\ ~y.frozen
        <5>1. PICK r : r = ApplyRefundLot(p, today, frozen, target)
          OBVIOUS
        <5>2. /\ r.lot[today].granted = p.lot[today].granted /\ r.lot[today].expires = p.lot[today].expires
              /\ r.lot[today].frozen = frozen
          BY <1>4, <4>2, <5>1, PolicyTerms
        <5>3. y = r.lot[today]
          BY <1>8, <2>1, <4>4, <5>1
        <5>4. QED  BY <1>8, <4>2, <4>3, <5>2, <5>3
      <4>6. q.lot[l].granted \in Nat
        BY LedgerAssumption DEF GoodQuota, LotRow
      <4>7. QED  BY <1>8, <3>2, <4>5, <4>6
    <3>3. QED  BY <3>1, <3>2
  <2>3. now \in Nat /\ now < expires
    BY <1>4, <1>8, LedgerAssumption DEF Context, Time
  <2>4. TodaysPlus(l, y)
    BY <1>2, <1>4, <1>8, <2>2, <2>3 DEF TodaysPlus
  <2>5. Lapses(y)
    BY <1>4, <2>2, <2>3 DEF Lapses
  <2>6. QED  BY <1>8, <2>1, <2>4, <2>5
<1>9. QED  BY <1>6, <1>7, <1>8

(* What a lot's terms say of it.  Daily lots are of windows that have begun and expire with *)
(* them; those of the trial also with the trial, and only after it was claimed; and only an *)
(* order is ever frozen.                                                                    *)
Daily(l) == l[1] \in {"trial_daily", "plus_daily"}
Dated(l, x, t) ==
  /\ l[1] # "order" => ~x.frozen
  /\ Daily(l) /\ x.granted > 0 => Begun(l[2]) /\ x.expires <= End(l[2])
  /\ l[1] = "trial_daily" /\ x.granted > 0 => x.expires <= t.expires /\ t.activated <= now
AllDated(q, t) == \A l \in Lots : Dated(l, q.lot[l], t)

(* The only lots a failed recovery grants. *)
SameGoodwill(q, r) ==
  \A p \in Captures : r.lot[RecoveryLot(p)].granted = q.lot[RecoveryLot(p)].granted

LEMMA DatedKept ==
  ASSUME NEW l, NEW x, NEW y, NEW t, Dated(l, x, t), SameTerms(x, y)
  PROVE  Dated(l, y, t)
BY DEF Dated, SameTerms

(* A lot without a window only has to be unfrozen, and that of an order not even that. *)
LEMMA Undated ==
  ASSUME NEW l, NEW x, NEW t, ~Daily(l), l[1] = "order" \/ ~x.frozen
  PROVE  Dated(l, x, t)
BY DEF Dated, Daily

(* After the syncs every lot has its terms, and what is over is not spendable. *)
LEMMA SyncedTerms ==
  ASSUME Context, NEW q, GoodQuota(q),
         NEW t \in [eligible : BOOLEAN, activated : Nat, expires : Nat],
         AllDated(q, t), NEW r, r = Synced(q, t)
  PROVE  /\ AllDated(r, t) /\ SameGoodwill(q, r)
         /\ \A l \in Lots : Lapses(r.lot[l]) /\ (~PlusActive /\ l \in PlusLots => Idle(r.lot[l]))
<1>1. PICK x : x = SyncFreeTrial(q, t)
  OBVIOUS
<1>2. GoodQuota(x) /\ r = SyncPlus(x)
  BY <1>1, SyncFreeTrialKeeps DEF Synced, Kept
<1>3. ASSUME NEW l \in Lots
      PROVE  /\ SameTerms(q.lot[l], x.lot[l]) \/ TodaysTrial(l, x.lot[l], t)
             /\ Lapses(x.lot[l])
  BY <1>1, SyncFreeTrialTerms
<1>4. ASSUME NEW l \in Lots
      PROVE  /\ SameTerms(x.lot[l], r.lot[l]) \/ TodaysPlus(l, r.lot[l])
             /\ Lapses(r.lot[l])
             /\ ~PlusActive /\ l \in PlusLots => Idle(r.lot[l])
  BY <1>2, <1>3, SyncPlusTerms
<1>5. ASSUME NEW l \in Lots PROVE Dated(l, x.lot[l], t)
  <2>1. CASE SameTerms(q.lot[l], x.lot[l])
    BY <2>1, DatedKept DEF AllDated
  <2>2. CASE TodaysTrial(l, x.lot[l], t)
    <3>1. x.lot[l].expires = Least(DayEnd(now), t.expires) /\ ~x.lot[l].frozen
      BY <2>2 DEF TodaysTrial, NewLot
    <3>2. l[1] = "trial_daily" /\ l[2] = Day(now) /\ t.activated <= now
      BY <2>2 DEF TodaysTrial, TrialLot, TrialActive
    <3>3. Begun(l[2]) /\ DayEnd(now) = End(l[2])
      BY <3>2, TodayBegun
    <3>4. x.lot[l].expires <= DayEnd(now) /\ x.lot[l].expires <= t.expires
      <4>1. DayEnd(now) \in Nat /\ t.expires \in Nat
        BY Windows
      <4>2. QED  BY <3>1, <4>1 DEF Least
    <3>5. QED  BY <3>1, <3>2, <3>3, <3>4 DEF Dated
  <2>3. QED  BY <1>3, <2>1, <2>2
<1>6. ASSUME NEW l \in Lots PROVE Dated(l, r.lot[l], t)
  <2>1. CASE SameTerms(x.lot[l], r.lot[l])
    BY <1>5, <2>1, DatedKept
  <2>2. CASE TodaysPlus(l, r.lot[l])
    <3>1. l[1] = "plus_daily" /\ l[2] = Day(now) /\ ~r.lot[l].frozen /\ r.lot[l].expires <= DayEnd(now)
      BY <2>2 DEF TodaysPlus, PlusLot
    <3>2. Begun(l[2]) /\ DayEnd(now) = End(l[2])
      BY <3>1, TodayBegun
    <3>3. QED  BY <3>1, <3>2 DEF Dated
  <2>3. QED  BY <1>4, <2>1, <2>2
<1>7. ASSUME NEW p \in Captures
      PROVE  r.lot[RecoveryLot(p)].granted = q.lot[RecoveryLot(p)].granted
  <2>1. RecoveryLot(p) \in Lots
    BY DEF Lots, RecoveryLot
  <2>2. RecoveryLot(p) # TrialLot(Day(now)) /\ RecoveryLot(p) # PlusLot(Day(now))
    BY DEF RecoveryLot, TrialLot, PlusLot
  <2>3. SameTerms(q.lot[RecoveryLot(p)], x.lot[RecoveryLot(p)])
    BY <1>3, <2>1, <2>2 DEF TodaysTrial
  <2>4. SameTerms(x.lot[RecoveryLot(p)], r.lot[RecoveryLot(p)])
    BY <1>4, <2>1, <2>2 DEF TodaysPlus
  <2>5. QED  BY <2>3, <2>4 DEF SameTerms
<1>8. QED  BY <1>4, <1>6, <1>7 DEF AllDated, SameGoodwill

(* A terminal outcome changes no terms; it grants goodwill only for a failed recovery.      *)
LEMMA FinishedTerms ==
  ASSUME LedgerInv, NEW c \in Captures, captures[c].state = "held",
         NEW charge \in BOOLEAN, NEW usable \in BOOLEAN, AllDated(quota, trial),
         NEW q, q = FinishedQuota(c, charge, usable)
  PROVE  /\ AllDated(q, trial)
         /\ captures[c].op # "recover" \/ usable => SameGoodwill(quota, q)
         /\ captures[c].op = "recover" /\ ~usable => q = Compensate(quota, captures[c].parent)
<1>1. GoodQuota(quota) /\ CaptureBinding(c) /\ captures[c].op \in Operations
  BY DEF LedgerInv, CaptureBindings, CapturesType, CaptureRow
<1>2. CASE captures[c].op = "solve"
  <2>1. PICK k : k = captures[c].lot
    OBVIOUS
  <2>2. /\ k \in Lots
        /\ \A m \in Lots \ {k} : q.lot[m] = quota.lot[m]
        /\ SameTerms(quota.lot[k], q.lot[k])
    BY <1>2, <2>1, FinishedQuotaEnds
  <2>3. \A m \in Lots : SameTerms(quota.lot[m], q.lot[m])
    BY <2>2, TermsSelf
  <2>4. AllDated(q, trial)
    BY <2>3, DatedKept DEF AllDated
  <2>5. \A p \in Captures : RecoveryLot(p) \in Lots
    BY DEF Lots, RecoveryLot
  <2>6. QED  BY <1>2, <2>3, <2>4, <2>5 DEF SameGoodwill, SameTerms
<1>3. CASE captures[c].op = "recover" /\ ~usable
  <2>1. PICK p \in Captures : p = captures[c].parent
    BY <1>1, <1>3 DEF CaptureBinding
  <2>2. q = Compensate(quota, p)
    BY <1>3, <2>1 DEF FinishedQuota
  <2>3. RecoveryLot(p) \in Lots /\ ~Daily(RecoveryLot(p)) /\ RecoveryLot(p)[1] # "order"
    BY DEF Lots, RecoveryLot, Daily
  <2>4. CASE quota.lot[RecoveryLot(p)].granted = 0
    <3>1. q = Grant(quota, RecoveryLot(p), 1, Never)
      BY <2>2, <2>4 DEF Compensate
    <3>2. /\ q.lot[RecoveryLot(p)] = NewLot(1, Never)
          /\ \A m \in Lots \ {RecoveryLot(p)} : q.lot[m] = quota.lot[m]
      BY <1>1, <2>3, <3>1, GrantTerms
    <3>3. Dated(RecoveryLot(p), q.lot[RecoveryLot(p)], trial)
      BY <2>3, <3>2, Undated DEF NewLot
    <3>4. QED  BY <1>3, <2>1, <2>2, <3>2, <3>3 DEF AllDated
  <2>5. CASE quota.lot[RecoveryLot(p)].granted # 0
    BY <1>3, <2>1, <2>2, <2>5 DEF Compensate
  <2>6. QED  BY <2>4, <2>5
<1>4. CASE captures[c].op # "solve" /\ ~(captures[c].op = "recover" /\ ~usable)
  <2>1. q = quota
    BY <1>4 DEF FinishedQuota
  <2>2. QED  BY <1>4, <2>1 DEF SameGoodwill
<1>5. QED  BY <1>2, <1>3, <1>4

(* An order's lot has no window, and may be frozen. *)
LEMMA OrderTerms ==
  ASSUME NEW q, NEW r, NEW t, NEW o \in PaidOrders, AllDated(q, t),
         \A m \in Lots \ {OrderLot(o)} : r.lot[m] = q.lot[m]
  PROVE  AllDated(r, t) /\ SameGoodwill(q, r)
<1>1. ~Daily(OrderLot(o)) /\ OrderLot(o)[1] = "order"
  BY DEF OrderLot, Daily
<1>2. Dated(OrderLot(o), r.lot[OrderLot(o)], t)
  BY <1>1, Undated
<1>3. AllDated(r, t)
  BY <1>2 DEF AllDated
<1>4. \A p \in Captures : RecoveryLot(p) \in Lots \ {OrderLot(o)}
  BY DEF Lots, RecoveryLot, OrderLot
<1>5. QED  BY <1>3, <1>4 DEF SameGoodwill

TermsInv == LedgerInv /\ AllDated(quota, trial)

(* What each operation does to the terms, and, unless it ends a recovery, to goodwill.      *)
LEMMA BeginSolveTerms ==
  ASSUME TermsInv, NEW c \in Captures, NEW exclusive, NEW allowPurchased,
         BeginSolve(c, exclusive, allowPurchased)
  PROVE  AllDated(quota', trial') /\ SameGoodwill(quota, quota')
<1>1. Context /\ GoodQuota(quota) /\ trial \in [eligible : BOOLEAN, activated : Nat, expires : Nat]
      /\ AllDated(quota, trial)
  BY DEF TermsInv, LedgerInv, Context
<1>2. PICK q : q = Synced(quota, trial)
  OBVIOUS
<1>3. PICK l \in Preferred(q, allowPurchased) : quota' = HoldOn(q, l)
  BY <1>2 DEF BeginSolve
<1>4. trial' = trial
  BY DEF BeginSolve
<1>5. GoodQuota(q)
  BY <1>1, <1>2, SyncedKeeps DEF Kept
<1>6. AllDated(q, trial) /\ SameGoodwill(quota, q)
  BY <1>1, <1>2, SyncedTerms
<1>7. l \in Lots /\ q.lot[l].remaining > q.lot[l].held /\ ~q.lot[l].frozen
  BY <1>3 DEF Preferred, Spendable
<1>8. PICK r : r = quota'
  OBVIOUS
<1>9. SameTerms(q.lot[l], r.lot[l]) /\ \A m \in Lots \ {l} : r.lot[m] = q.lot[m]
  BY <1>3, <1>5, <1>7, <1>8, HoldOnTakes
<1>10. \A m \in Lots : SameTerms(q.lot[m], r.lot[m])
  BY <1>9, TermsSelf
<1>11. AllDated(r, trial)
  BY <1>6, <1>10, DatedKept DEF AllDated
<1>12. \A p \in Captures : RecoveryLot(p) \in Lots
  BY DEF Lots, RecoveryLot
<1>13. SameGoodwill(quota, r)
  BY <1>6, <1>10, <1>12 DEF SameGoodwill, SameTerms
<1>14. QED  BY <1>4, <1>8, <1>11, <1>13

LEMMA SyncingTerms ==
  ASSUME TermsInv, quota' = Synced(quota, trial), trial' = trial
  PROVE  AllDated(quota', trial') /\ SameGoodwill(quota, quota')
<1>1. PICK r : r = quota'
  OBVIOUS
<1>2. AllDated(r, trial) /\ SameGoodwill(quota, r)
  BY <1>1, SyncedTerms DEF TermsInv, LedgerInv, Context
<1>3. QED  BY <1>1, <1>2

LEMMA ClaimTerms ==
  ASSUME TermsInv, ClaimFreeTrial
  PROVE  AllDated(quota', trial') /\ SameGoodwill(quota, quota')
<1>1. /\ Context /\ GoodQuota(quota) /\ AllDated(quota, trial) /\ now \in Nat /\ now < Never
      /\ trial \in [eligible : BOOLEAN, activated : Nat, expires : Nat]
  BY LedgerAssumption DEF TermsInv, LedgerInv, Context, Time, Never
<1>2. CASE trial.activated = Never
  <2>1. PICK t : t = [trial EXCEPT !.activated = now, !.expires = now + TrialLength]
    OBVIOUS
  <2>2. PICK q : q = [quota EXCEPT !.lot[InitialLot].expires = now]
    OBVIOUS
  <2>3. trial' = t /\ quota' = Synced(q, t)
    BY <1>2, <2>1, <2>2 DEF ClaimFreeTrial
  <2>4. t \in [eligible : BOOLEAN, activated : Nat, expires : Nat]
    <3>1. now + TrialLength \in Nat
      BY <1>1, LedgerAssumption
    <3>2. QED  BY <1>1, <2>1, <3>1
  <2>5. InitialLot \in Lots
    BY DEF Lots
  <2>6. GoodQuota(q)
    BY <1>1, <2>2, <2>5, NewExpiryKeeps DEF Kept
  <2>7. /\ \A m \in Lots \ {InitialLot} : q.lot[m] = quota.lot[m]
        /\ q.lot[InitialLot] = [quota.lot[InitialLot] EXCEPT !.expires = now]
    <3>1. q.lot = [quota.lot EXCEPT ![InitialLot] = [quota.lot[InitialLot] EXCEPT !.expires = now]]
      BY <1>1, <2>2 DEF GoodQuota
    <3>2. QED  BY <1>1, <2>5, <3>1 DEF GoodQuota
  <2>8. \A m \in Lots : q.lot[m].granted = quota.lot[m].granted /\ q.lot[m].frozen = quota.lot[m].frozen
    <3>1. quota.lot[InitialLot] \in LotRow
      BY <1>1, <2>5 DEF GoodQuota
    <3>2. QED  BY <2>7, <3>1 DEF LotRow
  <2>9. ASSUME NEW m \in Lots PROVE Dated(m, q.lot[m], t)
    <3>1. Dated(m, quota.lot[m], trial)
      BY <1>1 DEF AllDated
    <3>2. CASE ~Daily(m)
      BY <2>8, <3>1, <3>2, Undated DEF Dated
    <3>3. CASE Daily(m)
      <4>1. m # InitialLot
        BY <3>3 DEF Daily, InitialLot
      <4>2. q.lot[m] = quota.lot[m]
        BY <2>7, <4>1
      <4>3. ~(m[1] = "trial_daily" /\ quota.lot[m].granted > 0)
        BY <1>1, <1>2, <3>1, LedgerAssumption DEF Dated, Never
      <4>4. QED  BY <3>1, <4>2, <4>3 DEF Dated
    <3>4. QED  BY <3>2, <3>3
  <2>10. AllDated(q, t)
    BY <2>9 DEF AllDated
  <2>11. PICK r : r = quota'
    OBVIOUS
  <2>12. AllDated(r, t) /\ SameGoodwill(q, r)
    BY <1>1, <2>3, <2>4, <2>6, <2>10, <2>11, SyncedTerms
  <2>13. \A p \in Captures : RecoveryLot(p) \in Lots
    BY DEF Lots, RecoveryLot
  <2>14. QED  BY <2>3, <2>8, <2>11, <2>12, <2>13 DEF SameGoodwill
<1>3. CASE trial.activated # Never
  BY <1>3, SyncingTerms DEF ClaimFreeTrial
<1>4. QED  BY <1>2, <1>3

LEMMA CreditTerms ==
  ASSUME TermsInv, NEW g \in Gifts, Credit(g)
  PROVE  AllDated(quota', trial') /\ SameGoodwill(quota, quota')
<1>1. PICK l : l = GiftLot(g)
  OBVIOUS
<1>2. l \in Lots /\ ~Daily(l) /\ l[1] # "order" /\ \A p \in Captures : RecoveryLot(p) \in Lots \ {l}
  BY <1>1 DEF Lots, GiftLot, Daily, RecoveryLot
<1>3. PICK r : r = quota'
  OBVIOUS
<1>4. r = Grant(quota, l, CreditQuestions, Never) /\ trial' = trial
  BY <1>1, <1>3 DEF Credit
<1>5. r.lot[l] = NewLot(CreditQuestions, Never) /\ \A m \in Lots \ {l} : r.lot[m] = quota.lot[m]
  BY <1>2, <1>4, GrantTerms DEF TermsInv, LedgerInv
<1>6. Dated(l, r.lot[l], trial)
  BY <1>2, <1>5, Undated DEF NewLot
<1>7. QED  BY <1>2, <1>3, <1>4, <1>5, <1>6 DEF TermsInv, AllDated, SameGoodwill

LEMMA PayOrderTerms ==
  ASSUME TermsInv, NEW o \in PaidOrders, NEW frozen \in BOOLEAN,
         NEW target \in 0..CreditQuestions, PayOrder(o, frozen, target)
  PROVE  AllDated(quota', trial') /\ SameGoodwill(quota, quota')
<1>1. PICK q : q = Grant(quota, OrderLot(o), CreditQuestions, Never)
  OBVIOUS
<1>2. PICK r : r = quota'
  OBVIOUS
<1>3. r = ApplyRefundLot(q, OrderLot(o), frozen, target) /\ trial' = trial
      /\ quota.lot[OrderLot(o)].granted = 0
  BY <1>1, <1>2 DEF PayOrder
<1>4. OrderLot(o) \in Lots /\ Never \in Nat /\ CreditQuestions \in 1..MaxLot /\ target \in 0..MaxLot
  BY LedgerAssumption DEF Lots, OrderLot, Never
<1>5. GoodQuota(q)
  BY <1>1, <1>3, <1>4, GrantKeeps DEF TermsInv, LedgerInv, Kept
<1>6. \A m \in Lots \ {OrderLot(o)} : q.lot[m] = quota.lot[m]
  BY <1>1, <1>4, GrantTerms DEF TermsInv, LedgerInv
<1>7. \A m \in Lots \ {OrderLot(o)} : r.lot[m] = q.lot[m]
  BY <1>3, <1>4, <1>5, PolicyTerms
<1>8. AllDated(r, trial) /\ SameGoodwill(quota, r)
  BY <1>6, <1>7, OrderTerms DEF TermsInv
<1>9. QED  BY <1>2, <1>3, <1>8

LEMMA RefreshOrderTerms ==
  ASSUME TermsInv, NEW o \in PaidOrders, NEW frozen \in BOOLEAN,
         NEW target \in 0..CreditQuestions, RefreshOrder(o, frozen, target)
  PROVE  AllDated(quota', trial') /\ SameGoodwill(quota, quota')
<1>1. PICK r : r = quota'
  OBVIOUS
<1>2. r = ApplyRefundLot(quota, OrderLot(o), frozen, target) /\ trial' = trial
  BY <1>1 DEF RefreshOrder
<1>3. OrderLot(o) \in Lots /\ target \in 0..MaxLot
  BY LedgerAssumption DEF Lots, OrderLot
<1>4. \A m \in Lots \ {OrderLot(o)} : r.lot[m] = quota.lot[m]
  BY <1>2, <1>3, PolicyTerms DEF TermsInv, LedgerInv
<1>5. AllDated(r, trial) /\ SameGoodwill(quota, r)
  BY <1>4, OrderTerms DEF TermsInv
<1>6. QED  BY <1>1, <1>2, <1>5

LEMMA FinishTerms ==
  ASSUME TermsInv, NEW c \in Captures, NEW charge \in BOOLEAN, NEW usable \in BOOLEAN,
         Finish(c, charge, usable)
  PROVE  /\ AllDated(quota', trial')
         /\ SameGoodwill(FinishedQuota(c, charge, usable), quota')
<1>1. PICK q : q = FinishedQuota(c, charge, usable)
  OBVIOUS
<1>2. captures[c].state = "held" /\ quota' = Synced(q, trial) /\ trial' = trial
  BY <1>1 DEF Finish
<1>3. GoodQuota(q)
  BY <1>1, <1>2, FinishedQuotaEnds DEF TermsInv
<1>4. AllDated(q, trial)
  BY <1>1, <1>2, FinishedTerms DEF TermsInv
<1>5. PICK r : r = quota'
  OBVIOUS
<1>6. AllDated(r, trial) /\ SameGoodwill(q, r)
  BY <1>2, <1>3, <1>4, <1>5, SyncedTerms DEF TermsInv, LedgerInv, Context
<1>7. QED  BY <1>1, <1>2, <1>5, <1>6

LEMMA ReapVisitTerms ==
  ASSUME TermsInv, NEW c \in Captures, ReapVisit(c)
  PROVE  AllDated(quota', trial')
<1>1. CASE captures[c].state = "held" /\ captures[c].expires <= sweep.at
  <2>1. PICK charge \in BOOLEAN, usable \in BOOLEAN : charge = FALSE /\ usable = FALSE
    OBVIOUS
  <2>2. quota' = FinishedQuota(c, charge, usable) /\ trial' = trial
    BY <1>1, <2>1 DEF ReapVisit
  <2>3. PICK r : r = quota'
    OBVIOUS
  <2>4. AllDated(r, trial)
    BY <1>1, <2>2, <2>3, FinishedTerms DEF TermsInv
  <2>5. QED  BY <2>2, <2>3, <2>4
<1>2. CASE ~(captures[c].state = "held" /\ captures[c].expires <= sweep.at)
  BY <1>2 DEF ReapVisit, TermsInv
<1>3. QED  BY <1>1, <1>2

(* The steps that end no capture. *)
Ends(c) == (\E charge, usable \in BOOLEAN : Finish(c, charge, usable)) \/ ReapVisit(c)

LEMMA OtherTerms ==
  ASSUME TermsInv, [Next]_ledgerVars, ~ \E c \in Captures : Ends(c)
  PROVE  AllDated(quota', trial') /\ SameGoodwill(quota, quota')
<1>1. CASE Requests
  <2>1. CASE \E c \in Captures, exclusive, allowPurchased \in BOOLEAN :
               BeginSolve(c, exclusive, allowPurchased)
    BY <2>1, BeginSolveTerms
  <2>2. CASE \E c, p, answer \in Captures, op \in {"explain", "recover"} :
               BeginFollowUp(c, op, p, answer)
    <3>1. quota' = Synced(quota, trial) /\ trial' = trial
      BY <2>2 DEF BeginFollowUp
    <3>2. QED  BY <3>1, SyncingTerms
  <2>3. CASE ReadAccount
    BY <2>3, SyncingTerms DEF ReadAccount
  <2>4. CASE ClaimFreeTrial
    BY <2>4, ClaimTerms
  <2>5. QED  BY <1>1, <2>1, <2>2, <2>3, <2>4 DEF Requests, Ends
<1>2. CASE Payments
  <2>1. CASE \E g \in Gifts : Credit(g)
    BY <2>1, CreditTerms
  <2>2. CASE \E o \in PaidOrders, frozen \in BOOLEAN, target \in 0..CreditQuestions :
               PayOrder(o, frozen, target) \/ RefreshOrder(o, frozen, target)
    BY <2>2, PayOrderTerms, RefreshOrderTerms
  <2>3. CASE \E p \in Plans : PlanChanges(p)
    BY <2>3 DEF PlanChanges, TermsInv, SameGoodwill
  <2>4. QED  BY <1>2, <2>1, <2>2, <2>3 DEF Payments
<1>3. CASE ReapSelect \/ Tick \/ UNCHANGED ledgerVars
  BY <1>3 DEF ReapSelect, Tick, ledgerVars, TermsInv, SameGoodwill
<1>4. QED  BY <1>1, <1>2, <1>3 DEF Next, Reaper, Ends

LEMMA TermsStep ==
  ASSUME TermsInv, [Next]_ledgerVars
  PROVE  TermsInv'
<1>1. LedgerInv'
  BY NextInv DEF TermsInv
<1>2. AllDated(quota', trial')
  BY OtherTerms, FinishTerms, ReapVisitTerms DEF Ends
<1>3. now \in Nat /\ now' \in Nat /\ now <= now' /\ DayOffset \in Nat
  <2>1. now \in Nat /\ now' \in Nat
    BY <1>1, LedgerAssumption DEF TermsInv, LedgerInv, Context, Time
  <2>2. ASSUME Requests PROVE now' = now
    <3>1. CASE \E c \in Captures, exclusive, allowPurchased \in BOOLEAN :
                 BeginSolve(c, exclusive, allowPurchased)
      BY <3>1 DEF BeginSolve
    <3>2. CASE \E c, p, answer \in Captures, op \in {"explain", "recover"} :
                 BeginFollowUp(c, op, p, answer)
      BY <3>2 DEF BeginFollowUp
    <3>3. CASE \E c \in Captures, charge, usable \in BOOLEAN : Finish(c, charge, usable)
      BY <3>3 DEF Finish
    <3>4. CASE ReadAccount \/ ClaimFreeTrial
      BY <3>4 DEF ReadAccount, ClaimFreeTrial
    <3>5. QED  BY <2>2, <3>1, <3>2, <3>3, <3>4 DEF Requests
  <2>3. ASSUME Reaper PROVE now' = now
    BY <2>3 DEF Reaper, ReapSelect, ReapVisit
  <2>4. ASSUME Payments PROVE now' = now
    BY <2>4 DEF Payments, Credit, PayOrder, RefreshOrder, PlanChanges
  <2>5. ASSUME Tick PROVE now' = now + 1
    BY <2>5 DEF Tick
  <2>6. ASSUME UNCHANGED ledgerVars PROVE now' = now
    BY <2>6 DEF ledgerVars
  <2>7. now' = now \/ now' = now + 1
    BY <2>2, <2>3, <2>4, <2>5, <2>6 DEF Next
  <2>8. QED  BY <2>1, <2>7, LedgerAssumption
<1>4. \A d \in Days : Begun(d) => Begun(d)'
  <2>1. SUFFICES ASSUME NEW d \in Days, Begun(d) PROVE Begun(d)'
    OBVIOUS
  <2>2. d * DayLength \in Int
    <3>1. PICK s \in Time : d = Day(s)
      BY DEF Days
    <3>2. d \in Int
      BY <3>1, LedgerAssumption DEF Day, Time
    <3>3. QED  BY <3>2, LedgerAssumption
  <2>3. PICK k \in Int : k = d * DayLength
    BY <2>2
  <2>4. k <= now + DayOffset
    BY <2>1, <2>3 DEF Begun
  <2>5. k <= now' + DayOffset
    <3>1. PICK m \in Nat, n \in Nat, o \in Nat : m = now /\ n = now' /\ o = DayOffset
      BY <1>3
    <3>2. m <= n /\ k <= m + o
      BY <1>3, <2>4, <3>1
    <3>3. k <= n + o
      BY <3>2
    <3>4. QED  BY <3>1, <3>3
  <2>6. QED  BY <2>3, <2>5 DEF Begun
<1>5. AllDated(quota, trial)'
  <2>1. SUFFICES ASSUME NEW l \in Lots PROVE Dated(l, quota.lot[l], trial)'
    BY DEF AllDated
  <2>2. Dated(l, quota'.lot[l], trial')
    BY <1>2 DEF AllDated
  <2>3. Daily(l) => l[2] \in Days
    BY DEF Lots, Daily, PlusLots, InitialLot
  <2>4. trial'.activated <= now => trial'.activated <= now'
    BY <1>1, <1>3 DEF LedgerInv, Context
  <2>5. QED  BY <1>4, <2>2, <2>3, <2>4 DEF Dated, Daily, End
<1>6. QED  BY <1>1, <1>5 DEF TermsInv

LEMMA TermsInit == Init => TermsInv
<1>1. SUFFICES ASSUME Init PROVE TermsInv
  OBVIOUS
<1>2. \A l \in Lots : Daily(l) => l # InitialLot
  BY DEF Daily, InitialLot
<1>3. \A l \in Lots : Daily(l) => quota.lot[l].granted = 0
  BY <1>1, <1>2 DEF Init, NewLot
<1>4. \A l \in Lots : ~quota.lot[l].frozen
  BY <1>1 DEF Init, NewLot
<1>5. AllDated(quota, trial)
  BY <1>3, <1>4 DEF AllDated, Dated, Daily
<1>6. QED  BY <1>1, <1>5, InitInv DEF TermsInv

(* Whatever happens, a daily question belongs to a window that has begun and dies with it.  *)
THEOREM TermsInvariant == Spec => []TermsInv
BY TermsInit, TermsStep, PTL DEF Spec

-----------------------------------------------------------------------------
(* Entitlement of holds *)

(* A lot that still has a question to spend after the syncs is in force, and a daily one is *)
(* today's, of a trial or a plan that runs.                                                 *)
InForce(l, x) ==
  /\ now < x.expires
  /\ l[1] = "trial_daily" => TrialActive(trial) /\ l[2] = Day(now)
  /\ l[1] = "plus_daily" => PlusActive /\ l[2] = Day(now)

LEMMA SpendableInForce ==
  ASSUME Context, NEW q, GoodQuota(q), AllDated(q, trial), NEW l \in Lots,
         Lapses(q.lot[l]), ~PlusActive /\ l \in PlusLots => Idle(q.lot[l]), ~Idle(q.lot[l])
  PROVE  InForce(l, q.lot[l])
<1>1. PICK x : x = q.lot[l]
  OBVIOUS
<1>2. /\ x.granted \in Nat /\ x.expires \in Nat /\ x.granted > 0
      /\ now \in Nat /\ trial.expires \in Nat
  <2>1. x \in LotRow /\ x.held <= x.remaining /\ x.remaining + x.revoked <= x.granted
    BY <1>1 DEF GoodQuota, GoodLot, SoundLot
  <2>2. x.remaining # x.held
    BY <1>1 DEF Idle
  <2>3. /\ x.granted \in Nat /\ x.expires \in Nat /\ x.remaining \in Nat /\ x.held \in Nat
        /\ x.revoked \in Nat
    BY <2>1, LedgerAssumption DEF LotRow
  <2>4. x.granted > 0
    BY <2>1, <2>2, <2>3
  <2>5. QED  BY <2>3, <2>4, LedgerAssumption DEF Context, Time
<1>3. now < x.expires
  BY <1>1, <1>2 DEF Lapses
<1>4. Dated(l, x, trial)
  BY <1>1 DEF AllDated
<1>5. Daily(l) => l[2] \in Days
  BY DEF Lots, Daily, PlusLots, InitialLot
<1>6. Daily(l) => l[2] = Day(now)
  <2>1. SUFFICES ASSUME Daily(l) PROVE l[2] = Day(now)
    OBVIOUS
  <2>2. Begun(l[2]) /\ x.expires <= End(l[2])
    BY <1>2, <1>4, <2>1 DEF Dated
  <2>3. End(l[2]) \in Int
    <3>1. PICK s \in Time : l[2] = Day(s)
      BY <1>5, <2>1 DEF Days
    <3>2. l[2] \in Int
      BY <3>1, LedgerAssumption DEF Day, Time
    <3>3. QED  BY <3>2, LedgerAssumption DEF End
  <2>4. now < End(l[2])
    <3>1. PICK e \in Int : e = End(l[2])
      BY <2>3
    <3>2. QED  BY <1>2, <1>3, <2>2, <3>1
  <2>5. QED  BY <1>5, <2>1, <2>2, <2>4, OnlyToday
<1>7. l[1] = "trial_daily" => TrialActive(trial)
  BY <1>2, <1>3, <1>4 DEF Dated, Daily, TrialActive
<1>8. l[1] = "plus_daily" => PlusActive
  <2>1. l[1] = "plus_daily" => l \in PlusLots
    BY DEF Lots, PlusLots, InitialLot
  <2>2. QED  BY <2>1
<1>9. QED  BY <1>1, <1>3, <1>6, <1>7, <1>8 DEF InForce, Daily

(* A purchased question comes last: an unfrozen lot of lower rank has none to spend. *)
LEMMA PurchasedComesLast ==
  ASSUME NEW q, GoodQuota(q), NEW allowPurchased, NEW l \in Preferred(q, allowPurchased),
         Purchased(l), NEW m \in Lots, m[1] \in {"trial_daily", "plus_daily"}, ~q.lot[m].frozen
  PROVE  Idle(q.lot[m])
<1>1. PICK x : x = q.lot[m]
  OBVIOUS
<1>2. x.held \in Nat /\ x.remaining \in Nat /\ x.held <= x.remaining
  BY <1>1, LedgerAssumption DEF GoodQuota, GoodLot, SoundLot, LotRow
<1>3. SUFFICES ASSUME x.remaining > x.held PROVE FALSE
  BY <1>1, <1>2 DEF Idle
<1>4. m \in Spendable(q, allowPurchased)
  BY <1>1, <1>3 DEF Spendable, Purchased
<1>5. Rank(l) <= Rank(m)
  BY <1>4 DEF Preferred
<1>6. Rank(l) = 4 /\ Rank(m) \in {0, 1}
  BY DEF Rank, Purchased
<1>7. QED  BY <1>5, <1>6

LEMMA BeginSolveEntitled ==
  ASSUME TermsInv, NEW c \in Captures, NEW exclusive, NEW allowPurchased,
         BeginSolve(c, exclusive, allowPurchased)
  PROVE  \A d \in Captures : HoldIsEntitled(d)
<1>1. Context /\ GoodQuota(quota) /\ trial \in [eligible : BOOLEAN, activated : Nat, expires : Nat]
      /\ AllDated(quota, trial) /\ CapturesType
  BY DEF TermsInv, LedgerInv, Context
<1>2. PICK q : q = Synced(quota, trial)
  OBVIOUS
<1>3. PICK l \in Preferred(q, allowPurchased) :
        /\ quota' = HoldOn(q, l)
        /\ captures' = [captures EXCEPT ![c] = NewCapture("solve", None, l)]
  BY <1>2 DEF BeginSolve
<1>4. GoodQuota(q)
  BY <1>1, <1>2, SyncedKeeps DEF Kept
<1>5. AllDated(q, trial)
      /\ \A m \in Lots : Lapses(q.lot[m]) /\ (~PlusActive /\ m \in PlusLots => Idle(q.lot[m]))
  BY <1>1, <1>2, SyncedTerms
<1>6. l \in Lots /\ q.lot[l].remaining > q.lot[l].held /\ ~q.lot[l].frozen
  BY <1>3 DEF Preferred, Spendable
<1>7. ~Idle(q.lot[l])
  <2>1. q.lot[l].held \in Nat /\ q.lot[l].remaining \in Nat
    BY <1>4, <1>6, LedgerAssumption DEF GoodQuota, LotRow
  <2>2. QED  BY <1>6, <2>1 DEF Idle
<1>8. InForce(l, q.lot[l])
  BY <1>1, <1>4, <1>5, <1>6, <1>7, SpendableInForce
<1>9. PICK r : r = quota'
  OBVIOUS
<1>10. SameTerms(q.lot[l], r.lot[l]) /\ \A m \in Lots \ {l} : r.lot[m] = q.lot[m]
  BY <1>3, <1>4, <1>6, <1>9, HoldOnTakes
<1>11. InForce(l, r.lot[l]) /\ ~r.lot[l].frozen
  BY <1>6, <1>8, <1>10 DEF InForce, SameTerms
<1>12. Purchased(l) => Idle(r.lot[TrialLot(Day(now))]) /\ Idle(r.lot[PlusLot(Day(now))])
  <2>1. SUFFICES ASSUME Purchased(l),
                        NEW m \in {TrialLot(Day(now)), PlusLot(Day(now))}
                 PROVE  Idle(r.lot[m])
    OBVIOUS
  <2>2. m \in Lots
    BY <1>1, Windows
  <2>3. m[1] \in {"trial_daily", "plus_daily"} /\ m # l
    BY <2>1 DEF TrialLot, PlusLot, Purchased
  <2>4. ~q.lot[m].frozen
    BY <1>5, <2>2, <2>3 DEF AllDated, Dated
  <2>5. Idle(q.lot[m])
    BY <1>3, <1>4, <2>1, <2>2, <2>3, <2>4, PurchasedComesLast
  <2>6. QED  BY <1>10, <2>2, <2>3, <2>5
<1>13. captures'[c].lot = l /\ \A d \in Captures \ {c} : captures'[d] = captures[d]
  BY <1>1, <1>3 DEF CapturesType, NewCapture
<1>14. ASSUME NEW d \in Captures PROVE HoldIsEntitled(d)
  <2>1. CASE d = c
    BY <1>9, <1>11, <1>12, <1>13, <2>1 DEF HoldIsEntitled, InForce, Idle
  <2>2. CASE d # c
    BY <1>13, <2>2 DEF HoldIsEntitled
  <2>3. QED  BY <2>1, <2>2
<1>15. QED  BY <1>14

(* No other step admits a solve. *)
LEMMA NothingElseHolds ==
  ASSUME LedgerInv, [Next]_ledgerVars,
         ~ \E c \in Captures, exclusive, allowPurchased \in BOOLEAN :
             BeginSolve(c, exclusive, allowPurchased),
         NEW d \in Captures, captures[d].state = "none"
  PROVE  captures'[d].state = "none" \/ captures'[d].op # "solve"
<1>1. CapturesType /\ captures[d] \in CaptureRow
  BY DEF LedgerInv, CapturesType
<1>2. ASSUME NEW c \in Captures, NEW op \in {"explain", "recover"}, NEW p \in Captures,
             NEW answer \in Captures, BeginFollowUp(c, op, p, answer)
      PROVE  captures'[d].state = "none" \/ captures'[d].op # "solve"
  <2>1. captures[p].state = "settled"
    BY <1>2 DEF BeginFollowUp, Usable
  <2>2. d # p
    BY <2>1
  <2>3. d # c => captures'[d] = captures[d]
    BY <1>1, <1>2, <2>2 DEF BeginFollowUp, CapturesType
  <2>4. d = c => captures'[d] = NewCapture(op, p, None)
    BY <1>1, <1>2, <2>2 DEF BeginFollowUp, CapturesType
  <2>5. QED  BY <2>3, <2>4 DEF NewCapture
<1>3. ASSUME NEW c \in Captures, NEW charge \in BOOLEAN, NEW usable \in BOOLEAN,
             captures[c].state = "held", captures' = FinishedCaptures(c, charge, usable)
      PROVE  captures'[d].state = "none"
  <2>1. d # c
    BY <1>3
  <2>2. captures'[d] = captures[d]
    BY <1>1, <1>3, <2>1 DEF FinishedCaptures, CapturesType
  <2>3. QED  BY <2>2
<1>4. ASSUME NEW c \in Captures, ReapVisit(c) PROVE captures'[d].state = "none"
  <2>1. CASE captures' = captures
    BY <2>1
  <2>2. CASE captures' # captures
    <3>1. captures[c].state = "held" /\ captures' = FinishedCaptures(c, FALSE, FALSE)
      BY <1>4, <2>2 DEF ReapVisit
    <3>2. PICK charge \in BOOLEAN, usable \in BOOLEAN : charge = FALSE /\ usable = FALSE
      OBVIOUS
    <3>3. captures' = FinishedCaptures(c, charge, usable)
      BY <3>1, <3>2
    <3>4. QED  BY <1>3, <3>1, <3>3
  <2>3. QED  BY <2>1, <2>2
<1>5. ASSUME NEW c \in Captures, NEW charge \in BOOLEAN, NEW usable \in BOOLEAN,
             Finish(c, charge, usable)
      PROVE  captures'[d].state = "none"
  BY <1>3, <1>5 DEF Finish
<1>6. ASSUME ReadAccount \/ ClaimFreeTrial \/ ReapSelect \/ Payments \/ Tick \/ UNCHANGED ledgerVars
      PROVE  captures' = captures
  BY <1>6 DEF ReadAccount, ClaimFreeTrial, ReapSelect, Payments, Credit, PayOrder, RefreshOrder,
    PlanChanges, Tick, ledgerVars
<1>7. QED  BY <1>2, <1>4, <1>5, <1>6 DEF Next, Requests, Reaper

(* HoldsAreEntitled: the question that a solve holds is one its device is entitled to at    *)
(* that moment, in whichever order syncs, purchases, claims and plan changes came.          *)
THEOREM EntitledHolds == Spec => HoldsAreEntitled
<1>1. TermsInv /\ [Next]_ledgerVars => [\A c \in Captures : HoldIsEntitled(c)]_ledgerVars
  <2>1. SUFFICES ASSUME TermsInv, [Next]_ledgerVars
                 PROVE  \A c \in Captures : HoldIsEntitled(c)
    OBVIOUS
  <2>2. CASE \E c \in Captures, exclusive, allowPurchased \in BOOLEAN :
               BeginSolve(c, exclusive, allowPurchased)
    BY <2>1, <2>2, BeginSolveEntitled
  <2>3. CASE ~ \E c \in Captures, exclusive, allowPurchased \in BOOLEAN :
               BeginSolve(c, exclusive, allowPurchased)
    <3>1. ASSUME NEW c \in Captures, captures[c].state = "none"
          PROVE  captures'[c].state = "none" \/ captures'[c].op # "solve"
      BY <2>1, <2>3, <3>1, NothingElseHolds DEF TermsInv
    <3>2. QED  BY <3>1 DEF HoldIsEntitled
  <2>4. QED  BY <2>2, <2>3
<1>2. QED  BY <1>1, TermsInvariant, PTL DEF Spec, HoldsAreEntitled

-----------------------------------------------------------------------------
(* Compensation of failed recoveries *)

(* A recovery and the solve it recovers know each other, and the solve stays usable.        *)
FollowUp(c) ==
  /\ captures[c].recovered # None =>
       /\ captures[c].recovered \in Captures
       /\ captures[captures[c].recovered].op = "recover"
       /\ captures[captures[c].recovered].parent = c
  /\ captures[c].op = "recover" => /\ captures[captures[c].parent].recovered = c
                                   /\ Usable(captures[c].parent)
FollowUps == \A c \in Captures : FollowUp(c)

(* The solve p was recovered in vain, and has its goodwill question.                        *)
Unanswered(p) ==
  /\ captures[p].recovered # None
  /\ captures[captures[p].recovered].state = "released"
  /\ ~captures[captures[p].recovered].usable
Goodwill == \A p \in Captures :
  quota.lot[RecoveryLot(p)].granted = IF Unanswered(p) THEN 1 ELSE 0

RecoveryInv == TermsInv /\ FollowUps /\ Goodwill

LEMMA GoodwillStep ==
  ASSUME Goodwill, SameGoodwill(quota, quota'),
         \A p \in Captures : Unanswered(p)' <=> Unanswered(p)
  PROVE  Goodwill'
<1>1. SUFFICES ASSUME NEW p \in Captures
               PROVE  quota'.lot[RecoveryLot(p)].granted = IF Unanswered(p)' THEN 1 ELSE 0
  BY DEF Goodwill, RecoveryLot
<1>2. quota'.lot[RecoveryLot(p)].granted = quota.lot[RecoveryLot(p)].granted
  BY DEF SameGoodwill
<1>3. quota.lot[RecoveryLot(p)].granted = IF Unanswered(p) THEN 1 ELSE 0
  BY DEF Goodwill
<1>4. Unanswered(p)' <=> Unanswered(p)
  OBVIOUS
<1>5. QED  BY <1>2, <1>3, <1>4

(* Nobody follows up a capture that was never admitted.                                     *)
LEMMA UnseenIsAlone ==
  ASSUME LedgerInv, FollowUps, NEW c \in Captures, captures[c].state = "none"
  PROVE  /\ captures[c].op = "solve" /\ captures[c].recovered = None
         /\ \A d \in Captures : /\ captures[d].recovered # c
                                /\ captures[d].op = "recover" => captures[d].parent # c
<1>1. captures[c].op = "solve" /\ ~Usable(c)
  BY DEF LedgerInv, CaptureBindings, CaptureBinding, Usable
<1>2. \A d \in Captures : captures[d].op = "recover" => captures[d].parent # c
  BY <1>1 DEF FollowUps, FollowUp
<1>3. \A d \in Captures : captures[d].recovered # c
  BY <1>1, LedgerAssumption DEF FollowUps, FollowUp
<1>4. captures[c].recovered = None
  <2>1. SUFFICES ASSUME captures[c].recovered # None PROVE FALSE
    OBVIOUS
  <2>2. PICK r : r = captures[c].recovered
    OBVIOUS
  <2>3. r \in Captures /\ captures[r].op = "recover" /\ captures[r].parent = c
    BY <2>1, <2>2 DEF FollowUps, FollowUp
  <2>4. QED  BY <1>2, <2>3
<1>5. QED  BY <1>1, <1>2, <1>3, <1>4

LEMMA BeginSolveFollows ==
  ASSUME RecoveryInv, NEW c \in Captures, NEW exclusive, NEW allowPurchased,
         BeginSolve(c, exclusive, allowPurchased)
  PROVE  FollowUps' /\ \A p \in Captures : Unanswered(p)' <=> Unanswered(p)
<1>1. LedgerInv /\ FollowUps /\ CapturesType
  BY DEF RecoveryInv, TermsInv, LedgerInv
<1>2. PICK x : captures' = [captures EXCEPT ![c] = x] /\ x.op = "solve" /\ x.recovered = None
  <2>1. PICK l : captures' = [captures EXCEPT ![c] = NewCapture("solve", None, l)]
    BY DEF BeginSolve
  <2>2. /\ NewCapture("solve", None, l).op = "solve"
        /\ NewCapture("solve", None, l).recovered = None
    BY DEF NewCapture
  <2>3. QED  BY <2>1, <2>2
<1>3. captures'[c] = x /\ \A d \in Captures \ {c} : captures'[d] = captures[d]
  BY <1>1, <1>2 DEF CapturesType
<1>4. /\ captures[c].op = "solve" /\ captures[c].recovered = None
      /\ \A d \in Captures : /\ captures[d].recovered # c
                             /\ captures[d].op = "recover" => captures[d].parent # c
  BY <1>1, UnseenIsAlone DEF BeginSolve
<1>5. ASSUME NEW d \in Captures, captures[d].op = "recover"
      PROVE  captures[d].parent \in Captures \ {c}
  BY <1>1, <1>4, <1>5 DEF LedgerInv, CaptureBindings, CaptureBinding
<1>6. ASSUME NEW d \in Captures, captures[d].recovered # None
      PROVE  captures[d].recovered \in Captures \ {c}
  BY <1>1, <1>4, <1>6 DEF FollowUps, FollowUp
<1>7. ASSUME NEW d \in Captures PROVE FollowUp(d)'
  <2>1. CASE d = c
    BY <1>2, <1>3, <2>1 DEF FollowUp
  <2>2. CASE d # c
    <3>1. captures'[d] = captures[d] /\ FollowUp(d)
      BY <1>1, <1>3, <2>2 DEF FollowUps
    <3>2. QED  BY <1>3, <1>5, <1>6, <3>1 DEF FollowUp, Usable
  <2>3. QED  BY <2>1, <2>2
<1>8. ASSUME NEW d \in Captures PROVE Unanswered(d)' <=> Unanswered(d)
  <2>1. captures'[d].recovered = captures[d].recovered
    BY <1>2, <1>3, <1>4
  <2>2. captures[d].recovered # None =>
          captures'[captures[d].recovered] = captures[captures[d].recovered]
    BY <1>3, <1>6
  <2>3. QED  BY <2>1, <2>2 DEF Unanswered
<1>9. QED  BY <1>7, <1>8 DEF FollowUps

LEMMA BeginFollowUpFollows ==
  ASSUME RecoveryInv, NEW c \in Captures, NEW op \in {"explain", "recover"},
         NEW p \in Captures, NEW answer, BeginFollowUp(c, op, p, answer)
  PROVE  FollowUps' /\ \A d \in Captures : Unanswered(d)' <=> Unanswered(d)
<1>1. LedgerInv /\ FollowUps /\ CapturesType
  BY DEF RecoveryInv, TermsInv, LedgerInv
<1>2. PICK x : x = NewCapture(op, p, None)
  OBVIOUS
<1>3. x.state = "held" /\ x.op = op /\ x.parent = p /\ x.recovered = None
  BY <1>2 DEF NewCapture
<1>4. captures[c].state = "none" /\ Usable(p) /\ c # p
      /\ (op = "recover" => captures[p].recovered = None)
  BY DEF BeginFollowUp, Usable
<1>5. captures' = [captures EXCEPT
        ![c] = x,
        ![p].explained = IF op = "explain" THEN c ELSE @,
        ![p].recovered = IF op = "recover" THEN c ELSE @]
  BY <1>2 DEF BeginFollowUp
<1>6. captures[p] \in CaptureRow /\ captures[p].op = "solve"
  BY <1>1, <1>4 DEF CapturesType, Usable
<1>7. /\ captures'[c] = x
      /\ \A d \in Captures \ {c, p} : captures'[d] = captures[d]
      /\ captures'[p] = [captures[p] EXCEPT
           !.explained = IF op = "explain" THEN c ELSE @,
           !.recovered = IF op = "recover" THEN c ELSE @]
  BY <1>1, <1>4, <1>5 DEF CapturesType
<1>8. /\ captures'[p].op = captures[p].op /\ captures'[p].state = captures[p].state
      /\ captures'[p].usable = captures[p].usable
      /\ captures'[p].recovered = IF op = "recover" THEN c ELSE captures[p].recovered
  BY <1>6, <1>7 DEF CaptureRow
<1>9. /\ captures[c].op = "solve" /\ captures[c].recovered = None
      /\ \A d \in Captures : /\ captures[d].recovered # c
                             /\ captures[d].op = "recover" => captures[d].parent # c
  BY <1>1, <1>4, UnseenIsAlone
<1>10. ASSUME NEW d \in Captures, captures[d].op = "recover"
       PROVE  /\ captures[d].parent \in Captures \ {c}
              /\ captures[captures[d].parent].recovered = d
              /\ Usable(captures[d].parent)
              /\ captures[d].parent = p => op # "recover"
  <2>1. captures[d].parent \in Captures
    BY <1>1, <1>10 DEF LedgerInv, CaptureBindings, CaptureBinding
  <2>2. captures[captures[d].parent].recovered = d /\ Usable(captures[d].parent)
    BY <1>1, <1>10 DEF FollowUps, FollowUp
  <2>3. d # None
    BY LedgerAssumption
  <2>4. QED  BY <1>4, <1>9, <1>10, <2>1, <2>2, <2>3
<1>11. ASSUME NEW d \in Captures, captures[d].recovered # None
       PROVE  /\ captures[d].recovered \in Captures \ {c, p}
              /\ captures'[captures[d].recovered] = captures[captures[d].recovered]
              /\ captures[captures[d].recovered].op = "recover"
              /\ captures[captures[d].recovered].parent = d
  <2>1. /\ captures[d].recovered \in Captures
        /\ captures[captures[d].recovered].op = "recover"
        /\ captures[captures[d].recovered].parent = d
    BY <1>1, <1>11 DEF FollowUps, FollowUp
  <2>2. captures[d].recovered \in Captures \ {c, p}
    BY <1>6, <1>9, <2>1
  <2>3. QED  BY <1>7, <2>1, <2>2
<1>12. ASSUME NEW e \in Captures \ {c}, Usable(e) PROVE Usable(e)'
  BY <1>7, <1>8, <1>12 DEF Usable
<1>13. ASSUME NEW d \in Captures PROVE FollowUp(d)'
  <2>1. CASE d = c
    <3>1. Usable(p)'
      BY <1>4, <1>12
    <3>2. op = "recover" => captures'[p].recovered = c
      BY <1>8
    <3>3. captures'[d] = x
      BY <1>7, <2>1
    <3>4. QED  BY <1>3, <2>1, <3>1, <3>2, <3>3 DEF FollowUp
  <2>2. CASE d = p /\ op = "recover"
    <3>1. captures'[d].op = "solve" /\ captures'[d].recovered = c
      BY <1>6, <1>8, <2>2
    <3>2. captures'[c].op = "recover" /\ captures'[c].parent = d
      BY <1>3, <1>7, <2>2
    <3>3. QED  BY <3>1, <3>2 DEF FollowUp
  <2>3. CASE d = p /\ op # "recover"
    <3>1. captures'[d].op = "solve" /\ captures'[d].recovered = captures[d].recovered
      BY <1>6, <1>8, <2>3
    <3>2. QED  BY <1>11, <3>1 DEF FollowUp
  <2>4. CASE d \notin {c, p}
    <3>1. captures'[d] = captures[d]
      BY <1>7, <2>4
    <3>2. ASSUME captures[d].op = "recover"
          PROVE  captures'[captures[d].parent].recovered = d /\ Usable(captures[d].parent)'
      <4>1. PICK e \in Captures \ {c} : e = captures[d].parent
        BY <1>10, <3>2
      <4>2. captures[e].recovered = d /\ Usable(e) /\ (e = p => op # "recover")
        BY <1>10, <3>2, <4>1
      <4>3. captures'[e].recovered = d
        BY <1>7, <1>8, <4>2
      <4>4. Usable(e)'
        BY <1>12, <4>2
      <4>5. QED  BY <4>1, <4>3, <4>4, <3>1 DEF Usable
    <3>3. QED  BY <1>11, <3>1, <3>2 DEF FollowUp, Usable
  <2>5. QED  BY <2>1, <2>2, <2>3, <2>4
<1>14. ASSUME NEW d \in Captures PROVE Unanswered(d)' <=> Unanswered(d)
  <2>1. CASE d = p /\ op = "recover"
    <3>1. ~Unanswered(d)
      BY <1>4, <2>1 DEF Unanswered
    <3>2. captures'[d].recovered = c /\ captures'[c].state = "held"
      BY <1>3, <1>7, <1>8, <2>1
    <3>3. ~Unanswered(d)'
      BY <3>2 DEF Unanswered
    <3>4. QED  BY <3>1, <3>3
  <2>2. CASE ~(d = p /\ op = "recover")
    <3>1. captures'[d].recovered = captures[d].recovered
      <4>1. CASE d = c
        BY <1>3, <1>7, <1>9, <4>1
      <4>2. CASE d = p
        BY <1>8, <2>2, <4>2
      <4>3. CASE d \notin {c, p}
        BY <1>7, <4>3
      <4>4. QED  BY <4>1, <4>2, <4>3
    <3>2. QED  BY <1>11, <3>1 DEF Unanswered
  <2>3. QED  BY <2>1, <2>2
<1>15. QED  BY <1>13, <1>14 DEF FollowUps

(* The end of a capture, charged, released or reaped: a recovery that ends without a usable *)
(* answer makes its solve's only goodwill question.                                         *)
LEMMA EndFollows ==
  ASSUME RecoveryInv, NEW c \in Captures, captures[c].state = "held",
         NEW charge \in BOOLEAN, NEW usable \in BOOLEAN,
         captures' = FinishedCaptures(c, charge, usable),
         SameGoodwill(FinishedQuota(c, charge, usable), quota')
  PROVE  FollowUps' /\ Goodwill'
<1>1. LedgerInv /\ FollowUps /\ CapturesType /\ Goodwill /\ AllDated(quota, trial) /\ GoodQuota(quota)
  BY DEF RecoveryInv, TermsInv, LedgerInv
<1>2. PICK st \in {"settled", "released"}, us \in BOOLEAN :
        /\ st = "settled" <=> captures[c].op = "solve" /\ Charged(c, charge)
        /\ captures[c].op # "solve" => (us <=> usable)
        /\ captures' = [captures EXCEPT ![c].state = st, ![c].usable = us]
  BY FinishedChanges
<1>3. captures[c] \in CaptureRow
  BY <1>1 DEF CapturesType
<1>4. /\ captures'[c].state = st /\ captures'[c].usable = us
      /\ \A d \in Captures : /\ captures'[d].op = captures[d].op
                             /\ captures'[d].parent = captures[d].parent
                             /\ captures'[d].recovered = captures[d].recovered
      /\ \A d \in Captures \ {c} : captures'[d] = captures[d]
  <2>1. captures' = [captures EXCEPT ![c] = [captures[c] EXCEPT !.state = st, !.usable = us]]
    BY <1>1, <1>2 DEF CapturesType
  <2>2. captures'[c] = [captures[c] EXCEPT !.state = st, !.usable = us]
    BY <1>1, <2>1 DEF CapturesType
  <2>3. \A d \in Captures \ {c} : captures'[d] = captures[d]
    BY <1>1, <2>1 DEF CapturesType
  <2>4. /\ captures'[c].state = st /\ captures'[c].usable = us
        /\ captures'[c].op = captures[c].op
        /\ captures'[c].parent = captures[c].parent
        /\ captures'[c].recovered = captures[c].recovered
    BY <1>3, <2>2 DEF CaptureRow
  <2>5. QED  BY <2>3, <2>4
<1>5. ASSUME NEW d \in Captures, captures[d].op = "recover"
      PROVE  captures[d].parent \in Captures \ {c}
  <2>1. captures[d].parent \in Captures
    BY <1>1, <1>5 DEF LedgerInv, CaptureBindings, CaptureBinding
  <2>2. captures[captures[d].parent].state = "settled"
    BY <1>1, <1>5 DEF FollowUps, FollowUp, Usable
  <2>3. QED  BY <2>1, <2>2
<1>6. ASSUME NEW d \in Captures PROVE FollowUp(d)'
  <2>1. FollowUp(d)
    BY <1>1 DEF FollowUps
  <2>2. captures[d].op = "recover" =>
          captures'[captures[d].parent] = captures[captures[d].parent]
    BY <1>4, <1>5
  <2>3. QED  BY <1>4, <2>1, <2>2 DEF FollowUp, Usable
<1>7. ASSUME NEW d \in Captures, captures[d].recovered # c
      PROVE  Unanswered(d)' <=> Unanswered(d)
  <2>1. captures[d].recovered # None => captures[d].recovered \in Captures \ {c}
    BY <1>1, <1>7 DEF FollowUps, FollowUp
  <2>2. QED  BY <1>4, <2>1 DEF Unanswered
<1>8. ASSUME NEW d \in Captures, captures[d].recovered = c
      PROVE  /\ captures[c].op = "recover" /\ captures[c].parent = d
             /\ ~Unanswered(d) /\ (Unanswered(d)' <=> ~usable)
  <2>1. c # None
    BY LedgerAssumption
  <2>2. captures[c].op = "recover" /\ captures[c].parent = d
    BY <1>1, <1>8, <2>1 DEF FollowUps, FollowUp
  <2>3. st = "released" /\ (us <=> usable)
    BY <1>2, <2>2
  <2>4. QED  BY <1>4, <1>8, <2>1, <2>2, <2>3 DEF Unanswered
<1>9. PICK q : q = FinishedQuota(c, charge, usable)
  OBVIOUS
<1>10. /\ captures[c].op # "recover" \/ usable => SameGoodwill(quota, q)
       /\ captures[c].op = "recover" /\ ~usable => q = Compensate(quota, captures[c].parent)
  BY <1>1, <1>9, FinishedTerms
<1>11. CASE captures[c].op # "recover" \/ usable
  <2>1. SameGoodwill(quota, quota')
    BY <1>9, <1>10, <1>11 DEF SameGoodwill
  <2>2. \A d \in Captures : Unanswered(d)' <=> Unanswered(d)
    BY <1>7, <1>8, <1>11
  <2>3. Goodwill'
    BY <1>1, <2>1, <2>2, GoodwillStep
  <2>4. QED  BY <1>6, <2>3 DEF FollowUps
<1>12. CASE captures[c].op = "recover" /\ ~usable
  <2>1. PICK p \in Captures : p = captures[c].parent
    BY <1>5, <1>12
  <2>2. captures[p].recovered = c
    BY <1>1, <1>12, <2>1 DEF FollowUps, FollowUp
  <2>3. ~Unanswered(p) /\ Unanswered(p)'
    BY <1>8, <1>12, <2>2
  <2>4. quota.lot[RecoveryLot(p)].granted = 0
    BY <1>1, <2>3 DEF Goodwill
  <2>5. q = Grant(quota, RecoveryLot(p), 1, Never)
    BY <1>10, <1>12, <2>1, <2>4 DEF Compensate
  <2>6. RecoveryLot(p) \in Lots
    BY DEF Lots, RecoveryLot
  <2>7. /\ q.lot[RecoveryLot(p)] = NewLot(1, Never)
        /\ \A m \in Lots \ {RecoveryLot(p)} : q.lot[m] = quota.lot[m]
    BY <1>1, <2>5, <2>6, GrantTerms
  <2>8. PICK r : r = quota'
    OBVIOUS
  <2>9. SameGoodwill(q, r)
    BY <1>9, <2>8
  <2>10. ASSUME NEW d \in Captures
         PROVE  quota'.lot[RecoveryLot(d)].granted = IF Unanswered(d)' THEN 1 ELSE 0
    <3>1. CASE d = p
      <4>1. q.lot[RecoveryLot(p)].granted = 1
        BY <2>7 DEF NewLot
      <4>2. r.lot[RecoveryLot(p)].granted = 1
        BY <2>9, <4>1 DEF SameGoodwill
      <4>3. QED  BY <2>3, <2>8, <3>1, <4>2
    <3>2. CASE d # p
      <4>1. RecoveryLot(d) \in Lots \ {RecoveryLot(p)}
        BY <3>2 DEF Lots, RecoveryLot
      <4>2. r.lot[RecoveryLot(d)].granted = quota.lot[RecoveryLot(d)].granted
        BY <2>7, <2>9, <4>1 DEF SameGoodwill
      <4>3. captures[d].recovered # c
        BY <1>8, <2>1, <3>2
      <4>4. Unanswered(d)' <=> Unanswered(d)
        BY <1>7, <4>3
      <4>5. quota.lot[RecoveryLot(d)].granted = IF Unanswered(d) THEN 1 ELSE 0
        BY <1>1 DEF Goodwill
      <4>6. QED  BY <2>8, <4>2, <4>4, <4>5
    <3>3. QED  BY <3>1, <3>2
  <2>11. Goodwill'
    BY <2>10 DEF Goodwill, RecoveryLot
  <2>12. QED  BY <1>6, <2>11 DEF FollowUps
<1>13. QED  BY <1>11, <1>12

LEMMA ReapFollows ==
  ASSUME RecoveryInv, NEW c \in Captures, ReapVisit(c)
  PROVE  FollowUps' /\ Goodwill'
<1>1. CASE captures[c].state = "held" /\ captures[c].expires <= sweep.at
  <2>1. PICK charge \in BOOLEAN, usable \in BOOLEAN : charge = FALSE /\ usable = FALSE
    OBVIOUS
  <2>2. quota' = FinishedQuota(c, charge, usable) /\ captures' = FinishedCaptures(c, charge, usable)
    BY <1>1, <2>1 DEF ReapVisit
  <2>3. SameGoodwill(FinishedQuota(c, charge, usable), quota')
    BY <2>2 DEF SameGoodwill
  <2>4. QED  BY <1>1, <2>2, <2>3, EndFollows
<1>2. CASE ~(captures[c].state = "held" /\ captures[c].expires <= sweep.at)
  <2>1. quota' = quota /\ captures' = captures
    BY <1>2 DEF ReapVisit
  <2>2. QED  BY <2>1 DEF RecoveryInv, FollowUps, FollowUp, Usable, Goodwill, Unanswered, RecoveryLot
<1>3. QED  BY <1>1, <1>2

LEMMA RecoveryStep ==
  ASSUME RecoveryInv, [Next]_ledgerVars
  PROVE  RecoveryInv'
<1>1. TermsInv'
  BY TermsStep DEF RecoveryInv
<1>2. CASE \E c \in Captures : Ends(c)
  <2>1. PICK c \in Captures : Ends(c)
    BY <1>2
  <2>2. CASE ReapVisit(c)
    BY <1>1, <2>2, ReapFollows DEF RecoveryInv
  <2>3. CASE \E charge, usable \in BOOLEAN : Finish(c, charge, usable)
    <3>1. PICK charge \in BOOLEAN, usable \in BOOLEAN : Finish(c, charge, usable)
      BY <2>3
    <3>2. SameGoodwill(FinishedQuota(c, charge, usable), quota')
      BY <3>1, FinishTerms DEF RecoveryInv
    <3>3. captures[c].state = "held" /\ captures' = FinishedCaptures(c, charge, usable)
      BY <3>1 DEF Finish
    <3>4. QED  BY <1>1, <3>2, <3>3, EndFollows DEF RecoveryInv
  <2>4. QED  BY <2>1, <2>2, <2>3 DEF Ends
<1>3. CASE ~ \E c \in Captures : Ends(c)
  <2>1. SameGoodwill(quota, quota')
    BY <1>3, OtherTerms DEF RecoveryInv
  <2>2. FollowUps' /\ \A p \in Captures : Unanswered(p)' <=> Unanswered(p)
    <3>1. CASE \E c \in Captures, exclusive, allowPurchased \in BOOLEAN :
                 BeginSolve(c, exclusive, allowPurchased)
      BY <3>1, BeginSolveFollows
    <3>2. CASE \E c, p, answer \in Captures, op \in {"explain", "recover"} :
                 BeginFollowUp(c, op, p, answer)
      BY <3>2, BeginFollowUpFollows
    <3>3. CASE ReadAccount \/ ClaimFreeTrial \/ ReapSelect \/ Payments \/ Tick \/ UNCHANGED ledgerVars
      <4>1. captures' = captures
        BY <3>3 DEF ReadAccount, ClaimFreeTrial, ReapSelect, Payments, Credit, PayOrder,
          RefreshOrder, PlanChanges, Tick, ledgerVars
      <4>2. QED  BY <4>1 DEF RecoveryInv, FollowUps, FollowUp, Usable, Unanswered
    <3>4. QED  BY <1>3, <3>1, <3>2, <3>3 DEF Next, Requests, Reaper, Ends
  <2>3. Goodwill'
    BY <2>1, <2>2, GoodwillStep DEF RecoveryInv
  <2>4. QED  BY <1>1, <2>2, <2>3 DEF RecoveryInv
<1>4. QED  BY <1>2, <1>3

(* The goodwill questions, the recoveries and the solves they belong to always agree.       *)
THEOREM RecoveryInvariant == Spec => []RecoveryInv
<1>1. Init => FollowUps /\ Goodwill
  <2>1. SUFFICES ASSUME Init PROVE FollowUps /\ Goodwill
    OBVIOUS
  <2>2. \A c \in Captures : captures[c].recovered = None /\ captures[c].op = "solve"
    BY <2>1 DEF Init, NoRequest
  <2>3. \A c \in Captures : RecoveryLot(c) \in Lots \ {InitialLot}
    BY DEF Lots, RecoveryLot, InitialLot
  <2>4. \A c \in Captures : quota.lot[RecoveryLot(c)].granted = 0
    BY <2>1, <2>3 DEF Init, NewLot
  <2>5. QED  BY <2>2, <2>4 DEF FollowUps, FollowUp, Goodwill, Unanswered
<1>2. Init => RecoveryInv
  BY <1>1, TermsInit DEF RecoveryInv
<1>3. QED  BY <1>2, RecoveryStep, PTL DEF Spec

(* CompensatesFailedRecoveries: a goodwill question for exactly the usable solves whose     *)
(* recovery failed, however finishes, retries and reaper visits interleave.                 *)
THEOREM CompensationHolds == Spec => []CompensatesFailedRecoveries
<1>1. RecoveryInv => CompensatesFailedRecoveries
  <2>1. SUFFICES ASSUME RecoveryInv, NEW p \in Captures
                 PROVE  LET r == captures[p].recovered
                        IN  quota.lot[RecoveryLot(p)].granted =
                              IF r # None /\ captures[r].state = "released" /\ ~captures[r].usable
                                 /\ captures[r].parent = p /\ Usable(p)
                              THEN 1 ELSE 0
    BY DEF CompensatesFailedRecoveries
  <2>2. PICK r : r = captures[p].recovered
    OBVIOUS
  <2>3. r # None => captures[r].parent = p /\ Usable(p)
    <3>1. SUFFICES ASSUME r # None PROVE captures[r].parent = p /\ Usable(p)
      OBVIOUS
    <3>2. r \in Captures /\ captures[r].op = "recover" /\ captures[r].parent = p
      BY <2>1, <2>2, <3>1 DEF RecoveryInv, FollowUps, FollowUp
    <3>3. Usable(p)
      BY <2>1, <3>2 DEF RecoveryInv, FollowUps, FollowUp
    <3>4. QED  BY <3>2, <3>3
  <2>4. quota.lot[RecoveryLot(p)].granted = IF Unanswered(p) THEN 1 ELSE 0
    BY <2>1 DEF RecoveryInv, Goodwill
  <2>5. Unanswered(p) <=> r # None /\ captures[r].state = "released" /\ ~captures[r].usable
    BY <2>2 DEF Unanswered
  <2>6. QED  BY <2>2, <2>3, <2>4, <2>5
<1>2. QED  BY <1>1, RecoveryInvariant, PTL

=============================================================================
