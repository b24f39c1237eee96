---------------------------- MODULE DesktopProofs -----------------------------
(***************************************************************************)
(* The two parts of the desktop.                                           *)
(*                                                                         *)
(* The official client: however answers are late or lost and processes     *)
(* end, an installation registers once and once more at most for each      *)
(* process that could not read its stored device, keeps the device in use  *)
(* until a restore or the end of the process, and shows no balance of      *)
(* another device nor an older one of its own.  What makes it work: a      *)
(* request is answered for the token of its owner, and a registration is   *)
(* asked for only without a token, by an attempt that is stored until the  *)
(* token is.                                                               *)
(*                                                                         *)
(* The session: an answer that is stored is that of the question in        *)
(* progress, however many questions were asked and canceled.  And no image *)
(* is asked twice: until it is asked, it is awaited, in the collection, or *)
(* kept to be put back, in one of these places only, and what asks it      *)
(* takes it from there.                                                    *)
(***************************************************************************)
EXTENDS OfficialClient, DesktopSession, FiniteSetTheorems, SequenceTheorems, TLAPS

-----------------------------------------------------------------------------
(* The official client. *)

Tokens == Devices \cup {None}
Balances == [of : Devices, version : Nat]
Request == [pc : {"answer", "register", "refresh", "status"},
            owner : [generation : 0 .. MaxRestores, token : Tokens] \cup {None},
            device : Tokens, answer : Balances \cup {None}]

(* An answer is about the device that was asked for. *)
AboutDevice(t) == t.answer # None => t.answer.of = t.device

(* What was asked for an owner was asked with its token. *)
ForOwner(t) == t.pc \in {"answer", "status"} => t.device \in Devices /\ t.owner.token = t.device /\ AboutDevice(t)

Fits(k, t) ==
  /\ k \in {"trial", "run"} => ForOwner(t)
  /\ k = "restore" => t.device \in Devices /\ AboutDevice(t) /\ t.owner.generation < MaxRestores
  /\ k = "register" => t.owner.token = None
  /\ k = "run" /\ t.pc = "refresh" => token # None

TasksFit ==
  /\ task \in [Tasks -> Request \cup {None}]
  /\ \A k \in Tasks : task[k] # None => Fits(k, task[k])

RefreshesFit ==
  /\ refresh \in [0 .. MaxRestores -> Request \cup {None}]
  /\ \A g \in 0 .. MaxRestores : refresh[g] # None => ForOwner(refresh[g])

IdentityFits ==
  /\ vault \in [device : Tokens, attempt : Nat \cup {None}]
  /\ token \in Tokens
  /\ token # None => vault.device # None
  /\ ownerGeneration \in 0 .. MaxRestores

ShownFits ==
  /\ account \in Balances \cup {None}
  /\ account # None => token # None
  /\ SnapshotsAreOurs

Made == Cardinality(registered)

(* The stored attempt is one that was registered, or the next one; and the next one is made    *)
(* only when every registration so far is that of a process that could not read the stored     *)
(* device.                                                                                     *)
Registration ==
  /\ registered \subseteq [attempt : Nat, device : Devices] /\ IsFiniteSet(registered)
  /\ unread \in Nat /\ Made <= 1 + unread
  /\ \A r \in registered : r.attempt < Made
  /\ vault.attempt # None =>
       (\E r \in registered : r.attempt = vault.attempt) \/ (vault.attempt = Made /\ Made <= unread)
  /\ token = None /\ vault.attempt = None => Made <= unread
  /\ task["register"] # None => vault.attempt # None

BalancesFit == balance \in [Devices -> Nat]

(* Until a run forgets the startup error, none has taken up another device. *)
NoneReplaced == startupError => replaced = None

OfficialInv ==
  TasksFit /\ RefreshesFit /\ IdentityFits /\ ShownFits /\ Registration /\ BalancesFit

-----------------------------------------------------------------------------
(* Requests. *)

LEMMA OwnerType == ASSUME IdentityFits PROVE Owner \in [generation : 0 .. MaxRestores, token : Tokens]
BY DEF IdentityFits, Owner

LEMMA SnapshotType == ASSUME BalancesFit, NEW d \in Devices PROVE Snapshot(d) \in Balances /\ Snapshot(d).of = d
BY DEF BalancesFit, Snapshot, Balances

(* A request that waits for the registration asks nothing yet. *)
LEMMA WaitsFits ==
  ASSUME NEW k \in {"trial", "run"}
  PROVE  LET t == Awaits("register", None, None) IN t \in Request /\ ForOwner(t) /\ Fits(k, t)
BY DEF Awaits, Request, ForOwner, Fits, Tokens

(* A request of the owner of a token. *)
LEMMA AsksFits ==
  ASSUME IdentityFits, token # None, NEW k \in {"trial", "run"}
  PROVE  LET t == Awaits("answer", Owner, token) IN t \in Request /\ ForOwner(t) /\ Fits(k, t)
<1>. DEFINE o == Owner
<1>1. o \in [generation : 0 .. MaxRestores, token : Tokens] /\ o.token = token /\ token \in Devices
  BY OwnerType DEF Owner, IdentityFits, Tokens
<1>. HIDE DEF o
<1>2. LET t == Awaits("answer", o, token) IN t \in Request /\ ForOwner(t) /\ Fits(k, t)
  BY <1>1 DEF Awaits, Request, ForOwner, AboutDevice, Fits, Tokens
<1>. QED  BY <1>2 DEF o

LEMMA AnswerFits ==
  ASSUME NEW t \in Request, NEW s \in Balances
  PROVE  LET u == [t EXCEPT !.answer = s] IN
           u \in Request /\ u.pc = t.pc /\ u.owner = t.owner /\ u.device = t.device /\ u.answer = s
BY DEF Request

(* One task is replaced. *)
LEMMA TaskChanges ==
  ASSUME TasksFit, NEW k \in Tasks, NEW x \in Request \cup {None}, x # None => Fits(k, x),
         task' = [task EXCEPT ![k] = x], token # None => token' # None
  PROVE  TasksFit'
BY DEF TasksFit, Fits, ForOwner, AboutDevice

(* One refresh is replaced. *)
LEMMA RefreshChanges ==
  ASSUME RefreshesFit, NEW g \in 0 .. MaxRestores, NEW x \in Request \cup {None}, x # None => ForOwner(x),
         refresh' = [refresh EXCEPT ![g] = x]
  PROVE  RefreshesFit'
BY DEF RefreshesFit, ForOwner, AboutDevice

LEMMA RefreshingFits == ASSUME OfficialInv, refresh' = Refreshing PROVE RefreshesFit'
<1>1. Awaits("register", None, None) \in Request /\ ForOwner(Awaits("register", None, None))
  BY WaitsFits
<1>2. ownerGeneration \in 0 .. MaxRestores
  BY DEF OfficialInv, IdentityFits
<1>3. CASE refresh' = refresh
  BY <1>3 DEF OfficialInv, RefreshesFit, ForOwner, AboutDevice
<1>4. CASE refresh' = [refresh EXCEPT ![ownerGeneration] = Awaits("register", None, None)]
  BY <1>1, <1>2, <1>4, RefreshChanges DEF OfficialInv
<1>. QED  BY <1>3, <1>4 DEF Refreshing

(* What is shown for the owner of the account is of its device. *)
LEMMA ShowsFits ==
  ASSUME OfficialInv, NEW t \in Request, ForOwner(t), t.pc \in {"answer", "status"}, t.answer # None,
         Shows(t.answer, t.owner), UNCHANGED <<token, plus, replaced>>
  PROVE  ShownFits'
<1>1. t.answer \in Balances /\ t.answer.of = t.owner.token /\ t.owner.token # None
  BY OfficialAssumption DEF ForOwner, AboutDevice, Request, Balances
<1>2. t.owner = Owner => t.owner.token = token
  BY DEF Owner
<1>. QED  BY <1>1, <1>2 DEF OfficialInv, ShownFits, SnapshotsAreOurs, Shows, Accepts

LEMMA RefusedFits ==
  ASSUME ShownFits, account' \in {account, None}, UNCHANGED <<token, plus, replaced>>
  PROVE  ShownFits'
BY DEF ShownFits, SnapshotsAreOurs

(* Nothing of the identity, the answers shown or the server changes. *)
LEMMA Unchanged ==
  ASSUME OfficialInv, TasksFit', RefreshesFit', UNCHANGED <<identity, shown, service, unread, replaced>>,
         task'["register"] # None => task["register"] # None
  PROVE  OfficialInv'
BY DEF OfficialInv, IdentityFits, ShownFits, SnapshotsAreOurs, Registration, Made, BalancesFit, identity, shown, service

LEMMA RefreshesKept == ASSUME OfficialInv, UNCHANGED refresh PROVE RefreshesFit'
BY DEF OfficialInv, RefreshesFit, ForOwner, AboutDevice

LEMMA TasksKept == ASSUME OfficialInv, UNCHANGED task, token # None => token' # None PROVE TasksFit'
BY DEF OfficialInv, TasksFit, Fits, ForOwner, AboutDevice

(* An attempt is only made when nothing is registered that would be forgotten. *)
LEMMA RegisteringKeeps ==
  ASSUME OfficialInv, NEW t \in [Tasks -> Request \cup {None}],
         \A k \in Tasks : t[k] # None => Fits(k, t[k]), t["register"] = task["register"],
         Registering(t), UNCHANGED <<token, ownerGeneration, shown, service, unread, replaced>>, RefreshesFit'
  PROVE  OfficialInv'
<1>1. CASE ~(token = None /\ t["register"] = None)
  <2>1. UNCHANGED vault /\ task' = t
    BY <1>1 DEF Registering
  <2>2. TasksFit'
    BY <2>1 DEF TasksFit, Fits, ForOwner, AboutDevice
  <2>. QED  BY <2>1, <2>2, Unchanged DEF identity
<1>2. CASE token = None /\ t["register"] = None
  <2>. DEFINE a == Awaits("answer", Owner, None)
  <2>1. a \in Request /\ a.owner.token = None
    BY <1>2, OwnerType DEF OfficialInv, Owner, Awaits, Request, Tokens
  <2>2. task' = [t EXCEPT !["register"] = a]
    BY <1>2 DEF Registering
  <2>. HIDE DEF a
  <2>3. TasksFit'
    BY <2>1, <2>2 DEF TasksFit, Fits, ForOwner, AboutDevice, Tasks
  <2>4. CASE vault.attempt # None
    <3>1. UNCHANGED vault
      BY <1>2, <2>4 DEF Registering
    <3>. QED
      BY <3>1, <2>3, <2>4 DEF OfficialInv, IdentityFits, ShownFits, SnapshotsAreOurs, Registration, Made, BalancesFit, shown, service
  <2>5. CASE vault.attempt = None
    <3>. DEFINE n == Made
    <3>1. n \in Nat /\ n # None /\ n <= unread
      BY <1>2, <2>5, FS_CardinalityType, OfficialAssumption DEF OfficialInv, Registration, Made
    <3>2. vault' = [device |-> vault.device, attempt |-> n]
      BY <1>2, <2>5 DEF Registering, OfficialInv, IdentityFits, Made
    <3>. UNCHANGED <<registered, unread>> /\ Made' = n
      BY DEF service, Made
    <3>. HIDE DEF n
    <3>5. IdentityFits' /\ Registration'
      <4>1. IdentityFits'
        BY <3>1, <3>2 DEF OfficialInv, IdentityFits
      <4>2. Registration'
        BY <3>1, <3>2 DEF OfficialInv, Registration, n
      <4>. QED  BY <4>1, <4>2
    <3>. QED
      BY <3>5, <2>3 DEF OfficialInv, ShownFits, SnapshotsAreOurs, BalancesFit, shown, service
  <2>. QED  BY <2>4, <2>5
<1>. QED  BY <1>1, <1>2

-----------------------------------------------------------------------------
(* The steps. *)

LEMMA OfficialInitially == ASSUME OfficialInit PROVE OfficialInv
<1>1. TasksFit /\ RefreshesFit
  BY DEF OfficialInit, TasksFit, RefreshesFit
<1>2. IdentityFits /\ ShownFits /\ Registration /\ BalancesFit
  BY OfficialAssumption, FS_EmptySet
     DEF OfficialInit, IdentityFits, ShownFits, SnapshotsAreOurs, Registration, Made, BalancesFit, Tokens, Tasks
<1>. QED  BY <1>1, <1>2 DEF OfficialInv

(* The server knows the attempt, or nothing is registered yet. *)
LEMMA ServeRegisterKeeps == ASSUME OfficialInv, ServeRegister PROVE OfficialInv'
<1>. DEFINE t == task["register"]
<1>1. PICK d \in Devices :
        /\ task' = [task EXCEPT !["register"] = [t EXCEPT !.answer = Snapshot(d)]]
        /\ \/ registered' = registered \cup {[attempt |-> vault.attempt, device |-> d]}
              /\ \A r \in registered : r.attempt # vault.attempt
           \/ UNCHANGED registered
  BY DEF ServeRegister, OfficialInv, Registration, TasksFit, Tasks, startup
<1>2. t \in Request /\ t # None /\ Fits("register", t)
  BY DEF ServeRegister, Running, OfficialInv, TasksFit, Tasks, startup
<1>3. UNCHANGED <<identity, shown, refresh, balance, unread, replaced>>
  BY DEF ServeRegister, startup
<1>4. Snapshot(d) \in Balances
  BY SnapshotType DEF OfficialInv
<1>. DEFINE u == [t EXCEPT !.answer = Snapshot(d)]
<1>5. u \in Request /\ u.owner = t.owner
  BY <1>2, <1>4, AnswerFits
<1>6. task' = [task EXCEPT !["register"] = u] /\ "register" \in Tasks
  BY <1>1 DEF Tasks
<1>. HIDE DEF u, t
<1>7. Fits("register", u)
  BY <1>2, <1>5 DEF Fits
<1>8. TasksFit'
  BY <1>3, <1>5, <1>6, <1>7, TaskChanges DEF OfficialInv, identity
<1>9. vault.attempt # None /\ vault.attempt \in Nat
  BY <1>2 DEF OfficialInv, Registration, IdentityFits, t
<1>10. CASE UNCHANGED registered
  BY <1>3, <1>8, <1>9, <1>10, RefreshesKept
     DEF OfficialInv, IdentityFits, ShownFits, SnapshotsAreOurs, Registration, Made, BalancesFit, identity, shown
<1>11. CASE /\ registered' = registered \cup {[attempt |-> vault.attempt, device |-> d]}
            /\ \A r \in registered : r.attempt # vault.attempt
  <2>. DEFINE r0 == [attempt |-> vault.attempt, device |-> d]
  <2>1. vault.attempt = Made /\ Made <= unread /\ r0 \notin registered
    BY <1>9, <1>11 DEF OfficialInv, Registration
  <2>2. IsFiniteSet(registered') /\ Made' = Made + 1 /\ Made \in Nat
    BY <1>11, <2>1, FS_AddElement, FS_CardinalityType DEF OfficialInv, Registration, Made
  <2>3. vault' = vault /\ token' = token /\ unread' = unread
    BY <1>3 DEF identity
  <2>4. r0 \in [attempt : Nat, device : Devices] /\ r0.attempt = vault.attempt /\ registered' = registered \cup {r0}
    BY <1>9, <1>11
  <2>. HIDE DEF r0
  <2>. DEFINE n == Made
  <2>5. Made' = n + 1 /\ n \in Nat /\ vault.attempt = n /\ n <= unread
    BY <2>1, <2>2
  <2>6. unread \in Nat /\ \A r \in registered : r.attempt \in Nat /\ r.attempt < n
    BY DEF OfficialInv, Registration
  <2>. HIDE DEF n
  <2>7. \A r \in registered' : r.attempt < Made'
    BY <2>4, <2>5, <2>6
  <2>8. Made' <= 1 + unread'
    BY <2>3, <2>5, <2>6
  <2>9. Registration'
    BY <1>9, <2>2, <2>3, <2>4, <2>6, <2>7, <2>8 DEF OfficialInv, Registration
  <2>. QED
    BY <1>3, <1>8, <2>9, RefreshesKept DEF OfficialInv, IdentityFits, ShownFits, SnapshotsAreOurs, BalancesFit, identity, shown
<1>. QED  BY <1>1, <1>10, <1>11

(* A registration is taken by the owner that asked for it, who has no token. *)
LEMMA HandleRegisterKeeps == ASSUME OfficialInv, HandleRegister PROVE OfficialInv'
<1>. DEFINE t == task["register"]
<1>1. t \in Request /\ t # None /\ t.owner.token = None /\ t.answer \in Balances
  BY DEF HandleRegister, Running, OfficialInv, TasksFit, Tasks, Fits, Request, startup
<1>2. task' = [task EXCEPT !["register"] = None] /\ UNCHANGED <<ownerGeneration, plus, refresh, service, unread, replaced>>
  BY DEF HandleRegister, Ends, startup
<1>3. RefreshesFit' /\ BalancesFit'
  BY <1>2, RefreshesKept DEF OfficialInv, BalancesFit, service
<1>4. CASE UNCHANGED <<vault, token, account>>
  <2>1. TasksFit'
    BY <1>2, <1>4, TaskChanges DEF OfficialInv, Tasks
  <2>. QED
    BY <1>2, <1>3, <1>4, <2>1, Unchanged DEF identity, shown, OfficialInv, TasksFit, Tasks
<1>5. CASE /\ UNCHANGED <<token, account>>
           /\ vault' = vault \/ vault' = [vault EXCEPT !.device = t.answer.of]
  <2>1. TasksFit' /\ task'["register"] = None
    BY <1>2, <1>5, TaskChanges DEF OfficialInv, TasksFit, Tasks
  <2>2. t.answer.of \in Devices /\ t.answer.of # None
    BY <1>1, OfficialAssumption DEF Balances
  <2>3. IdentityFits' /\ vault'.attempt = vault.attempt
    BY <1>2, <1>5, <2>2 DEF OfficialInv, IdentityFits, Tokens
  <2>4. Registration' /\ ShownFits'
    BY <1>2, <1>5, <2>1, <2>3 DEF OfficialInv, Registration, Made, ShownFits, SnapshotsAreOurs, service
  <2>. QED  BY <1>3, <2>1, <2>3, <2>4 DEF OfficialInv
<1>6. CASE TakesRegistration(t) /\ token' = t.answer.of /\ account' = t.answer
             /\ vault' \in {[device |-> t.answer.of, attempt |-> None], [vault EXCEPT !.device = t.answer.of]}
  <2>1. token = None
    BY <1>1, <1>6 DEF TakesRegistration, Owner
  <2>2. token' \in Devices /\ token' # None
    BY <1>1, <1>6, OfficialAssumption DEF Balances
  <2>3. TasksFit'
    BY <1>2, <2>2, TaskChanges DEF OfficialInv, Tasks
  <2>4. IdentityFits'
    BY <1>2, <1>6, <2>2 DEF OfficialInv, IdentityFits, Tokens
  <2>5. ShownFits'
    BY <1>1, <1>2, <1>6, <2>1, <2>2 DEF OfficialInv, ShownFits, SnapshotsAreOurs
  <2>6. vault'.device # None /\ (vault'.attempt = None \/ vault'.attempt = vault.attempt)
    BY <1>6, <2>2 DEF OfficialInv, IdentityFits
  <2>7. task'["register"] = None
    BY <1>2 DEF OfficialInv, TasksFit, Tasks
  <2>8. Registration'
    BY <1>2, <2>2, <2>6, <2>7 DEF OfficialInv, Registration, Made, service
  <2>. QED  BY <1>3, <2>3, <2>4, <2>5, <2>8 DEF OfficialInv
<1>. QED  BY <1>4, <1>5, <1>6 DEF HandleRegister, Unstored, startup

LEMMA LoseRegisterKeeps == ASSUME OfficialInv, LoseRegister PROVE OfficialInv'
<1>1. TasksFit'
  BY TaskChanges DEF LoseRegister, Ends, OfficialInv, Tasks, identity, startup
<1>2. task'["register"] = None
  BY DEF LoseRegister, Ends, OfficialInv, TasksFit, Tasks, startup
<1>. QED  BY <1>1, <1>2, Unchanged, RefreshesKept DEF LoseRegister, startup

LEMMA StartRefreshKeeps == ASSUME OfficialInv, StartRefresh PROVE OfficialInv'
<1>1. RefreshesFit'
  BY RefreshingFits DEF StartRefresh, startup
<1>. QED  BY <1>1, RegisteringKeeps DEF StartRefresh, OfficialInv, TasksFit, startup

LEMMA RefreshRegisteredKeeps ==
  ASSUME OfficialInv, NEW g \in 0 .. MaxRestores, RefreshRegistered(g)
  PROVE  OfficialInv'
<1>1. ASSUME refresh' = [refresh EXCEPT ![g] = None] PROVE RefreshesFit'
  BY <1>1, RefreshChanges DEF OfficialInv
<1>2. ASSUME refresh' = [refresh EXCEPT ![g] = Awaits("answer", Owner, token)], token # None PROVE RefreshesFit'
  <2>1. Awaits("answer", Owner, token) \in Request /\ ForOwner(Awaits("answer", Owner, token))
    BY <1>2, AsksFits DEF OfficialInv
  <2>. QED  BY <1>2, <2>1, RefreshChanges DEF OfficialInv
<1>3. RefreshesFit'
  BY <1>1, <1>2 DEF RefreshRegistered, startup
<1>. QED  BY <1>3, Unchanged, TasksKept DEF RefreshRegistered, identity, startup

LEMMA ServeRefreshKeeps ==
  ASSUME OfficialInv, NEW g \in 0 .. MaxRestores, ServeRefresh(g)
  PROVE  OfficialInv'
<1>. DEFINE t == refresh[g]
<1>1. t \in Request /\ t # None /\ ForOwner(t) /\ t.pc = "answer"
  BY DEF ServeRefresh, Running, OfficialInv, RefreshesFit, startup
<1>2. t.device \in Devices
  BY <1>1 DEF ForOwner
<1>. DEFINE s == Snapshot(t.device)
            u == [t EXCEPT !.answer = s]
<1>3. s \in Balances /\ s.of = t.device
  BY <1>2, SnapshotType DEF OfficialInv
<1>4. refresh' = [refresh EXCEPT ![g] = u]
  BY DEF ServeRefresh, startup
<1>. HIDE DEF s, t
<1>5. u \in Request /\ u.pc = t.pc /\ u.owner = t.owner /\ u.device = t.device /\ u.answer = s
  BY <1>1, <1>3, AnswerFits
<1>. HIDE DEF u
<1>6. ForOwner(u)
  BY <1>1, <1>3, <1>5 DEF ForOwner, AboutDevice
<1>7. RefreshesFit'
  BY <1>4, <1>5, <1>6, RefreshChanges DEF OfficialInv
<1>. QED  BY <1>7, Unchanged, TasksKept DEF ServeRefresh, identity, startup

LEMMA HandleRefreshKeeps ==
  ASSUME OfficialInv, NEW g \in 0 .. MaxRestores, HandleRefresh(g)
  PROVE  OfficialInv'
<1>. DEFINE t == refresh[g]
<1>1. t \in Request /\ t # None /\ ForOwner(t) /\ t.pc = "answer" /\ t.answer # None
  BY DEF HandleRefresh, Running, OfficialInv, RefreshesFit, startup
<1>2. RefreshesFit'
  BY RefreshChanges DEF HandleRefresh, OfficialInv, startup
<1>3. t.answer \in Balances /\ t.answer.of = t.device /\ t.owner.token = t.device /\ t.device # None
  BY <1>1, OfficialAssumption DEF ForOwner, AboutDevice, Request, Balances
<1>4. t.owner = Owner => t.owner.token = token
  BY DEF Owner
<1>5. ShownFits'
  BY <1>3, <1>4 DEF HandleRefresh, Shows, Accepts, OfficialInv, ShownFits, SnapshotsAreOurs, identity, startup
<1>. QED
  BY <1>2, <1>5, TasksKept DEF HandleRefresh, OfficialInv, IdentityFits, Registration, Made, BalancesFit, identity, service, startup

LEMMA LoseRefreshKeeps ==
  ASSUME OfficialInv, NEW g \in 0 .. MaxRestores, LoseRefresh(g)
  PROVE  OfficialInv'
<1>1. RefreshesFit'
  BY RefreshChanges DEF LoseRefresh, OfficialInv, startup
<1>2. ShownFits'
  BY RefusedFits DEF LoseRefresh, Refused, OfficialInv, identity, startup
<1>. QED
  BY <1>1, <1>2, TasksKept DEF LoseRefresh, OfficialInv, IdentityFits, Registration, Made, BalancesFit, identity, service, startup

(* A task that waits for the registration. *)
LEMMA StartKeeps ==
  ASSUME OfficialInv, NEW k \in {"trial", "run"},
         Registering([task EXCEPT ![k] = Awaits("register", None, None)]),
         UNCHANGED <<token, ownerGeneration, shown, refresh, service, unread, replaced>>
  PROVE  OfficialInv'
<1>. DEFINE a == Awaits("register", None, None)
            t == [task EXCEPT ![k] = a]
<1>1. a \in Request /\ Fits(k, a)
  BY WaitsFits
<1>. HIDE DEF a
<1>2. /\ t \in [Tasks -> Request \cup {None}] /\ t["register"] = task["register"]
      /\ \A i \in Tasks : t[i] # None => Fits(i, t[i])
  BY <1>1 DEF OfficialInv, TasksFit, Tasks
<1>3. Registering(t)
  BY DEF a
<1>. HIDE DEF t
<1>. QED  BY <1>2, <1>3, RegisteringKeeps, RefreshesKept

(* After a startup error a run takes up the stored device, which leaves nothing to register. *)
LEMMA StartRunKeeps == ASSUME OfficialInv, NoneReplaced, StartRun PROVE OfficialInv'
<1>. DEFINE a == Awaits("register", None, None)
<1>1. CASE ~(startupError /\ vault.device # None)
  BY <1>1, StartKeeps DEF StartRun
<1>2. CASE startupError /\ vault.device # None
  <2>1. a \in Request /\ Fits("run", a)
    BY WaitsFits
  <2>2. task' = [task EXCEPT !["run"] = a] /\ token' = vault.device /\ UNCHANGED vault
    BY <1>2 DEF StartRun
  <2>3. replaced' = IF token \in {None, vault.device} THEN replaced ELSE token
    BY <1>2 DEF StartRun
  <2>4. UNCHANGED <<ownerGeneration, shown, refresh, service, unread>>
    BY DEF StartRun
  <2>. HIDE DEF a
  <2>5. TasksFit' /\ task'["register"] = task["register"]
    BY <1>2, <2>1, <2>2, TaskChanges DEF OfficialInv, TasksFit, Tasks
  <2>6. IdentityFits'
    BY <1>2, <2>2, <2>4 DEF OfficialInv, IdentityFits
  <2>7. ShownFits'
    <3>1. CASE token \in {None, vault.device}
      BY <1>2, <2>2, <2>3, <2>4, <3>1 DEF OfficialInv, ShownFits, SnapshotsAreOurs, shown
    <3>2. CASE token \notin {None, vault.device}
      BY <1>2, <2>2, <2>3, <2>4, <3>2, OfficialAssumption DEF NoneReplaced, OfficialInv, ShownFits, SnapshotsAreOurs, Balances, shown
    <3>. QED  BY <3>1, <3>2
  <2>8. Registration' /\ BalancesFit'
    BY <1>2, <2>2, <2>4, <2>5 DEF OfficialInv, Registration, Made, BalancesFit, service
  <2>. QED  BY <2>4, <2>5, <2>6, <2>7, <2>8, RefreshesKept DEF OfficialInv
<1>. QED  BY <1>1, <1>2

(* A request of the owner, or none. *)
LEMMA TrialRegisteredKeeps == ASSUME OfficialInv, TrialRegistered PROVE OfficialInv'
<1>1. ASSUME task' = [task EXCEPT !["trial"] = None] PROVE TasksFit'
  BY <1>1, TaskChanges DEF OfficialInv, Tasks, TrialRegistered, identity, startup
<1>2. ASSUME task' = [task EXCEPT !["trial"] = Awaits("answer", Owner, token)], token # None PROVE TasksFit'
  <2>1. Awaits("answer", Owner, token) \in Request /\ Fits("trial", Awaits("answer", Owner, token))
    BY <1>2, AsksFits DEF OfficialInv
  <2>. QED  BY <1>2, <2>1, TaskChanges DEF OfficialInv, Tasks, TrialRegistered, identity, startup
<1>3. TasksFit' /\ (task'["register"] # None => task["register"] # None)
  BY <1>1, <1>2 DEF TrialRegistered, OfficialInv, TasksFit, Tasks, startup
<1>. QED  BY <1>3, Unchanged, RefreshesKept DEF TrialRegistered, startup

(* The answer to a task, about the device it asked for. *)
LEMMA AnswerKeeps ==
  ASSUME OfficialInv, NEW k \in {"trial", "run", "restore"}, task[k] # None,
         NEW s \in Balances, s.of = task[k].device,
         task' = [task EXCEPT ![k].answer = s], UNCHANGED token
  PROVE  TasksFit' /\ task'["register"] = task["register"]
<1>. DEFINE t == task[k]
            u == [t EXCEPT !.answer = s]
<1>1. t \in Request /\ Fits(k, t) /\ k \in Tasks
  BY DEF OfficialInv, TasksFit, Tasks
<1>2. task' = [task EXCEPT ![k] = u]
  OBVIOUS
<1>. HIDE DEF t
<1>3. u \in Request /\ u.pc = t.pc /\ u.owner = t.owner /\ u.device = t.device /\ u.answer = s
  BY <1>1, AnswerFits
<1>. HIDE DEF u
<1>4. Fits(k, u)
  BY <1>1, <1>3 DEF Fits, ForOwner, AboutDevice, t
<1>5. TasksFit'
  BY <1>1, <1>2, <1>3, <1>4, TaskChanges DEF OfficialInv
<1>6. task'["register"] = task["register"]
  BY <1>2 DEF OfficialInv, TasksFit, Tasks
<1>. QED  BY <1>5, <1>6

LEMMA ServeChangeKeeps ==
  ASSUME OfficialInv, NEW k \in Tasks, ServeChange(k)
  PROVE  OfficialInv'
<1>. DEFINE d == task[k].device
            s == [of |-> d, version |-> balance[d] + 1]
<1>1. k \in {"trial", "run"} /\ task[k] # None /\ d \in Devices
  BY DEF ServeChange, Running, OfficialInv, TasksFit, Fits, ForOwner, startup
<1>2. s \in Balances /\ s.of = d
  BY <1>1 DEF OfficialInv, BalancesFit, Balances
<1>3. BalancesFit'
  BY <1>1 DEF ServeChange, OfficialInv, BalancesFit, startup
<1>4. TasksFit' /\ task'["register"] = task["register"]
  BY <1>1, <1>2, AnswerKeeps DEF ServeChange, identity, startup
<1>. QED
  BY <1>3, <1>4, RefreshesKept
     DEF ServeChange, OfficialInv, IdentityFits, ShownFits, SnapshotsAreOurs, Registration, Made, identity, shown, startup

LEMMA ServeAgainKeeps == ASSUME OfficialInv, ServeRestore \/ ServeStatus PROVE OfficialInv'
<1>1. PICK k \in {"restore", "run"} :
        /\ task[k] # None /\ task[k].device \in Devices
        /\ task' = [task EXCEPT ![k].answer = Snapshot(task[k].device)]
        /\ UNCHANGED <<identity, shown, refresh, service, unread, replaced>>
  BY DEF ServeRestore, ServeStatus, Running, OfficialInv, TasksFit, Tasks, Fits, ForOwner, startup
<1>2. Snapshot(task[k].device) \in Balances /\ Snapshot(task[k].device).of = task[k].device
  BY <1>1, SnapshotType DEF OfficialInv
<1>3. TasksFit' /\ task'["register"] = task["register"]
  BY <1>1, <1>2, AnswerKeeps DEF identity
<1>. QED  BY <1>1, <1>3, Unchanged, RefreshesKept

(* A task ends; what it showed fits. *)
LEMMA EndsKeeps ==
  ASSUME OfficialInv, NEW k \in Tasks \ {"register"}, Ends(k), ShownFits', RefreshesFit',
         UNCHANGED <<identity, service, unread, replaced>>
  PROVE  OfficialInv'
<1>1. TasksFit' /\ task'["register"] = task["register"]
  BY TaskChanges DEF Ends, OfficialInv, TasksFit, Tasks, identity
<1>. QED  BY <1>1 DEF OfficialInv, IdentityFits, Registration, Made, BalancesFit, identity, service

LEMMA HandleTrialKeeps == ASSUME OfficialInv, HandleTrial PROVE OfficialInv'
<1>1. /\ task["trial"] \in Request /\ ForOwner(task["trial"]) /\ task["trial"].pc = "answer"
      /\ task["trial"].answer # None
  BY DEF HandleTrial, Running, OfficialInv, TasksFit, Tasks, Fits, startup
<1>2. ShownFits'
  BY <1>1, ShowsFits DEF HandleTrial, identity, startup
<1>. QED  BY <1>2, EndsKeeps, RefreshingFits DEF HandleTrial, Tasks, startup

LEMMA HandleRunKeeps == ASSUME OfficialInv, HandleRun PROVE OfficialInv'
<1>1. /\ task["run"] \in Request /\ ForOwner(task["run"]) /\ task["run"].pc \in {"answer", "status"}
      /\ task["run"].answer # None
  BY DEF HandleRun, OfficialInv, TasksFit, Tasks, Fits, startup
<1>2. ShownFits'
  <2>1. CASE task["run"].owner = Owner
    BY <1>1, <2>1, ShowsFits DEF HandleRun, identity, startup
  <2>2. CASE task["run"].owner # Owner
    BY <2>2, RefusedFits DEF HandleRun, OfficialInv, identity, startup
  <2>. QED  BY <2>1, <2>2
<1>. QED  BY <1>2, EndsKeeps, RefreshesKept DEF HandleRun, Tasks, startup

LEMMA LoseActionKeeps == ASSUME OfficialInv, NEW k \in Tasks, LoseAction(k) PROVE OfficialInv'
<1>1. ShownFits'
  BY RefusedFits DEF LoseAction, Refused, OfficialInv, identity, startup
<1>. QED  BY <1>1, EndsKeeps, RefreshesKept DEF LoseAction, Tasks, startup

LEMMA RestoreKeeps == ASSUME OfficialInv, NEW d \in Devices, Restore(d) PROVE OfficialInv'
<1>. DEFINE a == Awaits("answer", Owner, d)
<1>1. a \in Request /\ Fits("restore", a)
  BY OwnerType DEF Restore, OfficialInv, Owner, Awaits, Request, Fits, AboutDevice, Tokens, startup
<1>2. task' = [task EXCEPT !["restore"] = a]
  BY DEF Restore, startup
<1>. HIDE DEF a
<1>3. TasksFit' /\ task'["register"] = task["register"]
  BY <1>1, <1>2, TaskChanges DEF Restore, OfficialInv, TasksFit, Tasks, identity, startup
<1>. QED  BY <1>3, Unchanged, RefreshesKept DEF Restore, startup

(* A restore replaces the token, in the vault and in use, and everything shown. *)
LEMMA HandleRestoreKeeps == ASSUME OfficialInv, HandleRestore PROVE OfficialInv'
<1>. DEFINE t == task["restore"]
<1>1. t \in Request /\ t # None /\ t.device \in Devices /\ t.answer \in Balances /\ t.answer.of = t.device
  BY DEF HandleRestore, Running, OfficialInv, TasksFit, Tasks, Fits, AboutDevice, Request, startup
<1>2. t.device # None
  BY <1>1, OfficialAssumption
<1>3. CASE t.owner # Owner
  BY <1>3, EndsKeeps, RefreshesKept DEF HandleRestore, Tasks, OfficialInv, ShownFits, SnapshotsAreOurs, identity, shown, startup
<1>4. CASE /\ UNCHANGED <<token, ownerGeneration, shown, refresh, service, unread, replaced>>
           /\ vault' = [vault EXCEPT !.device = t.device]
           /\ task' = [task EXCEPT !["restore"] = None]
  <2>1. TasksFit' /\ task'["register"] = task["register"]
    BY <1>4, TaskChanges DEF OfficialInv, TasksFit, Tasks
  <2>2. IdentityFits' /\ vault'.attempt = vault.attempt
    BY <1>1, <1>2, <1>4 DEF OfficialInv, IdentityFits, Tokens
  <2>3. Registration' /\ ShownFits' /\ BalancesFit'
    BY <1>4, <2>1, <2>2 DEF OfficialInv, Registration, Made, ShownFits, SnapshotsAreOurs, BalancesFit, shown, service
  <2>. QED  BY <1>4, <2>1, <2>2, <2>3, RefreshesKept DEF OfficialInv
<1>5. CASE /\ t.owner = Owner
           /\ vault' = [vault EXCEPT !.device = t.device] /\ token' = t.device
           /\ ownerGeneration' = ownerGeneration + 1
           /\ account' = t.answer /\ plus' = None
           /\ refresh' = [refresh EXCEPT ![ownerGeneration + 1] = Awaits("register", None, None)]
           /\ task' = [task EXCEPT !["restore"] = None]
           /\ replaced' = None /\ UNCHANGED <<service, unread>>
  <2>1. ownerGeneration + 1 \in 0 .. MaxRestores
    BY <1>1, <1>5, OfficialAssumption DEF OfficialInv, TasksFit, Tasks, IdentityFits, Fits, Owner
  <2>2. Awaits("register", None, None) \in Request /\ ForOwner(Awaits("register", None, None))
    BY WaitsFits
  <2>3. RefreshesFit'
    BY <1>5, <2>1, <2>2, RefreshChanges DEF OfficialInv
  <2>4. TasksFit' /\ task'["register"] = task["register"]
    BY <1>2, <1>5, TaskChanges DEF OfficialInv, TasksFit, Tasks
  <2>5. IdentityFits' /\ vault'.attempt = vault.attempt
    BY <1>1, <1>2, <1>5, <2>1 DEF OfficialInv, IdentityFits, Tokens
  <2>6. ShownFits'
    BY <1>1, <1>2, <1>5 DEF ShownFits, SnapshotsAreOurs
  <2>7. Registration' /\ BalancesFit'
    BY <1>2, <1>5, <2>4, <2>5 DEF OfficialInv, Registration, Made, BalancesFit, service
  <2>. QED  BY <2>3, <2>4, <2>5, <2>6, <2>7 DEF OfficialInv
<1>. QED  BY <1>3, <1>4, <1>5 DEF HandleRestore, Ends, startup

(* A run ends, waits for a refresh, or asks. *)
LEMMA RunRegisteredKeeps == ASSUME OfficialInv, RunRegistered PROVE OfficialInv'
<1>1. CASE token = None
  BY <1>1, EndsKeeps, RefreshesKept DEF RunRegistered, Tasks, OfficialInv, ShownFits, SnapshotsAreOurs, identity, shown, startup
<1>2. CASE token # None /\ account = None
  <2>. DEFINE a == Awaits("refresh", Owner, None)
  <2>1. a \in Request /\ Fits("run", a)
    BY <1>2, OwnerType DEF OfficialInv, Awaits, Request, Fits, ForOwner, Tokens
  <2>2. task' = [task EXCEPT !["run"] = a]
    BY <1>2 DEF RunRegistered, startup
  <2>. HIDE DEF a
  <2>3. TasksFit' /\ task'["register"] = task["register"]
    BY <2>1, <2>2, TaskChanges DEF RunRegistered, OfficialInv, TasksFit, Tasks, identity, startup
  <2>. QED  BY <1>2, <2>3, Unchanged, RefreshingFits DEF RunRegistered, startup
<1>3. CASE token # None /\ account # None
  <2>. DEFINE a == Awaits("answer", Owner, token)
  <2>1. a \in Request /\ Fits("run", a)
    BY <1>3, AsksFits DEF OfficialInv
  <2>2. task' = [task EXCEPT !["run"] = a]
    BY <1>3 DEF RunRegistered, startup
  <2>. HIDE DEF a
  <2>3. TasksFit' /\ task'["register"] = task["register"]
    BY <2>1, <2>2, TaskChanges DEF RunRegistered, OfficialInv, TasksFit, Tasks, identity, startup
  <2>. QED  BY <1>3, <2>3, Unchanged, RefreshesKept DEF RunRegistered, startup
<1>. QED  BY <1>1, <1>2, <1>3

LEMMA RunRefreshedKeeps == ASSUME OfficialInv, RunRefreshed PROVE OfficialInv'
<1>1. CASE Ends("run")
  BY <1>1, EndsKeeps, RefreshesKept DEF RunRefreshed, Tasks, OfficialInv, ShownFits, SnapshotsAreOurs, identity, shown, startup
<1>2. CASE task' = [task EXCEPT !["run"] = Awaits("answer", Owner, token)]
  <2>. DEFINE a == Awaits("answer", Owner, token)
  <2>1. token # None
    BY DEF RunRefreshed, Running, OfficialInv, TasksFit, Tasks, Fits, startup
  <2>2. a \in Request /\ Fits("run", a)
    BY <2>1, AsksFits DEF OfficialInv
  <2>3. task' = [task EXCEPT !["run"] = a]
    BY <1>2
  <2>. HIDE DEF a
  <2>4. TasksFit' /\ task'["register"] = task["register"]
    BY <2>2, <2>3, TaskChanges DEF RunRefreshed, OfficialInv, TasksFit, Tasks, identity, startup
  <2>. QED  BY <2>4, Unchanged, RefreshesKept DEF RunRefreshed, startup
<1>. QED  BY <1>1, <1>2 DEF RunRefreshed, startup

(* The settlement is asked for by the same owner about the same device. *)
LEMMA LoseRunKeeps == ASSUME OfficialInv, LoseRun PROVE OfficialInv'
<1>. DEFINE t == task["run"]
<1>1. ShownFits' /\ RefreshesFit' /\ UNCHANGED <<identity, service, unread, replaced>>
  BY RefusedFits, RefreshesKept DEF LoseRun, Refused, OfficialInv, identity, startup
<1>2. CASE Ends("run")
  BY <1>1, <1>2, EndsKeeps DEF Tasks
<1>3. CASE t.pc = "answer" /\ task' = [task EXCEPT !["run"] = Awaits("status", t.owner, t.device)]
  <2>. DEFINE a == Awaits("status", t.owner, t.device)
  <2>1. t \in Request /\ t # None /\ ForOwner(t)
    BY DEF LoseRun, OfficialInv, TasksFit, Tasks, Fits, startup
  <2>2. a \in Request /\ Fits("run", a)
    BY <1>3, <2>1 DEF Awaits, Request, Fits, ForOwner, AboutDevice
  <2>3. task' = [task EXCEPT !["run"] = a]
    BY <1>3
  <2>. HIDE DEF a, t
  <2>4. TasksFit' /\ task'["register"] = task["register"]
    BY <1>1, <2>2, <2>3, TaskChanges DEF OfficialInv, TasksFit, Tasks, identity
  <2>. QED  BY <1>1, <2>4 DEF OfficialInv, IdentityFits, Registration, Made, BalancesFit, identity, service
<1>. QED  BY <1>2, <1>3 DEF LoseRun, startup

(* The next process begins with the token of the vault, or without one: then it may register again. *)
LEMMA RelaunchKeeps == ASSUME OfficialInv, Relaunch PROVE OfficialInv'
<1>1. TasksFit' /\ RefreshesFit' /\ task'["register"] = None
  BY DEF Relaunch, TasksFit, RefreshesFit, Tasks
<1>2. UNCHANGED <<vault, registered, balance>> /\ ownerGeneration' = 0 /\ account' = None /\ plus' = None /\ Made' = Made
  BY DEF Relaunch, Made
<1>3. ShownFits' /\ BalancesFit'
  BY <1>2 DEF OfficialInv, ShownFits, SnapshotsAreOurs, BalancesFit
<1>4. Made \in Nat /\ unread \in Nat
  BY FS_CardinalityType DEF OfficialInv, Registration, Made
<1>5. CASE token' = vault.device /\ UNCHANGED unread
  <2>1. IdentityFits'
    BY <1>2, <1>5, OfficialAssumption DEF OfficialInv, IdentityFits
  <2>2. token' = None => token = None
    BY <1>5 DEF OfficialInv, IdentityFits
  <2>3. Registration'
    BY <1>1, <1>2, <1>5, <2>2 DEF OfficialInv, Registration
  <2>. QED  BY <1>1, <1>3, <2>1, <2>3 DEF OfficialInv
<1>6. CASE token' = None /\ unread' = unread + 1
  <2>1. IdentityFits'
    BY <1>2, <1>6, OfficialAssumption DEF OfficialInv, IdentityFits, Tokens
  <2>. DEFINE n == Made
              m == unread
  <2>2. n <= 1 + m /\ n \in Nat /\ m \in Nat
    BY <1>4 DEF OfficialInv, Registration
  <2>. HIDE DEF n, m
  <2>3. m + 1 \in Nat /\ n <= m + 1 /\ n <= 1 + (m + 1)
    BY <2>2
  <2>4. unread' \in Nat /\ Made' <= unread' /\ Made' <= 1 + unread'
    BY <1>2, <1>6, <2>3 DEF n, m
  <2>5. Registration'
    BY <1>1, <1>2, <2>4 DEF OfficialInv, Registration
  <2>. QED  BY <1>1, <1>3, <2>1, <2>5 DEF OfficialInv
<1>. QED  BY <1>5, <1>6 DEF Relaunch

(* Only the run that forgets a startup error takes up another device. *)
LEMMA NoneReplacedStep == ASSUME NoneReplaced, [OfficialNext]_officialVars PROVE NoneReplaced'
<1>1. CASE ServeRegister \/ HandleRegister \/ LoseRegister \/ StartRefresh \/ ClaimTrial \/ TrialRegistered \/ HandleTrial
  BY <1>1 DEF ServeRegister, HandleRegister, LoseRegister, StartRefresh, ClaimTrial, TrialRegistered, HandleTrial, NoneReplaced, startup
<1>2. CASE ServeRestore \/ HandleRestore \/ StartRun \/ RunRegistered \/ RunRefreshed
  BY <1>2 DEF ServeRestore, HandleRestore, StartRun, RunRegistered, RunRefreshed, NoneReplaced, startup
<1>3. CASE ServeStatus \/ HandleRun \/ LoseRun \/ Relaunch \/ UNCHANGED officialVars
  BY <1>3 DEF ServeStatus, HandleRun, LoseRun, Relaunch, NoneReplaced, startup, officialVars
<1>4. ASSUME NEW g \in 0 .. MaxRestores,
             RefreshRegistered(g) \/ ServeRefresh(g) \/ HandleRefresh(g) \/ LoseRefresh(g)
      PROVE  NoneReplaced'
  BY <1>4 DEF RefreshRegistered, ServeRefresh, HandleRefresh, LoseRefresh, Recovers, NoneReplaced, startup
<1>5. ASSUME NEW k \in Tasks, ServeChange(k) \/ LoseAction(k) PROVE NoneReplaced'
  BY <1>5 DEF ServeChange, LoseAction, NoneReplaced, startup
<1>6. ASSUME NEW d, Restore(d) PROVE NoneReplaced'
  BY <1>6 DEF Restore, NoneReplaced, startup
<1>. QED  BY <1>1, <1>2, <1>3, <1>4, <1>5, <1>6 DEF OfficialNext

LEMMA OfficialStep == ASSUME OfficialInv, NoneReplaced, [OfficialNext]_officialVars PROVE OfficialInv'
<1>1. CASE ServeRegister \/ HandleRegister \/ LoseRegister
  BY <1>1, ServeRegisterKeeps, HandleRegisterKeeps, LoseRegisterKeeps
<1>2. CASE StartRefresh  BY <1>2, StartRefreshKeeps
<1>3. CASE ClaimTrial \/ StartRun
  BY <1>3, StartKeeps, StartRunKeeps DEF ClaimTrial, startup
<1>4. CASE TrialRegistered \/ HandleTrial  BY <1>4, TrialRegisteredKeeps, HandleTrialKeeps
<1>5. CASE ServeRestore \/ ServeStatus  BY <1>5, ServeAgainKeeps
<1>6. CASE HandleRestore  BY <1>6, HandleRestoreKeeps
<1>7. CASE RunRegistered \/ RunRefreshed \/ HandleRun \/ LoseRun
  BY <1>7, RunRegisteredKeeps, RunRefreshedKeeps, HandleRunKeeps, LoseRunKeeps
<1>8. CASE Relaunch  BY <1>8, RelaunchKeeps
<1>9. ASSUME NEW g \in 0 .. MaxRestores,
             RefreshRegistered(g) \/ ServeRefresh(g) \/ HandleRefresh(g) \/ LoseRefresh(g)
      PROVE  OfficialInv'
  BY <1>9, RefreshRegisteredKeeps, ServeRefreshKeeps, HandleRefreshKeeps, LoseRefreshKeeps
<1>10. ASSUME NEW k \in Tasks, ServeChange(k) \/ LoseAction(k) PROVE OfficialInv'
  BY <1>10, ServeChangeKeeps, LoseActionKeeps
<1>11. ASSUME NEW d \in Elsewhere \cup {r.device : r \in registered}, Restore(d) PROVE OfficialInv'
  <2>1. d \in Devices
    BY <1>11, OfficialAssumption DEF OfficialInv, Registration
  <2>. QED  BY <1>11, <2>1, RestoreKeeps
<1>12. CASE UNCHANGED officialVars
  BY <1>12, Unchanged, TasksKept, RefreshesKept DEF officialVars, identity, shown, service, startup
<1>. QED
  BY <1>1, <1>2, <1>3, <1>4, <1>5, <1>6, <1>7, <1>8, <1>9, <1>10, <1>11, <1>12 DEF OfficialNext

(* The inductive invariant of the account. *)
THEOREM OfficialInvariant == OfficialSpec => []OfficialInv
<1>1. OfficialInit => NoneReplaced  BY DEF OfficialInit, NoneReplaced
<1>. QED  BY <1>1, NoneReplacedStep, OfficialInitially, OfficialStep, PTL DEF OfficialSpec

-----------------------------------------------------------------------------
(* Whatever is shown is of the device in use or, after a run took up the device that a restore  *)
(* stored and failed to verify, of the one before, for any number of devices, restores and       *)
(* losses.                                                                                       *)
THEOREM OwnSnapshots == OfficialSpec => []SnapshotsAreOurs
<1>1. OfficialInv => SnapshotsAreOurs  BY DEF OfficialInv, ShownFits
<1>. QED  BY <1>1, OfficialInvariant, PTL

(* An installation registers once, and once more at most for each process that could not read  *)
(* the device it had stored.                                                                   *)
THEOREM RegisteredOnce == OfficialSpec => []OneRegistration
<1>1. OfficialInv => OneRegistration  BY DEF OfficialInv, Registration, Made, OneRegistration
<1>. QED  BY <1>1, OfficialInvariant, PTL

(* What a step may do to the device in use and to the stored one. *)
KeepsToken ==
  token # None =>
    \/ token' = token
    \/ ownerGeneration' = ownerGeneration + 1
    \/ account' = None /\ UNCHANGED vault /\ token' \in {vault.device, None}
    \/ startupError /\ UNCHANGED vault /\ token' = vault.device

KeepsStored ==
  vault.device # None =>
    \/ vault'.device = vault.device
    \/ task["restore"] # None /\ vault'.device = task["restore"].device
    \/ token = None

(* A task that registers leaves the token and the stored device alone. *)
LEMMA RegisteringKeepsDevice ==
  ASSUME OfficialInv, NEW t, Registering(t), UNCHANGED token
  PROVE  KeepsToken /\ KeepsStored
BY DEF Registering, OfficialInv, IdentityFits, KeepsToken, KeepsStored

(* Only a registration, a restore, a relaunch and the first run after a startup error change the *)
(* token, and only the first two store one.                                                      *)
LEMMA DeviceStep ==
  ASSUME OfficialInv, [OfficialNext]_officialVars
  PROVE  KeepsToken /\ KeepsStored
<1>1. CASE HandleRegister
  <2>1. task["register"].owner.token = None
    BY <1>1 DEF HandleRegister, Running, OfficialInv, TasksFit, Tasks, Fits, startup
  <2>2. CASE token # None
    <3>1. ~TakesRegistration(task["register"])
      BY <2>1, <2>2 DEF TakesRegistration, Owner
    <3>. QED  BY <1>1, <3>1 DEF HandleRegister, KeepsToken, KeepsStored, startup
  <2>3. CASE token = None
    BY <2>3 DEF KeepsToken, KeepsStored
  <2>. QED  BY <2>2, <2>3
<1>2. CASE HandleRestore
  BY <1>2 DEF HandleRestore, Running, identity, OfficialInv, IdentityFits, KeepsToken, KeepsStored, startup
<1>3. CASE Relaunch
  BY <1>3 DEF Relaunch, KeepsToken, KeepsStored
<1>4. CASE UNCHANGED <<token, vault>>
  BY <1>4 DEF KeepsToken, KeepsStored
<1>5. CASE StartRefresh \/ ClaimTrial
  BY <1>5, RegisteringKeepsDevice DEF StartRefresh, ClaimTrial
<1>11. CASE StartRun
  BY <1>11, RegisteringKeepsDevice DEF StartRun, KeepsToken, KeepsStored
<1>6. CASE ServeRegister \/ LoseRegister \/ TrialRegistered \/ HandleTrial \/ ServeRestore
  BY <1>4, <1>6 DEF ServeRegister, LoseRegister, TrialRegistered, HandleTrial, ServeRestore, identity, startup
<1>7. CASE RunRegistered \/ RunRefreshed \/ ServeStatus \/ HandleRun \/ LoseRun
  BY <1>4, <1>7 DEF RunRegistered, RunRefreshed, ServeStatus, HandleRun, LoseRun, identity, startup
<1>8. ASSUME NEW g \in 0 .. MaxRestores,
             RefreshRegistered(g) \/ ServeRefresh(g) \/ HandleRefresh(g) \/ LoseRefresh(g)
      PROVE  UNCHANGED <<token, vault>>
  BY <1>8 DEF RefreshRegistered, ServeRefresh, HandleRefresh, LoseRefresh, identity, startup
<1>9. ASSUME NEW k \in Tasks, ServeChange(k) \/ LoseAction(k) PROVE UNCHANGED <<token, vault>>
  BY <1>9 DEF ServeChange, LoseAction, identity, startup
<1>10. ASSUME NEW d, Restore(d) PROVE UNCHANGED <<token, vault>>
  BY <1>10 DEF Restore, identity, startup
<1>. QED
  BY <1>1, <1>2, <1>3, <1>4, <1>5, <1>6, <1>7, <1>8, <1>9, <1>10, <1>11 DEF OfficialNext, officialVars, startup

(* A late registration never replaces the device in use: only a restore, a relaunch and the     *)
(* first run after a startup error do.  And the stored device is replaced only by a restore or   *)
(* by the registration of a process without a token.                                             *)
THEOREM KeepsDevice == OfficialSpec => DeviceIsKept
<1>1. OfficialInv /\ [OfficialNext]_officialVars
        => [/\ token # None =>
                 \/ token' = token
                 \/ ownerGeneration' = ownerGeneration + 1
                 \/ account' = None /\ UNCHANGED vault /\ token' \in {vault.device, None}
                 \/ startupError /\ UNCHANGED vault /\ token' = vault.device
            /\ vault.device # None =>
                 \/ vault'.device = vault.device
                 \/ task["restore"] # None /\ vault'.device = task["restore"].device
                 \/ token = None]_officialVars
  BY DeviceStep DEF KeepsToken, KeepsStored
<1>. QED  BY <1>1, OfficialInvariant, PTL DEF OfficialSpec, DeviceIsKept

(* Only the answer to an owner's request replaces what is shown, and only by a newer version. *)
LEMMA BalanceStep ==
  ASSUME OfficialInv, [OfficialNext]_officialVars, account # None, account' # None,
         ownerGeneration' = ownerGeneration
  PROVE  account'.version >= account.version
<1>1. account \in Balances /\ token # None /\ account.version >= account.version
  BY OfficialAssumption DEF OfficialInv, ShownFits, SnapshotsAreOurs, Balances
<1>2. CASE UNCHANGED account
  BY <1>1, <1>2
<1>3. ASSUME NEW v, NEW o, Shows(v, o) PROVE account'.version >= account.version
  BY <1>1, <1>3 DEF Shows, Accepts
<1>4. CASE HandleRegister
  <2>1. task["register"].owner.token = None
    BY <1>4 DEF HandleRegister, Running, OfficialInv, TasksFit, Tasks, Fits, startup
  <2>2. ~TakesRegistration(task["register"])
    BY <1>1, <2>1 DEF TakesRegistration, Owner
  <2>. QED  BY <1>2, <1>4, <2>2 DEF HandleRegister, startup
<1>5. CASE HandleRestore
  BY <1>2, <1>5 DEF HandleRestore, shown, OfficialInv, IdentityFits, startup
<1>6. CASE Relaunch
  BY <1>6 DEF Relaunch
<1>7. CASE ServeRegister \/ LoseRegister \/ StartRefresh \/ ClaimTrial \/ TrialRegistered \/ HandleTrial
  BY <1>2, <1>3, <1>7 DEF ServeRegister, LoseRegister, StartRefresh, ClaimTrial, TrialRegistered, HandleTrial, shown, startup
<1>8. CASE ServeRestore \/ StartRun \/ RunRegistered \/ RunRefreshed \/ ServeStatus
  BY <1>2, <1>8 DEF ServeRestore, StartRun, RunRegistered, RunRefreshed, ServeStatus, shown, startup
<1>9. CASE HandleRun \/ LoseRun
  BY <1>2, <1>3, <1>9 DEF HandleRun, LoseRun, Refused, startup
<1>10. ASSUME NEW g \in 0 .. MaxRestores,
              RefreshRegistered(g) \/ ServeRefresh(g) \/ HandleRefresh(g) \/ LoseRefresh(g)
       PROVE  account'.version >= account.version
  BY <1>2, <1>3, <1>10 DEF RefreshRegistered, ServeRefresh, HandleRefresh, LoseRefresh, Refused, shown, startup
<1>11. ASSUME NEW k \in Tasks, ServeChange(k) \/ LoseAction(k) PROVE account'.version >= account.version
  BY <1>2, <1>11 DEF ServeChange, LoseAction, Refused, shown, startup
<1>12. ASSUME NEW d, Restore(d) PROVE UNCHANGED account
  BY <1>12 DEF Restore, shown, startup
<1>. QED
  BY <1>2, <1>4, <1>5, <1>6, <1>7, <1>8, <1>9, <1>10, <1>11, <1>12 DEF OfficialNext, officialVars, startup

(* Until something is restored, an older snapshot or receipt never replaces a newer one. *)
THEOREM BalanceOnlyGrows == OfficialSpec => BalanceNeverGoesBack
<1>1. OfficialInv /\ [OfficialNext]_officialVars
        => [account # None /\ account' # None /\ ownerGeneration' = ownerGeneration
              => account'.version >= account.version]_officialVars
  BY BalanceStep
<1>. QED  BY <1>1, OfficialInvariant, PTL DEF OfficialSpec, BalanceNeverGoesBack

-----------------------------------------------------------------------------
(* The session. *)

Question(s) ==
  /\ DOMAIN s = {"gen", "op", "mode", "batch", "pc", "run"}
  /\ s.gen \in Nat /\ s.gen <= generation

(* No two questions in flight are of one generation, and that of the newest generation, if it is *)
(* in flight, is the question in progress.                                                       *)
SessionInv ==
  /\ generation \in Nat
  /\ \A s \in solves : Question(s)
  /\ \A s, t \in solves : s.gen = t.gen => s = t
  /\ \A s \in solves : s.gen = generation => active = generation

(* What a step does to the questions in flight. *)
Rests == UNCHANGED <<generation, active, solves>>
Stops == generation' = generation + 1 /\ UNCHANGED solves
Ending(s) == Finishes(s) /\ UNCHANGED generation
Continues(s, r) == Streams(s, r) /\ UNCHANGED generation

(* A question that is asked is the only one of its generation. *)
LEMMA AskingKeeps ==
  ASSUME SessionInv, NEW batch, NEW op, NEW mode, Asks(batch, op, mode)
  PROVE  SessionInv'
<1>1. PICK g \in Nat : g = generation + 1
  BY DEF SessionInv
<1> DEFINE new == [gen |-> g, op |-> op, mode |-> mode, batch |-> batch, pc |-> "preparing", run |-> None]
<1>2. solves' = solves \cup {new} /\ generation' = g /\ active' = g
  BY <1>1 DEF Asks
<1>3. \A s \in solves : s.gen # g /\ Question(s)'
  BY <1>1, <1>2 DEF SessionInv, Question
<1>4. new.gen = g /\ Question(new)'
  BY <1>1, <1>2 DEF Question
<1> HIDE DEF new
<1>5. QED  BY <1>2, <1>3, <1>4 DEF SessionInv

(* A cancel leaves every question behind. *)
LEMMA StoppingKeeps ==
  ASSUME SessionInv, Stops
  PROVE  SessionInv'
BY DEF SessionInv, Stops, Question

(* A question that ends was the only one of its generation. *)
LEMMA EndingKeeps ==
  ASSUME SessionInv, NEW s \in solves, Ending(s)
  PROVE  SessionInv'
BY DEF SessionInv, Ending, Finishes, Question

(* A question that streams keeps its generation. *)
LEMMA ContinuingKeeps ==
  ASSUME SessionInv, NEW s \in solves, NEW r, Continues(s, r)
  PROVE  SessionInv'
<1> DEFINE next == [s EXCEPT !.pc = "streaming", !.run = r]
<1>1. solves' = (solves \ {s}) \cup {next} /\ active' = active /\ generation' = generation
  BY DEF Continues, Streams
<1>2. next.gen = s.gen /\ DOMAIN next = DOMAIN s
  BY DEF SessionInv, Question
<1>3. Question(next)'
  BY <1>1, <1>2 DEF SessionInv, Question
<1> HIDE DEF next
<1>4. \A t \in solves : Question(t)'
  BY <1>1 DEF SessionInv, Question
<1>5. QED  BY <1>1, <1>2, <1>3, <1>4 DEF SessionInv

(* A restore changes the runs of the questions only. *)
LEMMA RestoringKeeps ==
  ASSUME SessionInv, Restored
  PROVE  SessionInv'
<1> DEFINE foreign(s) == [s EXCEPT !.run = Foreign(@)]
<1>1. solves' = {foreign(s) : s \in solves} /\ generation' = generation /\ active' = active
  BY DEF Restored, Asking
<1>2. \A s \in solves : foreign(s).gen = s.gen /\ DOMAIN foreign(s) = DOMAIN s
  BY DEF SessionInv, Question
<1>3. \A s \in solves : Question(foreign(s))'
  BY <1>1, <1>2 DEF SessionInv, Question
<1> HIDE DEF foreign
<1>4. QED  BY <1>1, <1>2, <1>3 DEF SessionInv

(* Every step rests, stops, asks, restores, or moves one question on. *)
StepForms ==
  \/ Rests \/ Stops \/ Restored
  \/ \E batch, op, mode : Asks(batch, op, mode)
  \/ \E s \in solves : Ending(s) \/ \E r : Continues(s, r)

(* The steps of a question. *)
LEMMA SolveForms ==
  ASSUME NEW s \in solves, SolveNext(s)
  PROVE  StepForms /\ (history' \ history # {} => Answered(s))
<1>1. CASE PrepareSolve(s)
  BY <1>1 DEF PrepareSolve, Asking, Continues, StepForms
<1>2. CASE PrepareFollowUp(s)
  BY <1>2 DEF PrepareFollowUp, Asking, Continues, StepForms
<1>3. CASE Fails(s)
  BY <1>3 DEF Fails, Asking, Ending, StepForms
<1>4. CASE Answered(s)
  BY <1>4 DEF Answered, Asking, Ending, StepForms
<1>5. CASE Unanswered(s)
  BY <1>5 DEF Unanswered, Asking, Ending, StepForms
<1>6. CASE Explained(s)
  BY <1>6 DEF Explained, Asking, Ending, StepForms
<1>7. CASE Superseded(s)
  BY <1>7 DEF Superseded, Asking, Ending, StepForms
<1>8. QED  BY <1>1, <1>2, <1>3, <1>4, <1>5, <1>6, <1>7 DEF SolveNext

(* The steps of the user and of the timers. *)
LEMMA OtherForms ==
  ASSUME SessionNext, ~ \E s \in solves : SolveNext(s)
  PROVE  StepForms /\ history' \subseteq history
<1>1. CASE Cancel
  BY <1>1 DEF Cancel, Cancels, Stops, StepForms, kept
<1>2. CASE ToggleAuto
  BY <1>2 DEF ToggleAuto, Takes, Rests, StepForms, kept
<1>3. CASE \E kind \in Kinds : Take(kind)
  BY <1>3 DEF Take, Takes, Cancels, Rests, Stops, StepForms, kept
<1>4. CASE \E t \in takes : Captured(t)
  BY <1>4 DEF Captured, Rests, StepForms, kept
<1>5. CASE \E t \in takes : CaptureFails(t)
  BY <1>5 DEF CaptureFails, Rests, StepForms, kept
<1>6. CASE \E force \in BOOLEAN : Submit(force)
  BY <1>6 DEF Submit, StepForms, kept
<1>7. CASE \E k \in DOMAIN intake.items : RemoveImage(k)
  BY <1>7 DEF RemoveImage, Collection, Rests, StepForms, kept
<1>8. CASE Undo
  BY <1>8 DEF Undo, Collection, Rests, StepForms, kept
<1>9. CASE UndoExpires
  BY <1>9 DEF UndoExpires, Collection, Rests, StepForms, kept
<1>10. CASE OpenPreview
  BY <1>10 DEF OpenPreview, Collection, Rests, StepForms, kept
<1>11. CASE ClosePreview
  BY <1>11 DEF ClosePreview, Collection, Rests, StepForms, kept
<1>12. CASE \E op \in {"recover", "explain"} : FollowUp(op)
  BY <1>12 DEF FollowUp, StepForms, kept
<1>13. CASE CheckSettlement
  BY <1>13 DEF CheckSettlement, Asking, Rests, StepForms
<1>14. CASE ClearQuestion
  BY <1>14 DEF ClearQuestion, Cancels, Stops, StepForms, kept
<1>15. CASE ClearHistory
  BY <1>15 DEF ClearHistory, Asking, Rests, StepForms
<1>16. CASE SaveSettings
  BY <1>16 DEF SaveSettings, Asking, Rests, StepForms
<1>17. CASE Restored
  BY <1>17 DEF Restored, StepForms
<1>18. CASE ExpireShown
  BY <1>18 DEF ExpireShown, Rests, StepForms
<1>19. CASE \E h \in history : ReadHistory(h)
  BY <1>19 DEF ReadHistory, Cancels, Stops, StepForms, kept
<1>20. CASE StartPoll
  BY <1>20 DEF StartPoll, Automatic, Rests, StepForms, kept
<1>21. CASE PollRests
  BY <1>21 DEF PollRests, Automatic, Rests, StepForms, kept
<1>22. CASE PollTriggers
  BY <1>22 DEF PollTriggers, StepForms, kept
<1>23. CASE ReviewEnds
  BY <1>23 DEF ReviewEnds, Automatic, Rests, StepForms, kept
<1>24. QED
  BY <1>1, <1>2, <1>3, <1>4, <1>5, <1>6, <1>7, <1>8, <1>9, <1>10, <1>11, <1>12, <1>13, <1>14, <1>15,
     <1>16, <1>17, <1>18, <1>19, <1>20, <1>21, <1>22, <1>23 DEF SessionNext

(* Every form of step keeps the invariant. *)
LEMMA FormsKeep ==
  ASSUME SessionInv, StepForms
  PROVE  SessionInv'
<1>1. CASE Rests
  BY <1>1 DEF Rests, SessionInv, Question
<1>2. CASE Stops  BY <1>2, StoppingKeeps
<1>3. CASE Restored  BY <1>3, RestoringKeeps
<1>4. CASE \E batch, op, mode : Asks(batch, op, mode)
  BY <1>4, AskingKeeps
<1>5. CASE \E s \in solves : Ending(s)  BY <1>5, EndingKeeps
<1>6. CASE \E s \in solves : \E r : Continues(s, r)  BY <1>6, ContinuingKeeps
<1>7. QED  BY <1>1, <1>2, <1>3, <1>4, <1>5, <1>6 DEF StepForms

LEMMA SessionStep ==
  ASSUME SessionInv, [SessionNext]_sessionVars
  PROVE  SessionInv'
<1>1. CASE \E s \in solves : SolveNext(s)
  BY <1>1, SolveForms, FormsKeep
<1>2. CASE SessionNext /\ ~ \E s \in solves : SolveNext(s)
  BY <1>2, OtherForms, FormsKeep
<1>3. CASE UNCHANGED sessionVars
  BY <1>3 DEF sessionVars, SessionInv, Question
<1>4. QED  BY <1>1, <1>2, <1>3

(* One question in flight at most is the newest, and it is the one in progress: a cancel, a new  *)
(* capture or a poll takes both away at once (solve and cancel of main.mjs).                     *)
THEOREM SessionInvariant == SessionSpec => []SessionInv
<1>1. SessionInit => SessionInv
  BY DEF SessionInit, SessionInv
<1>2. QED  BY <1>1, SessionStep, PTL DEF SessionSpec

(* An entry is added to the history only by the question in progress, as it ends.                *)
THEOREM NewestAnswers == SessionSpec => OnlyTheNewestAnswers
<1> DEFINE Allowed == history' \ history # {} => \E s \in solves \ solves' : s.gen = active
<1>1. ASSUME SessionInv, [SessionNext]_sessionVars
      PROVE  [Allowed]_sessionVars
  <2>1. CASE UNCHANGED sessionVars  BY <2>1
  <2>2. CASE SessionNext /\ ~ \E s \in solves : SolveNext(s)
    BY <2>2, OtherForms
  <2>3. CASE \E s \in solves : SolveNext(s)
    <3>1. PICK s \in solves : SolveNext(s)  BY <2>3
    <3>2. SUFFICES ASSUME history' \ history # {} PROVE \E t \in solves \ solves' : t.gen = active
      OBVIOUS
    <3>3. Answered(s)  BY <3>1, <3>2, SolveForms
    <3>4. s.gen = generation /\ solves' = solves \ {s}
      BY <3>3 DEF Answered, Arrives, Newest, Finishes
    <3>5. QED  BY <3>4, <1>1 DEF SessionInv
  <2>4. QED  BY <1>1, <2>1, <2>2, <2>3
<1>2. QED  BY <1>1, SessionInvariant, PTL DEF SessionSpec, OnlyTheNewestAnswers
-----------------------------------------------------------------------------
(* What was asked.  A batch is a sequence of different images.               *)

IsBatch(q, n) == q \in Seq(1 .. n) /\ IsInjective(q)
Batch(q) == IsBatch(q, shots)

LEMMA NoImages == ASSUME NEW n \in Nat PROVE IsBatch(<<>>, n) /\ Range(<<>>) = {}
BY DEF IsBatch, IsInjective, Range

LEMMA OneImage == ASSUME NEW n \in Nat, NEW x \in 1 .. n PROVE IsBatch(<<x>>, n) /\ Range(<<x>>) = {x}
BY DEF IsBatch, IsInjective, Range

LEMMA MoreShots ==
  ASSUME NEW n \in Nat, NEW m \in Nat, n <= m, NEW q, IsBatch(q, n)
  PROVE  IsBatch(q, m)
<1>1. 1 .. n \subseteq 1 .. m
  OBVIOUS
<1>2. QED  BY <1>1, SeqMonotonic DEF IsBatch

LEMMA BatchRange == ASSUME NEW n \in Nat, NEW q, IsBatch(q, n) PROVE Range(q) \subseteq 1 .. n
BY ElementOfSeq, LenProperties DEF IsBatch, Range

(* Slices and concatenations of sequences, with the lengths named. *)
LEMMA HeadOf ==
  ASSUME NEW S, NEW q \in Seq(S), NEW v \in Nat, v <= Len(q)
  PROVE  /\ SubSeq(q, 1, v) \in Seq(S) /\ Len(SubSeq(q, 1, v)) = v
         /\ \A i \in 1 .. v : SubSeq(q, 1, v)[i] = q[i]
<1>1. \A i \in 1 .. v : q[i] \in S
  <2>1. \A i \in 1 .. v : i \in 1 .. Len(q)
    BY LenProperties
  <2>2. QED  BY <2>1, ElementOfSeq
<1>2. /\ SubSeq(q, 1, v) \in Seq(S) /\ Len(SubSeq(q, 1, v)) = IF 1 <= v THEN v - 1 + 1 ELSE 0
      /\ \A i \in 1 .. (v - 1 + 1) : SubSeq(q, 1, v)[i] = q[1 + i - 1]
  BY <1>1, SubSeqProperties
<1>3. (IF 1 <= v THEN v - 1 + 1 ELSE 0) = v
  OBVIOUS
<1>4. \A i \in 1 .. v : i \in 1 .. (v - 1 + 1) /\ 1 + i - 1 = i
  OBVIOUS
<1>5. QED  BY <1>2, <1>3, <1>4

LEMMA TailOf ==
  ASSUME NEW S, NEW q \in Seq(S), NEW v \in Nat, v <= Len(q)
  PROVE  /\ SubSeq(q, v + 1, Len(q)) \in Seq(S) /\ Len(SubSeq(q, v + 1, Len(q))) = Len(q) - v
         /\ \A i \in 1 .. (Len(q) - v) : SubSeq(q, v + 1, Len(q))[i] = q[v + i]
<1>1. PICK m \in Nat : m = Len(q)
  BY LenProperties
<1>2. PICK u \in Int : u = v + 1
  OBVIOUS
<1>3. \A i \in u .. m : q[i] \in S
  <2>1. \A i \in u .. m : i \in 1 .. Len(q)
    BY <1>1, <1>2
  <2>2. QED  BY <2>1, ElementOfSeq
<1>4. /\ SubSeq(q, u, m) \in Seq(S) /\ Len(SubSeq(q, u, m)) = IF u <= m THEN m - u + 1 ELSE 0
      /\ \A i \in 1 .. (m - u + 1) : SubSeq(q, u, m)[i] = q[u + i - 1]
  BY <1>3, SubSeqProperties
<1>5. (IF u <= m THEN m - u + 1 ELSE 0) = m - v
  BY <1>1, <1>2
<1>6. \A i \in 1 .. (m - v) : i \in 1 .. (m - u + 1) /\ u + i - 1 = v + i
  BY <1>2
<1>7. QED  BY <1>1, <1>2, <1>4, <1>5, <1>6

LEMMA Joined ==
  ASSUME NEW S, NEW a \in Seq(S), NEW b \in Seq(S)
  PROVE  /\ a \o b \in Seq(S) /\ Len(a \o b) = Len(a) + Len(b)
         /\ \A i \in 1 .. Len(a) : (a \o b)[i] = a[i]
         /\ \A i \in 1 .. Len(b) : (a \o b)[Len(a) + i] = b[i]
<1>1. PICK v \in Nat, w \in Nat : v = Len(a) /\ w = Len(b)
  BY LenProperties
<1>2. /\ a \o b \in Seq(S) /\ Len(a \o b) = v + w
      /\ \A i \in 1 .. (v + w) : (a \o b)[i] = IF i <= v THEN a[i] ELSE b[i - v]
  BY <1>1, ConcatProperties
<1>3. \A i \in 1 .. v : i \in 1 .. (v + w) /\ i <= v
  OBVIOUS
<1>4. \A i \in 1 .. w : v + i \in 1 .. (v + w) /\ ~(v + i <= v) /\ (v + i) - v = i
  OBVIOUS
<1>5. QED  BY <1>1, <1>2, <1>3, <1>4

(* k is the place of an image with v before it and w after it; or one for it to come back to. *)
Around(q, k, v, w) == k = v + 1 /\ Len(q) = k + w
Between(q, k, v, w) == k = v + 1 /\ Len(q) = v + w

Shortened(r, q, k, v, w) ==
  /\ Len(r) = v + w
  /\ \A i \in 1 .. v : r[i] = q[i]
  /\ \A i \in 1 .. w : r[v + i] = q[k + i]

LEMMA TakenOut ==
  ASSUME NEW S, NEW q \in Seq(S), NEW k, NEW v \in Nat, NEW w \in Nat, Around(q, k, v, w)
  PROVE  RemoveAt(q, k) \in Seq(S) /\ Shortened(RemoveAt(q, k), q, k, v, w)
<1>1. PICK m \in Nat : m = Len(q)
  BY LenProperties
<1>2. PICK a : a = SubSeq(q, 1, v)
  OBVIOUS
<1>3. PICK b : b = SubSeq(q, k + 1, m)
  OBVIOUS
<1>4. k \in Nat /\ m = k + w /\ v <= Len(q) /\ k - 1 = v
  BY <1>1 DEF Around
<1>5. RemoveAt(q, k) = a \o b
  BY <1>1, <1>2, <1>3, <1>4 DEF RemoveAt
<1>6. a \in Seq(S) /\ v = Len(a) /\ \A i \in 1 .. v : a[i] = q[i]
  BY <1>2, <1>4, HeadOf
<1>7. b \in Seq(S) /\ w = Len(b) /\ \A i \in 1 .. w : b[i] = q[k + i]
  <2>1. k \in Nat /\ k <= Len(q)
    BY <1>1, <1>4
  <2>2. /\ SubSeq(q, k + 1, Len(q)) \in Seq(S) /\ Len(SubSeq(q, k + 1, Len(q))) = Len(q) - k
        /\ \A i \in 1 .. (Len(q) - k) : SubSeq(q, k + 1, Len(q))[i] = q[k + i]
    BY <2>1, TailOf
  <2>3. Len(q) - k = w
    BY <1>1, <1>4
  <2>4. b = SubSeq(q, k + 1, Len(q))
    BY <1>1, <1>3
  <2>5. QED  BY <2>2, <2>3, <2>4
<1>8. /\ a \o b \in Seq(S) /\ Len(a \o b) = v + w
      /\ \A i \in 1 .. v : (a \o b)[i] = a[i]
      /\ \A i \in 1 .. w : (a \o b)[v + i] = b[i]
  <2>1. a \in Seq(S) /\ b \in Seq(S) /\ v = Len(a) /\ w = Len(b)
    BY <1>6, <1>7
  <2>2. /\ a \o b \in Seq(S) /\ Len(a \o b) = Len(a) + Len(b)
        /\ \A i \in 1 .. Len(a) : (a \o b)[i] = a[i]
        /\ \A i \in 1 .. Len(b) : (a \o b)[Len(a) + i] = b[i]
    BY <2>1, Joined
  <2>3. QED  BY <2>1, <2>2
<1>9. QED  BY <1>5, <1>6, <1>7, <1>8 DEF Shortened

Refilled(r, q, x, k, v, w) ==
  /\ Len(r) = k + w /\ r[k] = x
  /\ \A i \in 1 .. v : r[i] = q[i]
  /\ \A i \in 1 .. w : r[k + i] = q[v + i]

LEMMA PutIn ==
  ASSUME NEW S, NEW q \in Seq(S), NEW x \in S, NEW k, NEW v \in Nat, NEW w \in Nat, Between(q, k, v, w)
  PROVE  InsertAt(q, k, x) \in Seq(S) /\ Refilled(InsertAt(q, k, x), q, x, k, v, w)
<1>1. PICK m \in Nat : m = Len(q)
  BY LenProperties
<1>2. PICK a : a = SubSeq(q, 1, v)
  OBVIOUS
<1>3. PICK b : b = SubSeq(q, v + 1, m)
  OBVIOUS
<1>4. k \in Nat /\ k = v + 1 /\ m = v + w /\ v <= Len(q) /\ k - 1 = v
  BY <1>1 DEF Between
<1>5. a \in Seq(S) /\ v = Len(a) /\ \A i \in 1 .. v : a[i] = q[i]
  BY <1>2, <1>4, HeadOf
<1>6. b \in Seq(S) /\ w = Len(b) /\ \A i \in 1 .. w : b[i] = q[v + i]
  <2>1. /\ SubSeq(q, v + 1, Len(q)) \in Seq(S) /\ Len(SubSeq(q, v + 1, Len(q))) = Len(q) - v
        /\ \A i \in 1 .. (Len(q) - v) : SubSeq(q, v + 1, Len(q))[i] = q[v + i]
    BY <1>4, TailOf
  <2>2. Len(q) - v = w
    BY <1>1, <1>4
  <2>3. b = SubSeq(q, v + 1, Len(q))
    BY <1>1, <1>3
  <2>4. QED  BY <2>1, <2>2, <2>3
<1>7. PICK c : c = a \o <<x>>
  OBVIOUS
<1>8. c \in Seq(S) /\ k = Len(c) /\ c[k] = x /\ \A i \in 1 .. v : c[i] = q[i]
  <2>1. <<x>> \in Seq(S) /\ 1 = Len(<<x>>) /\ <<x>>[1] = x
    OBVIOUS
  <2>2. /\ a \o <<x>> \in Seq(S) /\ Len(a \o <<x>>) = Len(a) + Len(<<x>>)
        /\ \A i \in 1 .. Len(a) : (a \o <<x>>)[i] = a[i]
        /\ \A i \in 1 .. Len(<<x>>) : (a \o <<x>>)[Len(a) + i] = <<x>>[i]
    BY <1>5, <2>1, Joined
  <2>3. 1 \in 1 .. 1
    OBVIOUS
  <2>4. QED  BY <1>4, <1>5, <1>7, <2>1, <2>2, <2>3
<1>9. InsertAt(q, k, x) = c \o b
  <2>1. a = SubSeq(q, 1, k - 1) /\ b = SubSeq(q, k, Len(q))
    BY <1>1, <1>2, <1>3, <1>4
  <2>2. QED  BY <1>7, <2>1 DEF InsertAt
<1>10. /\ c \o b \in Seq(S) /\ Len(c \o b) = k + w
       /\ \A i \in 1 .. k : (c \o b)[i] = c[i]
       /\ \A i \in 1 .. w : (c \o b)[k + i] = b[i]
  <2>1. k \in Nat /\ c \in Seq(S) /\ b \in Seq(S) /\ k = Len(c) /\ w = Len(b)
    <3>1. k \in Nat
      BY <1>4
    <3>2. QED  BY <1>6, <1>8, <3>1
  <2>2. /\ c \o b \in Seq(S) /\ Len(c \o b) = Len(c) + Len(b)
        /\ \A i \in 1 .. Len(c) : (c \o b)[i] = c[i]
        /\ \A i \in 1 .. Len(b) : (c \o b)[Len(c) + i] = b[i]
    BY <2>1, Joined
  <2>3. QED  BY <2>1, <2>2
<1>11. k \in 1 .. k /\ \A i \in 1 .. v : i \in 1 .. k
  BY <1>4
<1>12. QED  BY <1>6, <1>8, <1>9, <1>10, <1>11 DEF Refilled

LEMMA AnotherImage ==
  ASSUME NEW n \in Nat, NEW q, IsBatch(q, n), NEW x \in (1 .. n) \ Range(q)
  PROVE  IsBatch(Append(q, x), n) /\ Range(Append(q, x)) = Range(q) \cup {x}
<1> DEFINE r == Append(q, x)
<1>1. q \in Seq(1 .. n) /\ Len(q) \in Nat /\ DOMAIN q = 1 .. Len(q)
  BY DEF IsBatch
<1>2. r \in Seq(1 .. n) /\ DOMAIN r = 1 .. (Len(q) + 1) /\ r[Len(q) + 1] = x /\ \A i \in 1 .. Len(q) : r[i] = q[i]
  BY <1>1
<1>3. PICK l : l = Len(q) + 1
  OBVIOUS
<1>4. /\ DOMAIN r = DOMAIN q \cup {l} /\ l \notin DOMAIN q
      /\ r[l] = x /\ \A i \in DOMAIN q : r[i] = q[i]
  BY <1>1, <1>2, <1>3
<1> HIDE DEF r
<1>5. Range(r) = Range(q) \cup {x}
  BY <1>4 DEF Range
<1>6. IsInjective(r)
  BY <1>4 DEF IsBatch, IsInjective, Range
<1>7. QED  BY <1>2, <1>5, <1>6 DEF IsBatch, r

LEMMA OneImageLess ==
  ASSUME NEW n \in Nat, NEW q, IsBatch(q, n), NEW k \in DOMAIN q
  PROVE  IsBatch(RemoveAt(q, k), n) /\ Range(RemoveAt(q, k)) \subseteq Range(q) \ {q[k]}
<1> DEFINE old(i) == IF i < k THEN i ELSE i + 1
<1>1. q \in Seq(1 .. n) /\ IsInjective(q)
  BY DEF IsBatch
<1>2. PICK m \in Nat : m = Len(q) /\ DOMAIN q = 1 .. m
  BY <1>1
<1>3. PICK v \in Nat, w \in Nat : k \in Nat /\ k = v + 1 /\ m = k + w
  <2>1. k \in 1 .. m
    BY <1>2
  <2>2. k - 1 \in Nat /\ m - k \in Nat /\ k \in Nat /\ k = (k - 1) + 1 /\ m = k + (m - k)
    BY <2>1
  <2>3. QED  BY <2>2
<1>4. PICK r : r = RemoveAt(q, k)
  OBVIOUS
<1>5. /\ r \in Seq(1 .. n) /\ Len(r) = v + w
      /\ \A i \in 1 .. v : r[i] = q[i]
      /\ \A i \in 1 .. w : r[v + i] = q[k + i]
  <2>1. PICK S : S = 1 .. n
    OBVIOUS
  <2>2. q \in Seq(S) /\ m = Len(q)
    BY <1>1, <1>2, <2>1
  <2>3. Around(q, k, v, w)
    BY <1>2, <1>3 DEF Around
  <2>4. q \in Seq(S)
    BY <2>2
  <2>5. RemoveAt(q, k) \in Seq(S) /\ Shortened(RemoveAt(q, k), q, k, v, w)
    BY <2>3, <2>4, TakenOut
  <2>6. QED  BY <1>4, <2>1, <2>5 DEF Shortened
<1>6. DOMAIN r = 1 .. (v + w)
  BY <1>5
<1>7. \A i \in 1 .. (v + w) : old(i) \in (1 .. m) \ {k}
  BY <1>3
<1>8. \A i, j \in 1 .. (v + w) : old(i) = old(j) => i = j
  BY <1>3
<1>9. \A i \in 1 .. (v + w) : r[i] = q[old(i)]
  <2> SUFFICES ASSUME NEW i \in 1 .. (v + w) PROVE r[i] = q[old(i)]
    OBVIOUS
  <2>1. CASE i < k
    <3>1. i \in 1 .. v /\ old(i) = i
      BY <1>3, <2>1
    <3>2. QED  BY <1>5, <3>1
  <2>2. CASE ~(i < k)
    <3>1. PICK d \in 1 .. w : v + d = i /\ k + d = old(i)
      <4>1. i - v \in 1 .. w /\ v + (i - v) = i /\ k + (i - v) = old(i)
        BY <1>3, <2>2
      <4>2. QED  BY <4>1
    <3>2. QED  BY <1>5, <3>1
  <2>3. QED  BY <2>1, <2>2
<1> HIDE DEF old
<1>10. \A i \in DOMAIN r : old(i) \in DOMAIN q /\ old(i) # k /\ r[i] = q[old(i)]
  BY <1>2, <1>6, <1>7, <1>9
<1>11. IsInjective(r)
  BY <1>1, <1>6, <1>8, <1>10 DEF IsInjective
<1>12. Range(r) \subseteq Range(q) \ {q[k]}
  BY <1>1, <1>10 DEF IsInjective, Range
<1>13. QED  BY <1>4, <1>5, <1>11, <1>12 DEF IsBatch

LEMMA OneImageBack ==
  ASSUME NEW n \in Nat, NEW q, IsBatch(q, n), NEW x \in (1 .. n) \ Range(q), NEW k \in 1 .. (Len(q) + 1)
  PROVE  IsBatch(InsertAt(q, k, x), n) /\ Range(InsertAt(q, k, x)) \subseteq Range(q) \cup {x}
<1> DEFINE old(i) == IF i < k THEN i ELSE i - 1
<1>1. q \in Seq(1 .. n) /\ IsInjective(q)
  BY DEF IsBatch
<1>2. PICK m \in Nat : m = Len(q) /\ DOMAIN q = 1 .. m
  BY <1>1
<1>3. PICK v \in Nat, w \in Nat : k \in Nat /\ k = v + 1 /\ m = v + w
  <2>1. k \in 1 .. (m + 1)
    BY <1>2
  <2>2. /\ k - 1 \in Nat /\ m - (k - 1) \in Nat /\ k \in Nat
        /\ k = (k - 1) + 1 /\ m = (k - 1) + (m - (k - 1))
    BY <2>1
  <2>3. QED  BY <2>2
<1>4. PICK r : r = InsertAt(q, k, x)
  OBVIOUS
<1>5. /\ r \in Seq(1 .. n) /\ Len(r) = k + w
      /\ \A i \in 1 .. v : r[i] = q[i]
      /\ r[k] = x
      /\ \A i \in 1 .. w : r[k + i] = q[v + i]
  <2>1. PICK S : S = 1 .. n
    OBVIOUS
  <2>2. q \in Seq(S) /\ m = Len(q) /\ x \in S
    BY <1>1, <1>2, <2>1
  <2>3. Between(q, k, v, w)
    BY <1>2, <1>3 DEF Between
  <2>4. q \in Seq(S) /\ x \in S
    BY <2>2
  <2>5. InsertAt(q, k, x) \in Seq(S) /\ Refilled(InsertAt(q, k, x), q, x, k, v, w)
    BY <2>3, <2>4, PutIn
  <2>6. QED  BY <1>4, <2>1, <2>5 DEF Refilled
<1>6. DOMAIN r = 1 .. (k + w)
  BY <1>3, <1>5
<1>7. \A i \in (1 .. (k + w)) \ {k} : old(i) \in 1 .. m
  BY <1>3
<1>8. \A i, j \in (1 .. (k + w)) \ {k} : old(i) = old(j) => i = j
  BY <1>3
<1>9. \A i \in (1 .. (k + w)) \ {k} : r[i] = q[old(i)]
  <2> SUFFICES ASSUME NEW i \in (1 .. (k + w)) \ {k} PROVE r[i] = q[old(i)]
    OBVIOUS
  <2>1. CASE i < k
    <3>1. i \in 1 .. v /\ old(i) = i
      BY <1>3, <2>1
    <3>2. QED  BY <1>5, <3>1
  <2>2. CASE ~(i < k)
    <3>1. PICK d \in 1 .. w : k + d = i /\ v + d = old(i)
      <4>1. i - k \in 1 .. w /\ k + (i - k) = i /\ v + (i - k) = old(i)
        BY <1>3, <2>2
      <4>2. QED  BY <4>1
    <3>2. QED  BY <1>5, <3>1
  <2>3. QED  BY <2>1, <2>2
<1> HIDE DEF old
<1>10. \A i \in DOMAIN r \ {k} : old(i) \in DOMAIN q /\ r[i] = q[old(i)] /\ r[i] \in Range(q)
  BY <1>2, <1>6, <1>7, <1>9 DEF Range
<1>11. IsInjective(r)
  <2> SUFFICES ASSUME NEW i \in DOMAIN r, NEW j \in DOMAIN r, r[i] = r[j] PROVE i = j
    BY DEF IsInjective
  <2>1. CASE i = k \/ j = k
    BY <1>5, <1>10, <2>1
  <2>2. CASE i # k /\ j # k
    <3>1. old(i) = old(j)
      BY <1>1, <1>10, <2>2 DEF IsInjective
    <3>2. QED  BY <1>6, <1>8, <2>2, <3>1
  <2>3. QED  BY <2>1, <2>2
<1>12. Range(r) \subseteq Range(q) \cup {x}
  <2> SUFFICES ASSUME NEW i \in DOMAIN r PROVE r[i] \in Range(q) \cup {x}
    BY DEF Range
  <2>1. QED  BY <1>5, <1>10
<1>13. QED  BY <1>4, <1>5, <1>11, <1>12 DEF IsBatch

-----------------------------------------------------------------------------
(* What was asked, and by which question.  Kept is what runs and the history tell of it, Open is *)
(* asked by questions in flight that have no run.                                                *)

Apart(p, q) == \A i \in DOMAIN p : \A j \in DOMAIN q : p[i] # q[j]

Pair(by, of) == [by |-> by, of |-> of]

Runs == ({run} \cup {s.run : s \in solves}) \ {None}

Kept == {Pair(h.by, h.of) : h \in history} \cup {Pair(r.id, r.images) : r \in Runs}

Open == {Pair(s.gen, s.batch) : s \in {q \in solves : q.op = "solve" /\ q.run = None}}

Used == UNION {Range(p.of) : p \in Kept \cup Open}

(* Whoever asked something asked it alone. *)
Alone ==
  /\ \A p \in Kept \cup Open : Batch(p.of)
  /\ \A p, q \in Kept : p.by # q.by => Apart(p.of, q.of)
  /\ \A p, q \in Open : p.by # q.by => Apart(p.of, q.of)
  /\ \A p \in Kept : \A q \in Open : Apart(p.of, q.of)

(* The images outside of the collection that may still come into it. *)
Waiting == {t.shot : t \in takes} \cup (IF removed = None THEN {} ELSE {removed.item})

Collects ==
  /\ DOMAIN intake = {"items", "deadline", "previewing", "token", "paused"}
  /\ Batch(intake.items)
  /\ Waiting \subseteq (1 .. shots) \ Range(intake.items)
  /\ \A t, u \in takes : t.shot = u.shot => t = u
  /\ removed # None => removed.index \in Nat \ {0} /\ \A t \in takes : t.shot # removed.item

Unasked == Waiting \cup Range(intake.items)

Told(s) ==
  /\ s.op \in {"solve", "recover", "explain"}
  /\ Batch(s.batch)
  /\ s.pc = "preparing" => s.run = None
  /\ s.op # "solve" /\ s.run = None => s.pc = "preparing"

(* What can still be asked was not asked yet. *)
AskedInv ==
  /\ SessionInv
  /\ shots \in Nat
  /\ Collects
  /\ Batch(images)
  /\ \A h \in history : Batch(h.images)
  /\ \A s \in solves : Told(s)
  /\ Runs \subseteq FrozenRun
  /\ Alone
  /\ Unasked \cap Used = {}

LEMMA ApartIsMutual == ASSUME NEW p, NEW q, Apart(p, q) PROVE Apart(q, p)
BY DEF Apart

LEMMA BatchStays ==
  ASSUME shots \in Nat, shots' \in Nat, shots <= shots', NEW q, Batch(q)
  PROVE  Batch(q)'
<1>1. PICK n \in Nat : n = shots
  OBVIOUS
<1>2. PICK m \in Nat : m = shots'
  OBVIOUS
<1>3. IsBatch(q, m)
  BY <1>1, <1>2, MoreShots DEF Batch
<1>4. QED  BY <1>2, <1>3 DEF Batch

(* Nothing new is asked. *)
LEMMA NothingAsked ==
  ASSUME Alone, shots \in Nat, shots' \in Nat, shots <= shots', Kept' \subseteq Kept, Open' \subseteq Open
  PROVE  Alone' /\ Used' \subseteq Used
<1>1. Used' \subseteq Used
  BY DEF Used
<1>2. \A p \in Kept' \cup Open' : Batch(p.of)'
  BY BatchStays DEF Alone
<1>3. QED  BY <1>1, <1>2 DEF Alone

(* Images are asked that were not asked before. *)
LEMMA AskingAlone ==
  ASSUME Alone, shots \in Nat, shots' \in Nat, shots <= shots',
         NEW g, NEW batch, Batch(batch)', Range(batch) \cap Used = {},
         Kept' \subseteq Kept, Open' \subseteq Open \cup {Pair(g, batch)}
  PROVE  Alone' /\ Used' \subseteq Used \cup Range(batch)
<1>1. PICK new : new = Pair(g, batch)
  OBVIOUS
<1>2. new.by = g /\ new.of = batch
  BY <1>1 DEF Pair
<1>3. Open' \subseteq Open \cup {new}
  BY <1>1
<1>4. Used' \subseteq Used \cup Range(batch)
  BY <1>2, <1>3 DEF Used
<1>5. \A p \in Kept' \cup Open' : Batch(p.of)'
  BY <1>2, <1>3, BatchStays DEF Alone
<1>6. \A p \in Kept \cup Open : Apart(p.of, batch) /\ Apart(batch, p.of)
  BY DEF Used, Range, Apart
<1>7. QED  BY <1>2, <1>3, <1>4, <1>5, <1>6 DEF Alone

(* A question in flight gets a run or an entry in the history. *)
LEMMA KeepingAlone ==
  ASSUME Alone, UNCHANGED shots, shots \in Nat, NEW p \in Open, NEW by,
         Kept' \subseteq Kept \cup {Pair(by, p.of)}, Open' \subseteq {q \in Open : q.by # p.by}
  PROVE  Alone' /\ Used' \subseteq Used
<1>1. PICK new : new = Pair(by, p.of)
  OBVIOUS
<1>2. new.by = by /\ new.of = p.of
  BY <1>1 DEF Pair
<1>3. Kept' \subseteq Kept \cup {new}
  BY <1>1
<1>4. Used' \subseteq Used
  BY <1>2, <1>3 DEF Used
<1>5. \A q \in Kept' \cup Open' : Batch(q.of)'
  BY <1>2, <1>3, BatchStays DEF Alone
<1>6. \A q \in Kept : Apart(q.of, p.of) /\ Apart(p.of, q.of)
  BY ApartIsMutual DEF Alone
<1>7. \A q \in Open' : Apart(p.of, q.of)
  BY DEF Alone
<1>8. QED  BY <1>2, <1>3, <1>4, <1>5, <1>6, <1>7 DEF Alone

(* The last run, perhaps with news of it. *)
SameRun(r) == r # None => run # None /\ r \in FrozenRun /\ r.id = run.id /\ r.images = run.images

LEMMA SettledIsSame == ASSUME run \in FrozenRun, NEW r \in Settlements(run) PROVE SameRun(r)
<1> DEFINE offers == [usable |-> {"recover"}, released |-> {"retry"}, recovered |-> {}, held |-> {}]
<1>1. PICK q : q = run
  OBVIOUS
<1>2. PICK f : /\ f \in IF q.fate = None THEN {"held", "usable", "released"} ELSE {q.fate}
               /\ r = [q EXCEPT !.fate = IF f = "held" THEN None ELSE f, !.status = offers[f]]
  BY <1>1 DEF Settlements
<1>3. f \in {"held", "usable", "released", "recovered"}
  BY <1>1, <1>2 DEF FrozenRun
<1>4. PICK st \in SUBSET {"recover", "retry"} : st = offers[f]
  BY <1>3
<1> HIDE DEF offers
<1>5. r \in FrozenRun /\ r.id = q.id /\ r.images = q.images
  BY <1>1, <1>2, <1>3, <1>4 DEF FrozenRun
<1>6. QED  BY <1>1, <1>5, SessionNoneAssumption DEF SameRun

LEMMA ReceiptIsSame ==
  ASSUME run # None => run \in FrozenRun, NEW s, NEW usable \in BOOLEAN, NEW offers \in SUBSET {"explain"}
  PROVE  SameRun(WithReceipt(s, usable, offers))
<1>1. CASE run = None \/ s.run = None
  BY <1>1 DEF WithReceipt, SameRun
<1>2. CASE run # None /\ s.run # None
  <2>1. PICK q : q = run
    OBVIOUS
  <2>2. PICK f \in {"usable", "released", "recovered"}, o \in SUBSET {"recover", "explain"} :
          WithReceipt(s, usable, offers) = [q EXCEPT !.fate = f, !.receipt = o]
    BY <1>2, <2>1 DEF WithReceipt
  <2>3. [q EXCEPT !.fate = f, !.receipt = o] \in FrozenRun
    BY <1>2, <2>1 DEF FrozenRun
  <2>4. [q EXCEPT !.fate = f, !.receipt = o].id = q.id /\ [q EXCEPT !.fate = f, !.receipt = o].images = q.images
    BY <1>2, <2>1 DEF FrozenRun
  <2>5. QED  BY <1>2, <2>1, <2>2, <2>3, <2>4 DEF SameRun
<1>3. QED  BY <1>1, <1>2

LEMMA RecoveredIsSame ==
  ASSUME run # None => run \in FrozenRun, run # None PROVE SameRun([run EXCEPT !.fate = "recovered"])
<1>1. PICK q : q = run
  OBVIOUS
<1>2. [q EXCEPT !.fate = "recovered"] \in FrozenRun
  BY <1>1 DEF FrozenRun
<1>3. [q EXCEPT !.fate = "recovered"].id = q.id /\ [q EXCEPT !.fate = "recovered"].images = q.images
  BY <1>1 DEF FrozenRun
<1>4. QED  BY <1>1, <1>2, <1>3 DEF SameRun

LEMMA ForeignIsFrozen ==
  ASSUME NEW r \in FrozenRun
  PROVE  Foreign(r) \in FrozenRun /\ Foreign(r) # None /\ Foreign(r).id = r.id /\ Foreign(r).images = r.images
<1>1. [r EXCEPT !.ours = FALSE] \in FrozenRun /\ [r EXCEPT !.ours = FALSE].id = r.id
      /\ [r EXCEPT !.ours = FALSE].images = r.images
  BY DEF FrozenRun
<1>2. r # None /\ Foreign(r) = [r EXCEPT !.ours = FALSE]
  BY SessionNoneAssumption DEF Foreign
<1>3. QED  BY <1>1, <1>2, SessionNoneAssumption

LEMMA NewRun ==
  ASSUME NEW id \in Nat, NEW batch \in Seq(Nat), NEW screen \in BOOLEAN,
         NEW r, r = [id |-> id, ours |-> TRUE, images |-> batch, screen |-> screen,
                     fate |-> None, receipt |-> {}, status |-> None]
  PROVE  r \in FrozenRun /\ r.id = id /\ r.images = batch
<1>1. r.id = id /\ r.images = batch
  OBVIOUS
<1>2. r \in FrozenRun
  BY DEF FrozenRun
<1>3. QED  BY <1>1, <1>2

(* A step of questions, runs and the history leaves the images alone. *)
LEMMA AnsweringKeeps ==
  ASSUME AskedInv, SessionInv', Asking,
         \A h \in history' : Batch(h.images), \A s \in solves' : Told(s),
         Runs' \subseteq FrozenRun, Alone', Used' \subseteq Used
  PROVE  AskedInv'
<1>1. UNCHANGED <<shots, intake, takes, removed, images>>
  BY DEF Asking
<1>2. Collects' /\ Unasked' = Unasked
  BY <1>1 DEF AskedInv, Collects, Unasked, Waiting, Batch
<1>3. Batch(images)' /\ (\A h \in history : Batch(h.images))' /\ (\A s \in solves : Told(s))'
  BY <1>1 DEF AskedInv, Batch, Told
<1>4. QED  BY <1>1, <1>2, <1>3 DEF AskedInv

(* A question ends, and leaves no entry. *)
LEMMA EndingLeaves ==
  ASSUME AskedInv, SessionInv', NEW s \in solves, Finishes(s), Asking, SameRun(run'), history' \subseteq history
  PROVE  AskedInv'
<1>1. solves' \subseteq solves /\ shots' = shots
  BY DEF Finishes, Asking
<1>2. Runs' \subseteq FrozenRun
  BY <1>1 DEF Runs, AskedInv, SameRun
<1>3. Kept' \subseteq Kept
  BY <1>1 DEF Kept, Runs, SameRun
<1>4. Open' \subseteq Open
  BY <1>1 DEF Open
<1>5. Alone' /\ Used' \subseteq Used
  BY <1>1, <1>3, <1>4, NothingAsked DEF AskedInv
<1>6. QED  BY <1>1, <1>2, <1>5, AnsweringKeeps DEF AskedInv

(* The question that streams. *)
LEMMA StreamingForm ==
  ASSUME SessionInv, NEW s \in solves, NEW r, Streams(s, r)
  PROVE  \E n : /\ solves' = (solves \ {s}) \cup {n}
                /\ n.gen = s.gen /\ n.op = s.op /\ n.batch = s.batch /\ n.pc = "streaming" /\ n.run = r
<1> DEFINE n == [s EXCEPT !.pc = "streaming", !.run = r]
<1>1. n.gen = s.gen /\ n.op = s.op /\ n.batch = s.batch /\ n.pc = "streaming" /\ n.run = r
  BY DEF SessionInv, Question
<1> HIDE DEF n
<1>2. QED  BY <1>1 DEF Streams, n

LEMMA PrepareSolveKeeps ==
  ASSUME AskedInv, SessionInv', NEW s \in solves, PrepareSolve(s)
  PROVE  AskedInv'
<1>1. /\ s.op = "solve" /\ s.run = None /\ Asking /\ history' = history /\ shots' = shots
      /\ Batch(s.batch) /\ s.gen \in Nat /\ SessionInv
  BY DEF AskedInv, PrepareSolve, Told, SessionInv, Question, Asking
<1>2. CASE run' = None /\ Streams(s, None)
  <2>1. PICK n : /\ solves' = (solves \ {s}) \cup {n}
                 /\ n.gen = s.gen /\ n.op = s.op /\ n.batch = s.batch /\ n.pc = "streaming" /\ n.run = None
    BY <1>1, <1>2, StreamingForm
  <2>2. Runs' \subseteq Runs /\ Kept' \subseteq Kept
    BY <1>1, <1>2, <2>1 DEF Runs, Kept
  <2>3. Open' \subseteq Open
    BY <1>1, <2>1 DEF Open
  <2>4. Alone' /\ Used' \subseteq Used
    BY <1>1, <2>2, <2>3, NothingAsked DEF AskedInv
  <2>5. \A q \in solves' : Told(q)
    BY <1>1, <2>1 DEF AskedInv, Told
  <2>6. QED  BY <1>1, <2>2, <2>4, <2>5, AnsweringKeeps DEF AskedInv
<1>3. CASE run' = Frozen(s) /\ Streams(s, run')
  <2>1. PICK r : r = Frozen(s)
    OBVIOUS
  <2>2. r \in FrozenRun /\ r.id = s.gen /\ r.images = s.batch /\ r # None
    <3>1. s.batch \in Seq(1 .. shots) /\ 1 .. shots \subseteq Nat
      BY <1>1 DEF AskedInv, Batch, IsBatch
    <3>2. s.batch \in Seq(Nat)
      BY <3>1, SeqMonotonic
    <3>3. PICK screen \in BOOLEAN : screen = (s.mode = "tutor")
      OBVIOUS
    <3>4. r = [id |-> s.gen, ours |-> TRUE, images |-> s.batch, screen |-> screen,
               fate |-> None, receipt |-> {}, status |-> None]
      BY <2>1, <3>3 DEF Frozen
    <3>5. r \in FrozenRun /\ r.id = s.gen /\ r.images = s.batch
      BY <1>1, <3>2, <3>4, NewRun
    <3>6. QED  BY <3>5, SessionNoneAssumption
  <2>3. PICK n : /\ solves' = (solves \ {s}) \cup {n}
                 /\ n.gen = s.gen /\ n.op = s.op /\ n.batch = s.batch /\ n.pc = "streaming" /\ n.run = r
    BY <1>1, <1>3, <2>1, StreamingForm
  <2>4. Runs' \subseteq Runs \cup {r}
    BY <1>3, <2>1, <2>3 DEF Runs
  <2>5. PICK p \in Open : p = Pair(s.gen, s.batch)
    BY <1>1 DEF Open
  <2>6. p.by = s.gen /\ p.of = s.batch
    BY <2>5 DEF Pair
  <2>7. Kept' \subseteq Kept \cup {Pair(s.gen, p.of)}
    BY <1>1, <2>2, <2>4, <2>6 DEF Kept
  <2>8. \A q \in solves' : q.op = "solve" /\ q.run = None => q \in solves /\ q # s /\ q.gen # s.gen
    BY <1>1, <2>2, <2>3 DEF SessionInv
  <2>9. Open' \subseteq {q \in Open : q.by # p.by}
    BY <2>6, <2>8 DEF Open, Pair
  <2>10. Alone' /\ Used' \subseteq Used
    BY <1>1, <2>7, <2>9, KeepingAlone DEF AskedInv
  <2>11. \A q \in solves' : Told(q)
    BY <1>1, <2>2, <2>3 DEF AskedInv, Told
  <2>12. Runs' \subseteq FrozenRun
    BY <2>2, <2>4 DEF AskedInv
  <2>13. QED  BY <1>1, <2>10, <2>11, <2>12, AnsweringKeeps DEF AskedInv
<1>4. QED  BY <1>2, <1>3 DEF PrepareSolve

LEMMA PrepareFollowUpKeeps ==
  ASSUME AskedInv, SessionInv', NEW s \in solves, PrepareFollowUp(s)
  PROVE  AskedInv'
<1>1. /\ s.op # "solve" /\ run # None /\ Asking /\ UNCHANGED <<history, run, shots>> /\ Streams(s, run) /\ SessionInv
  BY DEF AskedInv, PrepareFollowUp, Asking
<1>2. PICK n : /\ solves' = (solves \ {s}) \cup {n}
               /\ n.gen = s.gen /\ n.op = s.op /\ n.batch = s.batch /\ n.pc = "streaming" /\ n.run = run
  BY <1>1, StreamingForm
<1>3. Runs' \subseteq Runs /\ Kept' \subseteq Kept
  BY <1>1, <1>2 DEF Runs, Kept
<1>4. Open' \subseteq Open
  BY <1>1, <1>2 DEF Open
<1>5. Alone' /\ Used' \subseteq Used
  BY <1>1, <1>3, <1>4, NothingAsked DEF AskedInv
<1>6. \A q \in solves' : Told(q)
  BY <1>1, <1>2 DEF AskedInv, Told
<1>7. QED  BY <1>1, <1>3, <1>5, <1>6, AnsweringKeeps DEF AskedInv

LEMMA FailsKeeps ==
  ASSUME AskedInv, SessionInv', NEW s \in solves, Fails(s)
  PROVE  AskedInv'
<1>1. run # None => run \in FrozenRun
  BY DEF AskedInv, Runs
<1>2. SameRun(run')
  <2>1. CASE UNCHANGED run  BY <1>1, <2>1 DEF SameRun
  <2>2. CASE run # None /\ run' \in Settlements(run)  BY <1>1, <2>2, SettledIsSame
  <2>3. CASE run # None /\ run' = [run EXCEPT !.fate = "recovered"]  BY <1>1, <2>3, RecoveredIsSame
  <2>4. QED  BY <2>1, <2>2, <2>3 DEF Fails
<1>3. QED  BY <1>2, EndingLeaves DEF Fails

LEMMA AnsweredKeeps ==
  ASSUME AskedInv, SessionInv', NEW s \in solves, Answered(s)
  PROVE  AskedInv'
<1>1. /\ Finishes(s) /\ Asking /\ shots' = shots /\ solves' = solves \ {s} /\ SessionInv
      /\ Told(s) /\ s.pc = "streaming" /\ s.op # "explain"
  BY DEF AskedInv, Answered, Arrives, Asking, Finishes
<1>2. SameRun(run')
  <2>1. run # None => run \in FrozenRun
    BY DEF AskedInv, Runs
  <2>2. PICK offers \in SUBSET {"explain"} : run' = WithReceipt(s, TRUE, offers)
    BY DEF Answered
  <2>3. QED  BY <2>1, <2>2, ReceiptIsSame
<1>3. CASE history' \subseteq history
  BY <1>1, <1>2, <1>3, EndingLeaves
<1>4. CASE s.mode # "personality"
  <2>1. PICK by : by = IF s.run # None THEN s.run.id ELSE -s.gen
    OBVIOUS
  <2>2. PICK of : of = IF s.run # None THEN s.run.images ELSE s.batch
    OBVIOUS
  <2>3. PICK id : id = EntryId(s)
    OBVIOUS
  <2>4. PICK h : h = [id |-> id, images |-> s.batch, by |-> by, of |-> of]
    OBVIOUS
  <2>5. h.images = s.batch /\ h.by = by /\ h.of = of
    BY <2>4
  <2>6. history' \subseteq history \cup {h}
    BY <1>4, <2>1, <2>2, <2>3, <2>4 DEF Answered
  <2>7. \A e \in history' : Batch(e.images)
    BY <1>1, <2>5, <2>6 DEF AskedInv, Told
  <2>8. Runs' \subseteq FrozenRun
    BY <1>1, <1>2 DEF Runs, AskedInv, SameRun
  <2>9. \A r \in Runs' : Pair(r.id, r.images) \in Kept
    BY <1>1, <1>2 DEF Kept, Runs, SameRun
  <2>10. Kept' \subseteq Kept \cup {Pair(by, of)}
    BY <2>5, <2>6, <2>9 DEF Kept
  <2>11. Open' \subseteq Open
    BY <1>1 DEF Open
  <2>12. Alone' /\ Used' \subseteq Used
    <3>1. CASE s.run # None
      <4>1. Pair(by, of) \in Kept
        BY <2>1, <2>2, <3>1 DEF Kept, Runs
      <4>2. QED  BY <1>1, <2>10, <2>11, <4>1, NothingAsked DEF AskedInv
    <3>2. CASE s.run = None
      <4>1. s.op = "solve" /\ of = s.batch
        BY <1>1, <2>2, <3>2 DEF Told
      <4>2. PICK p \in Open : p = Pair(s.gen, s.batch)
        BY <3>2, <4>1 DEF Open
      <4>3. p.by = s.gen /\ p.of = of
        BY <4>1, <4>2 DEF Pair
      <4>4. \A q \in solves' : q.gen # s.gen /\ q \in solves
        BY <1>1 DEF SessionInv
      <4>5. Open' \subseteq {q \in Open : q.by # p.by}
        BY <4>3, <4>4 DEF Open, Pair
      <4>6. QED  BY <1>1, <2>10, <4>3, <4>5, KeepingAlone DEF AskedInv
    <3>3. QED  BY <3>1, <3>2
  <2>13. QED  BY <1>1, <2>7, <2>8, <2>12, AnsweringKeeps DEF AskedInv
<1>5. QED  BY <1>3, <1>4 DEF Answered

LEMMA RestoredKeeps ==
  ASSUME AskedInv, SessionInv', Restored
  PROVE  AskedInv'
<1> DEFINE foreign(s) == [s EXCEPT !.run = Foreign(@)]
<1>1. /\ solves' = {foreign(s) : s \in solves} /\ Asking /\ UNCHANGED <<history, shots>>
      /\ run' \in {None, Foreign(run)} /\ SessionInv
  BY DEF AskedInv, Restored, Asking
<1>2. \A s \in solves : foreign(s).gen = s.gen /\ foreign(s).op = s.op /\ foreign(s).batch = s.batch
                        /\ foreign(s).pc = s.pc /\ foreign(s).run = Foreign(s.run)
  BY <1>1 DEF SessionInv, Question
<1> HIDE DEF foreign
<1>3. \A r \in Runs : r \in FrozenRun /\ r # None
  BY DEF AskedInv, Runs
<1>4. \A r \in Runs : Foreign(r) \in FrozenRun /\ Foreign(r) # None /\ Foreign(r).id = r.id /\ Foreign(r).images = r.images
  BY <1>3, ForeignIsFrozen
<1>5. Foreign(None) = None
  BY DEF Foreign
<1>6. Runs' \subseteq {Foreign(r) : r \in Runs}
  BY <1>1, <1>2, <1>5 DEF Runs
<1>7. Kept' \subseteq Kept
  BY <1>1, <1>4, <1>6 DEF Kept
<1>8. \A s \in solves : Foreign(s.run) = None <=> s.run = None
  BY <1>4, <1>5 DEF Runs
<1>9. Open' \subseteq Open
  BY <1>1, <1>2, <1>8 DEF Open
<1>10. Alone' /\ Used' \subseteq Used
  BY <1>1, <1>7, <1>9, NothingAsked DEF AskedInv
<1>11. \A s \in solves' : Told(s)
  BY <1>1, <1>2, <1>8 DEF AskedInv, Told
<1>12. Runs' \subseteq FrozenRun
  BY <1>4, <1>6
<1>13. QED  BY <1>1, <1>10, <1>11, <1>12, AnsweringKeeps DEF AskedInv

LEMMA SolveKeepsAsked ==
  ASSUME AskedInv, SessionInv', NEW s \in solves, SolveNext(s)
  PROVE  AskedInv'
<1>1. run # None => run \in FrozenRun
  BY DEF AskedInv, Runs
<1>2. CASE PrepareSolve(s)  BY <1>2, PrepareSolveKeeps
<1>3. CASE PrepareFollowUp(s)  BY <1>3, PrepareFollowUpKeeps
<1>4. CASE Fails(s)  BY <1>4, FailsKeeps
<1>5. CASE Answered(s)  BY <1>5, AnsweredKeeps
<1>6. CASE Unanswered(s)
  <2>1. SameRun(run')
    BY <1>1, <1>6, ReceiptIsSame DEF Unanswered
  <2>2. QED  BY <1>6, <2>1, EndingLeaves DEF Unanswered
<1>7. CASE Explained(s)
  BY <1>1, <1>7, EndingLeaves DEF Explained, SameRun
<1>8. CASE Superseded(s)
  BY <1>1, <1>8, EndingLeaves DEF Superseded, SameRun
<1>9. QED  BY <1>2, <1>3, <1>4, <1>5, <1>6, <1>7, <1>8 DEF SolveNext

(* The images: steps that ask nothing. *)
LEMMA CollectingKeeps ==
  ASSUME AskedInv, SessionInv', shots' \in Nat, shots <= shots', UNCHANGED solves,
         history' \subseteq history, run' \in {run, None},
         Collects', Batch(images)', Unasked' \cap Used = {}
  PROVE  AskedInv'
<1>1. Runs' \subseteq Runs /\ Kept' \subseteq Kept /\ Open' \subseteq Open
  BY DEF Runs, Kept, Open
<1>2. Alone' /\ Used' \subseteq Used
  BY <1>1, NothingAsked DEF AskedInv
<1>3. \A h \in history' : Batch(h.images)'
  BY BatchStays DEF AskedInv
<1>4. \A s \in solves' : Told(s)'
  BY BatchStays DEF AskedInv, Told
<1>5. QED  BY <1>1, <1>2, <1>3, <1>4 DEF AskedInv

(* What is new in the collection was not asked. *)
Fresher == Unasked' \subseteq Unasked \cup ((shots + 1) .. shots')

LEMMA FresherIsUnasked ==
  ASSUME AskedInv, shots' \in Nat, Fresher
  PROVE  Unasked' \cap Used = {}
<1>1. Used \subseteq 1 .. shots
  BY BatchRange DEF AskedInv, Alone, Used, Batch
<1>2. QED  BY <1>1 DEF AskedInv, Fresher

(* A question is asked.  What it asks leaves the collection. *)
LEMMA AsksKeeps ==
  ASSUME AskedInv, SessionInv', shots' \in Nat, shots <= shots', UNCHANGED <<run, history>>,
         NEW batch, NEW op \in {"solve", "recover", "explain"}, NEW mode, Asks(batch, op, mode),
         Batch(batch)', Collects', Fresher,
         op = "solve" => Range(batch) \cap Used = {} /\ Range(batch) \cap Unasked' = {}
  PROVE  AskedInv'
<1>1. PICK n : n = [gen |-> generation + 1, op |-> op, mode |-> mode, batch |-> batch, pc |-> "preparing", run |-> None]
  OBVIOUS
<1>2. n.gen = generation + 1 /\ n.op = op /\ n.batch = batch /\ n.pc = "preparing" /\ n.run = None
  BY <1>1
<1>3. solves' = solves \cup {n} /\ images' = batch
  BY <1>1 DEF Asks
<1>4. Runs' \subseteq Runs /\ Kept' \subseteq Kept
  BY <1>2, <1>3 DEF Runs, Kept
<1>5. Unasked' \cap Used = {}
  BY FresherIsUnasked
<1>6. Alone' /\ Unasked' \cap Used' = {}
  <2>1. CASE op = "solve"
    <3>1. Open' \subseteq Open \cup {Pair(n.gen, batch)}
      BY <1>2, <1>3 DEF Open
    <3>2. Alone' /\ Used' \subseteq Used \cup Range(batch)
      BY <1>4, <2>1, <3>1, AskingAlone DEF AskedInv
    <3>3. QED  BY <1>5, <2>1, <3>2
  <2>2. CASE op # "solve"
    <3>1. Open' \subseteq Open
      BY <1>2, <1>3, <2>2 DEF Open
    <3>2. Alone' /\ Used' \subseteq Used
      BY <1>4, <3>1, NothingAsked DEF AskedInv
    <3>3. QED  BY <1>5, <3>2
  <2>3. QED  BY <2>1, <2>2
<1>7. \A s \in solves' : Told(s)'
  BY <1>2, <1>3, BatchStays DEF AskedInv, Told
<1>8. \A h \in history' : Batch(h.images)'
  BY BatchStays DEF AskedInv
<1>9. QED  BY <1>3, <1>4, <1>6, <1>7, <1>8 DEF AskedInv

-----------------------------------------------------------------------------
(* The collection. *)

Fields == {"items", "deadline", "previewing", "token", "paused"}

LEMMA IntakeKeepsItems ==
  ASSUME NEW i, DOMAIN i = Fields
  PROVE  /\ DOMAIN Reset(i) = Fields /\ Reset(i).items = i.items
         /\ \A t : DOMAIN Begin(i, t) = Fields /\ Begin(i, t).items = i.items
         /\ \A v : DOMAIN Preview(i, v) = Fields /\ Preview(i, v).items = i.items
         /\ \A t : DOMAIN Finish(i, t, None) = Fields /\ Finish(i, t, None).items = i.items
<1>1. \A j : DOMAIN j = Fields => DOMAIN Reset(j) = Fields /\ Reset(j).items = j.items
  BY DEF Reset, Fields
<1>2. \A v : DOMAIN Preview(i, v) = Fields /\ Preview(i, v).items = i.items
  <2> TAKE v
  <2>1. PICK j : j = [i EXCEPT !.previewing = v]
    OBVIOUS
  <2>2. DOMAIN j = Fields /\ j.items = i.items
    BY <2>1 DEF Fields
  <2>3. QED  BY <1>1, <2>1, <2>2 DEF Preview
<1>3. \A t : DOMAIN Begin(i, t) = Fields /\ Begin(i, t).items = i.items
  BY DEF Begin, Fields
<1>4. \A t : DOMAIN Finish(i, t, None) = Fields /\ Finish(i, t, None).items = i.items
  BY DEF Finish, Fields
<1>5. QED  BY <1>1, <1>2, <1>3, <1>4

LEMMA ItemsReplaced ==
  ASSUME NEW i, DOMAIN i = Fields, NEW q
  PROVE  DOMAIN Reset([i EXCEPT !.items = q]) = Fields /\ Reset([i EXCEPT !.items = q]).items = q
<1>1. PICK j : j = [i EXCEPT !.items = q]
  OBVIOUS
<1>2. DOMAIN j = Fields /\ j.items = q
  BY <1>1 DEF Fields
<1>3. QED  BY <1>1, <1>2, IntakeKeepsItems

LEMMA FinishAppends ==
  ASSUME NEW i, DOMAIN i = Fields, NEW t, NEW shot
  PROVE  /\ DOMAIN Finish(i, t, shot) = Fields
         /\ Finish(i, t, shot).items \in {i.items, Append(i.items, shot)}
<1>1. CASE t # i.token \/ shot = None
  BY <1>1, IntakeKeepsItems DEF Finish
<1>2. CASE t = i.token /\ shot # None
  <2>1. PICK j : j = [i EXCEPT !.token = None, !.paused = FALSE, !.items = Append(@, shot)]
    OBVIOUS
  <2>2. DOMAIN j = Fields /\ j.items = Append(i.items, shot)
    BY <2>1 DEF Fields
  <2>3. QED  BY <1>2, <2>1, <2>2, IntakeKeepsItems DEF Finish
<1>3. QED  BY <1>1, <1>2

(* The collection keeps its images, or loses them all. *)
LEMMA SameItems ==
  ASSUME AskedInv, UNCHANGED shots, takes' \subseteq takes, removed' \in {removed, None},
         DOMAIN intake' = Fields, intake'.items \in {intake.items, <<>>}
  PROVE  Collects' /\ Fresher
<1>1. Batch(intake'.items)
  BY NoImages DEF AskedInv, Collects, Batch
<1>2. Range(intake'.items) \subseteq Range(intake.items)
  BY DEF Range
<1>3. Waiting' \subseteq Waiting
  BY DEF Waiting
<1>4. Fresher
  BY <1>2, <1>3 DEF Fresher, Unasked
<1>5. QED  BY <1>1, <1>2, <1>3, <1>4 DEF AskedInv, Collects, Fields, Batch

LEMMA EmptyHasFields == DOMAIN Empty = Fields /\ Empty.items = <<>>
BY DEF Empty, Fields

LEMMA CancelsKeeps ==
  ASSUME AskedInv, SessionInv', NEW shows, Cancels(shows), Batch(shows),
         run' \in {run, None}, UNCHANGED <<takes, solves, history, shots>>
  PROVE  AskedInv'
<1>1. intake' = Empty /\ removed' = None /\ images' = shows
  BY DEF Cancels, Canceled
<1>2. Collects' /\ Fresher
  BY <1>1, EmptyHasFields, SameItems
<1>3. Batch(images)'
  BY <1>1 DEF Batch
<1>4. QED  BY <1>2, <1>3, FresherIsUnasked, CollectingKeeps DEF AskedInv

(* A step that changes no image but perhaps shows none. *)
LEMMA ImagesKeep ==
  ASSUME AskedInv, SessionInv', UNCHANGED <<shots, solves>>, takes' \subseteq takes, removed' \in {removed, None},
         DOMAIN intake' = Fields, intake'.items = intake.items, images' \in {images, <<>>},
         history' \subseteq history, run' \in {run, None}
  PROVE  AskedInv'
<1>1. Collects' /\ Fresher
  BY SameItems
<1>2. Batch(images)'
  BY NoImages DEF AskedInv, Batch
<1>3. QED  BY <1>1, <1>2, FresherIsUnasked, CollectingKeeps DEF AskedInv

LEMMA TakesKeep ==
  ASSUME AskedInv, SessionInv', NEW kind, NEW a, Takes(kind, a)
  PROVE  AskedInv'
<1>1. DOMAIN intake = Fields
  BY DEF AskedInv, Collects, Fields
<1>2. CASE UNCHANGED <<intake, capturing, takes, shots>>
  BY <1>1, <1>2, ImagesKeep DEF Takes, kept
<1>3. CASE ~UNCHANGED <<intake, capturing, takes, shots>>
  <2>1. PICK m \in Nat : m = shots
    BY DEF AskedInv
  <2>2. PICK t : t = [shot |-> m + 1, gen |-> generation, kind |-> kind]
    OBVIOUS
  <2>3. t.shot = m + 1
    BY <2>2
  <2>4. /\ shots' = m + 1 /\ takes' = takes \cup {t}
        /\ intake' = IF kind = "multiple" THEN Begin(intake, m + 1) ELSE Canceled(intake)
        /\ UNCHANGED <<run, images, solves, removed, history>>
    BY <1>3, <2>1, <2>2 DEF Takes, kept
  <2>5. DOMAIN intake' = Fields /\ intake'.items \in {intake.items, <<>>}
    BY <1>1, <2>4, EmptyHasFields, IntakeKeepsItems DEF Canceled
  <2>6. Waiting \subseteq 1 .. m /\ Range(intake.items) \subseteq 1 .. m
    BY <2>1, BatchRange DEF AskedInv, Collects, Batch
  <2>7. Waiting' = Waiting \cup {m + 1}
    BY <2>3, <2>4 DEF Waiting
  <2>8. Range(intake'.items) \subseteq Range(intake.items)
    BY <2>5 DEF Range
  <2>9. PICK q : q = intake'.items
    OBVIOUS
  <2>10. IsBatch(q, m + 1) /\ IsBatch(images, m + 1)
    <3>1. IsBatch(q, m) /\ IsBatch(images, m)
      BY <2>1, <2>5, <2>9, NoImages DEF AskedInv, Collects, Batch
    <3>2. QED  BY <3>1, MoreShots
  <2>11. \A u \in takes : u.shot \in 1 .. m
    BY <2>6 DEF Waiting
  <2>12. removed # None => removed.item \in 1 .. m
    BY <2>6 DEF Waiting
  <2>13. Waiting' \subseteq (1 .. shots') \ Range(intake'.items)
    BY <2>1, <2>4, <2>6, <2>7, <2>8 DEF AskedInv, Collects
  <2>14. Collects'
    <3>1. \A u, v \in takes' : u.shot = v.shot => u = v
      BY <2>3, <2>4, <2>11 DEF AskedInv, Collects
    <3>2. Batch(intake.items)'
      BY <2>4, <2>9, <2>10 DEF Batch
    <3>3. removed' # None => removed'.index \in Nat \ {0} /\ \A u \in takes' : u.shot # removed'.item
      BY <2>3, <2>4, <2>12 DEF AskedInv, Collects
    <3>4. QED  BY <2>5, <2>13, <3>1, <3>2, <3>3 DEF Collects, Fields
  <2>15. Fresher
    BY <2>1, <2>4, <2>7, <2>8 DEF Fresher, Unasked
  <2>16. Batch(images)'
    BY <2>4, <2>10 DEF Batch
  <2>17. QED  BY <2>1, <2>4, <2>14, <2>15, <2>16, FresherIsUnasked, CollectingKeeps
<1>4. QED  BY <1>2, <1>3

(* An image that waits comes into the collection. *)
LEMMA ImageCollected ==
  ASSUME AskedInv, UNCHANGED shots, takes' \subseteq takes, removed' \in {removed, None},
         DOMAIN intake' = Fields, Batch(intake'.items), NEW x \in Waiting, x \notin Waiting',
         Range(intake'.items) \subseteq Range(intake.items) \cup {x}
  PROVE  Collects' /\ Fresher
<1>1. Waiting' \subseteq Waiting
  BY DEF Waiting
<1>2. Fresher
  BY <1>1 DEF Fresher, Unasked
<1>3. Waiting' \subseteq (1 .. shots') \ Range(intake'.items)
  BY <1>1 DEF AskedInv, Collects
<1>4. QED  BY <1>2, <1>3 DEF AskedInv, Collects, Fields, Batch

LEMMA CapturedKeeps ==
  ASSUME AskedInv, SessionInv', NEW t \in takes, Captured(t)
  PROVE  AskedInv'
<1>1. DOMAIN intake = Fields /\ shots \in Nat /\ Batch(intake.items)
  BY DEF AskedInv, Collects, Fields
<1>2. takes' = takes \ {t} /\ UNCHANGED <<run, removed, history, shots>>
  BY DEF Captured, kept
<1>3. t.shot \in Waiting /\ t.shot \notin Waiting' /\ t.shot \in (1 .. shots) \ Range(intake.items)
  <2>1. t.shot \in Waiting
    BY DEF Waiting
  <2>2. t.shot \notin Waiting'
    BY <1>2 DEF Waiting, AskedInv, Collects
  <2>3. QED  BY <2>1, <2>2 DEF AskedInv, Collects
<1>4. PICK x : x = t.shot
  OBVIOUS
<1>5. CASE ~Fresh(t)
  BY <1>1, <1>2, <1>5, ImagesKeep DEF Captured
<1>6. CASE Fresh(t) /\ t.kind = "multiple"
  <2>1. intake' = Finish(intake, x, x) /\ images' = intake'.items /\ UNCHANGED solves
    BY <1>4, <1>6 DEF Captured
  <2>2. DOMAIN intake' = Fields /\ intake'.items \in {intake.items, Append(intake.items, x)}
    BY <1>1, <2>1, FinishAppends
  <2>3. Batch(intake'.items) /\ Range(intake'.items) \subseteq Range(intake.items) \cup {x}
    <3>1. PICK q : q = intake.items
      OBVIOUS
    <3>2. Batch(Append(q, x)) /\ Range(Append(q, x)) = Range(q) \cup {x}
      BY <1>1, <1>3, <1>4, <3>1, AnotherImage DEF Batch
    <3>3. CASE intake'.items = q
      BY <1>1, <3>1, <3>3
    <3>4. CASE intake'.items = Append(q, x)
      BY <3>1, <3>2, <3>4
    <3>5. QED  BY <2>2, <3>1, <3>3, <3>4
  <2>4. Collects' /\ Fresher
    BY <1>2, <1>3, <1>4, <2>2, <2>3, ImageCollected
  <2>5. Batch(images)'
    BY <1>2, <2>1, <2>3 DEF Batch
  <2>6. QED  BY <1>1, <1>2, <2>1, <2>4, <2>5, FresherIsUnasked, CollectingKeeps
<1>7. CASE Fresh(t) /\ t.kind # "multiple"
  <2>1. PICK mode : Asks(<<x>>, "solve", mode)
    BY <1>4, <1>7 DEF Captured
  <2>2. DOMAIN intake' = Fields /\ intake'.items = <<>>
    BY <2>1, EmptyHasFields DEF Asks, Canceled
  <2>3. Collects' /\ Fresher
    BY <1>2, <2>2, SameItems
  <2>4. Batch(<<x>>)' /\ Range(<<x>>) = {x}
    BY <1>1, <1>2, <1>3, <1>4, OneImage DEF Batch
  <2>5. x \notin Used /\ x \notin Unasked'
    BY <1>3, <1>4, <2>2 DEF AskedInv, Unasked, Range
  <2>6. QED  BY <1>1, <1>2, <2>1, <2>3, <2>4, <2>5, AsksKeeps
<1>8. QED  BY <1>5, <1>6, <1>7

LEMMA SubmitKeeps ==
  ASSUME AskedInv, SessionInv', NEW force \in BOOLEAN, Submit(force)
  PROVE  AskedInv'
<1>1. PICK q : q = intake.items
  OBVIOUS
<1>2. Asks(q, "solve", "tutor") /\ UNCHANGED <<run, takes, removed, history, shots>>
  BY <1>1 DEF Submit, kept
<1>3. DOMAIN intake' = Fields /\ intake'.items = <<>>
  BY <1>2, EmptyHasFields DEF Asks, Canceled
<1>4. Collects' /\ Fresher
  BY <1>2, <1>3, SameItems
<1>5. Batch(q)' /\ shots \in Nat
  BY <1>1, <1>2 DEF AskedInv, Collects, Batch
<1>6. Range(q) \cap Used = {}
  BY <1>1 DEF AskedInv, Unasked
<1>7. Range(q) \cap Unasked' = {}
  <2>1. Unasked' = Waiting'
    BY <1>3 DEF Unasked, Range
  <2>2. Waiting' = Waiting
    BY <1>2 DEF Waiting
  <2>3. QED  BY <1>1, <2>1, <2>2 DEF AskedInv, Collects
<1>8. QED  BY <1>2, <1>4, <1>5, <1>6, <1>7, AsksKeeps

LEMMA RemoveImageKeeps ==
  ASSUME AskedInv, SessionInv', NEW k \in DOMAIN intake.items, RemoveImage(k)
  PROVE  AskedInv'
<1>1. DOMAIN intake = Fields /\ shots \in Nat /\ Batch(intake.items)
  BY DEF AskedInv, Collects, Fields
<1>2. PICK q : q = intake.items
  OBVIOUS
<1>3. PICK r : r = RemoveAt(q, k)
  OBVIOUS
<1>4. PICK rest : rest = Reset([intake EXCEPT !.items = r])
  OBVIOUS
<1>5. DOMAIN rest = Fields /\ rest.items = r
  BY <1>1, <1>4, ItemsReplaced
<1>6. intake' = rest \/ intake' = Preview(rest, FALSE)
  BY <1>2, <1>3, <1>4 DEF RemoveImage
<1>7. DOMAIN intake' = Fields /\ intake'.items = r
  <2>1. DOMAIN Preview(rest, FALSE) = Fields /\ Preview(rest, FALSE).items = rest.items
    BY <1>5, IntakeKeepsItems
  <2>2. QED  BY <1>5, <1>6, <2>1
<1>8. Batch(r) /\ Range(r) \subseteq Range(q) \ {q[k]}
  BY <1>1, <1>2, <1>3, OneImageLess DEF Batch
<1>9. k \in Nat \ {0} /\ q[k] \in Range(q) /\ Range(q) \subseteq 1 .. shots
  <2>1. k \in 1 .. Len(q) /\ Len(q) \in Nat
    BY <1>1, <1>2 DEF Batch, IsBatch
  <2>2. QED  BY <1>1, <1>2, <2>1, BatchRange DEF Batch, Range
<1>10. PICK old : old = [item |-> q[k], index |-> k]
  OBVIOUS
<1>11. old.item = q[k] /\ old.index = k
  BY <1>10
<1>12. removed' = old /\ images' = r /\ UNCHANGED <<run, takes, solves, history, shots>>
  BY <1>2, <1>7, <1>10 DEF RemoveImage, Collection, kept
<1>13. \A t \in takes : t.shot \in (1 .. shots) \ Range(q)
  BY <1>2 DEF AskedInv, Collects, Waiting
<1>14. Waiting' \subseteq {t.shot : t \in takes} \cup {q[k]}
  BY <1>11, <1>12 DEF Waiting
<1>15. Waiting' \subseteq (1 .. shots') \ Range(intake'.items)
  BY <1>7, <1>8, <1>9, <1>12, <1>13, <1>14
<1>16. Collects'
  <2>1. Batch(intake.items)'
    BY <1>7, <1>8, <1>12 DEF Batch
  <2>2. removed' # None => removed'.index \in Nat \ {0} /\ \A t \in takes' : t.shot # removed'.item
    BY <1>9, <1>11, <1>12, <1>13
  <2>3. QED  BY <1>7, <1>12, <1>15, <2>1, <2>2 DEF AskedInv, Collects, Fields
<1>17. Fresher
  BY <1>2, <1>7, <1>8, <1>9, <1>14 DEF Fresher, Unasked, Waiting
<1>18. Batch(images)'
  BY <1>8, <1>12 DEF Batch
<1>19. QED  BY <1>1, <1>12, <1>16, <1>17, <1>18, FresherIsUnasked, CollectingKeeps

LEMMA UndoKeeps ==
  ASSUME AskedInv, SessionInv', Undo
  PROVE  AskedInv'
<1>1. DOMAIN intake = Fields /\ shots \in Nat /\ Batch(intake.items)
  BY DEF AskedInv, Collects, Fields
<1>2. PICK q : q = intake.items
  OBVIOUS
<1>3. Len(q) \in Nat
  BY <1>1, <1>2 DEF Batch, IsBatch
<1>4. removed # None /\ removed.index \in Nat \ {0}
  BY DEF AskedInv, Collects, Undo
<1>5. PICK x : x = removed.item
  OBVIOUS
<1>6. x \in Waiting /\ x \in (1 .. shots) \ Range(q)
  BY <1>2, <1>4, <1>5 DEF AskedInv, Collects, Waiting
<1>7. PICK place : place = IF removed.index > Len(q) THEN Len(q) + 1 ELSE removed.index
  OBVIOUS
<1>8. place \in 1 .. (Len(q) + 1)
  BY <1>3, <1>4, <1>7
<1>9. PICK r : r = InsertAt(q, place, x)
  OBVIOUS
<1>10. Batch(r) /\ Range(r) \subseteq Range(q) \cup {x}
  BY <1>1, <1>2, <1>6, <1>8, <1>9, OneImageBack DEF Batch
<1>11. intake' = Reset([intake EXCEPT !.items = r])
  BY <1>2, <1>5, <1>7, <1>9 DEF Undo
<1>12. DOMAIN intake' = Fields /\ intake'.items = r
  BY <1>1, <1>11, ItemsReplaced
<1>13. removed' = None /\ images' = r /\ UNCHANGED <<run, takes, solves, history, shots>>
  BY <1>12 DEF Undo, PutBack, Collection, kept
<1>14. x \notin Waiting'
  BY <1>4, <1>5, <1>13 DEF AskedInv, Collects, Waiting
<1>15. Collects' /\ Fresher
  BY <1>2, <1>6, <1>10, <1>12, <1>13, <1>14, ImageCollected
<1>16. Batch(images)'
  BY <1>10, <1>13 DEF Batch
<1>17. QED  BY <1>1, <1>13, <1>15, <1>16, FresherIsUnasked, CollectingKeeps

LEMMA FollowUpKeeps ==
  ASSUME AskedInv, SessionInv', NEW op \in {"recover", "explain"}, FollowUp(op)
  PROVE  AskedInv'
<1>1. Asks(images, op, "tutor") /\ UNCHANGED <<run, takes, removed, history, shots>>
  BY DEF FollowUp, kept
<1>2. DOMAIN intake' = Fields /\ intake'.items = <<>>
  BY <1>1, EmptyHasFields DEF Asks, Canceled
<1>3. Collects' /\ Fresher
  BY <1>1, <1>2, SameItems
<1>4. Batch(images) /\ shots \in Nat
  BY DEF AskedInv
<1>5. PICK q : q = images
  OBVIOUS
<1>6. Batch(q)'
  BY <1>1, <1>4, <1>5 DEF Batch
<1>7. QED  BY <1>1, <1>3, <1>4, <1>5, <1>6, AsksKeeps

LEMMA PollTriggersKeeps ==
  ASSUME AskedInv, SessionInv', PollTriggers
  PROVE  AskedInv'
<1>1. PICK m \in Nat : m = shots
  BY DEF AskedInv
<1>2. PICK x \in Nat : x = m + 1
  OBVIOUS
<1>3. Asks(<<x>>, "solve", "tutor") /\ shots' = x /\ UNCHANGED <<run, takes, removed, history>>
  BY <1>1, <1>2 DEF PollTriggers, kept
<1>4. DOMAIN intake' = Fields /\ intake'.items = <<>>
  BY <1>3, EmptyHasFields DEF Asks, Canceled
<1>5. Waiting' = Waiting /\ Waiting \subseteq 1 .. m
  BY <1>1, <1>3 DEF Waiting, AskedInv, Collects
<1>6. Batch(<<x>>)' /\ Range(<<x>>) = {x}
  BY <1>2, <1>3, OneImage DEF Batch
<1>7. Unasked' = Waiting /\ Range(intake'.items) = {}
  BY <1>4, <1>5 DEF Unasked, Range
<1>8. Collects'
  <2>1. Batch(intake.items)'
    BY <1>3, <1>4, NoImages DEF Batch
  <2>2. Waiting' \subseteq (1 .. shots') \ Range(intake'.items)
    BY <1>1, <1>2, <1>3, <1>5, <1>7
  <2>3. QED  BY <1>3, <1>4, <2>1, <2>2 DEF AskedInv, Collects, Fields
<1>9. Fresher
  BY <1>7 DEF Fresher, Unasked
<1>10. x \notin Used
  BY <1>1, <1>2, BatchRange DEF AskedInv, Alone, Used, Batch
<1>11. QED  BY <1>1, <1>2, <1>3, <1>5, <1>6, <1>7, <1>8, <1>9, <1>10, AsksKeeps

LEMMA SessionKeepsAsked ==
  ASSUME AskedInv, SessionInv', SessionNext
  PROVE  AskedInv'
<1>1. /\ DOMAIN intake = Fields /\ shots \in Nat
      /\ Batch(images) /\ Batch(<<>>) /\ \A h \in history : Batch(h.images)
  BY NoImages DEF AskedInv, Collects, Fields, Batch
<1>2. CASE Cancel
  <2>1. PICK shows : Cancels(shows) /\ shows \in {images, <<>>}
    BY <1>2 DEF Cancel
  <2>2. QED  BY <1>1, <1>2, <2>1, CancelsKeeps DEF Cancel, kept
<1>3. CASE ToggleAuto
  <2>1. CASE auto = "inactive"  BY <1>3, <2>1, TakesKeep DEF ToggleAuto
  <2>2. CASE auto # "inactive"  BY <1>1, <1>3, <2>2, ImagesKeep DEF ToggleAuto, kept
  <2>3. QED  BY <2>1, <2>2
<1>4. CASE \E kind \in Kinds : Take(kind)
  <2>1. PICK kind \in Kinds : Take(kind)  BY <1>4
  <2>2. CASE kind # "single" /\ active # None
    BY <1>1, <2>1, <2>2, CancelsKeeps DEF Take, kept
  <2>3. CASE ~(kind # "single" /\ active # None)
    BY <2>1, <2>3, TakesKeep DEF Take
  <2>4. QED  BY <2>2, <2>3
<1>5. CASE \E t \in takes : Captured(t)
  BY <1>5, CapturedKeeps
<1>6. CASE \E t \in takes : CaptureFails(t)
  <2>1. PICK t \in takes : CaptureFails(t)  BY <1>6
  <2>2. DOMAIN intake' = Fields /\ intake'.items = intake.items
    BY <1>1, <2>1, IntakeKeepsItems DEF CaptureFails
  <2>3. QED  BY <2>1, <2>2, ImagesKeep DEF CaptureFails, kept
<1>7. CASE \E force \in BOOLEAN : Submit(force)
  BY <1>7, SubmitKeeps
<1>8. CASE \E k \in DOMAIN intake.items : RemoveImage(k)
  BY <1>8, RemoveImageKeeps
<1>9. CASE Undo  BY <1>9, UndoKeeps
<1>10. CASE UndoExpires
  BY <1>1, <1>10, ImagesKeep DEF UndoExpires, Collection, kept
<1>11. CASE OpenPreview
  <2>1. DOMAIN intake' = Fields /\ intake'.items = intake.items
    BY <1>1, <1>11, IntakeKeepsItems DEF OpenPreview
  <2>2. QED  BY <1>11, <2>1, ImagesKeep DEF OpenPreview, Collection, kept
<1>12. CASE ClosePreview
  <2>1. DOMAIN intake' = Fields /\ intake'.items = intake.items
    BY <1>1, <1>12, IntakeKeepsItems DEF ClosePreview
  <2>2. QED  BY <1>12, <2>1, ImagesKeep DEF ClosePreview, Collection, kept
<1>13. CASE \E s \in solves : SolveNext(s)
  BY <1>13, SolveKeepsAsked
<1>14. CASE \E op \in {"recover", "explain"} : FollowUp(op)
  BY <1>14, FollowUpKeeps
<1>15. CASE CheckSettlement
  <2>1. SameRun(run')
    BY <1>15, SettledIsSame DEF CheckSettlement, AskedInv, Runs
  <2>2. UNCHANGED <<solves, history, shots>> /\ Asking
    BY <1>15 DEF CheckSettlement, Asking
  <2>3. Runs' \subseteq FrozenRun /\ Kept' \subseteq Kept /\ Open' \subseteq Open
    BY <2>1, <2>2 DEF Kept, Runs, Open, SameRun, AskedInv
  <2>4. Alone' /\ Used' \subseteq Used
    BY <1>1, <2>2, <2>3, NothingAsked DEF AskedInv
  <2>5. QED  BY <1>1, <2>2, <2>3, <2>4, AnsweringKeeps DEF AskedInv
<1>16. CASE ClearQuestion
  BY <1>1, <1>16, CancelsKeeps DEF ClearQuestion, kept
<1>17. CASE ClearHistory
  BY <1>1, <1>17, ImagesKeep DEF ClearHistory, Asking
<1>18. CASE SaveSettings
  BY <1>1, <1>18, ImagesKeep DEF SaveSettings, Asking
<1>19. CASE Restored  BY <1>19, RestoredKeeps
<1>20. CASE ExpireShown
  BY <1>1, <1>20, ImagesKeep DEF ExpireShown
<1>21. CASE \E h \in history : ReadHistory(h)
  BY <1>1, <1>21, CancelsKeeps DEF ReadHistory, kept
<1>22. CASE StartPoll \/ PollRests \/ ReviewEnds
  BY <1>1, <1>22, ImagesKeep DEF StartPoll, PollRests, ReviewEnds, Automatic, kept
<1>23. CASE PollTriggers  BY <1>23, PollTriggersKeeps
<1>24. QED
  BY <1>2, <1>3, <1>4, <1>5, <1>6, <1>7, <1>8, <1>9, <1>10, <1>11, <1>12, <1>13, <1>14, <1>15,
     <1>16, <1>17, <1>18, <1>19, <1>20, <1>21, <1>22, <1>23 DEF SessionNext

(* What the desktop knows of images, at every step: an image waits, is collected or was asked by *)
(* one question, and by that one alone.                                                          *)
THEOREM AskedInvariant == SessionSpec => []AskedInv
<1>1. SessionInit => AskedInv
  <2> SUFFICES ASSUME SessionInit PROVE AskedInv
    OBVIOUS
  <2>1. SessionInv /\ shots = 0 /\ Runs = {} /\ Kept = {} /\ Open = {} /\ Waiting = {}
    BY DEF SessionInit, SessionInv, Runs, Kept, Open, Waiting
  <2>2. Batch(<<>>) /\ Used = {} /\ Alone
    BY <2>1, NoImages DEF Batch, Used, Alone
  <2>3. Collects /\ Unasked = {}
    BY <2>1, <2>2, EmptyHasFields DEF SessionInit, Collects, Fields, Unasked, Range
  <2>4. QED  BY <2>1, <2>2, <2>3 DEF SessionInit, AskedInv
<1>2. AskedInv /\ [SessionNext]_sessionVars => AskedInv'
  <2> SUFFICES ASSUME AskedInv, [SessionNext]_sessionVars PROVE AskedInv'
    OBVIOUS
  <2>1. SessionInv'
    BY SessionStep DEF AskedInv
  <2>2. CASE SessionNext  BY <2>1, <2>2, SessionKeepsAsked
  <2>3. CASE UNCHANGED sessionVars
    <3>1. DOMAIN intake = Fields
      BY DEF AskedInv, Collects, Fields
    <3>2. QED  BY <2>1, <2>3, <3>1, ImagesKeep DEF sessionVars
  <2>4. QED  BY <2>2, <2>3
<1>3. QED  BY <1>1, <1>2, PTL DEF SessionSpec

(* No image is asked twice (Intake and solve of main.mjs): not by a deadline and a button, not  *)
(* after it was removed and put back, and not by a poll, however captures and cancels overlap.  *)
THEOREM EachImageOnce == SessionSpec => []AskedOnce
<1>1. ASSUME AskedInv PROVE AskedOnce
  <2>1. \A s \in solves : IsInjective(s.batch)
    BY <1>1 DEF AskedInv, Told, Batch, IsBatch
  <2>2. ASSUME NEW h1 \in history, NEW h2 \in history, h1.by # h2.by
        PROVE  Apart(h1.of, h2.of)
    <3>1. PICK p : p = Pair(h1.by, h1.of)
      OBVIOUS
    <3>2. PICK q : q = Pair(h2.by, h2.of)
      OBVIOUS
    <3>3. p \in Kept /\ q \in Kept /\ p.by = h1.by /\ q.by = h2.by /\ p.of = h1.of /\ q.of = h2.of
      BY <3>1, <3>2 DEF Kept, Pair
    <3>4. QED  BY <1>1, <2>2, <3>3 DEF AskedInv, Alone
  <2>3. QED  BY <2>1, <2>2 DEF AskedOnce, Apart
<1>2. QED  BY <1>1, AskedInvariant, PTL
=============================================================================
