---------------------------- MODULE OfficialClient ----------------------------
(***************************************************************************)
(* The account of a desktop installation (desktop/core/official.mjs and    *)
(* the Vault of desktop/platform/storage.mjs): its registration, the       *)
(* snapshots of its balance, the restore of another device by its recovery *)
(* code, the trial and the requests of a run.                              *)
(*                                                                         *)
(* All of these await answers of one server at the same time.  An answer   *)
(* may be lost, before or after the server acted, and the process may end  *)
(* at any time.  A canceled task has no further effect, so canceling is    *)
(* losing.  An owner is the generation and the token a task began under.   *)
(* The vault may fail to be read or written; a write that fails may have   *)
(* reached the file, for it is verified by reading it back.                *)
(***************************************************************************)
EXTENDS Integers, FiniteSets, Null

CONSTANTS
  Devices,       \* tokens the server may give out or has given out
  Elsewhere,     \* those of other installations, whose recovery codes the user knows
  MaxBalance,    \* bound of the balance version of a device
  MaxRestores,   \* bound of the restores of a process
  MaxLosses      \* bound of lost answers, refused requests, failed writes and ends of the process

ASSUME OfficialAssumption ==
  /\ Elsewhere \subseteq Devices
  /\ MaxBalance \in Nat /\ MaxRestores \in Nat /\ MaxLosses \in Nat
  /\ None \notin Devices \cup Nat

Tasks == {"register", "restore", "trial", "run"}

VARIABLES
  vault,            \* the stored token and registration attempt
  token,            \* the token in use
  ownerGeneration,  \* how many restores the process has made
  account,          \* the snapshot shown: of which device, and its balance version
  plus,             \* the subscription shown: of which device
  task,             \* what each task awaits; None when it does not run
  refresh,          \* the refresh of each generation, likewise
  registered,       \* the server's devices by registration attempt
  balance,          \* the balance version of each device at the server
  unread,           \* how many processes began without reading the device that was stored
  startupError,     \* whether something could not be read when the process began
  replaced,         \* the device that was in use until a run read the vault again
  lossesLeft

officialVars ==
  <<vault, token, ownerGeneration, account, plus, task, refresh,
    registered, balance, unread, startupError, replaced, lossesLeft>>
shown == <<account, plus>>
identity == <<vault, token, ownerGeneration>>
service == <<registered, balance>>
startup == <<unread, startupError, replaced>>

OfficialInit ==
  /\ vault = [device |-> None, attempt |-> None]
  /\ token = None /\ ownerGeneration = 0
  /\ account = None /\ plus = None
  /\ task = [k \in Tasks |-> None]
  /\ refresh = [g \in 0 .. MaxRestores |-> None]
  /\ registered = {}
  /\ balance = [d \in Devices |-> 0]
  /\ unread = 0 /\ startupError = FALSE /\ replaced = None
  /\ lossesLeft = MaxLosses

Owner == [generation |-> ownerGeneration, token |-> token]
Snapshot(d) == [of |-> d, version |-> balance[d]]

(* What a task awaits, for which owner and device, and the answer once the server gave it. *)
Awaits(pc, owner, device) == [pc |-> pc, owner |-> owner, device |-> device, answer |-> None]
Running(t, pc) == t # None /\ t.pc = pc

Ends(k) == task' = [task EXCEPT ![k] = None]
Loses == lossesLeft > 0 /\ lossesLeft' = lossesLeft - 1

(* Defective variant: the owner is not compared. *)
AcceptsOfAnyOwner(v, owner) == account = None \/ v.version >= account.version

(* Defective variant: the versions are not compared. *)
AcceptsAnyVersion(v, owner) == owner = Owner

(* apply *)
Accepts(v, owner) == owner = Owner /\ (account = None \/ v.version >= account.version)

Shows(v, owner) == account' = IF Accepts(v, owner) THEN v ELSE account

-----------------------------------------------------------------------------
(* register.  A task that needs a token waits for the one registration there is. *)

Registering(t) ==
  IF token = None /\ t["register"] = None
  THEN /\ vault' = IF vault.attempt = None THEN [vault EXCEPT !.attempt = Cardinality(registered)] ELSE vault
       /\ task' = [t EXCEPT !["register"] = Awaits("answer", Owner, None)]
  ELSE UNCHANGED vault /\ task' = t

(* The server registers an attempt once. *)
ServeRegister ==
  LET t == task["register"] IN
  /\ Running(t, "answer") /\ t.answer = None
  /\ LET known == {r \in registered : r.attempt = vault.attempt} IN
       \/ /\ known = {}
          /\ \E d \in Devices \ Elsewhere :
               /\ \A r \in registered : r.device # d
               /\ registered' = registered \cup {[attempt |-> vault.attempt, device |-> d]}
               /\ task' = [task EXCEPT !["register"].answer = Snapshot(d)]
       \/ /\ UNCHANGED registered
          /\ \E r \in known : task' = [task EXCEPT !["register"].answer = Snapshot(r.device)]
  /\ UNCHANGED <<identity, shown, refresh, balance, startup, lossesLeft>>

(* Defective variant: the answer is taken whatever happened since. *)
TakesRegistrationAlways(t) == TRUE

TakesRegistration(t) == t.owner = Owner

(* Defective variant: the attempt is forgotten although the token was not stored. *)
UnstoredForgets == [vault EXCEPT !.attempt = None]

(* What becomes of the attempt when the token could not be stored. *)
Unstored == vault

(* The token is stored, used, and then the attempt is forgotten; either write may fail. *)
HandleRegister ==
  LET t == task["register"] IN
  /\ Running(t, "answer") /\ t.answer # None
  /\ Ends("register")
  /\ \/ /\ TakesRegistration(t)
        /\ token' = t.answer.of
        /\ account' = t.answer
        /\ \/ /\ vault' = [device |-> t.answer.of, attempt |-> None]
              /\ UNCHANGED lossesLeft
           \/ vault' = [vault EXCEPT !.device = t.answer.of] /\ Loses
     \/ /\ TakesRegistration(t) /\ Loses
        /\ vault' \in {Unstored, [Unstored EXCEPT !.device = t.answer.of]}
        /\ UNCHANGED <<token, account>>
     \/ /\ ~TakesRegistration(t)
        /\ UNCHANGED <<vault, token, account, lossesLeft>>
  /\ UNCHANGED <<ownerGeneration, plus, refresh, service, startup>>

LoseRegister ==
  /\ task["register"] # None /\ Loses
  /\ Ends("register")
  /\ UNCHANGED <<identity, shown, refresh, service, startup>>

-----------------------------------------------------------------------------
(* refresh: one of each generation at a time. *)

Refreshing == IF refresh[ownerGeneration] # None THEN refresh
              ELSE [refresh EXCEPT ![ownerGeneration] = Awaits("register", None, None)]

StartRefresh ==
  /\ refresh[ownerGeneration] = None
  /\ refresh' = Refreshing
  /\ Registering(task)
  /\ UNCHANGED <<token, ownerGeneration, shown, service, startup, lossesLeft>>

(* Whoever waits for a refresh that does not fail may forget the startup error: the account page *)
(* and the refresh command do, the guide and a run do not.                                       *)
Recovers(ok) == IF ok THEN startupError' \in {startupError, FALSE} ELSE UNCHANGED startupError

(* It goes on when the registration has ended, and ends without a token. *)
RefreshRegistered(g) ==
  /\ Running(refresh[g], "register") /\ task["register"] = None
  /\ refresh' = [refresh EXCEPT ![g] =
       IF token # None /\ g = ownerGeneration THEN Awaits("answer", Owner, token) ELSE None]
  /\ Recovers(token # None /\ g # ownerGeneration)
  /\ UNCHANGED <<identity, shown, task, service, unread, replaced, lossesLeft>>

ServeRefresh(g) ==
  /\ Running(refresh[g], "answer") /\ refresh[g].answer = None
  /\ refresh' = [refresh EXCEPT ![g].answer = Snapshot(refresh[g].device)]
  /\ UNCHANGED <<identity, shown, task, service, startup, lossesLeft>>

HandleRefresh(g) ==
  /\ Running(refresh[g], "answer") /\ refresh[g].answer # None
  /\ Shows(refresh[g].answer, refresh[g].owner)
  /\ plus' = IF refresh[g].owner = Owner THEN refresh[g].device ELSE plus
  /\ refresh' = [refresh EXCEPT ![g] = None]
  /\ Recovers(TRUE)
  /\ UNCHANGED <<identity, task, service, unread, replaced, lossesLeft>>

(* A request that is refused with 401 clears the snapshot of its token. *)
Refused(device) == account' = IF device = token THEN None ELSE account

LoseRefresh(g) ==
  /\ Running(refresh[g], "answer") /\ Loses
  /\ Refused(refresh[g].device) \/ UNCHANGED account
  /\ refresh' = [refresh EXCEPT ![g] = None]
  /\ Recovers(refresh[g].owner # Owner)
  /\ UNCHANGED <<identity, plus, task, service, unread, replaced>>

-----------------------------------------------------------------------------
(* claimTrial and restore.  The settings run one of them at a time, but the guide may claim *)
(* the trial beside them.                                                                   *)

ClaimTrial ==
  /\ task["trial"] = None
  /\ Registering([task EXCEPT !["trial"] = Awaits("register", None, None)])
  /\ UNCHANGED <<token, ownerGeneration, shown, refresh, service, startup, lossesLeft>>

TrialRegistered ==
  /\ Running(task["trial"], "register") /\ task["register"] = None
  /\ task' = [task EXCEPT !["trial"] = IF token # None THEN Awaits("answer", Owner, token) ELSE None]
  /\ UNCHANGED <<identity, shown, refresh, service, startup, lossesLeft>>

(* The server answers with the snapshot after the trial or the charge. *)
ServeChange(k) ==
  LET t == task[k] IN
  /\ k \in {"trial", "run"} /\ Running(t, "answer") /\ t.answer = None
  /\ balance[t.device] < MaxBalance
  /\ balance' = [balance EXCEPT ![t.device] = @ + 1]
  /\ task' = [task EXCEPT ![k].answer = [of |-> t.device, version |-> balance[t.device] + 1]]
  /\ UNCHANGED <<identity, shown, refresh, registered, startup, lossesLeft>>

HandleTrial ==
  LET t == task["trial"] IN
  /\ Running(t, "answer") /\ t.answer # None
  /\ Shows(t.answer, t.owner)
  /\ Ends("trial")
  /\ refresh' = Refreshing
  /\ UNCHANGED <<identity, plus, service, startup, lossesLeft>>

(* Not while a capture is active. *)
Restore(d) ==
  /\ task["restore"] = None /\ task["run"] = None
  /\ ownerGeneration < MaxRestores
  /\ task' = [task EXCEPT !["restore"] = Awaits("answer", Owner, d)]
  /\ UNCHANGED <<identity, shown, refresh, service, startup, lossesLeft>>

ServeRestore ==
  /\ Running(task["restore"], "answer") /\ task["restore"].answer = None
  /\ task' = [task EXCEPT !["restore"].answer = Snapshot(task["restore"].device)]
  /\ UNCHANGED <<identity, shown, refresh, service, startup, lossesLeft>>

HandleRestore ==
  LET t == task["restore"] IN
  /\ Running(t, "answer") /\ t.answer # None
  /\ Ends("restore")
  /\ \/ /\ t.owner = Owner
        /\ vault' = [vault EXCEPT !.device = t.device]
        /\ token' = t.device
        /\ ownerGeneration' = ownerGeneration + 1
        /\ account' = t.answer
        /\ plus' = None /\ replaced' = None
        /\ refresh' = [refresh EXCEPT ![ownerGeneration + 1] = Awaits("register", None, None)]
        /\ UNCHANGED lossesLeft
     \/ /\ t.owner = Owner /\ Loses
        /\ vault' = [vault EXCEPT !.device = t.device]
        /\ UNCHANGED <<token, ownerGeneration, shown, refresh, replaced>>
     \/ /\ t.owner # Owner
        /\ UNCHANGED <<identity, shown, refresh, replaced, lossesLeft>>
  /\ UNCHANGED <<service, unread, startupError>>

LoseAction(k) ==
  /\ k \in {"trial", "restore"} /\ Running(task[k], "answer") /\ Loses
  /\ Refused(task[k].device) \/ UNCHANGED account
  /\ Ends(k)
  /\ UNCHANGED <<identity, plus, refresh, service, startup>>

-----------------------------------------------------------------------------
(* A run: freeze, stream and, after a failure, status. *)

(* After a startup error the first run calls initialize again; while that fails, no run starts. *)
StartRun ==
  LET t == [task EXCEPT !["run"] = Awaits("register", None, None)] IN
  /\ task["run"] = None
  /\ IF startupError /\ vault.device # None
     THEN /\ token' = vault.device
          /\ replaced' = IF token \in {None, vault.device} THEN replaced ELSE token
          /\ task' = t /\ UNCHANGED vault
     ELSE Registering(t) /\ UNCHANGED <<token, replaced>>
  /\ startupError' = FALSE
  /\ UNCHANGED <<ownerGeneration, shown, refresh, service, unread, lossesLeft>>

RunRegistered ==
  /\ Running(task["run"], "register") /\ task["register"] = None
  /\ IF token = None
     THEN Ends("run") /\ UNCHANGED refresh
     ELSE IF account = None
     THEN /\ task' = [task EXCEPT !["run"] = Awaits("refresh", Owner, None)]
          /\ refresh' = Refreshing
     ELSE task' = [task EXCEPT !["run"] = Awaits("answer", Owner, token)] /\ UNCHANGED refresh
  /\ UNCHANGED <<identity, shown, service, startup, lossesLeft>>

(* The run is frozen for whoever owns the account now. *)
RunRefreshed ==
  LET t == task["run"] IN
  /\ Running(t, "refresh") /\ refresh[t.owner.generation] = None
  /\ Ends("run") \/ task' = [task EXCEPT !["run"] = Awaits("answer", Owner, token)]
  /\ UNCHANGED <<identity, shown, refresh, service, startup, lossesLeft>>

(* assertOwner, before the receipt is applied. *)
HandleRun ==
  LET t == task["run"] IN
  /\ t # None /\ t.pc \in {"answer", "status"} /\ t.answer # None
  /\ IF t.owner = Owner THEN Shows(t.answer, t.owner) ELSE UNCHANGED account
  /\ Ends("run")
  /\ UNCHANGED <<identity, plus, refresh, service, startup, lossesLeft>>

(* A failed run asks for its settlement, once, if the account is still the same. *)
LoseRun ==
  LET t == task["run"] IN
  /\ t # None /\ t.pc \in {"answer", "status"} /\ Loses
  /\ (t.owner = Owner /\ Refused(t.device)) \/ UNCHANGED account
  /\ \/ Ends("run")
     \/ /\ t.pc = "answer" /\ t.owner = Owner
        /\ task' = [task EXCEPT !["run"] = Awaits("status", t.owner, t.device)]
  /\ UNCHANGED <<identity, plus, refresh, service, startup>>

ServeStatus ==
  /\ Running(task["run"], "status") /\ task["run"].answer = None
  /\ task' = [task EXCEPT !["run"].answer = Snapshot(task["run"].device)]
  /\ UNCHANGED <<identity, shown, refresh, service, startup, lossesLeft>>

-----------------------------------------------------------------------------
(* The process ends; the next one begins with initialize.  If the vault cannot be read then, *)
(* the program goes on without a token.  The history may be unreadable too.                   *)
Relaunch ==
  /\ Loses
  /\ \/ token' = vault.device /\ startupError' \in BOOLEAN /\ UNCHANGED unread
     \/ /\ vault.device # None /\ token' = None
        /\ startupError' = TRUE /\ unread' = unread + 1
  /\ replaced' = None
  /\ ownerGeneration' = 0
  /\ account' = None /\ plus' = None
  /\ task' = [k \in Tasks |-> None]
  /\ refresh' = [g \in 0 .. MaxRestores |-> None]
  /\ UNCHANGED <<vault, registered, balance>>

OfficialNext ==
  \/ ServeRegister \/ HandleRegister \/ LoseRegister
  \/ StartRefresh \/ ClaimTrial \/ TrialRegistered \/ HandleTrial
  \/ ServeRestore \/ HandleRestore
  \/ StartRun \/ RunRegistered \/ RunRefreshed \/ ServeStatus \/ HandleRun \/ LoseRun
  \/ Relaunch
  \/ \E g \in 0 .. MaxRestores :
       RefreshRegistered(g) \/ ServeRefresh(g) \/ HandleRefresh(g) \/ LoseRefresh(g)
  \/ \E k \in Tasks : ServeChange(k) \/ LoseAction(k)
  \/ \E d \in Elsewhere \cup {r.device : r \in registered} : Restore(d)

OfficialSpec == OfficialInit /\ [][OfficialNext]_officialVars

-----------------------------------------------------------------------------
(* Properties. *)

(* What is shown is of the device in use: no answer that was asked for another account, or     *)
(* before a restore, is shown after it.  Only when a run takes up the device that a restore    *)
(* stored and then failed to verify is the account of the device before it still shown.        *)
SnapshotsAreOurs ==
  /\ account # None => account.of \in {token, replaced}
  /\ plus # None => plus \in {token, replaced}

(* The installation registers once more at most for each process that could not read the       *)
(* device it had stored: lost answers, failed writes and other restarts cost no registration.  *)
OneRegistration == Cardinality(registered) <= 1 + unread

(* The device in use changes only by a restore, when the process is a new one, or to the stored *)
(* one after a startup error: a registration that answers late does not change it.  And the      *)
(* stored one is replaced only by a restore, or by the registration of a process without a      *)
(* token.                                                                                        *)
DeviceIsKept ==
  [][/\ token # None =>
          \/ token' = token
          \/ ownerGeneration' = ownerGeneration + 1
          \/ account' = None /\ UNCHANGED vault /\ token' \in {vault.device, None}
          \/ startupError /\ UNCHANGED vault /\ token' = vault.device
     /\ vault.device # None =>
          \/ vault'.device = vault.device
          \/ task["restore"] # None /\ vault'.device = task["restore"].device
          \/ token = None]_officialVars

(* A vault that cannot be read is no reason to open another account                             *)
(* (docs/windows/manual-acceptance.md:629).                                                     *)
NoAccountIsRebuilt == Cardinality(registered) <= 1

(* As long as nothing is restored, an older snapshot or receipt never replaces a newer one.    *)
BalanceNeverGoesBack ==
  [][account # None /\ account' # None /\ ownerGeneration' = ownerGeneration
       => account'.version >= account.version]_officialVars
=============================================================================
