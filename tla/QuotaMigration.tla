--------------------------- MODULE QuotaMigration ---------------------------
(***************************************************************************)
(* Moving the balances of old devices into the question ledger, while the  *)
(* service runs (server/src/quota-migration.ts, checkpointQuota and the    *)
(* admission check of billing-sql.ts, runBilling of db-postgres.ts, and    *)
(* the command line scripts/migrate-quota.mjs).                            *)
(*                                                                         *)
(* An operator pauses the admission of captures, waits until none runs,    *)
(* validates every device in batches, and resumes.  A resume starts with a *)
(* validation from nothing.  Several operators may run the command.        *)
(*                                                                         *)
(* The transactions of the service hold the control row shared, pause and  *)
(* resume hold it alone; a batch is one transaction, and so is everything  *)
(* of a device that only changes its balance.  A device is sound when its  *)
(* balance, lots, ledger and history agree; validated is true when the     *)
(* validated balance version is the device's current one.                  *)
(***************************************************************************)
EXTENDS Integers, FiniteSets, Null

CONSTANTS
  Operators,    \* runs of the command line
  Members,      \* devices
  Jobs,         \* captures, each of one device
  Releases,     \* digests of compatible server artifacts
  BatchSize,    \* devices of a batch
  MaxPauses,    \* bound on pauses
  MaxWrites     \* bound on balance changes and on writes of an old server

ASSUME MigrationAssumption ==
  /\ IsFiniteSet(Members)
  /\ {MaxPauses, MaxWrites} \subseteq Nat /\ BatchSize \in Nat \ {0}
  /\ None \notin Releases

VARIABLES
  control,   \* quota_migration_control
  member,    \* the devices with their checkpoint; None before the registration
  capture,   \* where each capture is: its transaction, its capture row, its model attempt
  operator,  \* where each run of the command line is
  spare      \* what is left of the bounds

migrationVars == <<control, member, capture, operator, spare>>

AtRest == [pc |-> "idle", command |-> None, revision |-> 0]

MigrationInit ==
  /\ control = [state |-> "active", revision |-> 0, release |-> None]
  /\ member \in [Members -> {None, [lots |-> FALSE, sound |-> TRUE, checkpoint |-> FALSE, validated |-> FALSE]}]
  /\ capture = [j \in Jobs |-> "new"]
  /\ operator = [o \in Operators |-> AtRest]
  /\ spare = [pauses |-> MaxPauses, writes |-> MaxWrites]

Consume(what) == /\ spare[what] > 0
                 /\ spare' = [spare EXCEPT ![what] = @ - 1]

Existing == {d \in Members : member[d] # None}

-----------------------------------------------------------------------------
(* The service. *)

(* register: the first lot and its checkpoint in one transaction; not validated. *)
Register(d) ==
  /\ member[d] = None
  /\ member' = [member EXCEPT ![d] = [lots |-> TRUE, sound |-> TRUE, checkpoint |-> TRUE, validated |-> FALSE]]
  /\ UNCHANGED <<control, capture, operator, spare>>

(* A purchase, a refund or a gift: it opens the ledger of the device if it must (opening, with *)
(* its checkpoint), which fails for one that is not sound, and changes the balance version.   *)
ChangesBalance(d) ==
  /\ member[d] # None /\ (member[d].lots \/ member[d].sound)
  /\ Consume("writes")
  /\ member' = [member EXCEPT ![d] = [lots |-> TRUE, sound |-> @.sound, checkpoint |-> TRUE, validated |-> FALSE]]
  /\ UNCHANGED <<control, capture, operator>>

(* An old server, which docs/quota-migration.md wants stopped before the pause: it writes the *)
(* balance past the ledger and its version. *)
OldServerWrites(d) ==
  /\ control.state = "active"
  /\ member[d] # None
  /\ Consume("writes")
  /\ member' = [member EXCEPT ![d].sound = ~member[d].lots]
  /\ UNCHANGED <<control, capture, operator>>

(* beginCapture reads the control row it holds shared, then inserts the capture. *)
Check(j) ==
  /\ capture[j] = "new"
  /\ capture' = [capture EXCEPT ![j] = IF control.state = "active" THEN "inserting" ELSE "refused"]
  /\ UNCHANGED <<control, member, operator, spare>>

Insert(j) ==
  /\ capture[j] = "inserting"
  /\ capture' = [capture EXCEPT ![j] = "held"]
  /\ UNCHANGED <<control, member, operator, spare>>

(* Captures and attempts that were admitted come to an end while the service is paused, too. *)
EndsCapture(j) ==
  /\ capture[j] \in {"held", "running"}
  /\ capture' = [capture EXCEPT ![j] = IF @ = "held" THEN "running" ELSE "ended"]
  /\ UNCHANGED <<control, member, operator, spare>>

-----------------------------------------------------------------------------
(* The command line. *)

(* Defective variant: pause takes the control row as every other transaction does. *)
AloneShared == TRUE

(* No transaction of the service holds the control row. *)
Alone == \A j \in Jobs : capture[j] # "inserting"

Drained == \A j \in Jobs : capture[j] \notin {"held", "running"}

Unvalidated == {d \in Existing : ~member[d].checkpoint \/ ~member[d].validated}

Cleared == [d \in Members |-> IF member[d] = None THEN None ELSE [member[d] EXCEPT !.validated = FALSE]]

(* pause <release>: repeated for the same release, it changes nothing; another release is refused. *)
Pause(o, r) ==
  /\ operator[o].pc = "idle" /\ control.state = "active"
  /\ Alone
  /\ Consume("pauses")
  /\ control' = [state |-> "paused", revision |-> control.revision + 1, release |-> r]
  /\ member' = Cleared
  /\ UNCHANGED <<capture, operator>>

Go(o, pc) == operator' = [operator EXCEPT ![o].pc = pc]
Stop(o) == operator' = [operator EXCEPT ![o] = AtRest]

(* batch, validate, and resume of the revision the operator has read. *)
Command(o, c) ==
  /\ operator[o].pc = "idle" /\ control.state = "paused"
  /\ operator' = [operator EXCEPT ![o] = [pc |-> IF c = "batch" THEN "batch" ELSE "invalidate",
                                          command |-> c, revision |-> control.revision]]
  /\ UNCHANGED <<control, member, capture, spare>>

(* invalidateValidation *)
Invalidate(o) ==
  /\ operator[o].pc = "invalidate"
  /\ IF control.state = "paused" /\ Alone
     THEN member' = Cleared /\ Go(o, "batch")
     ELSE UNCHANGED member /\ Stop(o)
  /\ UNCHANGED <<control, capture, spare>>

(* backfill: all devices of the batch or none.  Its rows are the first by device id. *)
Batch(o, B) ==
  /\ operator[o].pc = "batch"
  /\ control.state = "paused" /\ Drained
  /\ B \subseteq Unvalidated
  /\ Cardinality(B) = IF Cardinality(Unvalidated) < BatchSize THEN Cardinality(Unvalidated) ELSE BatchSize
  /\ \A d \in B : member[d].sound
  /\ member' = [d \in Members |-> IF d \in B
                  THEN [lots |-> TRUE, sound |-> TRUE, checkpoint |-> TRUE, validated |-> TRUE] ELSE member[d]]
  /\ CASE operator[o].command = "batch" -> Stop(o)
       [] operator[o].command # "batch" /\ Unvalidated # B -> UNCHANGED operator
       [] operator[o].command = "validate" /\ Unvalidated = B -> Stop(o)
       [] operator[o].command = "resume" /\ Unvalidated = B -> Go(o, "resume")
  /\ UNCHANGED <<control, capture, spare>>

(* The command fails: resumed meanwhile, not drained, a device in the batch that is not sound, *)
(* or a lost connection.  What was validated before stays. *)
Abandon(o) ==
  /\ operator[o].pc # "idle"
  /\ Stop(o)
  /\ UNCHANGED <<control, member, capture, spare>>

(* Defective variant: the resume relies on the validation the same command has just ended. *)
ResumableSinceValidation(o) == control.state = "paused" /\ Drained

Resumable(o) ==
  /\ control.state = "paused" /\ control.revision = operator[o].revision
  /\ Drained
  /\ Unvalidated = {}

Resume(o) ==
  /\ operator[o].pc = "resume"
  /\ Alone /\ Resumable(o)
  /\ control' = [control EXCEPT !.state = "active", !.revision = @ + 1]
  /\ Stop(o)
  /\ UNCHANGED <<member, capture, spare>>

-----------------------------------------------------------------------------
MigrationNext ==
  \/ \E d \in Members : Register(d) \/ ChangesBalance(d) \/ OldServerWrites(d)
  \/ \E j \in Jobs : Check(j) \/ Insert(j) \/ EndsCapture(j)
  \/ \E o \in Operators :
       \/ \E r \in Releases : Pause(o, r)
       \/ \E c \in {"batch", "validate", "resume"} : Command(o, c)
       \/ Invalidate(o) \/ Abandon(o) \/ Resume(o)
       \/ \E B \in SUBSET Members : Batch(o, B)

MigrationSpec == MigrationInit /\ [][MigrationNext]_migrationVars

-----------------------------------------------------------------------------
(* Properties. *)

(* No capture is admitted into a pause: the drain check of a batch stays true until the resume, *)
(* although admissions read the control row in transactions of their own.                      *)
PausedStaysDrained ==
  [][control.state = "paused" /\ control'.state = "paused" /\ Drained => Drained']_migrationVars

(* Captures are admitted again only to devices whose balance, lots and history agree and whose *)
(* checkpoint exists, whatever other operators, old servers and purchases have done meanwhile. *)
ResumesSound ==
  [][control.state = "paused" /\ control'.state = "active" =>
       \A d \in Existing : member[d].lots /\ member[d].sound /\ member[d].checkpoint]_migrationVars
=============================================================================
