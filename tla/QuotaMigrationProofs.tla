------------------------ MODULE QuotaMigrationProofs ------------------------
(***************************************************************************)
(* Whatever operators, devices and captures there are, a pause that has    *)
(* drained stays drained, and captures are admitted again only to devices  *)
(* that are sound.  The lock of the control row gives the first: no        *)
(* admission is between its check and its insert while the service is      *)
(* paused.  The second rests on the validated balance version: within a    *)
(* pause it is current only for a device that a batch has found sound.     *)
(***************************************************************************)
EXTENDS QuotaMigration, TLAPS

Device == [lots : BOOLEAN, sound : BOOLEAN, checkpoint : BOOLEAN, validated : BOOLEAN]

MigrationType ==
  /\ control.state \in {"active", "paused"}
  /\ member \in [Members -> Device \cup {None}]
  /\ DOMAIN capture = Jobs

(* No admission is under way in a pause. *)
NoAdmission == control.state = "paused" => Alone

Sound(d) == member[d].lots /\ member[d].sound /\ member[d].checkpoint

(* Within a pause, what counts as validated is sound. *)
ValidatedIsSound ==
  control.state = "paused" => \A d \in Existing : member[d].validated => Sound(d)

MigrationInv == MigrationType /\ NoAdmission /\ ValidatedIsSound

-----------------------------------------------------------------------------
LEMMA MigrationInitially == ASSUME MigrationInit PROVE MigrationInv
<1>1. [lots |-> FALSE, sound |-> TRUE, checkpoint |-> FALSE, validated |-> FALSE] \in Device
  BY DEF Device
<1>2. control.state = "active" /\ DOMAIN capture = Jobs
  BY DEF MigrationInit
<1>3. member \in [Members -> Device \cup {None}]
  BY <1>1 DEF MigrationInit
<1>. QED  BY <1>2, <1>3 DEF MigrationInv, MigrationType, NoAdmission, ValidatedIsSound

(* A device that enters, or whose balance changes, is not validated. *)
LEMMA DeviceKeeps ==
  ASSUME MigrationInv, NEW d \in Members, Register(d) \/ ChangesBalance(d)
  PROVE  MigrationInv'
<1>1. PICK r \in Device : member' = [member EXCEPT ![d] = r] /\ ~r.validated
  <2>. DEFINE Changed(s) == [lots |-> TRUE, sound |-> s, checkpoint |-> TRUE, validated |-> FALSE]
  <2>0. \A s \in BOOLEAN : Changed(s) \in Device /\ ~Changed(s).validated
    BY DEF Device
  <2>1. CASE Register(d)
    <3>1. member' = [member EXCEPT ![d] = Changed(TRUE)]
      BY <2>1 DEF Register
    <3>. QED  BY <2>0, <3>1
  <2>2. CASE ChangesBalance(d)
    <3>1. member' = [member EXCEPT ![d] = Changed(member[d].sound)]
      BY <2>2 DEF ChangesBalance
    <3>2. member[d].sound \in BOOLEAN
      BY <2>2 DEF ChangesBalance, Device, MigrationInv, MigrationType
    <3>. QED  BY <2>0, <3>1, <3>2
  <2>. QED  BY <2>1, <2>2
<1>2. UNCHANGED <<control, capture>>
  BY DEF Register, ChangesBalance
<1>3. MigrationType' /\ NoAdmission'
  BY <1>1, <1>2 DEF MigrationInv, MigrationType, NoAdmission, Alone
<1>4. ValidatedIsSound'
  BY <1>1, <1>2 DEF MigrationInv, MigrationType, ValidatedIsSound, Existing, Sound
<1>. QED  BY <1>3, <1>4 DEF MigrationInv

(* An old server only writes before the pause, and the pause forgets every validation. *)
LEMMA OldServerKeeps == ASSUME MigrationInv, NEW d \in Members, OldServerWrites(d) PROVE MigrationInv'
<1>1. member[d] \in Device
  BY DEF OldServerWrites, MigrationInv, MigrationType
<1>2. [member[d] EXCEPT !.sound = ~member[d].lots] \in Device
  BY <1>1 DEF Device
<1>3. MigrationType' /\ control'.state = "active"
  BY <1>2 DEF OldServerWrites, MigrationInv, MigrationType
<1>. QED  BY <1>3 DEF MigrationInv, NoAdmission, ValidatedIsSound

(* An admission inserts only what it has checked before the pause. *)
LEMMA CaptureKeeps ==
  ASSUME MigrationInv, NEW j \in Jobs, Check(j) \/ Insert(j) \/ EndsCapture(j)
  PROVE  MigrationInv'
<1>1. UNCHANGED <<control, member>> /\ DOMAIN capture' = Jobs
  BY DEF Check, Insert, EndsCapture, MigrationInv, MigrationType
<1>2. NoAdmission'
  BY DEF Check, Insert, EndsCapture, MigrationInv, MigrationType, NoAdmission, Alone
<1>. QED
  BY <1>1, <1>2 DEF MigrationInv, MigrationType, ValidatedIsSound, Existing, Sound

LEMMA ClearedType ==
  ASSUME MigrationType
  PROVE  /\ Cleared \in [Members -> Device \cup {None}]
         /\ \A d \in Members : Cleared[d] # None => ~Cleared[d].validated
<1>1. ASSUME NEW d \in Members, member[d] # None
      PROVE  /\ [member[d] EXCEPT !.validated = FALSE] \in Device
             /\ ~[member[d] EXCEPT !.validated = FALSE].validated
  BY <1>1 DEF MigrationType, Device
<1>. QED  BY <1>1 DEF Cleared, MigrationType

(* The pause waits for the admissions under way. *)
LEMMA PauseKeeps == ASSUME MigrationInv, NEW o, NEW r, Pause(o, r) PROVE MigrationInv'
<1>1. MigrationType' /\ NoAdmission'
  BY ClearedType DEF Pause, MigrationInv, MigrationType, NoAdmission, Alone
<1>2. ValidatedIsSound'
  BY ClearedType DEF Pause, MigrationInv, MigrationType, ValidatedIsSound, Existing
<1>. QED  BY <1>1, <1>2 DEF MigrationInv

LEMMA InvalidateKeeps == ASSUME MigrationInv, NEW o, Invalidate(o) PROVE MigrationInv'
<1>1. UNCHANGED <<control, capture>> /\ (member' = Cleared \/ UNCHANGED member)
  BY DEF Invalidate
<1>2. MigrationType' /\ NoAdmission'
  BY <1>1, ClearedType DEF MigrationInv, MigrationType, NoAdmission, Alone
<1>3. ValidatedIsSound'
  BY <1>1, ClearedType DEF MigrationInv, MigrationType, ValidatedIsSound, Existing, Sound
<1>. QED  BY <1>2, <1>3 DEF MigrationInv

(* A batch validates what it found sound. *)
LEMMA BatchKeeps == ASSUME MigrationInv, NEW o, NEW B, Batch(o, B) PROVE MigrationInv'
<1>. DEFINE Done == [lots |-> TRUE, sound |-> TRUE, checkpoint |-> TRUE, validated |-> TRUE]
<1>1. /\ Done \in Device
      /\ member' = [d \in Members |-> IF d \in B THEN Done ELSE member[d]]
      /\ UNCHANGED <<control, capture>>
  BY DEF Batch, Device
<1>. HIDE DEF Done
<1>2. MigrationType' /\ NoAdmission'
  BY <1>1 DEF MigrationInv, MigrationType, NoAdmission, Alone
<1>3. Done.lots /\ Done.sound /\ Done.checkpoint
  BY DEF Done
<1>4. ValidatedIsSound'
  BY <1>1, <1>3 DEF MigrationInv, MigrationType, ValidatedIsSound, Existing, Sound
<1>. QED  BY <1>2, <1>4 DEF MigrationInv

LEMMA ResumeKeeps == ASSUME MigrationInv, NEW o, Resume(o) PROVE MigrationInv'
BY DEF Resume, MigrationInv, MigrationType, NoAdmission, ValidatedIsSound

LEMMA MigrationStep == ASSUME MigrationInv, [MigrationNext]_migrationVars PROVE MigrationInv'
<1>1. ASSUME NEW d \in Members, Register(d) \/ ChangesBalance(d) \/ OldServerWrites(d) PROVE MigrationInv'
  BY <1>1, DeviceKeeps, OldServerKeeps
<1>2. ASSUME NEW j \in Jobs, Check(j) \/ Insert(j) \/ EndsCapture(j) PROVE MigrationInv'
  BY <1>2, CaptureKeeps
<1>3. ASSUME NEW o \in Operators, NEW r \in Releases, Pause(o, r) PROVE MigrationInv'
  BY <1>3, PauseKeeps
<1>4. ASSUME NEW o \in Operators, Invalidate(o) \/ Resume(o) PROVE MigrationInv'
  BY <1>4, InvalidateKeeps, ResumeKeeps
<1>5. ASSUME NEW o \in Operators, NEW B \in SUBSET Members, Batch(o, B) PROVE MigrationInv'
  BY <1>5, BatchKeeps
<1>6. ASSUME UNCHANGED <<control, member, capture>> PROVE MigrationInv'
  BY <1>6 DEF MigrationInv, MigrationType, NoAdmission, Alone, ValidatedIsSound, Existing, Sound
<1>7. ASSUME NEW o \in Operators, Abandon(o) \/ \E c \in {"batch", "validate", "resume"} : Command(o, c)
      PROVE  MigrationInv'
  BY <1>6, <1>7 DEF Abandon, Command
<1>. QED  BY <1>1, <1>2, <1>3, <1>4, <1>5, <1>6, <1>7 DEF MigrationNext, migrationVars

(* The inductive invariant of the migration. *)
THEOREM MigrationInvariant == MigrationSpec => []MigrationInv
BY MigrationInitially, MigrationStep, PTL DEF MigrationSpec

-----------------------------------------------------------------------------
(* In a pause that goes on, nothing that was drained starts to run. *)
LEMMA DrainedStep ==
  ASSUME MigrationInv, [MigrationNext]_migrationVars, control.state = "paused", Drained
  PROVE  Drained'
<1>1. CASE UNCHANGED capture
  BY <1>1 DEF Drained
<1>2. ASSUME NEW j \in Jobs, Check(j) \/ Insert(j) \/ EndsCapture(j) PROVE Drained'
  BY <1>2 DEF Check, Insert, EndsCapture, Drained, MigrationInv, MigrationType, NoAdmission, Alone
<1>. QED
  BY <1>1, <1>2 DEF MigrationNext, migrationVars, Register, ChangesBalance, OldServerWrites, Pause, Command,
     Invalidate, Abandon, Resume, Batch

(* A drained pause stays drained, for any number of operators, devices and captures. *)
THEOREM DrainedUntilResumed == MigrationSpec => PausedStaysDrained
<1>1. MigrationInv /\ [MigrationNext]_migrationVars
        => (control.state = "paused" /\ control'.state = "paused" /\ Drained => Drained')
  BY DrainedStep
<1>. QED  BY <1>1, MigrationInvariant, PTL DEF MigrationSpec, PausedStaysDrained

(* Only the resume makes the service active, and it finds every device validated. *)
LEMMA ResumeStep ==
  ASSUME MigrationInv, [MigrationNext]_migrationVars, control.state = "paused", control'.state = "active"
  PROVE  \A d \in Existing : Sound(d)
<1>1. PICK o \in Operators : Resume(o)
  BY DEF MigrationNext, migrationVars, Register, ChangesBalance, OldServerWrites, Check, Insert, EndsCapture,
     Pause, Command, Invalidate, Abandon, Batch
<1>2. \A d \in Existing : member[d].validated
  BY <1>1 DEF Resume, Resumable, Unvalidated
<1>. QED  BY <1>2 DEF MigrationInv, ValidatedIsSound

(* Captures are admitted again only to sound devices, for any number of operators and devices. *)
THEOREM ResumedSound == MigrationSpec => ResumesSound
<1>1. MigrationInv /\ [MigrationNext]_migrationVars
        => (control.state = "paused" /\ control'.state = "active" =>
              \A d \in Existing : member[d].lots /\ member[d].sound /\ member[d].checkpoint)
  BY ResumeStep DEF Sound
<1>. QED  BY <1>1, MigrationInvariant, PTL DEF MigrationSpec, ResumesSound
=============================================================================
