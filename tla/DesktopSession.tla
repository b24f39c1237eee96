---------------------------- MODULE DesktopSession ----------------------------
(***************************************************************************)
(* The capture flow of the desktop client (desktop/main.mjs: take, solve,  *)
(* cancel, the automatic session, the timers and the actions of the        *)
(* windows; Intake of core/product.mjs).  One JavaScript process: a step   *)
(* runs from one await to the next, and hotkeys, clicks and timers come in *)
(* between.                                                                *)
(*                                                                         *)
(* Left out: the guide, and what only is shown (status, messages, the text *)
(* of an answer).  Time passes freely: a deadline that is set is due at    *)
(* any later step.                                                         *)
(***************************************************************************)
EXTENDS Integers, SequencesExt, Null

CONSTANTS
  CollectLimit,    \* product.capture.limit
  MaxShots,        \* bound of the captures and polls that are started
  MaxGenerations,  \* bound of the questions and cancels
  Kinds            \* the captures the user asks for: of "single", "multiple", "personality"

ASSUME SessionAssumption ==
  /\ CollectLimit \in Nat \ {0}
  /\ MaxShots \in Nat /\ MaxGenerations \in Nat
  /\ Kinds \subseteq {"single", "multiple", "personality"}

(* What the client knows of a run: its receipt and, later, its status at the server.  fate is *)
(* that of its capture at the server; None while it is held or the client has not asked.      *)
FrozenRun == [id : Nat, ours : BOOLEAN, images : Seq(Nat), screen : BOOLEAN,
              fate : {"usable", "released", "recovered", None}, receipt : SUBSET {"recover", "explain"},
              status : (SUBSET {"recover", "retry"}) \cup {None}]

ASSUME SessionNoneAssumption == None \notin FrozenRun

VARIABLES
  generation,  \* counts questions and cancels
  active,      \* the generation of the question in progress; None
  run,         \* the official run of the newest question that was frozen; None
  images,      \* the images shown: those of the question or of the collection
  intake,      \* the collection of several images
  collecting,  \* state.collecting
  capturing,   \* state.capturing
  takes,       \* the captures that await their pixels
  solves,      \* the questions that await an answer, canceled ones too
  removed,     \* the image that may be put back, and its place; None
  auto,        \* the automatic session
  review,      \* state.autoReviewPending
  polling,     \* autoPolling: None, 0 while it awaits its pixels, or the generation of its question
  history,     \* the entries of the local history
  expiring,    \* whether the timer of the last answer is set
  shots        \* captures and polls so far; a shot is named by its number

sessionVars == <<generation, active, run, images, intake, collecting, capturing, takes, solves, removed,
                 auto, review, polling, history, expiring, shots>>
kept == <<history, expiring>>

Empty == [items |-> <<>>, deadline |-> FALSE, previewing |-> FALSE, token |-> None, paused |-> FALSE]

SessionInit ==
  /\ generation = 0 /\ active = None /\ run = None
  /\ images = <<>> /\ intake = Empty
  /\ collecting = FALSE /\ capturing = FALSE
  /\ takes = {} /\ solves = {} /\ removed = None
  /\ auto = "inactive" /\ review = FALSE /\ polling = None
  /\ history = {} /\ expiring = FALSE
  /\ shots = 0

-----------------------------------------------------------------------------
(* Intake: what its methods make of a collection i. *)

Reset(i) == [i EXCEPT !.deadline = Len(i.items) >= 2 /\ ~i.previewing]

Begin(i, t) == [i EXCEPT !.paused = i.deadline, !.deadline = FALSE, !.token = t]
CanBegin(i) == i.token = None /\ Len(i.items) < CollectLimit

Finish(i, t, shot) ==
  IF t # i.token THEN i
  ELSE IF shot # None
  THEN Reset([i EXCEPT !.token = None, !.paused = FALSE, !.items = Append(@, shot)])
  ELSE [i EXCEPT !.token = None, !.paused = FALSE, !.deadline = i.paused /\ ~i.previewing]

Preview(i, value) == IF value = i.previewing THEN i ELSE Reset([i EXCEPT !.previewing = value])

CanTake(i, force) ==
  ~i.previewing /\ i.token = None /\ Len(i.items) >= 2 /\ (force \/ i.deadline)

(* cancel *)
Canceled(i) == Empty

-----------------------------------------------------------------------------
(* cancel, and the start of solve. *)

Cancels(shown) ==
  /\ generation < MaxGenerations /\ generation' = generation + 1
  /\ active' = None
  /\ intake' = Canceled(intake)
  /\ removed' = None
  /\ collecting' = FALSE /\ capturing' = FALSE
  /\ auto' = "inactive" /\ review' = FALSE
  /\ images' = shown

(* cancel, by the user *)
Cancel ==
  /\ Cancels(IF collecting \/ intake.items # <<>> THEN <<>> ELSE images)
  /\ UNCHANGED <<run, takes, solves, polling, kept, shots>>

Asks(batch, op, mode) ==
  /\ generation < MaxGenerations
  /\ generation' = generation + 1 /\ active' = generation + 1
  /\ intake' = Canceled(intake) /\ collecting' = FALSE
  /\ images' = batch
  /\ solves' = solves \cup
       {[gen |-> generation + 1, op |-> op, mode |-> mode, batch |-> batch, pc |-> "preparing", run |-> None]}

-----------------------------------------------------------------------------
(* take *)

(* A single capture waits for the question in progress and for the capture before it; the      *)
(* others cancel the question.  a is the automatic session then.                               *)
Takes(kind, a) ==
  /\ auto' = a
  /\ IF \/ kind = "single" /\ (active # None \/ capturing)
        \/ kind = "multiple" /\ ~CanBegin(intake)
     THEN UNCHANGED <<intake, capturing, takes, shots>>
     ELSE /\ shots < MaxShots /\ shots' = shots + 1
          /\ intake' = IF kind = "multiple" THEN Begin(intake, shots + 1) ELSE Canceled(intake)
          /\ capturing' = TRUE
          /\ takes' = takes \cup {[shot |-> shots + 1, gen |-> generation, kind |-> kind]}
  /\ UNCHANGED <<generation, active, run, images, collecting, solves, removed, polling, kept>>

Take(kind) ==
  IF kind # "single" /\ active # None
  THEN Cancels(images) /\ UNCHANGED <<run, takes, solves, polling, kept, shots>>
  ELSE Takes(kind, "inactive") /\ UNCHANGED review

(* toggleAuto *)
ToggleAuto ==
  /\ review' = FALSE
  /\ IF auto = "inactive"
     THEN Takes("single", "running")
     ELSE /\ auto' = "inactive"
          /\ UNCHANGED <<generation, active, run, images, intake, collecting, capturing, takes, solves,
                         removed, polling, kept, shots>>

Fresh(t) == t.gen = generation

Mode(kind) == IF kind = "personality" THEN "personality" ELSE "tutor"

(* The pixels arrive. *)
Captured(t) ==
  /\ takes' = takes \ {t}
  /\ IF ~Fresh(t)
     THEN UNCHANGED <<generation, active, images, intake, collecting, capturing, solves>>
     ELSE /\ capturing' = FALSE
          /\ IF t.kind = "multiple"
             THEN /\ intake' = Finish(intake, t.shot, t.shot)
                  /\ images' = intake'.items
                  /\ collecting' = TRUE
                  /\ UNCHANGED <<generation, active, solves>>
             ELSE Asks(<<t.shot>>, "solve", Mode(t.kind))
  /\ UNCHANGED <<run, removed, auto, review, polling, kept, shots>>

(* The pixels cannot be had: fail.  Or the user closes the dialog of an import. *)
CaptureFails(t) ==
  /\ takes' = takes \ {t}
  /\ intake' = Finish(intake, t.shot, None)
  /\ capturing' = (capturing /\ ~Fresh(t))
  /\ auto' = "inactive" \/ (t.kind = "single" /\ auto' = auto)
  /\ UNCHANGED <<generation, active, run, images, collecting, solves, removed, review, polling, kept, shots>>

-----------------------------------------------------------------------------
(* The collection: its timer and the buttons of the window. *)

Collection == UNCHANGED <<generation, active, run, collecting, capturing, takes, solves, auto, review,
                          polling, kept, shots>>

(* submit, or the deadline *)
Submit(force) ==
  /\ force => ~capturing
  /\ CanTake(intake, force)
  /\ Asks(intake.items, "solve", "tutor")
  /\ UNCHANGED <<run, capturing, takes, removed, auto, review, polling, kept, shots>>

RemoveImage(k) ==
  /\ ~capturing /\ intake.token = None
  /\ LET rest == Reset([intake EXCEPT !.items = RemoveAt(@, k)]) IN
       intake' = rest \/ intake' = Preview(rest, FALSE)
  /\ removed' = [item |-> intake.items[k], index |-> k]
  /\ images' = intake'.items
  /\ Collection

(* Defective variant: the image can be put back again. *)
PutBackStays == removed

(* What can still be put back after undo. *)
PutBack == None

Undo ==
  /\ ~capturing /\ removed # None
  /\ CanBegin(intake)
  /\ LET place == IF removed.index > Len(intake.items) THEN Len(intake.items) + 1 ELSE removed.index IN
       intake' = Reset([intake EXCEPT !.items = InsertAt(@, place, removed.item)])
  /\ removed' = PutBack
  /\ images' = intake'.items
  /\ Collection

UndoExpires ==
  /\ removed # None /\ removed' = None
  /\ UNCHANGED <<images, intake>> /\ Collection

OpenPreview ==
  /\ images # <<>> /\ ~intake.previewing
  /\ intake' = Preview(intake, TRUE)
  /\ UNCHANGED <<images, removed>> /\ Collection

ClosePreview ==
  /\ intake.previewing
  /\ intake' = Preview(intake, FALSE)
  /\ UNCHANGED <<images, removed>> /\ Collection

-----------------------------------------------------------------------------
(* solve, from its start to its end. *)

(* Defective variant: a question may end after it was canceled, if no other one was asked. *)
NewestOrAlone(s) == active \in {None, s.gen}

Newest(s) == s.gen = generation

Finishes(s) ==
  /\ solves' = solves \ {s}
  /\ active' = IF s.gen = generation THEN None ELSE active
  /\ polling' = IF polling = s.gen THEN None ELSE polling

Streams(s, r) ==
  /\ solves' = (solves \ {s}) \cup {[s EXCEPT !.pc = "streaming", !.run = r]}
  /\ UNCHANGED <<active, polling>>

Asking == UNCHANGED <<generation, images, intake, collecting, capturing, takes, removed, shots>>

(* The run of a question, before its receipt. *)
Frozen(s) == [id |-> s.gen, ours |-> TRUE, images |-> s.batch, screen |-> s.mode = "tutor",
              fate |-> None, receipt |-> {}, status |-> None]

CanRecover(r) == r # None /\ "recover" \in (IF r.status # None THEN r.status ELSE r.receipt)
CanExplain(r) == r # None /\ "explain" \in r.receipt

(* status *)
Settlements(r) ==
  LET offers == [usable |-> {"recover"}, released |-> {"retry"}, recovered |-> {}, held |-> {}]
      fates == IF r.fate = None THEN {"held", "usable", "released"} ELSE {r.fate}
  IN {[r EXCEPT !.fate = IF f = "held" THEN None ELSE f, !.status = offers[f]] : f \in fates}

(* A question for the official service freezes its run; one for another service has none. *)
PrepareSolve(s) ==
  /\ s.pc = "preparing" /\ s.op = "solve" /\ Newest(s)
  /\ \/ /\ Len(s.batch) \in 1 .. CollectLimit
        /\ run' = Frozen(s)
        /\ Streams(s, run')
     \/ run' = None /\ Streams(s, None)
  /\ UNCHANGED <<auto, review, history, expiring>> /\ Asking

(* Recovery and explanation are of the last run. *)
PrepareFollowUp(s) ==
  /\ s.pc = "preparing" /\ s.op # "solve" /\ Newest(s)
  /\ run # None /\ run.ours /\ run.screen
  /\ IF s.op = "recover" THEN CanRecover(run) ELSE CanExplain(run)
  /\ Streams(s, run)
  /\ UNCHANGED <<run, auto, review, history, expiring>> /\ Asking

(* fail *)
Fails(s) ==
  /\ Newest(s)
  /\ Finishes(s)
  /\ auto' = "inactive"
  /\ \/ UNCHANGED run
     \/ /\ s.pc = "streaming" /\ s.op = "solve" /\ run # None /\ s.run # None
        /\ run.id = s.run.id /\ run.ours
        /\ run' \in Settlements(run)
     \/ /\ s.pc = "streaming" /\ s.op = "recover" /\ run # None
        /\ run' = [run EXCEPT !.fate = "recovered"]
  /\ UNCHANGED <<review, history, expiring>> /\ Asking

(* The whole answer has arrived, while the account is still the same. *)
Arrives(s) ==
  /\ s.pc = "streaming" /\ Newest(s)
  /\ s.run # None => s.run.ours
  /\ (s.op = "recover" /\ run # None) => run.fate = "usable"

(* The receipt of an answer. *)
WithReceipt(s, usable, offers) ==
  IF run = None \/ s.run = None THEN run
  ELSE [run EXCEPT !.fate = IF s.op = "recover" THEN "recovered" ELSE IF usable THEN "usable" ELSE "released",
                   !.receipt = IF s.op # "recover" /\ usable THEN {"recover"} \cup offers ELSE offers]

(* The id of the entry: of the run there is, or a fresh one. *)
EntryId(s) == IF run # None THEN run.id ELSE -s.gen

Answered(s) ==
  /\ Arrives(s) /\ s.op # "explain"
  /\ history' =
       IF s.mode = "personality" THEN history
       ELSE {h \in history : h.id # EntryId(s)} \cup
            {[id |-> EntryId(s), images |-> s.batch,
              by |-> IF s.run # None THEN s.run.id ELSE -s.gen,
              of |-> IF s.run # None THEN s.run.images ELSE s.batch]}
  /\ \E offers \in SUBSET {"explain"} : run' = WithReceipt(s, TRUE, offers)
  /\ auto' \in IF auto = "inactive" THEN {"inactive"} ELSE {"watching", "inactive"}
  /\ review' \in {FALSE, auto' # "inactive"}
  /\ expiring' = TRUE
  /\ Finishes(s)
  /\ Asking

(* The model found no answer, or wants the question captured again. *)
Unanswered(s) ==
  /\ Arrives(s) /\ s.op # "explain" /\ s.mode = "tutor"
  /\ run' = WithReceipt(s, FALSE, {})
  /\ auto' = "inactive"
  /\ Finishes(s)
  /\ UNCHANGED <<review, history, expiring>> /\ Asking

Explained(s) ==
  /\ Arrives(s) /\ s.op = "explain"
  /\ expiring' = TRUE
  /\ Finishes(s)
  /\ UNCHANGED <<run, auto, review, history>> /\ Asking

(* A canceled question ends without effect, except that a poll may begin again. *)
Superseded(s) ==
  /\ ~Newest(s)
  /\ Finishes(s)
  /\ UNCHANGED <<run, auto, review, history, expiring>> /\ Asking

-----------------------------------------------------------------------------
(* The other actions of the windows, on the last run and on the history. *)

FollowUp(op) ==
  /\ IF op = "recover" THEN CanRecover(run) ELSE CanExplain(run) /\ active = None
  /\ Asks(images, op, "tutor")
  /\ UNCHANGED <<run, capturing, takes, removed, auto, review, polling, kept, shots>>

(* The answer of the server may come long after it was asked for. *)
CheckSettlement ==
  /\ run # None /\ run.ours
  /\ run' \in Settlements(run)
  /\ UNCHANGED <<active, solves, polling, auto, review, history, expiring>> /\ Asking

ClearQuestion ==
  /\ active = None /\ ~capturing
  /\ Cancels(<<>>) /\ run' = None
  /\ UNCHANGED <<takes, solves, polling, kept, shots>>

ReadHistory(h) ==
  /\ Cancels(h.images) /\ run' = None
  /\ UNCHANGED <<takes, solves, polling, kept, shots>>

ClearHistory ==
  /\ history # {} /\ history' = {}
  /\ UNCHANGED <<run, active, solves, polling, auto, review, expiring>> /\ Asking

SaveSettings ==
  /\ active = None /\ intake.items = <<>>
  /\ auto' = "inactive" /\ run' = None
  /\ UNCHANGED <<active, solves, polling, review, history, expiring>> /\ Asking

(* Another account has been restored.  It was asked for when nothing ran, but a question may    *)
(* run when it ends; assertOwner then refuses what arrives for a run of the account before.    *)
(* The last run is dropped unless the refresh after the restore fails.                         *)
Foreign(r) == IF r = None THEN None ELSE [r EXCEPT !.ours = FALSE]

Restored ==
  /\ run' \in {None, Foreign(run)}
  /\ solves' = {[s EXCEPT !.run = Foreign(@)] : s \in solves}
  /\ UNCHANGED <<active, polling, auto, review, history, expiring>> /\ Asking

(* The timer of the last answer. *)
ExpireShown ==
  /\ expiring /\ expiring' = FALSE
  /\ IF active = None THEN run' = None /\ images' = <<>> ELSE UNCHANGED <<run, images>>
  /\ UNCHANGED <<generation, active, intake, collecting, capturing, takes, solves, removed, auto, review,
                 polling, history, shots>>

-----------------------------------------------------------------------------
(* The automatic session: it polls the screen between two questions. *)

Automatic == UNCHANGED <<run, collecting, capturing, takes, removed, kept>>

StartPoll ==
  /\ auto # "inactive" /\ active = None /\ polling = None /\ ~review
  /\ polling' = 0
  /\ UNCHANGED <<generation, active, images, intake, solves, auto, review, shots>> /\ Automatic

(* tick: the screen has not changed, or the session ends. *)
PollRests ==
  /\ polling = 0 /\ polling' = None
  /\ auto' = auto \/ (auto = "watching" /\ auto' = "inactive")
  /\ UNCHANGED <<generation, active, images, intake, solves, review, shots>> /\ Automatic

(* tick: the screen shows another question. *)
PollTriggers ==
  /\ polling = 0 /\ auto = "watching"
  /\ shots < MaxShots /\ shots' = shots + 1
  /\ auto' = "running"
  /\ Asks(<<shots + 1>>, "solve", "tutor")
  /\ polling' = generation + 1
  /\ UNCHANGED <<run, capturing, takes, removed, review, kept>>

ReviewEnds ==
  /\ auto # "inactive" /\ review
  /\ review' = FALSE
  /\ auto' = auto \/ (auto = "watching" /\ auto' = "inactive")
  /\ UNCHANGED <<generation, active, images, intake, solves, polling, shots>> /\ Automatic

-----------------------------------------------------------------------------
SolveNext(s) ==
  \/ PrepareSolve(s) \/ PrepareFollowUp(s) \/ Fails(s)
  \/ Answered(s) \/ Unanswered(s) \/ Explained(s) \/ Superseded(s)

SessionNext ==
  \/ Cancel \/ ToggleAuto \/ \E kind \in Kinds : Take(kind)
  \/ \E t \in takes : Captured(t) \/ CaptureFails(t)
  \/ \E force \in BOOLEAN : Submit(force)
  \/ \E k \in DOMAIN intake.items : RemoveImage(k)
  \/ Undo \/ UndoExpires \/ OpenPreview \/ ClosePreview
  \/ \E s \in solves : SolveNext(s)
  \/ \E op \in {"recover", "explain"} : FollowUp(op)
  \/ CheckSettlement \/ ClearQuestion \/ ClearHistory \/ SaveSettings \/ Restored \/ ExpireShown
  \/ \E h \in history : ReadHistory(h)
  \/ StartPoll \/ PollRests \/ PollTriggers \/ ReviewEnds

SessionSpec == SessionInit /\ [][SessionNext]_sessionVars

-----------------------------------------------------------------------------
(* Properties. *)

(* Only the question in progress answers: one that was canceled, or overtaken by a newer one,  *)
(* adds nothing to the history, whenever its answer arrives.                                   *)
OnlyTheNewestAnswers ==
  [][history' \ history # {} => \E s \in solves \ solves' : s.gen = active]_sessionVars

(* No image is asked twice: neither the deadline and the button, nor removing an image and     *)
(* putting it back, submit it again.                                                           *)
AskedOnce ==
  /\ \A s \in solves : IsInjective(s.batch)
  /\ \A h1, h2 \in history :
       h1.by # h2.by => \A i \in DOMAIN h1.of : \A j \in DOMAIN h2.of : h1.of[i] # h2.of[j]

(* "History shows the same question and its images" (docs/windows/manual-acceptance.md).       *)
(* Violated: see the README.                                                                   *)
HistoryShowsItsQuestion == \A h \in history : h.images = h.of
=============================================================================
