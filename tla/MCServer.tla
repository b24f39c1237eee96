------------------------------ MODULE MCServer ------------------------------
(***************************************************************************)
(* Two parts of the server that share no state, checked in one run: the    *)
(* handlers of a capture and the Plus subscription of a device.  A         *)
(* behaviour is one of a single part, chosen at its start; the other rests.*)
(***************************************************************************)
EXTENDS CaptureService, PlusSubscription

VARIABLE part

Bound(g, p, x, l, c) == [get |-> g, post |-> p, cancel |-> x, losses |-> l, changes |-> c]

(* Enrolling twice with a lost handler; requests that overlap; a subscription that changes. *)
SomeBounds == {Bound(0, 2, 0, 1, 0), Bound(1, 1, 1, 0, 0), Bound(0, 1, 0, 1, 1)}

PartInit ==
  /\ CaptureInit /\ Init
  /\ part \in {"captures", "plus"}
  /\ part = "plus" \/ budget = CHOOSE b \in SomeBounds : TRUE

PartNext ==
  \/ part = "captures" /\ CaptureNext /\ UNCHANGED <<part, vars>>
  \/ part = "plus" /\ Next /\ UNCHANGED <<part, captureVars>>

(* CaptureFairness and Fairness, each for its own part. *)
PartSpec ==
  /\ PartInit /\ [][PartNext]_<<part, captureVars, vars>>
  /\ \A r \in Requests : WF_captureVars(part = "captures" /\ Handler(r))
  /\ \A c \in Captures : /\ WF_captureVars(part = "captures" /\ Expire(c))
                         /\ WF_captureVars(part = "captures" /\ Reap(c))
  /\ \A w \in Workers : WF_vars(part = "plus" /\ Works(w))
  /\ WF_vars(part = "plus" /\ Repeated)
  /\ WF_vars(part = "plus" /\ \E w \in Workers, n \in notices : Webhook(w, n) \/ Inert(w, n))
=============================================================================
