------------------------------- MODULE MCParts -------------------------------
(***************************************************************************)
(* Parts of the system that share no state, checked in one run: on the     *)
(* server the admission of requests and the refund policies, the           *)
(* observation of the clients, and the capture flow of the desktop client. *)
(* A behaviour is one of a single part, chosen at its start; the others    *)
(* rest.                                                                   *)
(***************************************************************************)
EXTENDS MCCaptureService, MCRefundLedger, MCObservation, DesktopSession

VARIABLE part

PartInit ==
  /\ CaptureInit /\ Init /\ ObservationInit /\ SessionInit
  /\ part \in {"admission", "policies", "observation", "session"}
  /\ part = "observation" \/ allowance = CHOOSE a \in SomeAllowances : TRUE

PartNext ==
  \/ part = "admission" /\ CaptureNext /\ UNCHANGED <<part, vars, observationVars, sessionVars>>
  \/ part = "policies" /\ Next /\ UNCHANGED <<part, captureVars, observationVars, sessionVars>>
  \/ part = "observation" /\ ObservationNext /\ UNCHANGED <<part, captureVars, vars, sessionVars>>
  \/ part = "session" /\ SessionNext /\ UNCHANGED <<part, captureVars, vars, observationVars>>

PartSpec == PartInit /\ [][PartNext]_<<part, captureVars, vars, observationVars, sessionVars>>
=============================================================================
