-------------------------- MODULE MCCaptureService --------------------------
(* CaptureService for TLC: requests and captures are interchangeable. *)
EXTENDS CaptureService, TLC

Interchangeable == Permutations(Requests) \cup Permutations(Captures)
=============================================================================
