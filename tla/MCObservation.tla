---------------------------- MODULE MCObservation ----------------------------
(* Observation for TLC: the bounds of a behaviour. *)
EXTENDS Observation

Allow(i, e, c, s, r, w, k) ==
  [installs |-> i, events |-> e, choices |-> c, stops |-> s, requests |-> r, writes |-> w, weeks |-> k]

(* One installation that stops, loses answers and writes, or rests for a week; two of them *)
(* with a choice; one that opts out and in again; and one that cannot write what it        *)
(* records, or what it chose.                                                              *)
SomeAllowances ==
  {Allow(1, 2, 0, 1, 1, 1, 0), Allow(1, 1, 1, 1, 1, 0, 1), Allow(2, 0, 1, 0, 0, 0, 0),
   Allow(1, 1, 2, 0, 0, 0, 0), Allow(1, 1, 0, 2, 0, 2, 0), Allow(1, 0, 1, 1, 0, 1, 0)}

LosingWrites == {Allow(1, 1, 0, 2, 0, 2, 0)}
=============================================================================
