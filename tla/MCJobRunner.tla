---------------------------- MODULE MCJobRunner ----------------------------
(* Instances of JobRunner for TLC. *)
EXTENDS JobRunner, TLC

CONSTANTS j1, j2, s1, s2

TwoJobs == {j1, j2}
TwoStops == {s1, s2}
=============================================================================
