------------------------------- MODULE MCProbe -------------------------------
(* Three servers asked for both families on a clock of some ticks, which the *)
(* servers cannot share evenly; one redirect; three calls of a prober.       *)
EXTENDS Probe
=============================================================================
