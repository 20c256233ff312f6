---------------------------- MODULE MCProbeRunner ----------------------------
(* Two targets, two probes each, over a channel of one slot, so that both    *)
(* tasks meet backpressure; an interval of two ticks, so that the second     *)
(* target starts between the first one's starts.                             *)
EXTENDS ProbeRunner

CONSTANT pass
MCOutcomes == {pass}
=============================================================================
