----------------------------- MODULE MCTrapMode -----------------------------
(* Two targets over a channel of one slot, so that the trap springs while the *)
(* other task is blocked on the channel; two probes each.                     *)
EXTENDS TrapMode

CONSTANTS pass, fail
MCOutcomes == {pass, fail}
=============================================================================
