----------------------------- MODULE MCCliMode -----------------------------
(* Two targets that may or may not share a URL, two probes each, a channel   *)
(* of one slot.  The interval is zero: pacing is ProbeRunner's own question. *)
EXTENDS CliMode

CONSTANTS pass, expectFail, netFail
MCOutcomes == {pass, expectFail, netFail}
=============================================================================
