---------------------------- MODULE MCCliSignals ----------------------------
(* One endless target, so that only Ctrl-C ends the run.                     *)
EXTENDS CliSignals

CONSTANTS pass, expectFail, netFail
MCOutcomes == {pass, expectFail, netFail}
=============================================================================
