-------------------------------- MODULE MCTui --------------------------------
(* Two targets of two probes each: four results, twice what the history holds, *)
(* so that it drops results both before and after r starts it over.            *)
EXTENDS Tui

CONSTANTS pass, expectFail, netFail
MCOutcomes == {pass, expectFail, netFail}
=============================================================================
