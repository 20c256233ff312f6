----------------------------- MODULE MCExporter -----------------------------
(* Two targets with one result each, which a shared URL brings into one slot, *)
(* two scrapers for one permit, a clock that can be set back.                 *)
EXTENDS Exporter

CONSTANTS c1, c2
MCConns == {c1, c2}
=============================================================================
