------------------------------- MODULE MCServe -------------------------------
(* Three clients for two permits reach the refusal; a ring of one is passed  *)
(* by the second request, also when it was stored before the first.          *)
EXTENDS Serve
=============================================================================
