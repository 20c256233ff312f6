---------------------------- MODULE MCSelfUpdate ----------------------------
(* Three releases and three runs: an update that dies, one that fails and one *)
(* that has to cope with what they left on disk.                              *)
EXTENDS SelfUpdate
=============================================================================
