----------------------------- MODULE MCSessions -----------------------------
(***************************************************************************)
(* TLC instance of Sessions: two requests, two IDs and two objects, whose  *)
(* memory is used again.  No symmetry, which liveness does not allow.      *)
(***************************************************************************)
EXTENDS Sessions
=============================================================================
