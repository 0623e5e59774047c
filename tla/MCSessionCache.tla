--------------------------- MODULE MCSessionCache ---------------------------
(***************************************************************************)
(* TLC instance of SessionCache: two sites and an id that both of them     *)
(* use.  No symmetry, which liveness does not allow.                       *)
(***************************************************************************)
EXTENDS SessionCache
=============================================================================
