-------------------------- MODULE MCLongTermCache ---------------------------
(***************************************************************************)
(* TLC instance of LongTermCache: two handlers of one key that run into    *)
(* each other.  No symmetry, which liveness does not allow.                *)
(***************************************************************************)
EXTENDS LongTermCache
=============================================================================
