----------------------------- MODULE MCConnPool -----------------------------
(***************************************************************************)
(* TLC instances of ConnPool: more threads than connections, so that they  *)
(* wait.  No symmetry, which liveness does not allow.                      *)
(***************************************************************************)
EXTENDS ConnPool
=============================================================================
