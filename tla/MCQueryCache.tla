---------------------------- MODULE MCQueryCache ----------------------------
(***************************************************************************)
(* Two requests and three keys on a cache of two entries, while somebody   *)
(* uses the cache's other public operations.                               *)
(***************************************************************************)
EXTENDS QueryCache

Symmetry == Permutations(Worker) \cup Permutations(Key) \cup Permutations(Data)
=============================================================================
