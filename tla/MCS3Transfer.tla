---------------------------- MODULE MCS3Transfer ----------------------------
(***************************************************************************)
(* TLC instance of S3Transfer: the loader of the published site and the    *)
(* loader of its staging copy.                                             *)
(***************************************************************************)
EXTENDS S3Transfer, TLC

Symmetry == Permutations(Loader)
=============================================================================
