----------------------------- MODULE MCRequests -----------------------------
(***************************************************************************)
(* TLC instance of Requests: three requests of one session.                *)
(***************************************************************************)
EXTENDS Requests, TLC

\* Below zero, no parent, the first response and the second.
SomeIds == {-1, 0, 1, 2}

Symmetry == Permutations(Request) \cup Permutations(Field)
=============================================================================
