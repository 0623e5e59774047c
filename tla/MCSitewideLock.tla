--------------------------- MODULE MCSitewideLock ---------------------------
(***************************************************************************)
(* TLC instance of SitewideLock: three scripts on two keys.  No symmetry,  *)
(* which liveness does not allow.                                          *)
(***************************************************************************)
EXTENDS SitewideLock
=============================================================================
