--------------------------- MODULE MCSiteRegistry ---------------------------
(***************************************************************************)
(* TLC instance of SiteRegistry: two requests, and one publication of      *)
(* either object, so that a site in the map can have an old feed or old    *)
(* secret keys.  The feed that does not load is the empty one, which a     *)
(* failed download gives.  No symmetry, which liveness does not allow.     *)
(***************************************************************************)
EXTENDS SiteRegistry
=============================================================================
