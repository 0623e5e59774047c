------------------------------ MODULE Workers ------------------------------
(***************************************************************************)
(* The requests that the worker threads of the HTTP server run side by     *)
(* side (server.run(workers) in server.cpp), one thread each.              *)
(***************************************************************************)
CONSTANT Request
=============================================================================
