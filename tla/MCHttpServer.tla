---------------------------- MODULE MCHttpServer ----------------------------
(***************************************************************************)
(* A server with a few interchangeable requests.  Run has no loop, so the  *)
(* number of requests is the only bound.                                   *)
(***************************************************************************)
EXTENDS HttpServer, TLC
=============================================================================
