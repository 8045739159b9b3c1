----------------------------- MODULE MCShutdown -----------------------------
(* Two instances behind a load balancer.                                   *)
EXTENDS Shutdown
=============================================================================
