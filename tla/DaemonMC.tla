------------------------------- MODULE DaemonMC -------------------------------
(* A small instance of Daemon: two MCP processes and their daemons. *)
EXTENDS Daemon, TLC

CONSTANTS m1, m2, d1, d2

ChildOf == (m1 :> d1) @@ (m2 :> d2)
=============================================================================
