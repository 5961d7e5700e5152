----------------------------- MODULE ExecutionMC -----------------------------
(* A small instance of Execution: one execution and one routed request over  *)
(* an HTTP server and a stdio server that never answers its handshake.       *)
EXTENDS Execution, TLC

CONSTANTS e, r, web, mute

NamedBy == (r :> {web}) @@ (e :> {web, mute})
IndexOfE == {<<e, "index">>}
=============================================================================
