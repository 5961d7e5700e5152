------------------------------ MODULE Execution ------------------------------
(***************************************************************************)
(* gambi_execute (src/src/execution.rs) and the other routed requests     *)
(* (src/src/server/mcp.rs) over the upstream manager.                     *)
(*                                                                         *)
(* An execution reads config and tokens once, builds the index of tool    *)
(* descriptions by discovering the tools of every enabled server, and only *)
(* then runs the script under the wall limit: the script is interpreted    *)
(* until it ends or calls a tool, which is checked and sent upstream.      *)
(***************************************************************************)
EXTENDS UpstreamClients

CONSTANTS Execs,       \* executions: each makes requests and is a lister
          Safe,        \* those run by gambi_execute, not gambi_execute_escalated
          Enabled,     \* servers enabled in the configuration
          Escalated,   \* servers whose tool is not allowed in safe mode
          Described,   \* servers whose tool is known to be safe by its description
          Named,       \* Named[f]: the servers that script or request f may name
          MaxCalls     \* bound on the tool calls of a script

ASSUME ExecutionConstants == /\ Safe \subseteq Execs /\ Execs \subseteq Requests
                             /\ Listers = {<<e, "index">> : e \in Execs}
                             /\ Enabled \subseteq Servers
                             /\ Escalated \cup Described \subseteq Servers
                             /\ Named \in [Requests -> SUBSET Servers]
                             /\ MaxCalls \in Nat

VARIABLES exec,  \* exec[e]: an execution
          asked  \* asked[r]: a routed prompt or resource request was made

vars == <<exec, asked, upstream>>

Routed == Requests \ Execs
Probe(e, s) == <<<<e, "index">>, s>>

TypeOK ==
  /\ UpstreamTypeOK
  /\ exec \in [Execs -> [pc : {"idle", "index", "run", "call", "ended"},
                         tokens : [Servers -> 0 .. MaxToken],
                         calls : 0 .. MaxCalls,
                         outcome : {"none", "ok", "failed", "timeout"}]]
  /\ asked \in [Routed -> BOOLEAN]

Init ==
  /\ UpstreamInit
  /\ exec = [e \in Execs |-> [pc |-> "idle", tokens |-> token, calls |-> 0,
                               outcome |-> "none"]]
  /\ asked = [r \in Routed |-> FALSE]

-----------------------------------------------------------------------------
\* prompts/get and resources/read: config and tokens are read, the server must
\* be configured and enabled, one request is made.
RouteRequest(r) ==
  /\ ~ asked[r]
  /\ asked' = [asked EXCEPT ![r] = TRUE]
  /\ \E s \in Named[r] \cap Enabled : Begin(r, s, token[s])
  /\ UNCHANGED <<exec, token, client, current, creating, routes, evicting>>

\* The snapshot of config and tokens; the tools of every enabled server are
\* asked for at once.
StartExecution(e) ==
  /\ exec[e].pc = "idle"
  /\ exec' = [exec EXCEPT ![e].pc = "index", ![e].tokens = token]
  /\ call' = [f \in Callers |->
       IF \E s \in Enabled : f = Probe(e, s)
       THEN Asking(f[2], token[f[2]]) ELSE call[f]]
  /\ UNCHANGED <<asked, token, client, current, creating, routes, evicting>>

\* Every server answered or failed, so the script starts, and with it the wall
\* limit.
StartScript(e) ==
  /\ exec[e].pc = "index"
  /\ \A s \in Enabled : call[Probe(e, s)].pc = "done"
  /\ exec' = [exec EXCEPT ![e].pc = "run"]
  /\ UNCHANGED <<asked, upstream>>

\* A server whose discovery failed is missing from the index, and so is the
\* description that shows some tools to be safe.
Allowed(e, s) == \/ e \notin Safe
                 \/ s \notin Escalated /\ (s \in Described => call[Probe(e, s)].result = "ok")

Ended(e, outcome) == [exec EXCEPT ![e].pc = "ended", ![e].outcome = outcome]

\* The script calls the tool of some server: unknown or disabled servers are
\* refused, so is a tool that needs escalation, and that ends the execution.
CallTool(e) ==
  /\ exec[e].pc = "run" /\ exec[e].calls < MaxCalls
  /\ \E s \in Named[e] :
       IF s \notin Enabled \/ ~ Allowed(e, s)
       THEN exec' = Ended(e, "failed") /\ UNCHANGED call
       ELSE /\ exec' = [exec EXCEPT ![e].pc = "call", ![e].calls = @ + 1]
            /\ Begin(e, s, exec[e].tokens[s])
  /\ UNCHANGED <<asked, token, client, current, creating, routes, evicting>>

\* The call's result goes back to the script; anything else ends the execution.
TakeResult(e) ==
  /\ exec[e].pc = "call" /\ call[e].pc = "done"
  /\ exec' = IF call[e].result = "ok" THEN [exec EXCEPT ![e].pc = "run"]
             ELSE Ended(e, "failed")
  /\ UNCHANGED <<asked, upstream>>

\* The script returns, raises an error or exceeds one of the interpreter's
\* limits; or the loop sees, between two steps, that the client cancelled.
EndScript(e) ==
  /\ exec[e].pc = "run"
  /\ \E outcome \in {"ok", "failed"} : exec' = Ended(e, outcome)
  /\ UNCHANGED <<asked, upstream>>

\* Mutant: the limit is on the interpreter only, not on the calls it waits for.
MutWallLimit(e) ==
  /\ exec[e].pc = "run"
  /\ exec' = Ended(e, "timeout")
  /\ UNCHANGED <<asked, upstream>>

\* max_wall elapsed: the loop is dropped where it is, a call under way with it.
WallLimit(e) ==
  /\ exec[e].pc \in {"run", "call"}
  /\ exec' = Ended(e, "timeout")
  /\ IF exec[e].pc = "call" /\ call[e].pc # "done"
     THEN DropCall(e)
     ELSE UNCHANGED upstream
  /\ UNCHANGED asked

ExecStep(e) == \/ StartExecution(e) \/ StartScript(e) \/ CallTool(e)
               \/ TakeResult(e) \/ EndScript(e) \/ WallLimit(e)

Next == \/ \E e \in Execs : ExecStep(e)
        \/ \E r \in Routed : RouteRequest(r)
        \/ UpstreamNext /\ UNCHANGED <<exec, asked>>

Spec == Init /\ [][Next]_vars

\* Tokio runs every task that can go on; its mutexes serve their waiters in
\* order of arrival, so a caller that keeps finding the creation lock free and
\* taken again gets it in the end; requests have timeouts, so each wait ends.
\* The handshake of a mute server need not end.
Goes(f) == CallerStep(f) /\ UNCHANGED <<exec, asked>>
           /\ (call[f].pc = "spawn" => call[f].server \notin Mute)

Fairness ==
  /\ \A f \in Callers : WF_vars(Goes(f))
  /\ WF_vars(\E e \in evicting : EvictDetached(e) /\ UNCHANGED <<exec, asked>>)
  /\ \A e \in Execs : WF_vars(StartScript(e)) /\ WF_vars(TakeResult(e))
                      /\ WF_vars(WallLimit(e))

FairSpec == Spec /\ Fairness

-----------------------------------------------------------------------------
\* Properties.

\* A progress route is that of a call still waiting for its answer: whatever
\* way a call ends it leaves no route behind, except that the wall limit drops a
\* call without unregistering its route.
RoutesOfWaiting ==
  \A c \in Clients, f \in Requests : <<c, f>> \in routes =>
    \/ call[f].pc = "wait" /\ call[f].held = c
    \/ f \in Execs /\ exec[f].outcome = "timeout"

\* A request to a server that answers its handshake comes to an end, whatever
\* other servers do, and whoever evicts its client.
RequestsEnd ==
  \A r \in Routed : call[r].pc = "ask" /\ call[r].server \notin Mute ~> call[r].pc = "done"

\* A running script ends, even when it calls a server that never answers.
ScriptsEnd == \A e \in Execs : exec[e].pc \in {"run", "call"} ~> exec[e].pc = "ended"

=============================================================================
