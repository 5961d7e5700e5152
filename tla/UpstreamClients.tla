--------------------------- MODULE UpstreamClients ---------------------------
(***************************************************************************)
(* The upstream manager of one gambi process (src/src/upstream.rs): at    *)
(* most one live client per server, kept in a map under the server's name, *)
(* created under a per-server lock, reused while its configuration and    *)
(* bearer token match, evicted BY NAME after a transport error.           *)
(*                                                                         *)
(* A caller is a task that asks for a client and uses it: a routed request *)
(* (tools/call, prompts/get, resources/read) or a probe, the discovery of *)
(* one server's tools on behalf of a lister.  The module has no           *)
(* specification of its own: Execution adds who calls, and composes them. *)
(***************************************************************************)
EXTENDS Naturals, FiniteSets

CONSTANTS Servers,     \* server names
          Stdio,       \* those run as a child process: no bearer token, and
                       \* nothing bounds their initialize handshake
          Mute,        \* stdio servers that may never answer initialize
          Requests,    \* tasks that route requests
          Listers,     \* tasks that discover tools
          Copies,      \* numbers of a server's client objects; one that is dead
                       \* and that nobody holds is used again
          MaxToken,    \* bearer tokens are numbered; 0 is none
          NoClient, NoOne, NoServer

ASSUME UpstreamConstants == /\ Stdio \subseteq Servers
                            /\ Mute \subseteq Stdio
                            /\ Copies \subseteq Nat /\ MaxToken \in Nat \ {0}

Clients == Servers \X Copies
Probes  == Listers \X Servers
Callers == Requests \cup Probes

ASSUME CallersAssumption == /\ Requests \cap Probes = {}
                            /\ NoClient \notin Clients /\ NoOne \notin Callers

VARIABLES
  token,    \* token[s]: the bearer token the tokens file holds for s
  client,   \* client[c]: a client object
  current,  \* current[s]: the map's client of s, or NoClient
  creating, \* creating[s]: who holds the creation lock of s, or NoOne
  call,     \* call[f]: the request or probe the caller is working on
  routes,   \* <<c, f>>: progress of f is forwarded by client c's registry
  evicting  \* <<f, s>>: request f left an eviction of s to a detached task

upstream == <<token, client, current, creating, call, routes, evicting>>

\* tries counts the attempts; ran: the upstream executed one of them.
Idle == [pc |-> "idle", server |-> NoServer, token |-> 0, held |-> NoClient,
         tries |-> 0, ran |-> FALSE, result |-> "none"]

UpstreamTypeOK ==
  /\ token \in [Servers -> 0 .. MaxToken]
  /\ client \in [Clients -> [token : 0 .. MaxToken, up : BOOLEAN]]
  /\ current \in [Servers -> Clients \cup {NoClient}]
  /\ creating \in [Servers -> Callers \cup {NoOne}]
  /\ call \in [Callers ->
       [pc : {"idle", "ask", "spawn", "send", "wait", "refresh", "evict", "done"},
        server : Servers \cup {NoServer}, token : 0 .. MaxToken,
        held : Clients \cup {NoClient}, tries : 0 .. 2, ran : BOOLEAN,
        result : {"none", "ok", "refused", "error", "cancelled", "transport"}]]
  /\ routes \subseteq Clients \X Requests
  /\ evicting \subseteq Requests \X Servers

UpstreamInit ==
  /\ token = [s \in Servers |-> IF s \in Stdio THEN 0 ELSE 1]
  /\ client = [c \in Clients |-> [token |-> 0, up |-> FALSE]]
  /\ current = [s \in Servers |-> NoClient]
  /\ creating = [s \in Servers |-> NoOne]
  /\ call = [f \in Callers |-> Idle]
  /\ routes = {} /\ evicting = {}

-----------------------------------------------------------------------------
\* What the actions are made of.

\* The steps a caller takes: the fields that change.
Set(calls, f, pc, result) ==
  [calls EXCEPT ![f].pc = pc, ![f].result = result, ![f].held = NoClient]
Ends(calls, f, result) ==
  [calls EXCEPT ![f] = [pc |-> "done", server |-> calls[f].server, token |-> 0,
                        held |-> NoClient, tries |-> 0, ran |-> FALSE, result |-> result]]

\* The second attempt, with the bearer token tk.
Again(f, tk) ==
  [call EXCEPT ![f] = [pc |-> "ask", server |-> call[f].server, token |-> tk, held |-> NoClient,
                       tries |-> 2, ran |-> call[f].ran, result |-> call[f].result]]

\* A client object that is dead and that nobody knows of any more.
Free(c) == /\ ~ client[c].up /\ \A s \in Servers : current[s] # c
           /\ \A f \in Callers : call[f].held # c /\ <<c, f>> \notin routes

\* A request or probe of server s that works with the bearer token tk.
Asking(s, tk) == [pc |-> "ask", server |-> s, token |-> tk, held |-> NoClient,
                  tries |-> 1, ran |-> FALSE, result |-> "none"]

Begin(f, s, tk) == call' = [call EXCEPT ![f] = Asking(s, tk)]

\* Mutant: the bearer token is not compared.
MutIsSameConfig(c, f) == c[1] = call[f].server

\* A client serves a call when it was made for the same server, with the same
\* token; a stdio client was made without one.
IsSameConfig(c, f) == c[1] = call[f].server /\ client[c].token = call[f].token

\* evict_client removes whatever client the name has NOW, stops it and
\* forgets the discovery caches.
EvictClient(s) ==
  IF current[s] = NoClient
  THEN UNCHANGED <<client, current>>
  ELSE /\ client' = [client EXCEPT ![current[s]].up = FALSE]
       /\ current' = [current EXCEPT ![s] = NoClient]

\* Mutant: any failure of a request is answered by a refresh and a second try.
MutAfterFailure(calls, f, result) ==
  IF f \in Requests /\ call[f].tries = 1 THEN Set(calls, f, "refresh", result)
  ELSE Set(calls, f, "evict", "error")

\* What follows a failed attempt.  A request that was refused for its token may
\* refresh it once; a probe evicts the client and asks once more, whatever
\* went wrong; a transport error makes a request evict the client.
AfterFailure(calls, f, result) ==
  IF f \in Requests /\ result = "refused" /\ call[f].tries = 1
  THEN Set(calls, f, "refresh", result)
  ELSE IF f \in Probes THEN Set(calls, f, "evict", "error")
  ELSE IF result = "transport" THEN Set(calls, f, "evict", result)
  ELSE Ends(calls, f, result)

\* A client could not be made: requests report it without evicting anything.
AfterNoClient(f, result) ==
  IF f \in Requests /\ result = "transport" THEN Ends(call, f, result)
  ELSE AfterFailure(call, f, result)

-----------------------------------------------------------------------------
\* managed_client.

\* The creation lock is free and the map's client fits: take it.
ReuseClient(f) ==
  LET s == call[f].server IN
  /\ call[f].pc = "ask"
  /\ creating[s] = NoOne
  /\ current[s] # NoClient /\ IsSameConfig(current[s], f)
  /\ call' = [call EXCEPT ![f].pc = "send", ![f].held = current[s]]
  /\ UNCHANGED <<token, client, current, creating, routes, evicting>>

\* Mutant: clients are created without the creation lock.
MutBeginSpawn(f) ==
  LET s == call[f].server IN
  /\ call[f].pc = "ask"
  /\ current[s] # NoClient => ~ IsSameConfig(current[s], f)
  /\ EvictClient(s)
  /\ call' = [call EXCEPT ![f].pc = "spawn"]
  /\ UNCHANGED <<token, creating, routes, evicting>>

\* Else take the lock, evict the client that does not fit, and start another.
BeginSpawn(f) ==
  LET s == call[f].server IN
  /\ call[f].pc = "ask"
  /\ creating[s] = NoOne
  /\ current[s] # NoClient => ~ IsSameConfig(current[s], f)
  /\ EvictClient(s)
  /\ creating' = [creating EXCEPT ![s] = f]
  /\ call' = [call EXCEPT ![f].pc = "spawn"]
  /\ UNCHANGED <<token, routes, evicting>>

\* The server answered initialize.  The client goes into the map unless one
\* that fits is there, which is used instead; the lock is released.
SpawnClient(f) ==
  LET s == call[f].server IN
  /\ call[f].pc = "spawn"
  /\ \E c \in {s} \X Copies : Free(c) /\ (\A n \in Copies : Free(<<s, n>>) => c[2] <= n) /\
       IF current[s] # NoClient /\ IsSameConfig(current[s], f)
       THEN /\ call' = [call EXCEPT ![f].pc = "send", ![f].held = current[s]]
            /\ UNCHANGED <<client, current>>
       ELSE /\ client' = [client EXCEPT ![c] =
                 [up |-> TRUE, token |-> IF s \in Stdio THEN 0 ELSE call[f].token]]
            /\ current' = [current EXCEPT ![s] = c]
            /\ call' = [call EXCEPT ![f].pc = "send", ![f].held = c]
  /\ creating' = [creating EXCEPT ![s] = NoOne]
  /\ UNCHANGED <<token, routes, evicting>>

\* Mutant: the lock is released on success only.
MutSpawnFails(f) ==
  /\ call[f].pc = "spawn"
  /\ call' = AfterNoClient(f, "transport")
  /\ UNCHANGED <<token, client, current, creating, routes, evicting>>

\* The command cannot be run, the handshake fails or, over HTTP, times out or
\* is answered by a demand for authorization.
SpawnFails(f) ==
  LET s == call[f].server IN
  /\ call[f].pc = "spawn"
  /\ \E result \in {"transport"} \cup (IF s \in Stdio THEN {} ELSE {"refused"}) :
       call' = AfterNoClient(f, result)
  /\ creating' = [creating EXCEPT ![s] = NoOne]
  /\ UNCHANGED <<token, client, current, routes, evicting>>

-----------------------------------------------------------------------------
\* The request on the client.

\* Register the progress route and send.  A client that was shut down refuses
\* to send, one whose process or connection died cannot, and nobody noticed
\* before: the route is dropped at once.
SendRequest(f) ==
  /\ call[f].pc = "send"
  /\ \/ /\ client[call[f].held].up
        /\ call' = [call EXCEPT ![f].pc = "wait"]
        /\ routes' = routes \cup ({<<call[f].held, f>>} \cap (Clients \X Requests))
     \/ /\ call' = AfterFailure(call, f, "transport")
        /\ UNCHANGED routes
  /\ UNCHANGED <<token, client, current, creating, evicting>>

\* The call is over for this client: its route is unregistered.
Unroute(f) == routes' = routes \ {<<call[f].held, f>>}

\* The upstream executed the request (environment), which it may have done when
\* it answers with an error or the answer is lost, not when it refuses the token.
Executed(f) == [call EXCEPT ![f].ran = TRUE]

\* It answers: a result, an error of its own, or that the token is not good.
Answer(f) ==
  /\ call[f].pc = "wait" /\ client[call[f].held].up
  /\ \/ call' = Ends(call, f, "ok")
     \/ \E now \in {call, Executed(f)} : call' = AfterFailure(now, f, "error")
     \/ call[f].server \notin Stdio /\ call' = AfterFailure(call, f, "refused")
  /\ Unroute(f)
  /\ UNCHANGED <<token, client, current, creating, evicting>>

\* The client is gone, or no answer came in time.  await_server_result leaves
\* an eviction to a detached task besides the one the request makes itself.
LoseAnswer(f) ==
  /\ call[f].pc = "wait"
  /\ \E now \in {call, Executed(f)} : call' = AfterFailure(now, f, "transport")
  /\ evicting' = IF f \in Requests THEN evicting \cup {<<f, call[f].server>>} ELSE evicting
  /\ Unroute(f)
  /\ UNCHANGED <<token, client, current, creating>>

\* Mutant: a cancelled request returns before it unregisters its route.
MutCancelRequest(f) ==
  /\ call[f].pc = "wait" /\ f \in Requests
  /\ call' = Ends(call, f, "cancelled")
  /\ UNCHANGED <<token, client, current, creating, routes, evicting>>

\* The MCP client cancelled: the upstream is told, the request is over.
CancelRequest(f) ==
  /\ call[f].pc = "wait" /\ f \in Requests
  /\ call' = Ends(call, f, "cancelled")
  /\ Unroute(f)
  /\ UNCHANGED <<token, client, current, creating, evicting>>

\* The caller's own eviction: evict_if_transport_error, or between and after
\* the two attempts of a probe.
EvictOwn(f) ==
  /\ call[f].pc = "evict"
  /\ EvictClient(call[f].server)
  /\ call' = IF f \in Probes /\ call[f].tries = 1
             THEN Again(f, call[f].token)
             ELSE Ends(call, f, call[f].result)
  /\ UNCHANGED <<token, creating, routes, evicting>>

\* A detached eviction runs, however late.
EvictDetached(e) ==
  /\ e \in evicting
  /\ evicting' = evicting \ {e}
  /\ EvictClient(e[2])
  /\ UNCHANGED <<token, creating, call, routes>>

\* The token was refused: the refresh rotates it, or returns the one another
\* task just fetched, and the request is made once more with what the tokens
\* file says now; without a token or when the refresh fails, that is the answer.
RefreshAuth(f) ==
  LET s == call[f].server IN
  /\ call[f].pc = "refresh"
  /\ \/ /\ token[s] > 0
        /\ \E new \in {token[s], token[s] + 1} \cap (0 .. MaxToken) :
             /\ token' = [token EXCEPT ![s] = new]
             /\ call' = Again(f, new)
     \/ call' = Ends(call, f, "refused") /\ UNCHANGED token
  /\ UNCHANGED <<client, current, creating, routes, evicting>>

\* What the code does for a caller by itself.
CallerStep(f) ==
  \/ ReuseClient(f) \/ BeginSpawn(f) \/ SpawnClient(f) \/ SpawnFails(f)
  \/ SendRequest(f) \/ LoseAnswer(f) \/ EvictOwn(f) \/ RefreshAuth(f)

UpstreamNext ==
  \/ \E f \in Callers : CallerStep(f) \/ Answer(f) \/ CancelRequest(f)
  \/ \E e \in evicting : EvictDetached(e)

\* A call whose task was dropped where it stood: a creation it was making is
\* abandoned, its lock released; nothing else is undone.
DropCall(f) ==
  /\ call' = Ends(call, f, "none")
  /\ creating' = [s \in Servers |-> IF creating[s] = f THEN NoOne ELSE creating[s]]
  /\ UNCHANGED <<token, client, current, routes, evicting>>

-----------------------------------------------------------------------------
\* Properties.

\* Every live client of a server is the one the map holds under its name: no
\* second child process or connection, none that nobody can stop.
NoStrayClient == \A c \in Clients : client[c].up => current[c[1]] = c

\* A request waits only on a client made for its server and for the token it was
\* told to use: a token that was replaced is not sent in a later request.
OwnClientOnly ==
  \A f \in Callers : call[f].pc = "wait" =>
    LET c == call[f].held IN c[1] = call[f].server /\ client[c].token = call[f].token

\* Whatever was lost, refused or evicted: a request that is made once more is one
\* the upstream did not execute the first time.
NotRepeated ==
  \A f \in Requests :
    call[f].tries = 2 /\ call[f].pc \in {"ask", "spawn", "send"} => ~ call[f].ran
=============================================================================
