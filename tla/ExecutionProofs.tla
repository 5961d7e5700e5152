--------------------------- MODULE ExecutionProofs ---------------------------
(***************************************************************************)
(* Proofs about Execution and the upstream clients it works with, for any  *)
(* number of servers, requests, executions, clients, tokens and calls.     *)
(***************************************************************************)
EXTENDS Execution, TLAPS

-----------------------------------------------------------------------------
\* The inductive invariant.

\* What holds of a call under way: it has a server, no token for a child process, a
\* client of its own, and, until its last answer, nothing of it was executed.
CallOK(f) ==
  /\ call[f].pc \notin {"idle", "done"} =>
       call[f].server \in Servers /\ (call[f].server \in Stdio => call[f].token = 0)
  /\ call[f].pc \in {"send", "wait"} =>
       /\ call[f].held \in Clients /\ call[f].held[1] = call[f].server
       /\ client[call[f].held].token = call[f].token
  /\ f \in Requests /\ call[f].pc \in {"ask", "spawn", "send", "wait", "refresh"} => ~ call[f].ran

CallInv == \A f \in Callers : CallOK(f)

\* The holder of a creation lock is the caller that creates, and meanwhile the map has
\* no client of that server.
LockInv ==
  \A s \in Servers :
    /\ \A f \in Callers : creating[s] = f <=> call[f].pc = "spawn" /\ call[f].server = s
    /\ creating[s] # NoOne => current[s] = NoClient

\* A child process is never given a bearer token.
StdioInv ==
  \A s \in Stdio : token[s] = 0 /\ \A e \in Execs : exec[e].tokens[s] = 0

\* What the executions and the routed requests know of their calls.
ExecInv ==
  /\ \A e \in Execs : /\ exec[e].pc = "idle" => \A s \in Servers : call[Probe(e, s)].pc = "idle"
                      /\ exec[e].pc # "call" => call[e].pc \in {"idle", "done"}
                      /\ exec[e].outcome = "timeout" => exec[e].pc = "ended"
  /\ \A r \in Routed : ~ asked[r] => call[r].pc = "idle"

IInv == TypeOK /\ CallInv /\ LockInv /\ StdioInv /\ ExecInv /\ NoStrayClient /\ RoutesOfWaiting

Pcs     == {"idle", "ask", "spawn", "send", "wait", "refresh", "evict", "done"}
Results == {"none", "ok", "refused", "error", "cancelled", "transport"}
CallType == [pc : Pcs, server : Servers \cup {NoServer}, token : 0 .. MaxToken,
             held : Clients \cup {NoClient}, tries : 0 .. 2, ran : BOOLEAN, result : Results]

-----------------------------------------------------------------------------
\* What the steps of a caller are made of.

LEMMA CallsTyped == TypeOK => call \in [Callers -> CallType]
  BY DEF TypeOK, UpstreamTypeOK, CallType, Pcs, Results

LEMMA SetFacts ==
  ASSUME NEW calls \in [Callers -> CallType], NEW f \in Callers,
         NEW pc \in Pcs, NEW result \in Results
  PROVE  /\ Set(calls, f, pc, result) \in [Callers -> CallType]
         /\ \A g \in Callers \ {f} : Set(calls, f, pc, result)[g] = calls[g]
         /\ Set(calls, f, pc, result)[f].pc = pc
         /\ Set(calls, f, pc, result)[f].server = calls[f].server
         /\ Set(calls, f, pc, result)[f].token = calls[f].token
         /\ Set(calls, f, pc, result)[f].ran = calls[f].ran
<1> DEFINE new == [calls[f] EXCEPT !.pc = pc, !.result = result, !.held = NoClient]
<1>1. Set(calls, f, pc, result) = [calls EXCEPT ![f] = new]
  BY DEF Set
<1>2. calls[f] \in CallType
  OBVIOUS
<1>3. new \in CallType
  BY <1>2 DEF CallType
<1>4. new.pc = pc /\ new.server = calls[f].server /\ new.token = calls[f].token
      /\ new.ran = calls[f].ran
  BY <1>2 DEF CallType
<1> HIDE DEF new
<1> QED
  BY <1>1, <1>3, <1>4

LEMMA AgainFacts ==
  ASSUME call \in [Callers -> CallType], NEW f \in Callers, NEW tk \in 0 .. MaxToken
  PROVE  /\ Again(f, tk) \in [Callers -> CallType]
         /\ \A g \in Callers \ {f} : Again(f, tk)[g] = call[g]
         /\ Again(f, tk)[f].pc = "ask" /\ Again(f, tk)[f].server = call[f].server
         /\ Again(f, tk)[f].token = tk /\ Again(f, tk)[f].ran = call[f].ran
<1>1. /\ call[f].server \in Servers \cup {NoServer} /\ call[f].ran \in BOOLEAN
      /\ call[f].result \in Results /\ 2 \in 0 .. 2
  BY DEF CallType
<1> QED
  BY <1>1 DEF Again, CallType, Pcs

LEMMA EndsFacts ==
  ASSUME NEW calls \in [Callers -> CallType], NEW f \in Callers, NEW result \in Results
  PROVE  /\ Ends(calls, f, result) \in [Callers -> CallType]
         /\ \A g \in Callers \ {f} : Ends(calls, f, result)[g] = calls[g]
         /\ Ends(calls, f, result)[f].pc = "done"
<1>1. calls[f].server \in Servers \cup {NoServer} /\ 0 \in 0 .. MaxToken
  BY UpstreamConstants DEF CallType
<1> QED
  BY <1>1 DEF Ends, CallType, Pcs

\* A failed attempt is followed by a refresh, an eviction or the end, and by a refresh
\* only if it was a request's token that was refused.
LEMMA FailureFacts ==
  ASSUME NEW calls \in [Callers -> CallType], NEW f \in Callers,
         NEW result \in {"error", "refused", "transport"}
  PROVE  LET next == AfterFailure(calls, f, result) IN
         /\ next \in [Callers -> CallType]
         /\ \A g \in Callers \ {f} : next[g] = calls[g]
         /\ next[f].pc \in {"refresh", "evict", "done"}
         /\ next[f].pc # "done" => /\ next[f].server = calls[f].server
                                  /\ next[f].token = calls[f].token
         /\ next[f].pc = "refresh" => result = "refused" /\ next[f].ran = calls[f].ran
<1>1. result \in Results /\ "error" \in Results
      /\ "refresh" \in Pcs /\ "evict" \in Pcs
  BY DEF Results, Pcs
<1> QED
  BY <1>1, SetFacts, EndsFacts DEF AfterFailure

-----------------------------------------------------------------------------
LEMMA IInvInit == Init => IInv
<1> SUFFICES ASSUME Init PROVE IInv
  OBVIOUS
<1> USE UpstreamConstants, CallersAssumption, ExecutionConstants DEF Init, UpstreamInit
<1>1. TypeOK
  BY DEF TypeOK, UpstreamTypeOK, Idle
<1>2. CallInv /\ LockInv /\ StdioInv
  BY DEF CallInv, CallOK, LockInv, StdioInv, Idle
<1>3. ExecInv
  BY DEF ExecInv, Idle, Callers, Probes, Probe, Routed
<1>4. NoStrayClient /\ RoutesOfWaiting
  BY DEF NoStrayClient, RoutesOfWaiting
<1> QED
  BY <1>1, <1>2, <1>3, <1>4 DEF IInv

-----------------------------------------------------------------------------
\* The parts of the invariant that one caller's step may disturb.

\* What a step of caller f leaves alone.
OnlyCaller(f) == /\ \A g \in Callers \ {f} : call'[g] = call[g]
                 /\ call[f].pc \notin {"idle", "done"}
                 /\ UNCHANGED <<exec, asked>>

LEMMA CallKept ==
  ASSUME TypeOK, CallInv, NEW f \in Callers, OnlyCaller(f), CallOK(f)',
         \A g \in Callers : call[g].pc \in {"send", "wait"} =>
            client'[call[g].held].token = client[call[g].held].token
  PROVE  CallInv'
<1>1. ASSUME NEW g \in Callers, g # f PROVE CallOK(g)'
  BY <1>1 DEF OnlyCaller, CallInv, CallOK
<1> QED
  BY <1>1 DEF CallInv

LEMMA ExecKept ==
  ASSUME ExecInv, NEW f \in Callers, OnlyCaller(f)
  PROVE  ExecInv'
<1> USE ExecutionConstants
<1>1. ASSUME NEW e \in Execs, NEW s \in Servers, exec[e].pc = "idle"
      PROVE  call'[Probe(e, s)].pc = "idle"
  <2>1. Probe(e, s) \in Callers
    BY DEF Callers, Probes, Probe
  <2>2. QED
    BY <1>1, <2>1 DEF OnlyCaller, ExecInv
<1>2. ASSUME NEW e \in Execs, exec[e].pc # "call" PROVE call'[e].pc \in {"idle", "done"}
  BY <1>2 DEF OnlyCaller, ExecInv, Callers
<1>3. ASSUME NEW r \in Routed, ~ asked[r] PROVE call'[r].pc = "idle"
  BY <1>3 DEF OnlyCaller, ExecInv, Callers, Routed
<1> QED
  BY <1>1, <1>2, <1>3 DEF OnlyCaller, ExecInv

LEMMA RoutesKept ==
  ASSUME RoutesOfWaiting, NEW f \in Callers, OnlyCaller(f),
         \A c \in Clients, g \in Requests : <<c, g>> \in routes' =>
            <<c, g>> \in routes \/ (g = f /\ call'[f].pc = "wait" /\ call'[f].held = c),
         call[f].pc = "wait" => <<call[f].held, f>> \notin routes'
  PROVE  RoutesOfWaiting'
  BY DEF OnlyCaller, RoutesOfWaiting, Callers

\* Neither before nor after the step does f create a client.
LEMMA LockKept ==
  ASSUME LockInv, NEW f \in Callers, OnlyCaller(f), UNCHANGED creating,
         call[f].pc # "spawn", call'[f].pc # "spawn",
         \A s \in Servers : current'[s] \in {current[s], NoClient}
  PROVE  LockInv'
  BY DEF OnlyCaller, LockInv

-----------------------------------------------------------------------------
\* One lemma per step of a caller.

\* A caller takes a client.
LEMMA TakesClient ==
  ASSUME TypeOK, NEW f \in Callers, NEW c \in Clients,
         call' = [call EXCEPT ![f].pc = "send", ![f].held = c]
  PROVE  /\ call' \in [Callers -> CallType]
         /\ \A g \in Callers \ {f} : call'[g] = call[g]
         /\ call'[f].pc = "send" /\ call'[f].held = c /\ call'[f].server = call[f].server
         /\ call'[f].token = call[f].token /\ call'[f].ran = call[f].ran
<1>1. call \in [Callers -> CallType]
  BY CallsTyped
<1> DEFINE new == [call[f] EXCEPT !.pc = "send", !.held = c]
<1>2. call' = [call EXCEPT ![f] = new]
  OBVIOUS
<1>3. call[f] \in CallType
  BY <1>1
<1>4. new \in CallType
  BY <1>3 DEF CallType, Pcs
<1>5. /\ new.pc = "send" /\ new.held = c /\ new.server = call[f].server
      /\ new.token = call[f].token /\ new.ran = call[f].ran
  BY <1>3 DEF CallType
<1> HIDE DEF new
<1> QED
  BY <1>1, <1>2, <1>4, <1>5

\* evict_client leaves at most the clients there were, and none under the name.
LEMMA EvictFacts ==
  ASSUME TypeOK, NoStrayClient, NEW s \in Servers, EvictClient(s)
  PROVE  /\ client' \in [Clients -> [token : 0 .. MaxToken, up : BOOLEAN]]
         /\ current' \in [Servers -> Clients \cup {NoClient}]
         /\ \A c \in Clients : client'[c].token = client[c].token
         /\ \A r \in Servers : current'[r] \in {current[r], NoClient}
         /\ current'[s] = NoClient
         /\ NoStrayClient'
<1>1. /\ client \in [Clients -> [token : 0 .. MaxToken, up : BOOLEAN]]
      /\ current \in [Servers -> Clients \cup {NoClient}]
  BY DEF TypeOK, UpstreamTypeOK
<1>2. CASE current[s] = NoClient
  BY <1>1, <1>2 DEF EvictClient, NoStrayClient
<1>3. CASE current[s] # NoClient
  <2>1. /\ current[s] \in Clients
        /\ client' = [client EXCEPT ![current[s]].up = FALSE]
        /\ current' = [current EXCEPT ![s] = NoClient]
    BY <1>1, <1>3 DEF EvictClient
  <2>2. \A c \in Clients : client'[c].token = client[c].token
    BY <1>1, <2>1
  <2>3. \A c \in Clients : client'[c].up => client[c].up /\ c # current[s]
    BY <1>1, <2>1
  <2>4. NoStrayClient'
    <3>1. ASSUME NEW c \in Clients, client'[c].up PROVE current'[c[1]] = c
      <4>1. c[1] \in Servers
        BY DEF Clients
      <4>2. client[c].up /\ c # current[s]
        BY <2>3, <3>1
      <4>3. current[c[1]] = c
        BY <4>2 DEF NoStrayClient
      <4>4. QED
        BY <4>1, <4>2, <4>3, <2>1, <1>1
    <3>2. QED
      BY <3>1 DEF NoStrayClient
  <2>5. QED
    BY <1>1, <2>1, <2>2, <2>4
<1> QED
  BY <1>2, <1>3

LEMMA ReuseClientKeeps ==
  ASSUME IInv, NEW f \in Callers, ReuseClient(f), UNCHANGED <<exec, asked>>
  PROVE  IInv'
<1> USE DEF IInv
<1> DEFINE s == call[f].server
<1>1. call \in [Callers -> CallType]
  BY CallsTyped
<1>2. /\ call[f].pc = "ask" /\ s \in Servers /\ (s \in Stdio => call[f].token = 0)
      /\ current[s] \in Clients /\ current[s][1] = s /\ client[current[s]].token = call[f].token
      /\ call' = [call EXCEPT ![f].pc = "send", ![f].held = current[s]]
      /\ UNCHANGED <<token, client, current, creating, routes, evicting>>
  BY DEF ReuseClient, IsSameConfig, CallInv, CallOK, TypeOK, UpstreamTypeOK
<1>3. /\ call'[f].pc = "send" /\ call'[f].held = current[s] /\ call'[f].server = s
      /\ call'[f].token = call[f].token /\ call'[f].ran = call[f].ran
      /\ \A g \in Callers \ {f} : call'[g] = call[g]
      /\ call' \in [Callers -> CallType]
  BY <1>2, TakesClient
<1>4. OnlyCaller(f)
  BY <1>2, <1>3 DEF OnlyCaller
<1>5. CallOK(f)'
  BY <1>2, <1>3 DEF CallOK, CallInv
<1>6. CallInv' /\ ExecInv' /\ LockInv' /\ RoutesOfWaiting'
  <2>1. CallInv'
    BY <1>2, <1>3, <1>4, <1>5, CallKept
  <2>2. ExecInv'
    BY <1>2, <1>3, <1>4, <1>5, ExecKept
  <2>3. LockInv'
    BY <1>2, <1>3, <1>4, LockKept
  <2>4. RoutesOfWaiting'
    BY <1>2, <1>3, <1>4, RoutesKept
  <2>5. QED
    BY <2>1, <2>2, <2>3, <2>4
<1>7. TypeOK'
  BY <1>2, <1>3 DEF TypeOK, UpstreamTypeOK, CallType, Pcs, Results
<1>8. StdioInv' /\ NoStrayClient'
  BY <1>2 DEF StdioInv, NoStrayClient
<1> QED
  BY <1>6, <1>7, <1>8

LEMMA BeginSpawnKeeps ==
  ASSUME IInv, NEW f \in Callers, BeginSpawn(f), UNCHANGED <<exec, asked>>
  PROVE  IInv'
<1> USE DEF IInv
<1> DEFINE s == call[f].server
<1>1. call \in [Callers -> CallType]
  BY CallsTyped
<1>2. /\ call[f].pc = "ask" /\ s \in Servers /\ (s \in Stdio => call[f].token = 0)
      /\ creating[s] = NoOne /\ EvictClient(s)
      /\ creating' = [creating EXCEPT ![s] = f]
      /\ call' = [call EXCEPT ![f].pc = "spawn"]
      /\ UNCHANGED <<token, routes, evicting>>
  BY DEF BeginSpawn, CallInv, CallOK
<1>3. /\ call'[f].pc = "spawn" /\ call'[f].server = s
      /\ call'[f].token = call[f].token /\ call'[f].ran = call[f].ran
      /\ \A g \in Callers \ {f} : call'[g] = call[g]
      /\ call' \in [Callers -> CallType]
  BY <1>1, <1>2 DEF CallType, Pcs
<1>4. OnlyCaller(f)
  BY <1>2, <1>3 DEF OnlyCaller
<1>5. CallOK(f)'
  BY <1>2, <1>3 DEF CallOK, CallInv
<1>6. /\ client' \in [Clients -> [token : 0 .. MaxToken, up : BOOLEAN]]
      /\ current' \in [Servers -> Clients \cup {NoClient}]
      /\ \A c \in Clients : client'[c].token = client[c].token
      /\ \A r \in Servers : current'[r] \in {current[r], NoClient}
      /\ current'[s] = NoClient
      /\ NoStrayClient'
  BY <1>2, EvictFacts
<1>7. CallInv'
  BY <1>4, <1>5, <1>6, CallKept DEF CallInv, CallOK
<1>8. ExecInv' /\ RoutesOfWaiting'
  BY <1>2, <1>3, <1>4, ExecKept, RoutesKept
<1>9. LockInv'
  <2>1. \A r \in Servers : creating'[r] = IF r = s THEN f ELSE creating[r]
    BY <1>2 DEF TypeOK, UpstreamTypeOK
  <2>2. \A g \in Callers : call[g].pc = "spawn" => call[g].server # s
    BY <1>2, CallersAssumption DEF LockInv
  <2>3. ASSUME NEW r \in Servers, NEW g \in Callers
        PROVE  creating'[r] = g <=> call'[g].pc = "spawn" /\ call'[g].server = r
    BY <1>2, <1>3, <2>1, <2>2 DEF LockInv
  <2>4. ASSUME NEW r \in Servers, creating'[r] # NoOne PROVE current'[r] = NoClient
    BY <1>6, <2>1, <2>4 DEF LockInv
  <2>5. QED
    BY <2>3, <2>4 DEF LockInv
<1>10. StdioInv'
  BY <1>2, <1>4 DEF StdioInv, OnlyCaller
<1>11. creating' \in [Servers -> Callers \cup {NoOne}]
  BY <1>2 DEF TypeOK, UpstreamTypeOK
<1>12. TypeOK'
  BY <1>2, <1>3, <1>4, <1>6, <1>11
     DEF TypeOK, UpstreamTypeOK, CallType, Pcs, Results, OnlyCaller
<1> QED
  BY <1>6, <1>7, <1>8, <1>9, <1>10, <1>12

LEMMA SpawnClientKeeps ==
  ASSUME IInv, NEW f \in Callers, SpawnClient(f), UNCHANGED <<exec, asked>>
  PROVE  IInv'
<1> USE DEF IInv
<1> DEFINE s == call[f].server
<1>1. /\ call[f].pc = "spawn" /\ s \in Servers /\ (s \in Stdio => call[f].token = 0)
      /\ creating[s] = f /\ current[s] = NoClient /\ call[f].token \in 0 .. MaxToken
      /\ creating' = [creating EXCEPT ![s] = NoOne]
      /\ UNCHANGED <<token, routes, evicting>>
  <2>1. call[f].pc = "spawn" /\ s \in Servers /\ (s \in Stdio => call[f].token = 0)
    BY DEF SpawnClient, CallInv, CallOK
  <2>2. creating[s] = f /\ current[s] = NoClient
    BY <2>1, CallersAssumption DEF LockInv
  <2>3. call[f].token \in 0 .. MaxToken
    BY DEF TypeOK, UpstreamTypeOK
  <2>4. QED
    BY <2>1, <2>2, <2>3 DEF SpawnClient
<1>2. PICK c \in {s} \X Copies :
        /\ Free(c)
        /\ client' = [client EXCEPT ![c] =
                        [up |-> TRUE, token |-> IF s \in Stdio THEN 0 ELSE call[f].token]]
        /\ current' = [current EXCEPT ![s] = c]
        /\ call' = [call EXCEPT ![f].pc = "send", ![f].held = c]
  BY <1>1 DEF SpawnClient
<1>3. c \in Clients /\ c[1] = s
  BY <1>1 DEF Clients
<1>4. /\ call' \in [Callers -> CallType]
      /\ \A g \in Callers \ {f} : call'[g] = call[g]
      /\ call'[f].pc = "send" /\ call'[f].held = c /\ call'[f].server = s
      /\ call'[f].token = call[f].token /\ call'[f].ran = call[f].ran
  BY <1>2, <1>3, TakesClient
<1>5. OnlyCaller(f)
  BY <1>1, <1>4 DEF OnlyCaller
<1>6. /\ client' \in [Clients -> [token : 0 .. MaxToken, up : BOOLEAN]]
      /\ current' \in [Servers -> Clients \cup {NoClient}]
      /\ creating' \in [Servers -> Callers \cup {NoOne}]
      /\ client'[c].token = call[f].token
      /\ \A d \in Clients \ {c} : client'[d] = client[d]
      /\ \A r \in Servers : current'[r] = IF r = s THEN c ELSE current[r]
      /\ \A r \in Servers : creating'[r] = IF r = s THEN NoOne ELSE creating[r]
  BY <1>1, <1>2, <1>3, UpstreamConstants DEF TypeOK, UpstreamTypeOK
<1>7. CallOK(f)'
  BY <1>1, <1>3, <1>4, <1>6 DEF CallOK, CallInv
<1>8. CallInv'
  <2>1. \A g \in Callers : call[g].held # c
    BY <1>2 DEF Free
  <2>2. \A g \in Callers : call[g].pc \in {"send", "wait"} =>
           client'[call[g].held].token = client[call[g].held].token
    BY <2>1, <1>6 DEF CallInv, CallOK
  <2>3. QED
    BY <2>2, <1>5, <1>7, CallKept
<1>9. ExecInv' /\ RoutesOfWaiting'
  BY <1>1, <1>4, <1>5, ExecKept, RoutesKept
<1>10. LockInv'
  <2>1. \A g \in Callers : g # f /\ call[g].pc = "spawn" => call[g].server # s
    BY <1>1 DEF LockInv
  <2>2. ASSUME NEW r \in Servers, NEW g \in Callers
        PROVE  creating'[r] = g <=> call'[g].pc = "spawn" /\ call'[g].server = r
    BY <1>1, <1>4, <1>6, <2>1, CallersAssumption DEF LockInv
  <2>3. ASSUME NEW r \in Servers, creating'[r] # NoOne PROVE current'[r] = NoClient
    BY <1>6, <2>3 DEF LockInv
  <2>4. QED
    BY <2>2, <2>3 DEF LockInv
<1>11. NoStrayClient'
  <2>1. ASSUME NEW d \in Clients, client'[d].up PROVE current'[d[1]] = d
    <3>1. d[1] \in Servers
      BY DEF Clients
    <3>2. CASE d = c
      BY <3>1, <3>2, <1>3, <1>6
    <3>3. CASE d # c
      <4>1. client[d].up
        BY <2>1, <3>3, <1>6
      <4>2. current[d[1]] = d
        BY <4>1 DEF NoStrayClient
      <4>3. d[1] # s
        BY <4>2, <1>1, CallersAssumption
      <4>4. QED
        BY <4>2, <4>3, <3>1, <1>6
    <3>4. QED
      BY <3>2, <3>3
  <2>2. QED
    BY <2>1 DEF NoStrayClient
<1>12. StdioInv'
  BY <1>1, <1>5 DEF StdioInv, OnlyCaller
<1>13. TypeOK'
  BY <1>1, <1>4, <1>5, <1>6 DEF TypeOK, UpstreamTypeOK, CallType, Pcs, Results, OnlyCaller
<1> QED
  BY <1>8, <1>9, <1>10, <1>11, <1>12, <1>13

\* A step that ends the caller's attempt: what becomes of the call.
AttemptEnds(f) ==
  /\ call' \in [Callers -> CallType]
  /\ \A g \in Callers \ {f} : call'[g] = call[g]
  /\ call'[f].pc \in {"refresh", "evict", "done"}
  /\ call'[f].pc # "done" => call'[f].server = call[f].server /\ call'[f].token = call[f].token
  /\ call'[f].pc = "refresh" => call'[f].ran = call[f].ran

\* It ends without a client to give back.
LEMMA SpawnFailsKeeps ==
  ASSUME IInv, NEW f \in Callers, SpawnFails(f), UNCHANGED <<exec, asked>>
  PROVE  IInv'
<1> USE DEF IInv
<1> DEFINE s == call[f].server
<1>1. /\ call[f].pc = "spawn" /\ s \in Servers /\ creating[s] = f
      /\ creating' = [creating EXCEPT ![s] = NoOne]
      /\ UNCHANGED <<token, client, current, routes, evicting>>
  BY DEF SpawnFails, CallInv, CallOK, LockInv
<1>2. AttemptEnds(f)
  <2>1. call \in [Callers -> CallType]
    BY CallsTyped
  <2>2. PICK result \in {"transport", "refused"} : call' = AfterNoClient(f, result)
    BY DEF SpawnFails
  <2>3. CASE call' = Ends(call, f, "transport")
    <3>1. "transport" \in Results
      BY DEF Results
    <3>2. QED
      BY <2>1, <2>3, <3>1, EndsFacts DEF AttemptEnds
  <2>4. CASE call' = AfterFailure(call, f, result)
    BY <2>1, <2>4, FailureFacts DEF AttemptEnds
  <2>5. QED
    BY <2>2, <2>3, <2>4 DEF AfterNoClient
<1>3. OnlyCaller(f)
  BY <1>1, <1>2 DEF OnlyCaller, AttemptEnds
<1>4. CallOK(f)'
  BY <1>1, <1>2 DEF CallOK, CallInv, AttemptEnds
<1>5. CallInv' /\ ExecInv' /\ RoutesOfWaiting'
  BY <1>1, <1>3, <1>4, CallKept, ExecKept, RoutesKept
<1>6. \A r \in Servers : creating'[r] = IF r = s THEN NoOne ELSE creating[r]
  BY <1>1 DEF TypeOK, UpstreamTypeOK
<1>7. LockInv'
  <2>1. \A g \in Callers : g # f /\ call[g].pc = "spawn" => call[g].server # s
    BY <1>1 DEF LockInv
  <2>2. ASSUME NEW r \in Servers, NEW g \in Callers
        PROVE  creating'[r] = g <=> call'[g].pc = "spawn" /\ call'[g].server = r
    BY <1>1, <1>2, <1>6, <2>1, CallersAssumption DEF LockInv, AttemptEnds
  <2>3. QED
    BY <2>2, <1>1, <1>6 DEF LockInv
<1>8. NoStrayClient' /\ StdioInv'
  BY <1>1, <1>3 DEF NoStrayClient, StdioInv, OnlyCaller
<1>9. TypeOK'
  <2>1. creating' \in [Servers -> Callers \cup {NoOne}]
    BY <1>1 DEF TypeOK, UpstreamTypeOK
  <2>2. QED
    BY <1>1, <1>2, <1>3, <2>1
       DEF TypeOK, UpstreamTypeOK, CallType, Pcs, Results, OnlyCaller, AttemptEnds
<1> QED
  BY <1>5, <1>7, <1>8, <1>9
\* A call that has a client fails or is answered: its route goes.
LEMMA AttemptKeeps ==
  ASSUME IInv, NEW f \in Callers, call[f].pc \in {"send", "wait"}, AttemptEnds(f),
         routes' = routes \/ routes' = routes \ {<<call[f].held, f>>},
         call[f].pc = "wait" => <<call[f].held, f>> \notin routes',
         evicting' \subseteq Requests \X Servers,
         UNCHANGED <<token, client, current, creating, exec, asked>>
  PROVE  IInv'
<1> USE DEF IInv
<1>1. OnlyCaller(f)
  BY DEF OnlyCaller, AttemptEnds
<1>2. CallOK(f)'
  BY DEF CallOK, CallInv, AttemptEnds
<1>3. CallInv' /\ ExecInv'
  BY <1>1, <1>2, CallKept, ExecKept
<1>4. LockInv'
  BY <1>1, LockKept DEF AttemptEnds
<1>5. RoutesOfWaiting'
  BY <1>1, RoutesKept
<1>6. NoStrayClient' /\ StdioInv'
  BY DEF NoStrayClient, StdioInv
<1>7. TypeOK'
  BY DEF TypeOK, UpstreamTypeOK, CallType, Pcs, Results, AttemptEnds
<1> QED
  BY <1>3, <1>4, <1>5, <1>6, <1>7

LEMMA SendRequestKeeps ==
  ASSUME IInv, NEW f \in Callers, SendRequest(f), UNCHANGED <<exec, asked>>
  PROVE  IInv'
<1> DEFINE c == call[f].held
<1>1. call \in [Callers -> CallType]
  BY CallsTyped DEF IInv
<1>2. /\ call[f].pc = "send" /\ c \in Clients /\ UNCHANGED <<token, client, current, creating, evicting>>
  BY DEF SendRequest, IInv, CallInv, CallOK
<1>3. CASE call' = AfterFailure(call, f, "transport") /\ UNCHANGED routes
  <2>1. AttemptEnds(f)
    BY <1>1, <1>3, FailureFacts DEF AttemptEnds
  <2>2. evicting' \subseteq Requests \X Servers
    BY <1>2 DEF IInv, TypeOK, UpstreamTypeOK
  <2>3. QED
    BY <1>2, <1>3, <2>1, <2>2, AttemptKeeps
<1>4. CASE /\ call' = [call EXCEPT ![f].pc = "wait"]
           /\ routes' = routes \cup ({<<c, f>>} \cap (Clients \X Requests))
  <2> USE DEF IInv
  <2>1. /\ call' \in [Callers -> CallType]
        /\ \A g \in Callers \ {f} : call'[g] = call[g]
        /\ call'[f].pc = "wait" /\ call'[f].held = c /\ call'[f].server = call[f].server
        /\ call'[f].token = call[f].token /\ call'[f].ran = call[f].ran
    BY <1>1, <1>4 DEF CallType, Pcs
  <2>2. OnlyCaller(f)
    BY <1>2, <2>1 DEF OnlyCaller
  <2>3. CallOK(f)'
    BY <1>2, <2>1 DEF CallOK, CallInv
  <2>4. CallInv' /\ ExecInv' /\ LockInv'
    BY <1>2, <2>1, <2>2, <2>3, CallKept, ExecKept, LockKept
  <2>5. RoutesOfWaiting'
    BY <1>2, <1>4, <2>1, <2>2, RoutesKept
  <2>6. NoStrayClient' /\ StdioInv'
    BY <1>2 DEF NoStrayClient, StdioInv
  <2>7. routes' \subseteq Clients \X Requests
    BY <1>4 DEF TypeOK, UpstreamTypeOK
  <2>8. TypeOK'
    BY <1>2, <2>1, <2>7 DEF TypeOK, UpstreamTypeOK, CallType, Pcs, Results
  <2>9. QED
    BY <2>4, <2>5, <2>6, <2>8
<1> QED
  BY <1>3, <1>4 DEF SendRequest

LEMMA AnswerKeeps ==
  ASSUME IInv, NEW f \in Callers, UNCHANGED <<exec, asked>>,
         Answer(f) \/ LoseAnswer(f) \/ CancelRequest(f)
  PROVE  IInv'
<1>1. call \in [Callers -> CallType]
  BY CallsTyped DEF IInv
<1>2. /\ call[f].pc = "wait" /\ call[f].server \in Servers
      /\ routes' = routes \ {<<call[f].held, f>>}
      /\ UNCHANGED <<token, client, current, creating>>
  BY DEF Answer, LoseAnswer, CancelRequest, Unroute, IInv, CallInv, CallOK
<1>3. evicting' \subseteq Requests \X Servers
  BY <1>2 DEF Answer, LoseAnswer, CancelRequest, IInv, TypeOK, UpstreamTypeOK
<1>4. /\ Executed(f) \in [Callers -> CallType]
      /\ \A g \in Callers \ {f} : Executed(f)[g] = call[g]
      /\ Executed(f)[f].server = call[f].server /\ Executed(f)[f].token = call[f].token
  BY <1>1 DEF Executed, CallType
<1>5. ASSUME NEW result \in {"ok", "cancelled"}, call' = Ends(call, f, result)
      PROVE  AttemptEnds(f)
  <2>1. result \in Results
    BY DEF Results
  <2>2. QED
    BY <1>1, <1>5, <2>1, EndsFacts DEF AttemptEnds
<1>6. ASSUME NEW result \in {"error", "refused", "transport"}, call' = AfterFailure(call, f, result)
      PROVE  AttemptEnds(f)
  BY <1>1, <1>6, FailureFacts DEF AttemptEnds
<1>7. ASSUME NEW result \in {"error", "transport"}, call' = AfterFailure(Executed(f), f, result)
      PROVE  AttemptEnds(f)
  BY <1>4, <1>7, FailureFacts DEF AttemptEnds
<1>8. AttemptEnds(f)
  <2>1. CASE Answer(f)
    BY <2>1, <1>5, <1>6, <1>7 DEF Answer
  <2>2. CASE LoseAnswer(f)
    BY <2>2, <1>6, <1>7 DEF LoseAnswer
  <2>3. CASE CancelRequest(f)
    BY <2>3, <1>5 DEF CancelRequest
  <2>4. QED
    BY <2>1, <2>2, <2>3
<1> QED
  BY <1>2, <1>3, <1>8, AttemptKeeps

LEMMA EvictOwnKeeps ==
  ASSUME IInv, NEW f \in Callers, EvictOwn(f), UNCHANGED <<exec, asked>>
  PROVE  IInv'
<1> USE DEF IInv
<1> DEFINE s == call[f].server
<1>1. call \in [Callers -> CallType]
  BY CallsTyped
<1>2. /\ call[f].pc = "evict" /\ s \in Servers /\ (s \in Stdio => call[f].token = 0)
      /\ EvictClient(s) /\ UNCHANGED <<token, creating, routes, evicting>>
  BY DEF EvictOwn, CallInv, CallOK
<1>3. /\ client' \in [Clients -> [token : 0 .. MaxToken, up : BOOLEAN]]
      /\ current' \in [Servers -> Clients \cup {NoClient}]
      /\ \A c \in Clients : client'[c].token = client[c].token
      /\ \A r \in Servers : current'[r] \in {current[r], NoClient}
      /\ NoStrayClient'
  BY <1>2, EvictFacts
<1>4. /\ call' \in [Callers -> CallType]
      /\ \A g \in Callers \ {f} : call'[g] = call[g]
      /\ \/ call'[f].pc = "done"
         \/ /\ call'[f].pc = "ask" /\ call'[f].server = s /\ call'[f].token = call[f].token
            /\ f \in Probes
  <2>1. CASE f \in Probes /\ call' = Again(f, call[f].token)
    <3>1. call[f].token \in 0 .. MaxToken
      BY <1>1 DEF CallType
    <3>2. QED
      BY <1>1, <2>1, <3>1, AgainFacts
  <2>2. CASE call' = Ends(call, f, call[f].result)
    <3>1. call[f].result \in Results
      BY <1>1 DEF CallType
    <3>2. QED
      BY <1>1, <2>2, <3>1, EndsFacts
  <2>3. QED
    BY <2>1, <2>2 DEF EvictOwn
<1>5. OnlyCaller(f)
  BY <1>2, <1>4 DEF OnlyCaller
<1>6. CallOK(f)'
  BY <1>2, <1>4, CallersAssumption DEF CallOK
<1>7. CallInv'
  BY <1>3, <1>5, <1>6, CallKept DEF CallInv, CallOK
<1>8. ExecInv' /\ LockInv' /\ RoutesOfWaiting'
  BY <1>2, <1>3, <1>4, <1>5, ExecKept, LockKept, RoutesKept
<1>9. TypeOK' /\ StdioInv'
  BY <1>2, <1>3, <1>4 DEF TypeOK, UpstreamTypeOK, CallType, Pcs, Results, StdioInv
<1> QED
  BY <1>3, <1>7, <1>8, <1>9

\* A detached eviction, with nobody's step.
LEMMA EvictDetachedKeeps ==
  ASSUME IInv, NEW e \in evicting, EvictDetached(e), UNCHANGED <<exec, asked>>
  PROVE  IInv'
<1> USE DEF IInv
<1>1. /\ e[2] \in Servers /\ EvictClient(e[2]) /\ evicting' \subseteq evicting
      /\ UNCHANGED <<token, creating, call, routes>>
  BY DEF EvictDetached, TypeOK, UpstreamTypeOK
<1>2. /\ client' \in [Clients -> [token : 0 .. MaxToken, up : BOOLEAN]]
      /\ current' \in [Servers -> Clients \cup {NoClient}]
      /\ \A c \in Clients : client'[c].token = client[c].token
      /\ \A r \in Servers : current'[r] \in {current[r], NoClient}
      /\ NoStrayClient'
  BY <1>1, EvictFacts
<1>3. CallInv'
  BY <1>1, <1>2 DEF CallInv, CallOK
<1>4. LockInv' /\ ExecInv' /\ RoutesOfWaiting' /\ StdioInv'
  BY <1>1, <1>2 DEF LockInv, ExecInv, RoutesOfWaiting, StdioInv
<1>5. TypeOK'
  BY <1>1, <1>2 DEF TypeOK, UpstreamTypeOK
<1> QED
  BY <1>2, <1>3, <1>4, <1>5

LEMMA RefreshAuthKeeps ==
  ASSUME IInv, NEW f \in Callers, RefreshAuth(f), UNCHANGED <<exec, asked>>
  PROVE  IInv'
<1> USE DEF IInv
<1> DEFINE s == call[f].server
<1>1. call \in [Callers -> CallType]
  BY CallsTyped
<1>2. /\ call[f].pc = "refresh" /\ s \in Servers /\ UNCHANGED <<client, current, creating, routes, evicting>>
      /\ f \in Requests => ~ call[f].ran
  BY DEF RefreshAuth, CallInv, CallOK
<1>3. /\ token' \in [Servers -> 0 .. MaxToken] /\ \A r \in Stdio : token'[r] = token[r]
      /\ call' \in [Callers -> CallType]
      /\ \A g \in Callers \ {f} : call'[g] = call[g]
      /\ \/ call'[f].pc = "done"
         \/ /\ call'[f].pc = "ask" /\ call'[f].server = s /\ s \notin Stdio
            /\ call'[f].ran = call[f].ran
  <2>1. token \in [Servers -> 0 .. MaxToken] /\ Stdio \subseteq Servers
    BY UpstreamConstants DEF TypeOK, UpstreamTypeOK
  <2>2. CASE call' = Ends(call, f, "refused") /\ UNCHANGED token
    <3>1. "refused" \in Results
      BY DEF Results
    <3>2. QED
      BY <1>1, <2>1, <2>2, <3>1, EndsFacts
  <2>3. ASSUME token[s] > 0, NEW new \in 0 .. MaxToken,
               token' = [token EXCEPT ![s] = new],
               call' = Again(f, new)
        PROVE  /\ token' \in [Servers -> 0 .. MaxToken] /\ \A r \in Stdio : token'[r] = token[r]
               /\ call' \in [Callers -> CallType]
               /\ \A g \in Callers \ {f} : call'[g] = call[g]
               /\ call'[f].pc = "ask" /\ call'[f].server = s /\ s \notin Stdio
               /\ call'[f].ran = call[f].ran
    <3>1. s \notin Stdio
      BY <2>3 DEF StdioInv
    <3>2. token' \in [Servers -> 0 .. MaxToken] /\ \A r \in Stdio : token'[r] = token[r]
      BY <2>1, <2>3, <3>1
    <3>3. /\ call' \in [Callers -> CallType]
          /\ \A g \in Callers \ {f} : call'[g] = call[g]
          /\ call'[f].pc = "ask" /\ call'[f].server = s /\ call'[f].ran = call[f].ran
      BY <1>1, <2>3, AgainFacts
    <3>4. QED
      BY <3>1, <3>2, <3>3
  <2>4. QED
    BY <2>2, <2>3, Zenon DEF RefreshAuth
<1>4. OnlyCaller(f)
  BY <1>2, <1>3 DEF OnlyCaller
<1>5. CallOK(f)'
  BY <1>2, <1>3 DEF CallOK
<1>6. CallInv' /\ ExecInv' /\ LockInv' /\ RoutesOfWaiting'
  BY <1>2, <1>3, <1>4, <1>5, CallKept, ExecKept, LockKept, RoutesKept
<1>7. NoStrayClient' /\ StdioInv'
  BY <1>2, <1>3 DEF NoStrayClient, StdioInv
<1>8. TypeOK'
  BY <1>2, <1>3 DEF TypeOK, UpstreamTypeOK, CallType, Pcs, Results
<1> QED
  BY <1>6, <1>7, <1>8
-----------------------------------------------------------------------------
\* The steps of an execution, and of a routed request that begins.

ExecType == [pc : {"idle", "index", "run", "call", "ended"}, tokens : [Servers -> 0 .. MaxToken],
             calls : 0 .. MaxCalls, outcome : {"none", "ok", "failed", "timeout"}]

LEMMA ExecsTyped == TypeOK => exec \in [Execs -> ExecType]
  BY DEF TypeOK, ExecType

LEMMA EndedFacts ==
  ASSUME TypeOK, NEW e \in Execs, NEW outcome \in {"ok", "failed", "timeout"}
  PROVE  /\ Ended(e, outcome) \in [Execs -> ExecType]
         /\ \A d \in Execs \ {e} : Ended(e, outcome)[d] = exec[d]
         /\ Ended(e, outcome)[e].pc = "ended" /\ Ended(e, outcome)[e].outcome = outcome
         /\ Ended(e, outcome)[e].tokens = exec[e].tokens
<1>1. exec \in [Execs -> ExecType]
  BY ExecsTyped
<1> QED
  BY <1>1 DEF Ended, ExecType

\* Callers that were idle or done begin a call, and the rest stay as they are; an
\* execution that timed out stays timed out.
LEMMA NewCallsKeep ==
  ASSUME IInv, call' \in [Callers -> CallType],
         \A g \in Callers :
           \/ call'[g] = call[g]
           \/ /\ call[g].pc \in {"idle", "done"} /\ call'[g].pc = "ask"
              /\ call'[g].server \in Servers /\ ~ call'[g].ran
              /\ call'[g].server \in Stdio => call'[g].token = 0,
         \A e \in Execs : exec[e].outcome = "timeout" => exec'[e].outcome = "timeout",
         UNCHANGED <<token, client, current, creating, routes, evicting>>
  PROVE  UpstreamTypeOK' /\ CallInv' /\ LockInv' /\ NoStrayClient' /\ RoutesOfWaiting'
<1> USE DEF IInv
<1>1. UpstreamTypeOK'
  BY DEF TypeOK, UpstreamTypeOK, CallType, Pcs, Results
<1>2. CallInv'
  BY DEF CallInv, CallOK
<1>3. LockInv'
  BY DEF LockInv
<1>4. RoutesOfWaiting'
  BY DEF RoutesOfWaiting, Callers
<1> QED
  BY <1>1, <1>2, <1>3, <1>4 DEF NoStrayClient

LEMMA RouteRequestKeeps ==
  ASSUME IInv, NEW r \in Routed, RouteRequest(r)
  PROVE  IInv'
<1> USE DEF IInv
<1>1. call \in [Callers -> CallType] /\ r \in Callers /\ r \notin Execs
  BY CallsTyped DEF Routed, Callers
<1>2. /\ ~ asked[r] /\ asked' = [asked EXCEPT ![r] = TRUE]
      /\ UNCHANGED <<exec, token, client, current, creating, routes, evicting>>
  BY DEF RouteRequest
<1>3. PICK s \in Servers : call' = [call EXCEPT ![r] = Asking(s, token[s])]
  BY ExecutionConstants DEF RouteRequest, Begin
<1>4. /\ call' \in [Callers -> CallType]
      /\ call[r].pc = "idle" /\ call'[r].pc = "ask" /\ call'[r].server = s /\ ~ call'[r].ran
      /\ s \in Stdio => call'[r].token = 0
      /\ \A g \in Callers \ {r} : call'[g] = call[g]
  <2>1. token[s] \in 0 .. MaxToken /\ (s \in Stdio => token[s] = 0) /\ 1 \in 0 .. 2
    BY DEF TypeOK, UpstreamTypeOK, StdioInv
  <2>2. Asking(s, token[s]) \in CallType
    BY <2>1 DEF Asking, CallType, Pcs, Results
  <2>3. QED
    BY <1>1, <1>2, <1>3, <2>1, <2>2 DEF Asking, ExecInv
<1>5. UpstreamTypeOK' /\ CallInv' /\ LockInv' /\ NoStrayClient' /\ RoutesOfWaiting'
  BY <1>1, <1>2, <1>4, NewCallsKeep
<1>6. TypeOK' /\ StdioInv'
  BY <1>2, <1>5 DEF TypeOK, StdioInv
<1>7. ExecInv'
  <2>1. ASSUME NEW e \in Execs, NEW s2 \in Servers, exec[e].pc = "idle"
        PROVE  call'[Probe(e, s2)].pc = "idle"
    <3>1. Probe(e, s2) \in Probes
      BY ExecutionConstants DEF Probes, Probe
    <3>2. Probe(e, s2) \in Callers \ {r}
      BY <3>1, CallersAssumption DEF Callers, Routed
    <3>3. QED
      BY <1>4, <2>1, <3>2 DEF ExecInv
  <2>2. ASSUME NEW e \in Execs, exec[e].pc # "call" PROVE call'[e].pc \in {"idle", "done"}
    BY <1>1, <1>4, <2>2, ExecutionConstants DEF ExecInv, Callers
  <2>3. ASSUME NEW q \in Routed, ~ asked'[q] PROVE call'[q].pc = "idle"
    <3>1. q # r /\ ~ asked[q] /\ q \in Callers
      BY <1>2, <2>3 DEF TypeOK, Routed, Callers
    <3>2. QED
      BY <1>4, <3>1 DEF ExecInv
  <2>4. QED
    BY <1>2, <2>1, <2>2, <2>3 DEF ExecInv
<1> QED
  BY <1>5, <1>6, <1>7

LEMMA StartExecutionKeeps ==
  ASSUME IInv, NEW e \in Execs, StartExecution(e)
  PROVE  IInv'
<1> USE DEF IInv
<1>1. /\ call \in [Callers -> CallType] /\ exec \in [Execs -> ExecType]
      /\ token \in [Servers -> 0 .. MaxToken]
  BY CallsTyped, ExecsTyped DEF TypeOK, UpstreamTypeOK
<1>2. /\ exec[e].pc = "idle"
      /\ UNCHANGED <<asked, token, client, current, creating, routes, evicting>>
  BY DEF StartExecution
<1>3. /\ exec' \in [Execs -> ExecType] /\ \A d \in Execs \ {e} : exec'[d] = exec[d]
      /\ exec'[e].pc = "index" /\ exec'[e].tokens = token /\ exec'[e].outcome = exec[e].outcome
  BY <1>1 DEF StartExecution, ExecType
<1>4. ASSUME NEW f \in Callers, call'[f] # call[f]
      PROVE  /\ f \in Probes /\ call'[f].pc = "ask" /\ call'[f].server \in Servers
             /\ f[1] = <<e, "index">> /\ call[f].pc = "idle" /\ ~ call'[f].ran
             /\ call'[f].server \in Stdio => call'[f].token = 0
             /\ call'[f] \in CallType
  <2>1. PICK s \in Enabled : f = Probe(e, s)
    BY <1>1, <1>4 DEF StartExecution
  <2>2. s \in Servers /\ f \in Probes /\ f[1] = <<e, "index">> /\ f[2] = s
    BY <2>1, ExecutionConstants DEF Probe, Probes
  <2>3. call'[f] = Asking(s, token[s])
    BY <1>4, <2>1, <2>2 DEF StartExecution
  <2>4. token[s] \in 0 .. MaxToken /\ (s \in Stdio => token[s] = 0) /\ 1 \in 0 .. 2
    BY <1>1, <2>2 DEF StdioInv
  <2>5. call[f].pc = "idle"
    BY <1>2, <2>1, <2>2 DEF ExecInv
  <2>6. call'[f] \in CallType
    BY <2>2, <2>3, <2>4 DEF Asking, CallType, Pcs, Results
  <2>7. QED
    BY <2>2, <2>3, <2>4, <2>5, <2>6 DEF Asking
<1>5. call' \in [Callers -> CallType]
  <2>1. \A f \in Callers : call'[f] \in CallType
    BY <1>1, <1>4
  <2>2. call' = [f \in Callers |-> call'[f]]
    BY DEF StartExecution
  <2>3. QED
    BY <2>1, <2>2
<1>6. UpstreamTypeOK' /\ CallInv' /\ LockInv' /\ NoStrayClient' /\ RoutesOfWaiting'
  <2>1. \A d \in Execs : exec[d].outcome = "timeout" => exec'[d].outcome = "timeout"
    BY <1>3
  <2>2. QED
    BY <1>2, <1>4, <1>5, <2>1, NewCallsKeep
<1>7. TypeOK' /\ StdioInv'
  BY <1>1, <1>2, <1>3, <1>6 DEF TypeOK, StdioInv, ExecType
<1>8. ExecInv'
  <2>1. ASSUME NEW d \in Execs, NEW s \in Servers, exec'[d].pc = "idle"
        PROVE  call'[Probe(d, s)].pc = "idle"
    <3>1. d # e /\ exec[d].pc = "idle"
      BY <1>3, <2>1
    <3>2. Probe(d, s) \in Callers /\ Probe(d, s)[1] # <<e, "index">>
      BY <3>1, ExecutionConstants DEF Probe, Probes, Callers
    <3>3. QED
      BY <1>4, <3>1, <3>2 DEF ExecInv
  <2>2. \A f \in Requests : call'[f] = call[f]
    BY <1>4, CallersAssumption DEF Callers
  <2>3. ASSUME NEW d \in Execs, exec'[d].pc # "call" PROVE call'[d].pc \in {"idle", "done"}
    BY <1>2, <1>3, <2>2, <2>3, ExecutionConstants DEF ExecInv
  <2>4. ASSUME NEW d \in Execs, exec'[d].outcome = "timeout" PROVE exec'[d].pc = "ended"
    BY <1>2, <1>3, <2>4 DEF ExecInv
  <2>5. QED
    BY <1>2, <2>1, <2>2, <2>3, <2>4 DEF ExecInv, Routed
<1> QED
  BY <1>6, <1>7, <1>8

\* What an execution's own step must do for the invariant, calls apart.
LEMMA OwnStepKeeps ==
  ASSUME IInv, NEW e \in Execs,
         exec' \in [Execs -> ExecType], \A d \in Execs \ {e} : exec'[d] = exec[d],
         exec[e].pc \notin {"idle", "ended"}, exec'[e].pc # "idle",
         exec'[e].tokens = exec[e].tokens,
         exec'[e].outcome = "timeout" => exec'[e].pc = "ended",
         \A g \in Callers \ {e} : call'[g] = call[g],
         exec'[e].pc # "call" => call'[e].pc \in {"idle", "done"},
         UNCHANGED <<token, asked>>
  PROVE  /\ ExecInv' /\ StdioInv'
         /\ UpstreamTypeOK' => TypeOK'
         /\ \A d \in Execs : exec[d].outcome = "timeout" => exec'[d].outcome = "timeout"
<1> USE DEF IInv
<1>1. \A d \in Execs : exec[d].outcome = "timeout" => exec'[d].outcome = "timeout"
  BY DEF ExecInv
<1>2. StdioInv'
  BY DEF StdioInv
<1>3. UpstreamTypeOK' => TypeOK'
  BY DEF TypeOK, ExecType
<1>4. ASSUME NEW d \in Execs, NEW s \in Servers, exec'[d].pc = "idle"
      PROVE  call'[Probe(d, s)].pc = "idle"
  <2>1. Probe(d, s) \in Probes
    BY ExecutionConstants DEF Probes, Probe
  <2>2. Probe(d, s) \in Callers \ {e}
    BY <2>1, ExecutionConstants, CallersAssumption DEF Callers
  <2>3. QED
    BY <1>4, <2>2 DEF ExecInv
<1>5. ASSUME NEW d \in Execs, exec'[d].pc # "call" PROVE call'[d].pc \in {"idle", "done"}
  BY <1>5, ExecutionConstants DEF ExecInv, Callers
<1>6. ASSUME NEW d \in Execs, exec'[d].outcome = "timeout" PROVE exec'[d].pc = "ended"
  BY <1>6 DEF ExecInv
<1>7. ASSUME NEW r \in Routed, ~ asked'[r] PROVE call'[r].pc = "idle"
  <2>1. r \in Callers \ {e}
    BY DEF Routed, Callers
  <2>2. QED
    BY <1>7, <2>1 DEF ExecInv
<1> QED
  BY <1>1, <1>2, <1>3, <1>4, <1>5, <1>6, <1>7 DEF ExecInv

\* A step of an execution that makes no call and drops none.
LEMMA QuietStepKeeps ==
  ASSUME IInv, NEW e \in Execs,
         exec' \in [Execs -> ExecType], \A d \in Execs \ {e} : exec'[d] = exec[d],
         exec[e].pc \in {"index", "run", "call"}, exec'[e].pc \in {"run", "ended"},
         exec'[e].tokens = exec[e].tokens,
         exec'[e].outcome = "timeout" => exec'[e].pc = "ended",
         call[e].pc \in {"idle", "done"}, UNCHANGED <<asked, upstream>>
  PROVE  IInv'
<1>1. UNCHANGED <<token, client, current, creating, call, routes, evicting>>
  BY DEF upstream
<1>2. /\ ExecInv' /\ StdioInv' /\ (UpstreamTypeOK' => TypeOK')
      /\ \A d \in Execs : exec[d].outcome = "timeout" => exec'[d].outcome = "timeout"
  BY <1>1, OwnStepKeeps
<1>3. call' \in [Callers -> CallType]
  BY <1>1, CallsTyped DEF IInv
<1>4. UpstreamTypeOK' /\ CallInv' /\ LockInv' /\ NoStrayClient' /\ RoutesOfWaiting'
  BY <1>1, <1>2, <1>3, NewCallsKeep
<1> QED
  BY <1>2, <1>4 DEF IInv

LEMMA StartScriptKeeps ==
  ASSUME IInv, NEW e \in Execs, StartScript(e)
  PROVE  IInv'
<1>1. exec \in [Execs -> ExecType]
  BY ExecsTyped DEF IInv
<1>2. /\ exec' \in [Execs -> ExecType] /\ \A d \in Execs \ {e} : exec'[d] = exec[d]
      /\ exec[e].pc = "index" /\ exec'[e].pc = "run"
      /\ exec'[e].tokens = exec[e].tokens /\ exec'[e].outcome = exec[e].outcome
      /\ UNCHANGED <<asked, upstream>>
  BY <1>1 DEF StartScript, ExecType
<1>3. call[e].pc \in {"idle", "done"} /\ exec[e].outcome # "timeout"
  BY <1>2 DEF IInv, ExecInv
<1> QED
  BY <1>2, <1>3, QuietStepKeeps

LEMMA TakeResultKeeps ==
  ASSUME IInv, NEW e \in Execs, TakeResult(e)
  PROVE  IInv'
<1>1. exec \in [Execs -> ExecType] /\ TypeOK
  BY ExecsTyped DEF IInv
<1>2. exec[e].pc = "call" /\ call[e].pc = "done" /\ UNCHANGED <<asked, upstream>>
  BY DEF TakeResult
<1>3. exec[e].outcome # "timeout"
  BY <1>2 DEF IInv, ExecInv
<1>4. CASE exec' = [exec EXCEPT ![e].pc = "run"]
  <2>1. /\ exec' \in [Execs -> ExecType] /\ \A d \in Execs \ {e} : exec'[d] = exec[d]
        /\ exec'[e].pc = "run" /\ exec'[e].tokens = exec[e].tokens
        /\ exec'[e].outcome = exec[e].outcome
    BY <1>1, <1>4 DEF ExecType
  <2>2. QED
    BY <1>2, <1>3, <2>1, QuietStepKeeps
<1>5. CASE exec' = Ended(e, "failed")
  <2>1. /\ exec' \in [Execs -> ExecType] /\ \A d \in Execs \ {e} : exec'[d] = exec[d]
        /\ exec'[e].pc = "ended" /\ exec'[e].tokens = exec[e].tokens
    BY <1>1, <1>5, EndedFacts
  <2>2. QED
    BY <1>2, <2>1, QuietStepKeeps
<1> QED
  BY <1>4, <1>5 DEF TakeResult

\* An execution that ends while no call of its own is under way.
LEMMA EndKeeps ==
  ASSUME IInv, NEW e \in Execs, NEW outcome \in {"ok", "failed", "timeout"},
         exec[e].pc \in {"run", "call"}, call[e].pc \in {"idle", "done"},
         exec' = Ended(e, outcome), UNCHANGED <<asked, upstream>>
  PROVE  IInv'
<1>1. /\ exec' \in [Execs -> ExecType] /\ \A d \in Execs \ {e} : exec'[d] = exec[d]
      /\ exec'[e].pc = "ended" /\ exec'[e].tokens = exec[e].tokens
  BY EndedFacts DEF IInv
<1> QED
  BY <1>1, QuietStepKeeps

LEMMA EndScriptKeeps ==
  ASSUME IInv, NEW e \in Execs, EndScript(e)
  PROVE  IInv'
<1>1. exec[e].pc = "run" /\ UNCHANGED <<asked, upstream>>
  BY DEF EndScript
<1>2. PICK outcome \in {"ok", "failed"} : exec' = Ended(e, outcome)
  BY DEF EndScript
<1>3. call[e].pc \in {"idle", "done"}
  BY <1>1 DEF IInv, ExecInv
<1> QED
  BY <1>1, <1>2, <1>3, EndKeeps

LEMMA CallToolKeeps ==
  ASSUME IInv, NEW e \in Execs, CallTool(e)
  PROVE  IInv'
<1>1. /\ exec \in [Execs -> ExecType] /\ call \in [Callers -> CallType] /\ TypeOK
      /\ e \in Callers
  BY CallsTyped, ExecsTyped, ExecutionConstants DEF IInv, Callers
<1>2. /\ exec[e].pc = "run" /\ exec[e].calls < MaxCalls
      /\ UNCHANGED <<asked, token, client, current, creating, routes, evicting>>
  BY DEF CallTool
<1>3. call[e].pc \in {"idle", "done"} /\ exec[e].outcome # "timeout"
  BY <1>2 DEF IInv, ExecInv
<1>4. CASE exec' = Ended(e, "failed") /\ UNCHANGED call
  BY <1>2, <1>3, <1>4, EndKeeps DEF upstream
<1>5. ASSUME NEW s \in Servers, Begin(e, s, exec[e].tokens[s]),
             exec' = [exec EXCEPT ![e].pc = "call", ![e].calls = @ + 1]
      PROVE  IInv'
  <2>1. exec[e].calls + 1 \in 0 .. MaxCalls
    BY <1>1, <1>2, ExecutionConstants DEF ExecType
  <2>2. /\ exec' \in [Execs -> ExecType] /\ \A d \in Execs \ {e} : exec'[d] = exec[d]
        /\ exec'[e].pc = "call" /\ exec'[e].tokens = exec[e].tokens
        /\ exec'[e].outcome = exec[e].outcome
    BY <1>1, <1>5, <2>1 DEF ExecType
  <2>3. /\ exec[e].tokens[s] \in 0 .. MaxToken /\ (s \in Stdio => exec[e].tokens[s] = 0)
        /\ 1 \in 0 .. 2
    BY <1>1 DEF ExecType, IInv, StdioInv
  <2>4. Asking(s, exec[e].tokens[s]) \in CallType
    BY <2>3 DEF Asking, CallType, Pcs, Results
  <2>5. /\ call' \in [Callers -> CallType] /\ \A g \in Callers \ {e} : call'[g] = call[g]
        /\ call'[e].pc = "ask" /\ call'[e].server = s /\ ~ call'[e].ran
        /\ s \in Stdio => call'[e].token = 0
    BY <1>1, <1>5, <2>3, <2>4 DEF Begin, Asking
  <2>6. /\ ExecInv' /\ StdioInv' /\ (UpstreamTypeOK' => TypeOK')
        /\ \A d \in Execs : exec[d].outcome = "timeout" => exec'[d].outcome = "timeout"
    BY <1>2, <1>3, <2>2, <2>5, OwnStepKeeps
  <2>7. UpstreamTypeOK' /\ CallInv' /\ LockInv' /\ NoStrayClient' /\ RoutesOfWaiting'
    BY <1>2, <1>3, <2>5, <2>6, NewCallsKeep
  <2>8. QED
    BY <2>6, <2>7 DEF IInv
<1> QED
  BY <1>1, <1>4, <1>5, ExecutionConstants DEF CallTool

\* The wall limit drops a call wherever it is, a creation under way with it.
LEMMA DropCallKeeps ==
  ASSUME IInv, NEW e \in Execs, exec[e].pc = "call", call[e].pc # "done",
         exec' = Ended(e, "timeout"), DropCall(e), UNCHANGED asked
  PROVE  IInv'
<1> USE DEF IInv
<1>1. call \in [Callers -> CallType] /\ e \in Callers /\ "none" \in Results
  BY CallsTyped, ExecutionConstants DEF Callers, Results
<1>2. /\ exec' \in [Execs -> ExecType] /\ \A d \in Execs \ {e} : exec'[d] = exec[d]
      /\ exec'[e].pc = "ended" /\ exec'[e].outcome = "timeout"
      /\ exec'[e].tokens = exec[e].tokens
  BY EndedFacts
<1>3. /\ call' \in [Callers -> CallType] /\ \A g \in Callers \ {e} : call'[g] = call[g]
      /\ call'[e].pc = "done"
  BY <1>1, EndsFacts DEF DropCall
<1>4. /\ UNCHANGED <<token, client, current, routes, evicting>>
      /\ creating' = [s \in Servers |-> IF creating[s] = e THEN NoOne ELSE creating[s]]
  BY DEF DropCall
<1>5. /\ ExecInv' /\ StdioInv' /\ (UpstreamTypeOK' => TypeOK')
      /\ \A d \in Execs : exec[d].outcome = "timeout" => exec'[d].outcome = "timeout"
  BY <1>2, <1>3, <1>4, OwnStepKeeps
<1>6. creating' \in [Servers -> Callers \cup {NoOne}]
  BY <1>4 DEF TypeOK, UpstreamTypeOK
<1>7. UpstreamTypeOK'
  BY <1>3, <1>4, <1>6 DEF TypeOK, UpstreamTypeOK, CallType, Pcs, Results
<1>8. CallInv'
  <2>1. CallOK(e)'
    BY <1>3 DEF CallOK
  <2>2. ASSUME NEW g \in Callers \ {e} PROVE CallOK(g)'
    BY <1>3, <1>4 DEF CallInv, CallOK
  <2>3. QED
    BY <2>1, <2>2 DEF CallInv
<1>9. LockInv'
  <2>1. ASSUME NEW s \in Servers, NEW g \in Callers
        PROVE  creating'[s] = g <=> call'[g].pc = "spawn" /\ call'[g].server = s
    <3>1. CASE g = e
      BY <1>3, <1>4, <3>1, CallersAssumption
    <3>2. CASE g # e
      BY <1>3, <1>4, <3>2, CallersAssumption DEF LockInv
    <3>3. QED
      BY <3>1, <3>2
  <2>2. \A s \in Servers : creating'[s] # NoOne => current'[s] = NoClient
    BY <1>4 DEF LockInv
  <2>3. QED
    BY <2>1, <2>2 DEF LockInv
<1>10. RoutesOfWaiting'
  <2>1. ASSUME NEW c \in Clients, NEW f \in Requests, <<c, f>> \in routes',
               ~ (f \in Execs /\ exec'[f].outcome = "timeout")
        PROVE  call'[f].pc = "wait" /\ call'[f].held = c
    <3>1. f # e /\ f \in Callers
      BY <1>2, <2>1 DEF Callers
    <3>2. ~ (f \in Execs /\ exec[f].outcome = "timeout")
      BY <1>2, <2>1, <3>1
    <3>3. call[f].pc = "wait" /\ call[f].held = c
      BY <1>4, <2>1, <3>2 DEF RoutesOfWaiting
    <3>4. QED
      BY <1>3, <3>1, <3>3
  <2>2. QED
    BY <2>1 DEF RoutesOfWaiting
<1>11. NoStrayClient'
  BY <1>4 DEF NoStrayClient
<1> QED
  BY <1>5, <1>7, <1>8, <1>9, <1>10, <1>11

LEMMA WallLimitKeeps ==
  ASSUME IInv, NEW e \in Execs, WallLimit(e)
  PROVE  IInv'
<1>1. /\ exec[e].pc \in {"run", "call"} /\ exec' = Ended(e, "timeout") /\ UNCHANGED asked
  BY DEF WallLimit
<1>2. exec[e].pc = "run" => call[e].pc \in {"idle", "done"}
  BY DEF IInv, ExecInv
<1>3. CASE exec[e].pc = "call" /\ call[e].pc # "done" /\ DropCall(e)
  BY <1>1, <1>3, DropCallKeeps
<1>4. CASE ~ (exec[e].pc = "call" /\ call[e].pc # "done") /\ UNCHANGED upstream
  BY <1>1, <1>2, <1>4, EndKeeps
<1> QED
  BY <1>3, <1>4 DEF WallLimit

-----------------------------------------------------------------------------
LEMMA IInvNext == IInv /\ [Next]_vars => IInv'
<1> SUFFICES ASSUME IInv, [Next]_vars PROVE IInv'
  OBVIOUS
<1>1. ASSUME NEW e \in Execs, ExecStep(e) PROVE IInv'
  BY <1>1, StartExecutionKeeps, StartScriptKeeps, CallToolKeeps, TakeResultKeeps,
     EndScriptKeeps, WallLimitKeeps DEF ExecStep
<1>2. ASSUME NEW r \in Routed, RouteRequest(r) PROVE IInv'
  BY <1>2, RouteRequestKeeps
<1>3. ASSUME UNCHANGED <<exec, asked>>, NEW f \in Callers,
             CallerStep(f) \/ Answer(f) \/ CancelRequest(f)
      PROVE  IInv'
  BY <1>3, ReuseClientKeeps, BeginSpawnKeeps, SpawnClientKeeps, SpawnFailsKeeps,
     SendRequestKeeps, AnswerKeeps, EvictOwnKeeps, RefreshAuthKeeps DEF CallerStep
<1>4. ASSUME UNCHANGED <<exec, asked>>, NEW e \in evicting, EvictDetached(e) PROVE IInv'
  BY <1>4, EvictDetachedKeeps
<1>5. CASE UNCHANGED vars
  BY <1>5 DEF vars, upstream, IInv, TypeOK, UpstreamTypeOK, CallInv, CallOK, LockInv, StdioInv,
              ExecInv, NoStrayClient, RoutesOfWaiting
<1> QED
  BY <1>1, <1>2, <1>3, <1>4, <1>5 DEF Next, UpstreamNext

\* The invariant holds in every state of every behaviour of an execution engine over
\* the upstream manager: it is what the theorems below rest on.
THEOREM InductiveInvariant == Spec => []IInv
  BY IInvInit, IInvNext, PTL DEF Spec

\* Every record of upstream.rs and execution.rs that is modelled has its type.
THEOREM TypeCorrect == Spec => []TypeOK
  BY InductiveInvariant, PTL DEF IInv

\* However requests, probes, dropped calls and late evictions interleave, a server
\* never has two live clients, nor one the map does not hold (managed_client, evict_client).
THEOREM OneLiveClient == Spec => []NoStrayClient
  BY InductiveInvariant, PTL DEF IInv

\* A call is only ever sent on a client that was made for its server with its token
\* (is_same_config), although the map's client may be replaced at any moment.
THEOREM RequestsUseTheirClient == Spec => []OwnClientOnly
<1>1. IInv => OwnClientOnly
  BY DEF IInv, CallInv, CallOK, OwnClientOnly
<1> QED
  BY <1>1, InductiveInvariant, PTL

\* A request that is made once more after a refresh is one that the upstream did not
\* execute (route_tool_call_with_optional_refresh).
THEOREM NothingRepeated == Spec => []NotRepeated
<1>1. IInv => NotRepeated
  BY DEF IInv, CallInv, CallOK, NotRepeated, Callers
<1> QED
  BY <1>1, InductiveInvariant, PTL

\* A progress route belongs to a call that waits, unless the wall limit dropped that call.
THEOREM RoutesEnd == Spec => []RoutesOfWaiting
  BY InductiveInvariant, PTL DEF IInv

==============================================================================
