----------------------------- MODULE AuthTokens -----------------------------
(***************************************************************************)
(* The life of a server's stored OAuth credential: AuthManager of auth.rs, *)
(* run by several gambi processes (the shared admin daemon and one process *)
(* per MCP client) over one token store.                                   *)
(*                                                                         *)
(* A task is one asynchronous flow of one process: a call of refresh, of   *)
(* callback (or of start / ensure_registered_client, its prefixes), or of  *)
(* the configuration handlers that end in prune_orphaned_state.  Every     *)
(* read-modify-write of the store is one step, because ConfigStore runs it *)
(* under the file lock; everything between two awaits of a flow is a step  *)
(* of its own, so flows interleave exactly where the code suspends.        *)
(*                                                                         *)
(* Refresh tokens are opaque.  status is the provider's view of each one:  *)
(* a rotating provider spends the old token when it issues the new one.    *)
(* "stranded" marks a spent token whose successor never reached the store. *)
(***************************************************************************)
EXTENDS Naturals, FiniteSets

CONSTANTS
    Servers,        \* names of upstream servers
    Procs,          \* operating system processes running gambi
    Tasks,          \* asynchronous flows
    ProcOf,         \* the process a flow runs in
    Tokens,         \* refresh tokens the providers can issue
    LockIds,        \* identities of refresh lock objects (Arc pointers)
    Stable,         \* servers configured from the start and never removed
    Rotates,        \* servers whose provider rotates refresh tokens
    StaticClients,  \* servers whose configuration carries a client_id
    SweepTasks,     \* flows started by refresh_due_tokens_once
    Requests,       \* flows run inside a request handler of the admin API
    Detached,       \* flows no shutdown path waits for (tokio::spawn)
    StoreMayFail,   \* whether a store access may fail (lock timeout, I/O)
    NoServer, NoToken, AccessOnly, NoLock

ASSUME ServersAssumption ==
    /\ Stable \subseteq Servers
    /\ Rotates \subseteq Servers
    /\ StaticClients \subseteq Servers
    /\ NoServer \notin Servers

ASSUME TasksAssumption ==
    /\ ProcOf \in [Tasks -> Procs]
    /\ SweepTasks \subseteq Tasks
    /\ Requests \subseteq Tasks \ SweepTasks
    /\ Detached \subseteq Tasks

ASSUME TokensAssumption ==
    /\ NoToken \notin Tokens
    /\ AccessOnly \notin Tokens
    /\ NoToken # AccessOnly

ASSUME StoreAssumption == StoreMayFail \in BOOLEAN

ASSUME LocksAssumption == NoLock \notin LockIds

VARIABLES
    configured,  \* config.json: the set of server names
    token,       \* oauth_tokens: the stored refresh token of each server
    health,      \* oauth_health
    clients,     \* registered_clients: servers with a registered client
    registry,    \* REFRESH_LOCKS_BY_SERVER of each process
    pc,          \* where each flow is suspended
    srv,         \* the server a flow works for
    lock,        \* the lock object a refresh cloned out of the registry
    attempted,   \* the refresh token a refresh loaded and presents
    got,         \* the refresh token of the answer, not yet stored
    snap,        \* the server names a prune loaded
    status,      \* the provider's view of each refresh token
    issuer       \* the server whose provider issued it

storeVars == <<configured, token, health, clients>>
flowVars == <<srv, lock, attempted, got, snap>>
providerVars == <<status, issuer>>
vars == <<storeVars, registry, pc, flowVars, providerVars>>

Statuses == {"unissued", "live", "spent", "stranded", "revoked"}

\* Points of refresh() reached while the lock guard is alive.
Critical == {"loading", "resolving", "discovering", "sending", "persisting",
             "cleanup", "degrading"}
Refreshing == Critical \cup {"queued"}
LoginSteps == {"loginResolve", "registering", "exchanging", "storing"}
PruneSteps == {"pruneLoad", "pruneTokens", "pruneLocks"}
\* A store update of a refresh whose caller has gone, still in the blocking pool.
Late == {"lateStore", "lateRemove"}
Steps == Refreshing \cup LoginSteps \cup PruneSteps \cup Late \cup {"idle", "remark"}

TypeOK ==
    /\ configured \in SUBSET Servers
    /\ token \in [Servers -> Tokens \cup {NoToken, AccessOnly}]
    /\ health \in [Servers -> {"none", "healthy", "degraded"}]
    /\ clients \in SUBSET Servers
    /\ registry \in [Procs -> [Servers -> LockIds \cup {NoLock}]]
    /\ pc \in [Tasks -> Steps]
    /\ srv \in [Tasks -> Servers \cup {NoServer}]
    /\ lock \in [Tasks -> LockIds \cup {NoLock}]
    /\ attempted \in [Tasks -> Tokens \cup {NoToken}]
    /\ got \in [Tasks -> Tokens \cup {NoToken, AccessOnly}]
    /\ snap \in [Tasks -> SUBSET Servers]
    /\ status \in [Tokens -> Statuses]
    /\ issuer \in [Tokens -> Servers \cup {NoServer}]

\* Any configuration that holds the stable servers, nothing authorised yet.
Init ==
    /\ configured \in {S \in SUBSET Servers : Stable \subseteq S}
    /\ token = [s \in Servers |-> NoToken]
    /\ health = [s \in Servers |-> "none"]
    /\ clients = {}
    /\ registry = [p \in Procs |-> [s \in Servers |-> NoLock]]
    /\ pc = [t \in Tasks |-> "idle"]
    /\ srv = [t \in Tasks |-> NoServer]
    /\ lock = [t \in Tasks |-> NoLock]
    /\ attempted = [t \in Tasks |-> NoToken]
    /\ got = [t \in Tasks |-> NoToken]
    /\ snap = [t \in Tasks |-> {}]
    /\ status = [r \in Tokens |-> "unissued"]
    /\ issuer = [r \in Tokens |-> NoServer]

-----------------------------------------------------------------------------
(* Moving a flow. *)

Goto(t, step) == pc' = [pc EXCEPT ![t] = step]

\* The flow returns: its locals, the lock guard among them, are dropped.
Return(t) ==
    /\ Goto(t, "idle")
    /\ srv' = [srv EXCEPT ![t] = NoServer]
    /\ lock' = [lock EXCEPT ![t] = NoLock]
    /\ attempted' = [attempted EXCEPT ![t] = NoToken]
    /\ got' = [got EXCEPT ![t] = NoToken]
    /\ snap' = [snap EXCEPT ![t] = {}]

\* A lock object is alive while the registry or a flow refers to it.
LocksInUse ==
    {lock[t] : t \in Tasks} \cup {registry[p][s] : p \in Procs, s \in Servers}

SetHealth(s, value) == health' = [health EXCEPT ![s] = value]

-----------------------------------------------------------------------------
(* refresh(server). *)

\* Mutant: the registry entry is overwritten instead of reused.
MutRefreshBegin(t, s) ==
    /\ pc[t] = "idle"
    /\ \E l \in LockIds \ LocksInUse :
         /\ registry' = [registry EXCEPT ![ProcOf[t]][s] = l]
         /\ lock' = [lock EXCEPT ![t] = l]
    /\ srv' = [srv EXCEPT ![t] = s]
    /\ Goto(t, "queued")
    /\ UNCHANGED <<storeVars, attempted, got, snap, providerVars>>

\* refresh_lock_for_server: clone the server's lock, creating it if needed.
RefreshBegin(t, s) ==
    /\ pc[t] = "idle"
    /\ \E l \in LockIds :
         /\ \/ registry[ProcOf[t]][s] = l
            \/ registry[ProcOf[t]][s] = NoLock /\ l \notin LocksInUse
         /\ registry' = [registry EXCEPT ![ProcOf[t]][s] = l]
         /\ lock' = [lock EXCEPT ![t] = l]
    /\ srv' = [srv EXCEPT ![t] = s]
    /\ Goto(t, "queued")
    /\ UNCHANGED <<storeVars, attempted, got, snap, providerVars>>

\* lock.lock().await
RefreshAcquire(t) ==
    /\ pc[t] = "queued"
    /\ \A u \in Tasks : lock[u] = lock[t] => pc[u] \notin Critical
    /\ Goto(t, "loading")
    /\ UNCHANGED <<storeVars, registry, flowVars, providerVars>>

\* load_server_refresh_token, which wants a stored token with a refresh_token.
LoadServerRefreshToken(t) ==
    /\ pc[t] = "loading"
    /\ token[srv[t]] \in Tokens
    /\ attempted' = [attempted EXCEPT ![t] = token[srv[t]]]
    /\ Goto(t, "resolving")
    /\ UNCHANGED <<storeVars, registry, srv, lock, got, snap, providerVars>>

\* refresh_once loads the configuration; server_for_name must find the server.
RefreshFindServer(t) ==
    /\ pc[t] = "resolving"
    /\ srv[t] \in configured
    /\ Goto(t, "discovering")
    /\ UNCHANGED <<storeVars, registry, flowVars, providerVars>>

\* resolve_oauth_config: discovery, then a second read of the store for the
\* client.  Without a redirect_uri it cannot register one.
RefreshResolve(t) ==
    /\ pc[t] = "discovering"
    /\ srv[t] \in StaticClients \cup clients
    /\ Goto(t, "sending")
    /\ UNCHANGED <<storeVars, registry, flowVars, providerVars>>

\* No token, a token without refresh_token, an unknown server, no client_id,
\* discovery that fails without a fallback, a store lock not obtained in time.
RefreshFailsEarly(t) ==
    /\ pc[t] \in {"loading", "resolving", "discovering"}
    /\ Goto(t, "degrading")
    /\ UNCHANGED <<storeVars, registry, flowVars, providerVars>>

\* The provider honours the refresh token that a flow presents.
Honoured(t) == status[attempted[t]] = "live" /\ issuer[attempted[t]] = srv[t]

\* Mutant: the guard is dropped once the answer is there, before it is stored.
MutRefreshGranted(t) ==
    /\ pc[t] = "sending"
    /\ Honoured(t)
    /\ srv[t] \in Rotates
    /\ \E r \in Tokens :
         /\ status[r] = "unissued"
         /\ status' = [status EXCEPT ![attempted[t]] = "spent", ![r] = "live"]
         /\ issuer' = [issuer EXCEPT ![r] = srv[t]]
         /\ got' = [got EXCEPT ![t] = r]
    /\ lock' = [lock EXCEPT ![t] = NoLock]
    /\ Goto(t, "persisting")
    /\ UNCHANGED <<storeVars, registry, srv, attempted, snap>>

\* The token endpoint grants a new token.
RefreshGranted(t) ==
    /\ pc[t] = "sending"
    /\ Honoured(t)
    /\ IF srv[t] \in Rotates
       THEN \E r \in Tokens :
              /\ status[r] = "unissued"
              /\ status' = [status EXCEPT ![attempted[t]] = "spent",
                                          ![r] = "live"]
              /\ issuer' = [issuer EXCEPT ![r] = srv[t]]
              /\ got' = [got EXCEPT ![t] = r]
       ELSE /\ got' = [got EXCEPT ![t] = attempted[t]]
            /\ UNCHANGED providerVars
    /\ Goto(t, "persisting")
    /\ UNCHANGED <<storeVars, registry, srv, lock, attempted, snap>>

\* The provider grants a new token but its answer never arrives or cannot be
\* read: a timeout, a broken connection, a body that is not JSON.
RefreshAnswerLost(t) ==
    /\ pc[t] = "sending"
    /\ srv[t] \in Rotates
    /\ Honoured(t)
    /\ status' = [status EXCEPT ![attempted[t]] = "stranded"]
    /\ Goto(t, "degrading")
    /\ UNCHANGED <<storeVars, registry, flowVars, issuer>>

\* Mutant: every error answer counts as relogin-required.
MutRefreshRefused(t) ==
    /\ pc[t] = "sending"
    /\ Goto(t, "cleanup")
    /\ UNCHANGED <<storeVars, registry, flowVars, providerVars>>

\* The provider says that the token is no good (invalid_grant, ...).
RefreshRefused(t) ==
    /\ pc[t] = "sending"
    /\ ~Honoured(t)
    /\ Goto(t, "cleanup")
    /\ UNCHANGED <<storeVars, registry, flowVars, providerVars>>

\* Mutant: a transient failure is cleaned up like a refused token.
MutRefreshFails(t) ==
    /\ pc[t] = "sending"
    /\ Goto(t, "cleanup")
    /\ UNCHANGED <<storeVars, registry, flowVars, providerVars>>

\* Any other failure: no connection, a server error, an unrelated error code.
RefreshFails(t) ==
    /\ pc[t] = "sending"
    /\ Goto(t, "degrading")
    /\ UNCHANGED <<storeVars, registry, flowVars, providerVars>>

\* Mutant: the presented refresh token is kept even if a new one was issued.
MutPersistRefreshed(t) ==
    /\ pc[t] = "persisting"
    /\ token' = [token EXCEPT ![srv[t]] = attempted[t]]
    /\ SetHealth(srv[t], "healthy")
    /\ Return(t)
    /\ UNCHANGED <<configured, clients, registry, providerVars>>

\* The end of refresh_once, then clear_retry_state and the end of refresh.
PersistRefreshed(t) ==
    /\ pc[t] \in {"persisting", "lateStore"}
    /\ token' = [token EXCEPT ![srv[t]] = got[t]]
    /\ SetHealth(srv[t], "healthy")
    /\ Return(t)
    /\ UNCHANGED <<configured, clients, registry, providerVars>>

\* The same update, stored, reports an error: the directory could not be synced.
PersistRefreshedUnsynced(t) ==
    /\ pc[t] = "persisting"
    /\ StoreMayFail
    /\ token' = [token EXCEPT ![srv[t]] = got[t]]
    /\ SetHealth(srv[t], "healthy")
    /\ Goto(t, "degrading")
    /\ UNCHANGED <<configured, clients, registry, flowVars, providerVars>>

\* The flow has a rotated token that is not stored yet.
HoldsSuccessor(t) == pc[t] \in {"persisting", "lateStore"} /\ got[t] # attempted[t]

\* That token is lost together with the flow's locals.
LosesSuccessor(t) ==
    status' = IF HoldsSuccessor(t)
              THEN [status EXCEPT ![attempted[t]] = "stranded"] ELSE status

\* update_tokens fails: the store lock is not obtained within its timeout.
PersistRefreshedFails(t) ==
    /\ pc[t] \in {"persisting", "lateStore"}
    /\ StoreMayFail
    /\ LosesSuccessor(t)
    /\ IF pc[t] = "persisting" THEN Goto(t, "degrading") /\ UNCHANGED flowVars
                               ELSE Return(t)
    /\ UNCHANGED <<storeVars, registry, issuer>>

\* Mutant: the token is removed without comparing it with the attempted one.
MutRemoveStaleToken(t) ==
    /\ pc[t] = "cleanup"
    /\ token' = [token EXCEPT ![srv[t]] = NoToken]
    /\ Goto(t, "degrading")
    /\ UNCHANGED <<configured, health, clients, registry, flowVars, providerVars>>

\* remove_oauth_token_if_refresh_token_matches; the write may fail, which
\* is only logged.
RemoveStaleToken(t) ==
    /\ pc[t] \in {"cleanup", "lateRemove"}
    /\ \/ /\ token[srv[t]] = attempted[t]
          /\ token' = [token EXCEPT ![srv[t]] = NoToken]
       \/ /\ token[srv[t]] # attempted[t] \/ StoreMayFail
          /\ UNCHANGED token
    /\ IF pc[t] = "cleanup" THEN Goto(t, "degrading") /\ UNCHANGED flowVars
                            ELSE Return(t)
    /\ UNCHANGED <<configured, health, clients, registry, providerVars>>

\* mark_server_degraded, whose own failure is ignored.  The caller of a sweep
\* goes on after refresh has returned and dropped its guard.
MarkServerDegraded(t) ==
    /\ pc[t] = "degrading"
    /\ \/ SetHealth(srv[t], "degraded")
       \/ StoreMayFail /\ UNCHANGED health
    /\ IF t \in SweepTasks
       THEN /\ Goto(t, "remark")
            /\ lock' = [lock EXCEPT ![t] = NoLock]
            /\ attempted' = [attempted EXCEPT ![t] = NoToken]
            /\ got' = [got EXCEPT ![t] = NoToken]
            /\ UNCHANGED <<srv, snap>>
       ELSE Return(t)
    /\ UNCHANGED <<configured, token, clients, registry, providerVars>>

\* The second mark of refresh_due_tokens_once, with the next attempt's time.
SweepMarksDegraded(t) ==
    /\ pc[t] = "remark"
    /\ \/ SetHealth(srv[t], "degraded")
       \/ StoreMayFail /\ UNCHANGED health
    /\ Return(t)
    /\ UNCHANGED <<configured, token, clients, registry, providerVars>>

-----------------------------------------------------------------------------
(* callback(state, code), and its prefixes start and                       *)
(* ensure_registered_client, which return once the client is resolved.     *)

LoginBegin(t, s) ==
    /\ pc[t] = "idle"
    /\ s \in configured
    /\ srv' = [srv EXCEPT ![t] = s]
    /\ Goto(t, "loginResolve")
    /\ UNCHANGED <<storeVars, registry, lock, attempted, got, snap, providerVars>>

\* resolve_oauth_config reads the store for a registered client.
LoginResolve(t) ==
    /\ pc[t] = "loginResolve"
    /\ IF srv[t] \in StaticClients \cup clients
       THEN Goto(t, "exchanging")
       ELSE Goto(t, "registering")
    /\ UNCHANGED <<storeVars, registry, flowVars, providerVars>>

PersistRegisteredClient(t) ==
    /\ pc[t] = "registering"
    /\ clients' = clients \cup {srv[t]}
    /\ Goto(t, "exchanging")
    /\ UNCHANGED <<configured, token, health, registry, flowVars, providerVars>>

\* exchange_authorization_code; the answer may hold no refresh_token.
ExchangeCode(t) ==
    /\ pc[t] = "exchanging"
    /\ \/ \E r \in Tokens :
            /\ status[r] = "unissued"
            /\ status' = [status EXCEPT ![r] = "live"]
            /\ issuer' = [issuer EXCEPT ![r] = srv[t]]
            /\ got' = [got EXCEPT ![t] = r]
       \/ /\ got' = [got EXCEPT ![t] = AccessOnly]
          /\ UNCHANGED providerVars
    /\ Goto(t, "storing")
    /\ UNCHANGED <<storeVars, registry, srv, lock, attempted, snap>>

\* An error at any await, or the end of start and ensure_registered_client.
LoginEnds(t) ==
    /\ pc[t] \in LoginSteps
    /\ Return(t)
    /\ UNCHANGED <<storeVars, registry, providerVars>>

PersistLogin(t) ==
    /\ pc[t] = "storing"
    /\ token' = [token EXCEPT ![srv[t]] = got[t]]
    /\ SetHealth(srv[t], "healthy")
    /\ Return(t)
    /\ UNCHANGED <<configured, clients, registry, providerVars>>

-----------------------------------------------------------------------------
(* Configuration changes and prune_orphaned_state. *)

AddServer(s) ==
    /\ configured' = configured \cup {s}
    /\ UNCHANGED <<token, health, clients, registry, pc, flowVars, providerVars>>

\* remove_server; its write of the configuration precedes the prune.
RemoveServer(t, s) ==
    /\ pc[t] = "idle"
    /\ s \in configured \ Stable
    /\ configured' = configured \ {s}
    /\ Goto(t, "pruneLoad")
    /\ UNCHANGED <<token, health, clients, registry, flowVars, providerVars>>

\* import_config replaces the whole file.
ImportConfig(t, S) ==
    /\ pc[t] = "idle"
    /\ Stable \subseteq S
    /\ configured' = S
    /\ Goto(t, "pruneLoad")
    /\ UNCHANGED <<token, health, clients, registry, flowVars, providerVars>>

PruneLoad(t) ==
    /\ pc[t] = "pruneLoad"
    /\ snap' = [snap EXCEPT ![t] = configured]
    /\ Goto(t, "pruneTokens")
    /\ UNCHANGED <<storeVars, registry, srv, lock, attempted, got, providerVars>>

\* Mutant: the retain keeps the servers that are gone.
MutPruneTokens(t) ==
    /\ pc[t] = "pruneTokens"
    /\ token' = token
    /\ health' = [s \in Servers |-> IF s \in snap[t] THEN "none" ELSE health[s]]
    /\ clients' = clients \ snap[t]
    /\ Goto(t, "pruneLocks")
    /\ UNCHANGED <<configured, registry, flowVars, providerVars>>

\* prune_token_state_for_server_names
PruneTokens(t) ==
    /\ pc[t] = "pruneTokens"
    /\ token' = [s \in Servers |-> IF s \in snap[t] THEN token[s] ELSE NoToken]
    /\ health' = [s \in Servers |-> IF s \in snap[t] THEN health[s] ELSE "none"]
    /\ clients' = clients \cap snap[t]
    /\ Goto(t, "pruneLocks")
    /\ UNCHANGED <<configured, registry, flowVars, providerVars>>

\* Mutant: the registry is cleared, whatever servers are still configured.
MutPruneLocks(t) ==
    /\ pc[t] = "pruneLocks"
    /\ registry' = [registry EXCEPT ![ProcOf[t]] = [s \in Servers |-> NoLock]]
    /\ Return(t)
    /\ UNCHANGED <<storeVars, providerVars>>

\* prune_refresh_lock_registry drops an entry even while a flow holds its lock.
PruneLocks(t) ==
    /\ pc[t] = "pruneLocks"
    /\ registry' = [registry EXCEPT ![ProcOf[t]] =
                      [s \in Servers |-> IF s \in snap[t] THEN @[s] ELSE NoLock]]
    /\ Return(t)
    /\ UNCHANGED <<storeVars, providerVars>>

\* Either store access reports an error, the second one perhaps after it took
\* effect: the handler answers an internal error.
PruneFails(t) ==
    /\ pc[t] \in PruneSteps
    /\ StoreMayFail
    /\ Return(t)
    /\ UNCHANGED <<storeVars, registry, providerVars>>

\* mark_servers_healthy after a discovery that reached these servers.
MarkServersHealthy(S) ==
    /\ health' = [s \in Servers |-> IF s \in S /\ health[s] # "none"
                                    THEN "healthy" ELSE health[s]]
    /\ UNCHANGED <<configured, token, clients, registry, pc, flowVars, providerVars>>

-----------------------------------------------------------------------------
(* The provider and the processes. *)

\* A grant is revoked, or expires, at the provider.
Revoke(r) ==
    /\ status[r] = "live"
    /\ status' = [status EXCEPT ![r] = "revoked"]
    /\ UNCHANGED <<storeVars, registry, pc, flowVars, issuer>>

\* Everything in memory is gone; a later flow of p is the restarted process.
Terminate(p) ==
    LET gone == {t \in Tasks : ProcOf[t] = p}
        Reset(f, v) == [t \in Tasks |-> IF t \in gone THEN v ELSE f[t]]
    IN  /\ pc' = Reset(pc, "idle")
        /\ srv' = Reset(srv, NoServer)
        /\ lock' = Reset(lock, NoLock)
        /\ attempted' = Reset(attempted, NoToken)
        /\ got' = Reset(got, NoToken)
        /\ snap' = Reset(snap, {})
        /\ registry' = [registry EXCEPT ![p] = [s \in Servers |-> NoLock]]
        /\ status' = [r \in Tokens |->
                        IF \E t \in gone : HoldsSuccessor(t) /\ attempted[t] = r
                        THEN "stranded" ELSE status[r]]
        /\ UNCHANGED <<storeVars, issuer>>

Crash(p) == Terminate(p)

\* serve leaves its loop and drains the service tasks it joined; flows that
\* were spawned outside the JoinSet are dropped where they are.
Shutdown(p) ==
    /\ \A t \in Tasks \ Detached : ProcOf[t] = p => pc[t] = "idle"
    /\ Terminate(p)

\* The client of an admin request disconnects and the server drops the handler:
\* the flow ends at its current await, its guard with it.
HangUp(t) ==
    /\ t \in Requests
    /\ pc[t] \notin Late \cup {"idle"}
    /\ LosesSuccessor(t)
    /\ Return(t)
    /\ UNCHANGED <<storeVars, registry, issuer>>

\* The same while a store update of a refresh runs in spawn_blocking, which
\* cannot be cancelled: the guard is gone, the update comes later.
HangUpInUpdate(t) ==
    LET late == [persisting |-> "lateStore", cleanup |-> "lateRemove",
                 degrading |-> "remark"]
    IN  /\ t \in Requests
        /\ pc[t] \in DOMAIN late
        /\ Goto(t, late[pc[t]])
        /\ lock' = [lock EXCEPT ![t] = NoLock]
        /\ UNCHANGED <<storeVars, registry, srv, attempted, got, snap, providerVars>>

-----------------------------------------------------------------------------
RefreshStep(t) ==
    \/ \E s \in Servers : RefreshBegin(t, s)
    \/ RefreshAcquire(t) \/ LoadServerRefreshToken(t)
    \/ RefreshFindServer(t) \/ RefreshResolve(t) \/ RefreshFailsEarly(t)
    \/ RefreshGranted(t) \/ RefreshAnswerLost(t) \/ RefreshRefused(t)
    \/ RefreshFails(t)
    \/ PersistRefreshed(t) \/ PersistRefreshedUnsynced(t) \/ PersistRefreshedFails(t)
    \/ RemoveStaleToken(t) \/ MarkServerDegraded(t) \/ SweepMarksDegraded(t)

LoginStep(t) ==
    \/ \E s \in Servers : LoginBegin(t, s)
    \/ LoginResolve(t) \/ PersistRegisteredClient(t) \/ ExchangeCode(t)
    \/ LoginEnds(t) \/ PersistLogin(t)

ConfigStep(t) ==
    \/ \E s \in Servers : RemoveServer(t, s)
    \/ \E S \in SUBSET Servers : ImportConfig(t, S)
    \/ PruneLoad(t) \/ PruneTokens(t) \/ PruneLocks(t) \/ PruneFails(t)

Next ==
    \/ \E t \in Tasks : RefreshStep(t) \/ LoginStep(t) \/ ConfigStep(t)
    \/ \E t \in Tasks : HangUp(t) \/ HangUpInUpdate(t)
    \/ \E s \in Servers : AddServer(s)
    \/ \E S \in SUBSET Servers : MarkServersHealthy(S)
    \/ \E r \in Tokens : Revoke(r)
    \/ \E p \in Procs : Crash(p) \/ Shutdown(p)

Spec == Init /\ [][Next]_vars

-----------------------------------------------------------------------------
(* Properties. *)

\* At most one refresh per process works for a server that stays configured:
\* the per-server lock of refresh serialises them although the registry
\* entry, the lock object and the guard are three different things and
\* prunes, imports and restarts go on meanwhile.
SingleFlight ==
    \A t, u \in Tasks :
       (/\ t # u
        /\ ProcOf[t] = ProcOf[u]
        /\ srv[t] = srv[u]
        /\ srv[t] \in Stable)
       => ~(pc[t] \in Critical /\ pc[u] \in Critical)

\* A stored credential whose refresh token the provider has already rotated
\* away is about to be replaced: some refresh holds its successor.  Otherwise
\* the successor was lost (which makes the token "stranded").  No order of
\* refreshes, logins, prunes and restarts of any number of processes writes an
\* already used token back over a newer one.
SpentTokenHasHeir ==
    \A s \in Servers :
       (token[s] \in Tokens /\ status[token[s]] = "spent")
       => \E t \in Tasks : HoldsSuccessor(t) /\ attempted[t] = token[s]

\* The cleanup after a relogin-required answer, and everything else a server
\* that stays configured can meet, only ever drops a stored refresh token the
\* provider no longer honours: a token rotated in by another flow or obtained
\* by a login while the failing request was under way is preserved.
LiveTokenNeverDropped ==
    [][\A s \in Stable :
          (token[s] \in Tokens /\ token'[s] = NoToken)
          => status[token[s]] # "live"]_vars

\* prune_orphaned_state works from a configuration it loaded earlier, and
\* never erases the health entry or the registered client of a server that
\* stays configured.
PruneSparesStable ==
    [][\A s \in Stable :
          /\ health[s] # "none" => health'[s] # "none"
          /\ s \in clients => s \in clients']_vars

OneProcess == \A t, u \in Tasks : ProcOf[t] = ProcOf[u]

\* What the lock is for: when a single process works on the store and no
\* handler is dropped half-way (which frees the lock before the store update
\* has happened), a refresh never presents a token that an earlier refresh has
\* already rotated away, so a provider that treats reuse as theft sees none.
NoReplay ==
    (OneProcess /\ Requests = {}) =>
      \A t \in Tasks :
         (pc[t] = "sending" /\ srv[t] \in Stable)
         => status[attempted[t]] # "spent"

-----------------------------------------------------------------------------
(* The inductive invariant behind the safety properties. *)

\* What a flow's locals hold at each point where it is suspended.
LocalsInv ==
    /\ Stable \subseteq configured
    /\ \A t \in Tasks :
         /\ pc[t] = "idle" => attempted[t] = NoToken /\ got[t] = NoToken
         /\ pc[t] \in Refreshing \cup LoginSteps \cup Late => srv[t] \in Servers
         /\ pc[t] \in Refreshing => lock[t] \in LockIds
         /\ pc[t] \in Late => t \in Requests
         /\ pc[t] \in {"resolving", "discovering", "sending", "persisting",
                      "cleanup"} \cup Late
              => attempted[t] \in Tokens
         /\ pc[t] \in {"persisting", "lateStore"} => got[t] \in Tokens
         /\ pc[t] = "storing" => got[t] # NoToken
         /\ pc[t] \in {"pruneTokens", "pruneLocks"} => Stable \subseteq snap[t]

\* The lock a refresh of a stable server works under is the registered one.
LockInv ==
    \A t \in Tasks :
       (pc[t] \in Refreshing /\ srv[t] \in Stable)
       => lock[t] = registry[ProcOf[t]][srv[t]]

\* A token found anywhere is one that this server's provider issued.
IssuerInv ==
    /\ \A r \in Tokens : status[r] = "unissued" <=> issuer[r] = NoServer
    /\ \A s \in Servers : token[s] \in Tokens => issuer[token[s]] = s
    /\ \A t \in Tasks :
         /\ attempted[t] \in Tokens \/ got[t] \in Tokens => srv[t] \in Servers
         /\ attempted[t] \in Tokens => issuer[attempted[t]] = srv[t]
         /\ got[t] \in Tokens => issuer[got[t]] = srv[t]

\* A token just issued is known to nobody but the flow that received it.
Fresh(t) == pc[t] = "storing" \/ HoldsSuccessor(t)

FreshInv ==
    \A t \in Tasks :
       (Fresh(t) /\ got[t] \in Tokens) =>
         /\ status[got[t]] \in {"live", "revoked"}
         /\ \A s \in Servers : token[s] # got[t]
         /\ \A u \in Tasks : /\ attempted[u] # got[t]
                             /\ u # t => got[u] # got[t]

\* Only rotating providers spend tokens, and they never return the same one.
RotationInv ==
    /\ \A r \in Tokens : status[r] = "spent" => issuer[r] \in Rotates
    /\ \A t \in Tasks :
         (pc[t] \in {"persisting", "lateStore"} /\ srv[t] \in Rotates)
         => got[t] # attempted[t]

\* The cleanup runs for a token that will never be honoured again.
CleanupInv ==
    \A t \in Tasks :
       pc[t] \in {"cleanup", "lateRemove"} => status[attempted[t]] \notin {"live", "unissued"}

\* NoReplay, from the moment the token is loaded.
ReplayInv ==
    (OneProcess /\ Requests = {}) =>
      \A t \in Tasks :
         (pc[t] \in {"resolving", "discovering", "sending"} /\ srv[t] \in Stable)
         => status[attempted[t]] # "spent"

IInv ==
    /\ TypeOK
    /\ LocalsInv
    /\ LockInv
    /\ SingleFlight
    /\ IssuerInv
    /\ FreshInv
    /\ RotationInv
    /\ SpentTokenHasHeir
    /\ CleanupInv
    /\ ReplayInv
=============================================================================
