------------------------------ MODULE OAuthLogin ------------------------------
(***************************************************************************)
(* The authorization flow of src/src/auth.rs, in the process that serves  *)
(* the admin API: start makes a state, remembers it and sends the browser *)
(* to the provider with a client id; the callback brings the state back   *)
(* with a code, which is exchanged for a token.  Both resolve the client  *)
(* id, and register a client with the provider when none is known, as     *)
(* does ensure_registered_client, run after a server asked for            *)
(* authorization.  Pending states live in memory only.                    *)
(***************************************************************************)
EXTENDS Naturals, FiniteSets

CONSTANTS Servers, Starts, Callbacks, Boots,
          Static,      \* servers whose configuration names a client id
          Ids,         \* client ids the provider hands out
          StaticId, NoId, NoServer, NoState,
          Ttl,         \* PENDING_AUTH_TTL
          MaxAge,      \* bound on how long a state is left pending
          MaxRestarts, MaxRemovals

ASSUME LoginConstants == /\ Static \subseteq Servers
                         /\ {Ttl, MaxAge, MaxRestarts, MaxRemovals} \subseteq Nat
                         /\ StaticId \notin Ids /\ NoId \notin Ids \cup {StaticId}
                         /\ Starts \cap Callbacks = {} /\ Boots \cap (Starts \cup Callbacks) = {}

Tasks == Starts \cup Callbacks \cup Boots

VARIABLES
  configured, \* servers in the configuration
  clientId,   \* clientId[s]: the registered client in the tokens file
  token,      \* token[s]: the login whose token is stored for s, or NoState
  pending,    \* the states in memory: a start is named by its state
  age,        \* age[a]: time since start a inserted its state, until it is taken
  login,      \* login[a]: the server and client id of the URL of start a
  codes,      \* codes exchanged so far: <<callback, state>>
  task,       \* task[t]: where the task is
  raced,      \* servers whose client was registered twice at once, or removed
  restarts, removals

vars == <<configured, clientId, token, pending, age, login, codes, task, raced,
          restarts, removals>>

AnyId == Ids \cup {StaticId, NoId}
Idle == [pc |-> "idle", server |-> NoServer, state |-> NoState, id |-> NoId]

TypeOK ==
  /\ configured \subseteq Servers
  /\ clientId \in [Servers -> Ids \cup {NoId}]
  /\ token \in [Servers -> Starts \cup {NoState}]
  /\ pending \subseteq Starts
  /\ age \in [Starts -> 0 .. MaxAge]
  /\ login \in [Starts -> [server : Servers \cup {NoServer}, id : AnyId]]
  /\ codes \subseteq Callbacks \X Starts
  /\ task \in [Tasks -> [pc : {"idle", "resolve", "register", "save", "resolved",
                               "persist", "done"},
                         server : Servers \cup {NoServer},
                         state : Starts \cup {NoState}, id : AnyId]]
  /\ raced \subseteq Servers
  /\ restarts \in 0 .. MaxRestarts /\ removals \in 0 .. MaxRemovals

Init ==
  /\ configured = Servers
  /\ clientId = [s \in Servers |-> NoId]
  /\ token = [s \in Servers |-> NoState]
  /\ pending = {}
  /\ age = [a \in Starts |-> 0]
  /\ login = [a \in Starts |-> [server |-> NoServer, id |-> NoId]]
  /\ codes = {}
  /\ task = [t \in Tasks |-> Idle]
  /\ raced = {}
  /\ restarts = 0 /\ removals = 0

-----------------------------------------------------------------------------
Goto(t, pc) == task' = [task EXCEPT ![t].pc = pc]
Done(t)     == task' = [task EXCEPT ![t] = [Idle EXCEPT !.pc = "done"]]

Registering(s) == {t \in Tasks : task[t].server = s /\ task[t].pc \in {"register", "save"}}

\* start and ensure_registered_client: the server must be configured.
Begin(t, s) ==
  /\ t \in Starts \cup Boots /\ task[t].pc = "idle"
  /\ IF s \in configured
     THEN task' = [task EXCEPT ![t] = [pc |-> "resolve", server |-> s, state |-> NoState,
                                       id |-> NoId]]
     ELSE Done(t)
  /\ UNCHANGED <<configured, clientId, token, pending, age, login, codes, raced,
                 restarts, removals>>

\* Mutant: the state is looked up, not removed.
MutTakeState(t, a) ==
  /\ t \in Callbacks /\ task[t].pc = "idle" /\ login[a].id # NoId
  /\ IF a \notin pending \/ age[a] > Ttl \/ login[a].server \notin configured
     THEN Done(t)
     ELSE task' = [task EXCEPT ![t] = [pc |-> "resolve", server |-> login[a].server,
                                       state |-> a, id |-> NoId]]
  /\ UNCHANGED <<configured, clientId, token, pending, age, login, codes, raced,
                 restarts, removals>>

\* Mutant: the time to live is not looked at.
LateTakeState(t, a) ==
  /\ t \in Callbacks /\ task[t].pc = "idle" /\ login[a].id # NoId
  /\ pending' = pending \ {a}
  /\ IF a \notin pending \/ login[a].server \notin configured
     THEN Done(t)
     ELSE task' = [task EXCEPT ![t] = [pc |-> "resolve", server |-> login[a].server,
                                       state |-> a, id |-> NoId]]
  /\ UNCHANGED <<configured, clientId, token, age, login, codes, raced,
                 restarts, removals>>

\* callback: the browser comes back with the state of some URL it was given,
\* perhaps again.  The state is removed, must not have expired, and its server
\* must still be configured.
TakeState(t, a) ==
  /\ t \in Callbacks /\ task[t].pc = "idle" /\ login[a].id # NoId
  /\ pending' = pending \ {a}
  /\ IF a \notin pending \/ age[a] > Ttl \/ login[a].server \notin configured
     THEN Done(t)
     ELSE task' = [task EXCEPT ![t] = [pc |-> "resolve", server |-> login[a].server,
                                       state |-> a, id |-> NoId]]
  /\ UNCHANGED <<configured, clientId, token, age, login, codes, raced,
                 restarts, removals>>

-----------------------------------------------------------------------------
\* resolve_oauth_config.

\* Mutant: a persisted client is not looked for.
MutReadClient(t) ==
  LET s == task[t].server IN
  /\ task[t].pc = "resolve"
  /\ task' = [task EXCEPT ![t].pc = "register"]
  /\ raced' = IF Registering(s) # {} THEN raced \cup {s} ELSE raced
  /\ UNCHANGED <<configured, clientId, token, pending, age, login, codes,
                 restarts, removals>>

\* The tokens file is read once: a configured or registered client is used,
\* else one is registered.
ReadClient(t) ==
  LET s == task[t].server
      known == IF s \in Static THEN StaticId ELSE clientId[s] IN
  /\ task[t].pc = "resolve"
  /\ task' = [task EXCEPT ![t].pc = IF known = NoId THEN "register" ELSE "resolved",
                          ![t].id = known]
  /\ raced' = IF known = NoId /\ Registering(s) # {} THEN raced \cup {s} ELSE raced
  /\ UNCHANGED <<configured, clientId, token, pending, age, login, codes,
                 restarts, removals>>

\* The provider registers a client under a new id.
RegisterClient(t) ==
  /\ task[t].pc = "register"
  /\ \E i \in Ids :
       /\ \A s \in Servers : clientId[s] # i
       /\ \A u \in Tasks : task[u].id # i
       /\ \A a \in Starts : login[a].id # i
       /\ task' = [task EXCEPT ![t].pc = "save", ![t].id = i]
  /\ UNCHANGED <<configured, clientId, token, pending, age, login, codes, raced,
                 restarts, removals>>

\* The client is persisted, over one that another task saved since.
SaveClient(t) ==
  /\ task[t].pc = "save"
  /\ clientId' = [clientId EXCEPT ![task[t].server] = task[t].id]
  /\ Goto(t, "resolved")
  /\ UNCHANGED <<configured, token, pending, age, login, codes, raced, restarts, removals>>

\* Discovery, registration, the exchange or a store access fails, or the request
\* for it is given up: nothing is undone.
FlowFails(t) ==
  /\ task[t].pc \notin {"idle", "done"}
  /\ Done(t)
  /\ UNCHANGED <<configured, clientId, token, pending, age, login, codes, raced,
                 restarts, removals>>

-----------------------------------------------------------------------------
\* ensure_registered_client has nothing else to do.
FinishBoot(t) ==
  /\ t \in Boots /\ task[t].pc = "resolved"
  /\ Done(t)
  /\ UNCHANGED <<configured, clientId, token, pending, age, login, codes, raced,
                 restarts, removals>>

\* Mutant: expired states are left where they are.
MutFinishStart(a) ==
  /\ a \in Starts /\ task[a].pc = "resolved"
  /\ pending' = pending \cup {a}
  /\ login' = [login EXCEPT ![a] = [server |-> task[a].server, id |-> task[a].id]]
  /\ Done(a)
  /\ UNCHANGED <<configured, clientId, token, age, codes, raced, restarts, removals>>

\* The end of start: expired states go, the new one is inserted, and the URL is
\* returned with the client id.
FinishStart(a) ==
  /\ a \in Starts /\ task[a].pc = "resolved"
  /\ pending' = {b \in pending : age[b] <= Ttl} \cup {a}
  /\ login' = [login EXCEPT ![a] = [server |-> task[a].server, id |-> task[a].id]]
  /\ Done(a)
  /\ UNCHANGED <<configured, clientId, token, age, codes, raced, restarts, removals>>

\* The code is sent to the token endpoint, which honours it once and only for the
\* client it was issued to.
ExchangeCode(t) ==
  LET a == task[t].state IN
  /\ t \in Callbacks /\ task[t].pc = "resolved"
  /\ codes' = codes \cup {<<t, a>>}
  /\ IF login[a].id = task[t].id /\ \A c \in codes : c[2] # a
     THEN Goto(t, "persist")
     ELSE Done(t)
  /\ UNCHANGED <<configured, clientId, token, pending, age, login, raced, restarts, removals>>

\* The token is stored, the server marked healthy, its retry state cleared.
PersistLogin(t) ==
  /\ t \in Callbacks /\ task[t].pc = "persist"
  /\ token' = [token EXCEPT ![task[t].server] = task[t].state]
  /\ Done(t)
  /\ UNCHANGED <<configured, clientId, pending, age, login, codes, raced, restarts, removals>>

-----------------------------------------------------------------------------
\* The server is removed, or a configuration without it imported: its tokens and
\* client are pruned.  It may be added again.
RemoveServer(s) ==
  /\ s \in configured /\ removals < MaxRemovals
  /\ removals' = removals + 1
  /\ configured' = configured \ {s}
  /\ clientId' = [clientId EXCEPT ![s] = NoId]
  /\ token' = [token EXCEPT ![s] = NoState]
  /\ raced' = raced \cup {s}
  /\ UNCHANGED <<pending, age, login, codes, task, restarts>>

AddServer(s) ==
  /\ s \notin configured
  /\ configured' = configured \cup {s}
  /\ UNCHANGED <<clientId, token, pending, age, login, codes, task, raced, restarts, removals>>

\* Time passes for the pending states.
Tick ==
  /\ pending # {} /\ \A a \in pending : age[a] < MaxAge
  /\ age' = [a \in Starts |-> IF a \in pending THEN age[a] + 1 ELSE age[a]]
  /\ UNCHANGED <<configured, clientId, token, pending, login, codes, task, raced,
                 restarts, removals>>

\* The process ends with its tasks and pending states, and starts again.
Restart ==
  /\ restarts < MaxRestarts
  /\ restarts' = restarts + 1
  /\ pending' = {}
  /\ task' = [t \in Tasks |-> IF task[t].pc = "idle" THEN Idle
                              ELSE [Idle EXCEPT !.pc = "done"]]
  /\ UNCHANGED <<configured, clientId, token, age, login, codes, raced, removals>>

TaskStep(t) ==
  \/ ReadClient(t) \/ RegisterClient(t) \/ SaveClient(t) \/ FinishBoot(t)
  \/ FinishStart(t) \/ ExchangeCode(t) \/ PersistLogin(t)

Next ==
  \/ \E t \in Tasks : TaskStep(t) \/ FlowFails(t)
  \/ \E t \in Starts \cup Boots, s \in Servers : Begin(t, s)
  \/ \E t \in Callbacks, a \in Starts : TakeState(t, a)
  \/ \E s \in Servers : RemoveServer(s) \/ AddServer(s)
  \/ Tick \/ Restart

Spec == Init /\ [][Next]_vars

-----------------------------------------------------------------------------
\* Properties.

\* A login's code reaches the token endpoint at most once, however often the
\* browser delivers the callback and whatever restarts in between.
OneExchange == \A c, d \in codes : c[2] = d[2] => c = d

\* A code is exchanged only for a state that was brought back in time.
ExchangedInTime == \A c \in codes : age[c[2]] <= Ttl

\* The pending states do not pile up: a start drops those that have expired by
\* then, so no two states are pending further apart than the time to live.
PendingSpan == \A a, b \in pending : age[a] <= age[b] + Ttl

\* Unless two tasks registered a client for the server at once, or the server was
\* removed, the client id of every URL the browser was given is the one its code
\* will be exchanged with.
UrlClientKept ==
  \A a \in Starts :
    LET s == login[a].server IN
    login[a].id # NoId /\ s \notin raced /\ s \notin Static => clientId[s] = login[a].id
=============================================================================
