------------------------------ MODULE Discovery ------------------------------
(***************************************************************************)
(* Discovery of tools, prompts and resources over the enabled servers: the *)
(* cache of the upstream manager (src/src/upstream.rs), the MCP listing   *)
(* that refreshes refused tokens and asks again (discover_with_auto_      *)
(* refresh, src/src/server/mcp.rs) and the admin snapshot that clears the *)
(* degraded mark of servers that answered and looks after those that      *)
(* demanded authorization in the background (build_tools_snapshot,        *)
(* src/src/server/admin.rs).                                              *)
(*                                                                         *)
(* What a server answered is kept with the token it was asked with and the *)
(* age of the answer; names and descriptions are left out.                *)
(***************************************************************************)
EXTENDS Naturals, FiniteSets

CONSTANTS Servers,
          Lists,       \* MCP listings
          Snapshots,   \* admin tools and effective requests
          Ttl,         \* DISCOVERY_CACHE_TTL
          MaxProbing,  \* how long the servers of one discovery take, all told
          MaxToken,    \* bound on the tokens of a server
          MaxToggles   \* bound on the changes of the configuration

ASSUME DiscoveryConstants ==
  /\ Lists \cap Snapshots = {}
  /\ {Ttl, MaxProbing, MaxToken, MaxToggles} \subseteq Nat

Tasks == Lists \cup Snapshots

VARIABLES
  enabled,  \* enabled servers of the configuration
  token,    \* token[s]: the version of the token stored for s
  good,     \* good[s]: the version s accepts
  degraded, \* servers marked degraded in the tokens file
  cache,    \* the cached result, or Nothing
  task,     \* task[l]: a listing or snapshot
  repairs,  \* servers with a background task after a demand for authorization
  toggles

vars == <<enabled, token, good, degraded, cache, task, repairs, toggles>>

Answer  == [out : {"none", "ok", "failed", "refused"}, token : 0 .. MaxToken,
            age : 0 .. Ttl + MaxProbing + 1]
NoAnswer == [out |-> "none", token |-> 0, age |-> 0]
Results == [Servers -> Answer]
Blank   == [s \in Servers |-> NoAnswer]

\* A cached result: its key, the servers asked and the tokens used, and its age.
Entries == [servers : SUBSET Servers, token : [Servers -> 0 .. MaxToken],
            age : 0 .. Ttl + 1, res : Results]
Nothing == [age |-> Ttl + 1]

Idle == [pc |-> "idle", pass |-> 1, servers |-> {}, token |-> [s \in Servers |-> 0],
         was |-> [s \in Servers |-> 0], res |-> Blank, todo |-> {}, refreshed |-> {}]

TypeOK ==
  /\ enabled \subseteq Servers /\ degraded \subseteq Servers /\ repairs \subseteq Servers
  /\ token \in [Servers -> 0 .. MaxToken] /\ good \in [Servers -> 0 .. MaxToken]
  /\ \A s \in Servers : token[s] <= good[s]
  /\ cache = Nothing \/ cache \in Entries
  /\ \A l \in Tasks :
       /\ task[l].pc \in {"idle", "lookup", "probe", "got", "refresh", "done"}
       /\ task[l].pass \in {1, 2}
       /\ task[l].res \in Results
       /\ task[l].refreshed \subseteq task[l].servers
  /\ toggles \in 0 .. MaxToggles

Init ==
  /\ enabled = Servers
  /\ token = [s \in Servers |-> 0] /\ good = token
  /\ degraded = {} /\ repairs = {}
  /\ cache = Nothing
  /\ task = [l \in Tasks |-> Idle]
  /\ toggles = 0

-----------------------------------------------------------------------------
Refused(l) == {s \in task[l].servers : task[l].res[s].out = "refused"}
Ok(l)      == {s \in task[l].servers : task[l].res[s].out = "ok"}

\* Mutant: the key does not take in the tokens.
MutIsHit(l) == cache # Nothing /\ cache.age <= Ttl /\ cache.servers = task[l].servers

\* Mutant: an entry never expires.
LateIsHit(l) == cache # Nothing /\ cache.servers = task[l].servers
                /\ \A s \in cache.servers : cache.token[s] = task[l].token[s]

\* cached_tools: an entry that is fresh and has the key of this request.
IsHit(l) == cache # Nothing /\ cache.age <= Ttl /\ cache.servers = task[l].servers
            /\ \A s \in cache.servers : cache.token[s] = task[l].token[s]

\* The configuration and the tokens are read.
Begin(l) ==
  /\ task[l].pc = "idle"
  /\ task' = [task EXCEPT ![l] = [pc |-> "lookup", pass |-> 1, servers |-> enabled,
                                  token |-> token, was |-> token, res |-> Blank,
                                  todo |-> {}, refreshed |-> {}]]
  /\ UNCHANGED <<enabled, token, good, degraded, cache, repairs, toggles>>

\* discover_tools_from_servers: a hit, or every server is asked.
Lookup(l) ==
  /\ task[l].pc = "lookup"
  /\ task' = IF IsHit(l)
             THEN [task EXCEPT ![l].pc = "got", ![l].res = cache.res]
             ELSE [task EXCEPT ![l].pc = "probe", ![l].res = Blank]
  /\ UNCHANGED <<enabled, token, good, degraded, cache, repairs, toggles>>

\* One server is asked, twice if need be: it refuses a token that is not good,
\* and fails otherwise or not.
Probe(l, s) ==
  /\ task[l].pc = "probe" /\ s \in task[l].servers /\ task[l].res[s].out = "none"
  /\ \E out \in IF task[l].token[s] = good[s] THEN {"ok", "failed"} ELSE {"refused"} :
       task' = [task EXCEPT ![l].res[s] = [out |-> out, token |-> task[l].token[s],
                                           age |-> 0]]
  /\ UNCHANGED <<enabled, token, good, degraded, cache, repairs, toggles>>

\* All have answered: the result is cached, whatever was invalidated meanwhile.
Store(l) ==
  /\ task[l].pc = "probe"
  /\ \A s \in task[l].servers : task[l].res[s].out # "none"
  /\ cache' = [servers |-> task[l].servers, token |-> task[l].token, age |-> 0,
               res |-> task[l].res]
  /\ task' = [task EXCEPT ![l].pc = "got"]
  /\ UNCHANGED <<enabled, token, good, degraded, repairs, toggles>>

-----------------------------------------------------------------------------
\* discover_with_auto_refresh.

\* The first result may name servers that refused their token; the second is
\* final.
SortFailures(l) ==
  /\ l \in Lists /\ task[l].pc = "got"
  /\ task' = IF task[l].pass = 1 /\ Refused(l) # {}
             THEN [task EXCEPT ![l].pc = "refresh", ![l].todo = Refused(l)]
             ELSE [task EXCEPT ![l].pc = "done"]
  /\ UNCHANGED <<enabled, token, good, degraded, cache, repairs, toggles>>

\* A refresh gets a token the server accepts, finds one that another task has
\* just got, or fails and marks the server degraded.
Refreshes(s) ==
  /\ \/ /\ token[s] = good[s] /\ UNCHANGED <<token, good>>
     \/ /\ token[s] < good[s] /\ UNCHANGED good
        /\ token' = [token EXCEPT ![s] = good[s]]
  /\ degraded' = degraded \ {s}

RefreshFails(s) == degraded' = degraded \cup {s} /\ UNCHANGED <<token, good>>

RefreshOne(l) ==
  /\ task[l].pc = "refresh"
  /\ \E s \in task[l].todo :
       \/ /\ Refreshes(s)
          /\ task' = [task EXCEPT ![l].todo = @ \ {s}, ![l].refreshed = @ \cup {s}]
       \/ /\ RefreshFails(s)
          /\ task' = [task EXCEPT ![l].todo = @ \ {s}]
  /\ UNCHANGED <<enabled, cache, repairs, toggles>>

\* Mutant: the second pass uses the tokens of the first.
MutAskAgain(l) ==
  /\ task[l].pc = "refresh" /\ task[l].todo = {}
  /\ task' = [task EXCEPT ![l].pc = IF task[l].refreshed = {} THEN "done" ELSE "lookup",
                          ![l].pass = 2]
  /\ cache' = IF task[l].refreshed = {} THEN cache ELSE Nothing
  /\ UNCHANGED <<enabled, token, good, degraded, repairs, toggles>>

\* If any refresh succeeded the caches are forgotten, the tokens read once more
\* and the servers of the first pass asked again; else the first result stands.
AskAgain(l) ==
  /\ task[l].pc = "refresh" /\ task[l].todo = {}
  /\ IF task[l].refreshed = {}
     THEN task' = [task EXCEPT ![l].pc = "done"] /\ UNCHANGED cache
     ELSE /\ task' = [task EXCEPT ![l].pc = "lookup", ![l].pass = @ + 1,
                                  ![l].token = token]
          /\ cache' = Nothing
  /\ UNCHANGED <<enabled, token, good, degraded, repairs, toggles>>

-----------------------------------------------------------------------------
\* build_tools_snapshot.

\* Servers that are not among the failures are marked healthy; each that
\* demanded authorization gets a detached task.
FinishSnapshot(l) ==
  /\ l \in Snapshots /\ task[l].pc = "got"
  /\ degraded' = degraded \ Ok(l)
  /\ repairs' = repairs \cup Refused(l)
  /\ task' = [task EXCEPT ![l].pc = "done"]
  /\ UNCHANGED <<enabled, token, good, cache, toggles>>

\* The detached task registers a client (see OAuthLogin), refreshes, and forgets
\* the caches if that succeeded.
Repair(s) ==
  /\ s \in repairs
  /\ \/ Refreshes(s) /\ cache' = Nothing
     \/ RefreshFails(s) /\ UNCHANGED cache
  /\ repairs' = repairs \ {s}
  /\ UNCHANGED <<enabled, task, toggles>>

-----------------------------------------------------------------------------
\* Enabling or disabling a server through the admin API or CLI, which forgets the
\* caches of this process, not of others.
Toggle(s) ==
  /\ toggles < MaxToggles
  /\ toggles' = toggles + 1
  /\ enabled' = IF s \in enabled THEN enabled \ {s} ELSE enabled \cup {s}
  /\ \E forgets \in BOOLEAN : cache' = IF forgets THEN Nothing ELSE cache
  /\ UNCHANGED <<token, good, degraded, task, repairs>>

\* The server no longer accepts the token (environment).
Expire(s) ==
  /\ token[s] = good[s] /\ good[s] < MaxToken
  /\ good' = [good EXCEPT ![s] = @ + 1]
  /\ UNCHANGED <<enabled, token, degraded, cache, task, repairs, toggles>>

\* Time passes while servers are being asked, and no discovery takes longer than
\* MaxProbing; what follows it is immediate.
Older(age, limit) == IF age < limit THEN age + 1 ELSE age
AllOlder(res) == [s \in Servers |-> IF res[s].out = "none" THEN res[s]
                    ELSE [res[s] EXCEPT !.age = Older(@, Ttl + MaxProbing + 1)]]

Tick ==
  /\ \A l \in Tasks : task[l].pc # "got"
  /\ \A l \in Tasks, s \in Servers :
       task[l].pc = "probe" /\ task[l].res[s].out # "none" => task[l].res[s].age < MaxProbing
  /\ task' = [l \in Tasks |-> IF task[l].pc = "probe"
                              THEN [task[l] EXCEPT !.res = AllOlder(@)] ELSE task[l]]
  /\ cache' = IF cache = Nothing THEN Nothing
              ELSE [servers |-> cache.servers, token |-> cache.token,
                    age |-> Older(cache.age, Ttl + 1), res |-> AllOlder(cache.res)]
  /\ UNCHANGED <<enabled, token, good, degraded, repairs, toggles>>

Next ==
  \/ \E l \in Tasks : \/ Begin(l) \/ Lookup(l) \/ Store(l) \/ SortFailures(l)
                      \/ RefreshOne(l) \/ AskAgain(l) \/ FinishSnapshot(l)
                      \/ \E s \in Servers : Probe(l, s)
  \/ \E s \in Servers : Repair(s) \/ Toggle(s) \/ Expire(s)
  \/ Tick

Spec == Init /\ [][Next]_vars

-----------------------------------------------------------------------------
\* Properties.

\* What a listing shows of a server was learned from it at most one discovery and
\* one time to live ago, even when a discovery that began before the caches were
\* forgotten stores its result afterwards.
FreshAnswers ==
  \A l \in Tasks : task[l].pc = "done" =>
    \A s \in task[l].servers : task[l].res[s].age <= Ttl + MaxProbing

\* A listing shows every server that was enabled when it was asked for, no other,
\* and only what they answered to the token the listing found in the store: never
\* what a cache filled under other tokens or another configuration holds.
KeyedAnswers ==
  \A l \in Tasks : task[l].pc \in {"got", "done"} =>
    \A s \in Servers :
      /\ s \in task[l].servers <=> task[l].res[s].out # "none"
      /\ s \in task[l].servers => task[l].res[s].token = task[l].token[s]

\* A listing that refreshed the token of a server does not report that the server
\* refused the one it had before.
NotRefusedAsBefore ==
  \A l \in Lists : task[l].pc = "done" =>
    \A s \in task[l].refreshed \cap Refused(l) : task[l].res[s].token # task[l].was[s]
=============================================================================
