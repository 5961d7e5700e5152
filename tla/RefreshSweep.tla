---------------------------- MODULE RefreshSweep ----------------------------
(***************************************************************************)
(* The background refresh of AuthManager: run_refresh_loop and its sweep,  *)
(* refresh_due_tokens_once, with the retry clock, in discrete time.        *)
(*                                                                         *)
(* The sweep loads the configuration and the tokens once, decides with     *)
(* that snapshot which tokens are due, and refreshes those one after the   *)
(* other, in the order of the configuration.  A refresh takes time: up to  *)
(* two HTTP requests of ten seconds each.  All times are countdowns in     *)
(* units of the instance.  The store, the refresh lock and the provider's  *)
(* view of the tokens are the subject of AuthTokens.                       *)
(***************************************************************************)
EXTENDS Naturals, Sequences, FiniteSets

CONSTANTS
    Servers,
    Order,        \* AppConfig.servers: a sequence
    WithOAuth,    \* enabled servers with an oauth block in their configuration
    Reliable,     \* servers whose refresh always succeeds
    Hanging,      \* servers that answer nothing before the HTTP timeout
    Touched,      \* servers that other flows refresh, log in or find healthy
    MaxMisses,    \* bound on consecutive ticks at which the store is unreadable
    Interval,     \* AUTO_REFRESH_LOOP_INTERVAL
    Lead,         \* AUTO_REFRESH_LEAD_SECONDS
    Base, Cap,    \* REFRESH_BACKOFF_BASE_SECONDS, REFRESH_BACKOFF_MAX_SECONDS
    MaxExponent,  \* 8
    MaxJitter,    \* 3 seconds
    MaxRefresh,   \* the longest a refresh takes
    Lifetimes,    \* of the tokens the providers issue
    InitialLeft,  \* what may be left of a token when the process starts
    MaxLeft       \* bound on both

ASSUME SweepAssumption ==
    /\ Order \in Seq(Servers)
    /\ \A s \in Servers : \E i \in 1 .. Len(Order) : Order[i] = s
    /\ WithOAuth \subseteq Servers
    /\ Reliable \subseteq Servers
    /\ Hanging \subseteq Servers \ Reliable
    /\ Touched \subseteq Servers

ASSUME TimesAssumption ==
    /\ {Interval, Base, Cap, MaxRefresh} \subseteq Nat \ {0}
    /\ {Lead, MaxMisses, MaxExponent, MaxJitter, MaxLeft} \subseteq Nat
    /\ Lifetimes \cup InitialLeft \subseteq 0 .. MaxLeft
    /\ Lifetimes # {}

\* The exponent of the backoff stays where powers are numbers (saturating_pow).
ASSUME PowersAssumption == \A n \in 0 .. MaxExponent : 2 ^ n \in Nat

VARIABLES
    stored,    \* servers with a stored token that expires and can be refreshed
    left,      \* time until it expires
    failures,  \* consecutive_failures of the retry state, 0 for no entry
    retryIn,   \* time until next_attempt_at
    wakeIn,    \* time until the next tick of the interval
    misses,    \* consecutive ticks at which the sweep could not load its input
    due,       \* what the present sweep has found due
    pos,       \* its place in the configuration
    pc,        \* where the loop is
    busy       \* how long the present refresh has taken

vars == <<stored, left, failures, retryIn, wakeIn, misses, due, pos, pc, busy>>
tokenVars == <<stored, left>>
retryVars == <<failures, retryIn>>

\* Beyond MaxExponent the number of failures no longer matters.
MaxFailures == MaxExponent + 1

\* Every variable keeps its type; no backoff exceeds Cap (auth.rs:1007-1013).
TypeOK ==
    /\ stored \in SUBSET Servers
    /\ left \in [Servers -> 0 .. MaxLeft]
    /\ failures \in [Servers -> 0 .. MaxFailures]
    /\ retryIn \in [Servers -> 0 .. Cap]
    /\ wakeIn \in 0 .. Interval
    /\ misses \in 0 .. MaxMisses
    /\ due \in SUBSET Servers
    /\ pos \in 1 .. Len(Order) + 1
    /\ pc \in {"waiting", "scanning", "refreshing"}
    /\ busy \in 0 .. MaxRefresh

\* The process starts; the first tick of the interval comes at once.
Init ==
    /\ stored = Servers
    /\ left \in [Servers -> InitialLeft]
    /\ failures = [s \in Servers |-> 0]
    /\ retryIn = [s \in Servers |-> 0]
    /\ wakeIn = 0
    /\ misses = 0
    /\ due = {}
    /\ pos = 1
    /\ pc = "waiting"
    /\ busy = 0

-----------------------------------------------------------------------------
(* The loop and its sweep. *)

Least(a, b) == IF a < b THEN a ELSE b

\* Mutant: the doubled delay is not capped.
MutDelay(n, jitter) == Base * 2 ^ Least(n - 1, MaxExponent) + jitter

\* Doubled with every failure, plus a jitter, up to REFRESH_BACKOFF_MAX_SECONDS.
Delay(n, jitter) == Least(Base * 2 ^ Least(n - 1, MaxExponent) + jitter, Cap)

ClearRetry(s) ==
    /\ failures' = [failures EXCEPT ![s] = 0]
    /\ retryIn' = [retryIn EXCEPT ![s] = 0]

\* A tick: the next one is due an interval later, however late this one is
\* (MissedTickBehavior::Delay).
BeginSweep ==
    /\ pc = "waiting" /\ wakeIn = 0
    /\ wakeIn' = Interval
    /\ misses' = 0
    /\ due' = {s \in WithOAuth \cap stored : left[s] <= Lead}
    /\ pos' = 1
    /\ pc' = "scanning"
    /\ UNCHANGED <<tokenVars, retryVars, busy>>

\* The configuration or the tokens cannot be loaded.
LoadFails ==
    /\ pc = "waiting" /\ wakeIn = 0
    /\ misses < MaxMisses
    /\ misses' = misses + 1
    /\ wakeIn' = Interval
    /\ UNCHANGED <<tokenVars, retryVars, due, pos, pc, busy>>

AtServer(s) == pos <= Len(Order) /\ Order[pos] = s

\* Mutant: a skipped attempt starts the backoff anew.
MutSkip(s) ==
    /\ pc = "scanning" /\ AtServer(s)
    /\ s \notin due \/ retryIn[s] > 0
    /\ retryIn' = [retryIn EXCEPT ![s] = IF failures[s] = 0 THEN 0
                                         ELSE Delay(failures[s], MaxJitter)]
    /\ pos' = pos + 1
    /\ UNCHANGED <<tokenVars, failures, wakeIn, misses, due, pc, busy>>

Skip(s) ==
    /\ pc = "scanning" /\ AtServer(s)
    /\ s \notin due \/ retryIn[s] > 0
    /\ pos' = pos + 1
    /\ UNCHANGED <<tokenVars, retryVars, wakeIn, misses, due, pc, busy>>

BeginRefresh(s) ==
    /\ pc = "scanning" /\ AtServer(s)
    /\ s \in due /\ retryIn[s] = 0
    /\ pc' = "refreshing"
    /\ busy' = 0
    /\ UNCHANGED <<tokenVars, retryVars, wakeIn, misses, due, pos>>

RefreshSucceeds(s) ==
    /\ pc = "refreshing" /\ AtServer(s)
    /\ s \in stored \ Hanging
    /\ \E life \in Lifetimes : left' = [left EXCEPT ![s] = life]
    /\ ClearRetry(s)
    /\ pos' = pos + 1
    /\ pc' = "scanning"
    /\ busy' = 0
    /\ UNCHANGED <<stored, wakeIn, misses, due>>

\* record_retry_failure; a refused token is removed by refresh.
RecordFailure(s) ==
    LET n == Least(failures[s] + 1, MaxFailures)
    IN  /\ failures' = [failures EXCEPT ![s] = n]
        /\ \E jitter \in 0 .. MaxJitter :
              retryIn' = [retryIn EXCEPT ![s] = Delay(n, jitter)]
        /\ stored' \in {stored, stored \ {s}}

\* Mutant: the sweep ends with its first error.
MutRefreshFails(s) ==
    /\ pc = "refreshing" /\ AtServer(s)
    /\ s \notin Reliable
    /\ RecordFailure(s)
    /\ pc' = "waiting"
    /\ busy' = 0
    /\ UNCHANGED <<left, wakeIn, misses, due, pos>>

\* The loop goes on with the next server.
RefreshFails(s) ==
    /\ pc = "refreshing" /\ AtServer(s)
    /\ s \notin Reliable
    /\ s \in Hanging => busy = MaxRefresh
    /\ RecordFailure(s)
    /\ pos' = pos + 1
    /\ pc' = "scanning"
    /\ busy' = 0
    /\ UNCHANGED <<left, wakeIn, misses, due>>

EndSweep ==
    /\ pc = "scanning"
    /\ pos > Len(Order)
    /\ pc' = "waiting"
    /\ due' = {}
    /\ pos' = 1
    /\ UNCHANGED <<tokenVars, retryVars, wakeIn, misses, busy>>

-----------------------------------------------------------------------------
(* Other flows. *)

NewToken(s) ==
    /\ stored' = stored \cup {s}
    /\ \E life \in Lifetimes : left' = [left EXCEPT ![s] = life]

\* A retry clock belongs to one AuthManager: what happens in another process, or
\* through the AuthManager of the MCP server, leaves that of the sweep alone.
HereOrElsewhere(s) == ClearRetry(s) \/ UNCHANGED retryVars

\* refresh on request, or after a failing discovery
RefreshElsewhere(s) ==
    /\ s \in (Touched \cap stored) \ Hanging
    /\ NewToken(s)
    /\ HereOrElsewhere(s)
    /\ UNCHANGED <<wakeIn, misses, due, pos, pc, busy>>

\* callback
Login(s) ==
    /\ s \in Touched
    /\ NewToken(s)
    /\ HereOrElsewhere(s)
    /\ UNCHANGED <<wakeIn, misses, due, pos, pc, busy>>

\* mark_servers_healthy, after a discovery that reached the server
MarkHealthy(s) ==
    /\ s \in Touched
    /\ HereOrElsewhere(s)
    /\ UNCHANGED <<tokenVars, wakeIn, misses, due, pos, pc, busy>>

-----------------------------------------------------------------------------
(* Time passes while the loop sleeps or waits for an answer. *)

Less(n) == IF n = 0 THEN 0 ELSE n - 1

Tick ==
    /\ \/ pc = "waiting" /\ wakeIn > 0
       \/ pc = "refreshing" /\ busy < MaxRefresh
    /\ left' = [s \in Servers |-> Less(left[s])]
    /\ retryIn' = [s \in Servers |-> Less(retryIn[s])]
    /\ wakeIn' = Less(wakeIn)
    /\ busy' = IF pc = "refreshing" THEN busy + 1 ELSE 0
    /\ UNCHANGED <<stored, failures, misses, due, pos, pc>>

-----------------------------------------------------------------------------
Visit(s) == Skip(s) \/ BeginRefresh(s) \/ RefreshSucceeds(s) \/ RefreshFails(s)
Sweep == EndSweep \/ \E s \in Servers : Visit(s)

Others == \E s \in Servers : RefreshElsewhere(s) \/ Login(s) \/ MarkHealthy(s)

Next == BeginSweep \/ LoadFails \/ Sweep \/ Others \/ Tick

Spec == Init /\ [][Next]_vars

\* Time goes on, the loop runs, requests end by their timeout, and the store does
\* not fail every single time (MaxMisses).
FairSpec ==
    /\ Spec
    /\ WF_vars(Tick) /\ WF_vars(Sweep) /\ WF_vars(BeginSweep)

-----------------------------------------------------------------------------
(* Properties. *)

\* How long the refreshes of a sweep take from the i-th to the j-th server, if all that
\* have an oauth block are due and answer as late as they can.
Longest(a, b) == IF a < b THEN b ELSE a
Cost(i, j) == Cardinality({k \in i .. j : Order[k] \in WithOAuth}) * MaxRefresh
FullCost   == Cost(1, Len(Order))

\* The lead covers the sweep that found a token not yet due, a tick or the other
\* servers of that sweep, whichever is longer; then the ticks that miss the store, and
\* then a whole sweep.  Tokens live longer than that, and those found at the start are
\* good until the first sweep ends.
EnoughLead ==
    /\ Longest(Interval, FullCost - MaxRefresh) + MaxMisses * Interval + FullCost <= Lead
    /\ \A life \in Lifetimes : life > Lead
    /\ \A life \in InitialLeft : life > MaxMisses * Interval + FullCost

InTime(S) == \A s \in S \cap stored : left[s] > 0

\* While its provider answers, the token of a server with an oauth block is
\* replaced before it runs out, however long the refreshes of the servers ahead
\* of it in the sweep hang and whatever their failures: the lead of
\* AUTO_REFRESH_LEAD_SECONDS covers one sweep that found the token not yet due and
\* the next one up to and including its own refresh (auth.rs:569-622).
ReliableInTime == InTime(Reliable \cap WithOAuth)

\* A token that is due is not forgotten: again and again it is fresh, gone, or in
\* the hands of a refresh, through every backoff and every failing load
\* (retry_allows_attempt and record_retry_failure, auth.rs:974-1018).
Retried ==
    \A s \in WithOAuth :
        []<>(\/ s \notin stored
             \/ left[s] > Lead
             \/ pc = "refreshing" /\ AtServer(s))

=============================================================================
