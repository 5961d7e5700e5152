---------------------------- MODULE DiscoveryProofs ----------------------------
(***************************************************************************)
(* Proofs about Discovery, for any number of servers, listings, snapshots, *)
(* tokens and changes of the configuration, and any time to live.          *)
(***************************************************************************)
EXTENDS Discovery, TLAPS

Tokens == [Servers -> 0 .. MaxToken]
Pcs    == {"idle", "lookup", "probe", "got", "refresh", "done"}
TaskType == [pc : Pcs, pass : {1, 2}, servers : SUBSET Servers, token : Tokens, was : Tokens,
             res : Results, todo : SUBSET Servers, refreshed : SUBSET Servers]

-----------------------------------------------------------------------------
\* The inductive invariant.

TypeInv == /\ enabled \subseteq Servers /\ degraded \subseteq Servers /\ repairs \subseteq Servers
           /\ token \in Tokens /\ good \in Tokens
           /\ \A s \in Servers : token[s] <= good[s]
           /\ task \in [Tasks -> TaskType]

\* Every one of the servers has answered, to these tokens and no longer ago than that.
Complete(servers, tokens, res, limit) ==
  \A s \in Servers : /\ s \in servers <=> res[s].out # "none"
                     /\ s \in servers => res[s].token = tokens[s] /\ res[s].age <= limit

\* Some of them have.
Partial(servers, tokens, res) ==
  \A s \in Servers : res[s].out # "none" =>
    s \in servers /\ res[s].token = tokens[s] /\ res[s].age <= MaxProbing

\* Only tokens that were not good were refused, and they will not be good again.
Rightly(res) == \A s \in Servers : res[s].out = "refused" => res[s].token < good[s]

\* A cached result is complete for its key.
CacheInv == cache # Nothing =>
  /\ cache \in Entries
  /\ Complete(cache.servers, cache.token, cache.res, cache.age + MaxProbing)
  /\ Rightly(cache.res)

\* What a task has is complete, or being completed.
ResultInv(l) ==
  /\ task[l].pc = "probe" => Partial(task[l].servers, task[l].token, task[l].res)
  /\ task[l].pc \in {"got", "refresh", "done"} =>
       Complete(task[l].servers, task[l].token, task[l].res, Ttl + MaxProbing)
  /\ Rightly(task[l].res)

\* Both passes work with tokens that were stored: the first with those found first, the
\* second with later ones of the servers whose token was refreshed between them.
PassInv(l) ==
  /\ \A s \in Servers : task[l].token[s] <= token[s]
  /\ task[l].pc = "refresh" => task[l].pass = 1
                               /\ \A s \in task[l].todo : task[l].res[s].out = "refused"
  /\ task[l].pass = 1 => /\ task[l].token = task[l].was
                         /\ task[l].pc # "refresh" => task[l].refreshed = {}
  /\ \A s \in task[l].refreshed : /\ task[l].was[s] < token[s]
                                  /\ task[l].pass = 2 => task[l].was[s] < task[l].token[s]

TaskInv(l) == ResultInv(l) /\ PassInv(l)

IInv == TypeInv /\ CacheInv /\ \A l \in Tasks : TaskInv(l)

-----------------------------------------------------------------------------
\* Tokens and what servers accept only ever become newer.
Newer == \A s \in Servers : token[s] <= token'[s] /\ good[s] <= good'[s]

LEMMA Numbers == Ttl \in Nat /\ MaxProbing \in Nat /\ MaxToken \in Nat
  BY DiscoveryConstants

LEMMA RightlyKept ==
  ASSUME TypeInv, TypeInv', Newer, NEW res \in Results, Rightly(res)
  PROVE  Rightly(res)'
<1>1. \A s \in Servers : res[s].token \in Nat /\ good[s] \in Nat /\ good'[s] \in Nat
  BY Numbers DEF TypeInv, Tokens, Results, Answer
<1> QED
  BY <1>1 DEF Rightly, Newer

\* A task that does nothing, while tokens become newer.
LEMMA TaskKept ==
  ASSUME TypeInv, TypeInv', Newer, NEW l \in Tasks, TaskInv(l), task'[l] = task[l]
  PROVE  TaskInv(l)'
<1>1. task[l] \in TaskType
  BY DEF TypeInv
<1>2. task[l].res \in Results /\ task[l].was \in Tokens /\ task[l].refreshed \subseteq Servers
  BY <1>1 DEF TaskType
<1>3. ResultInv(l)'
  <2>1. Rightly(task[l].res)'
    BY <1>2, RightlyKept DEF TaskInv, ResultInv
  <2>2. QED
    BY <2>1 DEF TaskInv, ResultInv, Partial, Complete, Rightly
<1>4. PassInv(l)'
  <2>1. \A s \in Servers : task[l].was[s] \in Nat /\ token[s] \in Nat /\ token'[s] \in Nat
    BY <1>2, Numbers DEF TypeInv, Tokens
  <2>2. \A s \in task[l].refreshed : task[l].was[s] < token'[s]
    BY <1>2, <2>1 DEF TaskInv, PassInv, Newer
  <2>3. \A s \in Servers : task[l].token[s] <= token'[s]
    <3>1. \A s \in Servers : task[l].token[s] \in Nat /\ task[l].token[s] <= token[s]
      BY <1>1, Numbers DEF TaskInv, PassInv, TaskType, Tokens
    <3>2. QED
      BY <2>1, <3>1 DEF Newer
  <2>4. QED
    BY <2>2, <2>3 DEF TaskInv, PassInv
<1> QED
  BY <1>3, <1>4 DEF TaskInv

LEMMA CacheKept ==
  ASSUME TypeInv, TypeInv', Newer, CacheInv, cache' = cache \/ cache' = Nothing
  PROVE  CacheInv'
<1>1. CASE cache' = Nothing
  BY <1>1 DEF CacheInv, Nothing
<1>2. CASE cache' = cache /\ cache # Nothing
  <2>1. cache \in Entries /\ cache.res \in Results /\ Rightly(cache.res)
    BY <1>2 DEF CacheInv, Entries
  <2>2. Rightly(cache.res)'
    BY <1>2, <2>1, RightlyKept
  <2>3. QED
    BY <1>2, <2>1, <2>2 DEF CacheInv, Complete, Rightly
<1> QED
  BY <1>1, <1>2

LEMMA IInvInit == Init => IInv
<1> SUFFICES ASSUME Init PROVE IInv
  OBVIOUS
<1>1. 0 \in 0 .. MaxToken /\ 0 \in 0 .. Ttl + MaxProbing + 1
  BY Numbers
<1>2. NoAnswer \in Answer
  BY <1>1 DEF NoAnswer, Answer
<1>3. Blank \in Results /\ [s \in Servers |-> 0] \in Tokens
  BY <1>1, <1>2 DEF Blank, Results, Tokens
<1>4. Idle \in TaskType
  BY <1>3 DEF Idle, TaskType, Pcs
<1>5. TypeInv
  BY <1>3, <1>4 DEF Init, TypeInv
<1>6. CacheInv
  BY DEF Init, CacheInv
<1>7. ASSUME NEW l \in Tasks PROVE TaskInv(l)
  <2>1. /\ task[l].pc = "idle" /\ task[l].pass = 1 /\ task[l].refreshed = {}
        /\ task[l].token = task[l].was /\ task[l].res = Blank
    BY DEF Init, Idle
  <2>2. Rightly(Blank)
    BY DEF Rightly, Blank, NoAnswer
  <2>3. \A s \in Servers : task[l].token[s] = 0 /\ token[s] = 0
    BY DEF Init, Idle
  <2>4. QED
    BY <2>1, <2>2, <2>3 DEF TaskInv, ResultInv, PassInv
<1> QED
  BY <1>5, <1>6, <1>7 DEF IInv

-----------------------------------------------------------------------------
\* One lemma per step.

\* A step of task l that changes nothing else that matters to it or to the others.
LEMMA OwnStep ==
  ASSUME IInv, NEW l \in Tasks, task' \in [Tasks -> TaskType],
         \A k \in Tasks \ {l} : task'[k] = task[k],
         UNCHANGED <<enabled, token, good>>, degraded' \subseteq Servers,
         repairs' \subseteq Servers, CacheInv', TaskInv(l)'
  PROVE  IInv'
<1>1. TypeInv'
  BY DEF IInv, TypeInv
<1>2. Newer
  <2>1. \A s \in Servers : token[s] \in Nat /\ good[s] \in Nat
    BY Numbers DEF IInv, TypeInv, Tokens
  <2>2. QED
    BY <2>1 DEF Newer
<1>3. ASSUME NEW k \in Tasks, k # l PROVE TaskInv(k)'
  BY <1>1, <1>2, <1>3, TaskKept DEF IInv
<1> QED
  BY <1>1, <1>3 DEF IInv

\* If tokens stay as they are, so does what is known of the cache.
LEMMA CacheStays ==
  ASSUME IInv, UNCHANGED <<token, good>>, cache' = cache \/ cache' = Nothing
  PROVE  CacheInv'
<1>1. CASE cache' = Nothing
  BY <1>1 DEF CacheInv, Nothing
<1>2. CASE cache' = cache
  BY <1>2 DEF IInv, CacheInv, Complete, Rightly, Nothing
<1> QED
  BY <1>1, <1>2

LEMMA BlankFacts == /\ Blank \in Results /\ Rightly(Blank) /\ Rightly(Blank)'
                    /\ \A servers, tokens : Partial(servers, tokens, Blank)
<1>1. 0 \in 0 .. MaxToken /\ 0 \in 0 .. Ttl + MaxProbing + 1
  BY Numbers
<1> QED
  BY <1>1 DEF Blank, Results, NoAnswer, Answer, Rightly, Partial

LEMMA BeginKeeps ==
  ASSUME IInv, NEW l \in Tasks, Begin(l)
  PROVE  IInv'
<1> DEFINE new == [pc |-> "lookup", pass |-> 1, servers |-> enabled, token |-> token,
                   was |-> token, res |-> Blank, todo |-> {}, refreshed |-> {}]
<1>1. new \in TaskType
  BY BlankFacts DEF IInv, TypeInv, TaskType, Pcs
<1>2. /\ task' \in [Tasks -> TaskType] /\ \A k \in Tasks \ {l} : task'[k] = task[k]
      /\ task'[l] = new
  BY <1>1 DEF Begin, IInv, TypeInv
<1>3. TaskInv(l)'
  <2>1. token' = token /\ \A s \in Servers : token[s] <= token[s]
    BY Numbers DEF Begin, IInv, TypeInv, Tokens
  <2>2. ResultInv(l)'
    BY <1>2, BlankFacts DEF ResultInv, Rightly
  <2>3. PassInv(l)'
    BY <1>2, <2>1 DEF PassInv
  <2>4. QED
    BY <2>2, <2>3 DEF TaskInv
<1>4. CacheInv'
  BY CacheStays DEF Begin
<1> QED
  BY <1>2, <1>3, <1>4, OwnStep DEF Begin, IInv, TypeInv

\* What a step leaves of a task.
SameBut(l, pc, res) ==
  /\ task'[l].pc = pc /\ task'[l].res = res
  /\ task'[l].pass = task[l].pass /\ task'[l].servers = task[l].servers
  /\ task'[l].token = task[l].token /\ task'[l].was = task[l].was
  /\ task'[l].refreshed = task[l].refreshed

LEMMA SetResult ==
  ASSUME TypeInv, NEW l \in Tasks, NEW pc \in Pcs, NEW res \in Results,
         task' = [task EXCEPT ![l].pc = pc, ![l].res = res]
  PROVE  /\ task' \in [Tasks -> TaskType] /\ \A k \in Tasks \ {l} : task'[k] = task[k]
         /\ SameBut(l, pc, res)
<1> DEFINE new == [task[l] EXCEPT !.pc = pc, !.res = res]
<1>1. task \in [Tasks -> TaskType] /\ task' = [task EXCEPT ![l] = new]
  BY DEF TypeInv
<1>2. task[l] \in TaskType
  BY <1>1
<1>3. new \in TaskType
  BY <1>2 DEF TaskType
<1>4. /\ new.pc = pc /\ new.res = res
      /\ new.pass = task[l].pass /\ new.servers = task[l].servers
      /\ new.token = task[l].token /\ new.was = task[l].was
      /\ new.refreshed = task[l].refreshed
  BY <1>2 DEF TaskType
<1> HIDE DEF new
<1>5. task' \in [Tasks -> TaskType] /\ task'[l] = new /\ \A k \in Tasks \ {l} : task'[k] = task[k]
  BY <1>1, <1>3
<1> QED
  BY <1>4, <1>5 DEF SameBut

LEMMA SetPc ==
  ASSUME TypeInv, NEW l \in Tasks, NEW pc \in Pcs, task' = [task EXCEPT ![l].pc = pc]
  PROVE  /\ task' \in [Tasks -> TaskType] /\ \A k \in Tasks \ {l} : task'[k] = task[k]
         /\ SameBut(l, pc, task[l].res) /\ task'[l].todo = task[l].todo
  BY DEF TypeInv, TaskType, SameBut

LEMMA LookupKeeps ==
  ASSUME IInv, NEW l \in Tasks, Lookup(l)
  PROVE  IInv'
<1>1. /\ TypeInv /\ task[l].pc = "lookup" /\ ResultInv(l) /\ PassInv(l) /\ CacheInv
      /\ "got" \in Pcs /\ "probe" \in Pcs
  BY DEF Lookup, IInv, TaskInv, Pcs
<1>2. CacheInv'
  BY CacheStays DEF Lookup
<1>3. /\ degraded' \subseteq Servers /\ repairs' \subseteq Servers
      /\ UNCHANGED <<enabled, token, good>>
  BY <1>1 DEF Lookup, TypeInv
<1>4. CASE IsHit(l)
  <2>1. /\ cache \in Entries /\ cache.servers = task[l].servers /\ cache.age <= Ttl
        /\ \A s \in cache.servers : cache.token[s] = task[l].token[s]
        /\ Complete(cache.servers, cache.token, cache.res, cache.age + MaxProbing)
        /\ Rightly(cache.res)
    BY <1>1, <1>4 DEF IsHit, CacheInv
  <2>2. cache.res \in Results /\ cache.age \in Nat /\ cache.servers \subseteq Servers
    BY <2>1, Numbers DEF Entries
  <2>3. task' = [task EXCEPT ![l].pc = "got", ![l].res = cache.res]
    BY <1>4 DEF Lookup
  <2>4. /\ task' \in [Tasks -> TaskType] /\ \A k \in Tasks \ {l} : task'[k] = task[k]
        /\ SameBut(l, "got", cache.res)
    BY <1>1, <2>2, <2>3, SetResult
  <2>5. Complete(task[l].servers, task[l].token, cache.res, Ttl + MaxProbing)
    <3>1. \A s \in Servers : cache.res[s].age \in Nat
      BY <2>2, Numbers DEF Results, Answer
    <3>2. \A s \in Servers : cache.res[s].age <= cache.age + MaxProbing
                             => cache.res[s].age <= Ttl + MaxProbing
      BY <2>1, <2>2, <3>1, Numbers
    <3>3. QED
      BY <2>1, <3>2 DEF Complete
  <2>6. ResultInv(l)'
    BY <1>3, <2>1, <2>4, <2>5 DEF ResultInv, SameBut, Complete, Rightly
  <2>7. PassInv(l)'
    BY <1>1, <1>3, <2>4 DEF PassInv, SameBut
  <2>8. QED
    BY <1>2, <1>3, <2>4, <2>6, <2>7, OwnStep DEF TaskInv
<1>5. CASE ~ IsHit(l)
  <2>1. /\ task' \in [Tasks -> TaskType] /\ \A k \in Tasks \ {l} : task'[k] = task[k]
        /\ SameBut(l, "probe", Blank)
    BY <1>1, <1>5, BlankFacts, SetResult DEF Lookup
  <2>2. ResultInv(l)' /\ PassInv(l)'
    BY <1>1, <1>3, <2>1, BlankFacts DEF ResultInv, PassInv, SameBut, Partial, Rightly
  <2>3. QED
    BY <1>2, <1>3, <2>1, <2>2, OwnStep DEF TaskInv
<1> QED
  BY <1>4, <1>5

LEMMA ProbeKeeps ==
  ASSUME IInv, NEW l \in Tasks, NEW s \in Servers, Probe(l, s)
  PROVE  IInv'
<1>1. /\ TypeInv /\ task[l].pc = "probe" /\ ResultInv(l) /\ PassInv(l) /\ s \in task[l].servers
      /\ task[l] \in TaskType
      /\ UNCHANGED <<enabled, token, good, degraded, cache, repairs, toggles>>
  BY DEF Probe, IInv, TaskInv, TypeInv
<1>2. PICK out \in {"ok", "failed", "refused"} :
        /\ out = "refused" => task[l].token[s] # good[s]
        /\ task' = [task EXCEPT ![l].res[s] = [out |-> out, token |-> task[l].token[s],
                                               age |-> 0]]
  BY DEF Probe
<1> DEFINE a == [out |-> out, token |-> task[l].token[s], age |-> 0]
           res == [task[l].res EXCEPT ![s] = a]
<1>3. a \in Answer /\ res \in Results
  <2>1. task[l].token[s] \in 0 .. MaxToken /\ 0 \in 0 .. Ttl + MaxProbing + 1
    BY <1>1, Numbers DEF TaskType, Tokens
  <2>2. a \in Answer
    BY <2>1 DEF Answer
  <2>3. QED
    BY <1>1, <2>2 DEF TaskType, Results
<1>4. /\ task' \in [Tasks -> TaskType] /\ \A k \in Tasks \ {l} : task'[k] = task[k]
      /\ SameBut(l, "probe", res)
  BY <1>1, <1>2, <1>3 DEF TypeInv, TaskType, SameBut
<1>5. /\ res[s] = a /\ \A r \in Servers \ {s} : res[r] = task[l].res[r]
  BY <1>1, <1>3 DEF TaskType, Results
<1>6. Partial(task[l].servers, task[l].token, res)
  BY <1>1, <1>5, Numbers DEF ResultInv, Partial
<1>7. Rightly(res)
  <2>1. out = "refused" => task[l].token[s] < good[s]
    <3>1. task[l].token[s] \in Nat /\ token[s] \in Nat /\ good[s] \in Nat
      BY <1>1, Numbers DEF TypeInv, TaskType, Tokens
    <3>2. task[l].token[s] <= token[s] /\ token[s] <= good[s]
      BY <1>1 DEF TypeInv, PassInv
    <3>3. QED
      BY <1>2, <3>1, <3>2
  <2>2. QED
    BY <1>1, <1>5, <2>1 DEF ResultInv, Rightly
<1>8. CacheInv'
  BY <1>1, CacheStays
<1>9. ResultInv(l)' /\ PassInv(l)'
  <2> HIDE DEF a, res
  <2>1. Partial(task[l].servers, task[l].token, task[l].res)'
    BY <1>4, <1>6 DEF SameBut, Partial
  <2>2. Rightly(task[l].res)'
    BY <1>1, <1>4, <1>7 DEF SameBut, Rightly
  <2>4. ResultInv(l)'
    BY <1>4, <2>1, <2>2 DEF ResultInv, SameBut
  <2>5. PassInv(l)'
    BY <1>1, <1>4 DEF PassInv, SameBut
  <2>6. QED
    BY <2>4, <2>5
<1>10. TaskInv(l)'
  BY <1>9 DEF TaskInv
<1>11. UNCHANGED <<enabled, token, good>> /\ degraded' \subseteq Servers /\ repairs' \subseteq Servers
  BY <1>1 DEF TypeInv
<1> QED
  BY <1>4, <1>8, <1>10, <1>11, OwnStep

LEMMA StoreKeeps ==
  ASSUME IInv, NEW l \in Tasks, Store(l)
  PROVE  IInv'
<1>1. /\ TypeInv /\ task[l].pc = "probe" /\ ResultInv(l) /\ PassInv(l)
      /\ task[l] \in TaskType /\ "got" \in Pcs
      /\ UNCHANGED <<enabled, token, good, degraded, repairs, toggles>>
  BY DEF Store, IInv, TaskInv, TypeInv, Pcs
<1>2. /\ task' \in [Tasks -> TaskType] /\ \A k \in Tasks \ {l} : task'[k] = task[k]
      /\ SameBut(l, "got", task[l].res)
  BY <1>1, SetPc DEF Store
<1>3. \A s \in Servers :
        /\ s \in task[l].servers <=> task[l].res[s].out # "none"
        /\ s \in task[l].servers => /\ task[l].res[s].token = task[l].token[s]
                                    /\ task[l].res[s].age <= MaxProbing
  BY <1>1 DEF Store, ResultInv, Partial
<1>4. \A s \in Servers : task[l].res[s].age \in Nat
  BY <1>1, Numbers DEF TaskType, Results, Answer
<1>5. /\ Complete(task[l].servers, task[l].token, task[l].res, MaxProbing)
      /\ Complete(task[l].servers, task[l].token, task[l].res, Ttl + MaxProbing)
  <2>1. \A s \in Servers : task[l].res[s].age <= MaxProbing =>
          task[l].res[s].age <= Ttl + MaxProbing
    BY <1>4, Numbers
  <2>2. Complete(task[l].servers, task[l].token, task[l].res, MaxProbing)
    BY <1>3 DEF Complete
  <2>3. Complete(task[l].servers, task[l].token, task[l].res, Ttl + MaxProbing)
    BY <1>3, <2>1 DEF Complete
  <2>4. QED
    BY <2>2, <2>3
<1>6. CacheInv'
  <2>1. cache' = [servers |-> task[l].servers, token |-> task[l].token, age |-> 0,
                  res |-> task[l].res]
    BY DEF Store
  <2>2. cache' \in Entries
    BY <1>1, <2>1, Numbers DEF Entries, TaskType, Tokens
  <2>3. Complete(cache'.servers, cache'.token, cache'.res, cache'.age + MaxProbing)
    <3>1. cache'.age + MaxProbing = MaxProbing
      BY <2>1, Numbers
    <3>2. QED
      BY <1>5, <2>1, <3>1
  <2>4. Rightly(cache.res)'
    BY <1>1, <2>1 DEF Rightly, ResultInv
  <2>5. QED
    BY <2>2, <2>3, <2>4 DEF CacheInv, Complete
<1>7. ResultInv(l)' /\ PassInv(l)'
  BY <1>1, <1>2, <1>5 DEF ResultInv, PassInv, SameBut, Complete, Rightly
<1> QED
  BY <1>1, <1>2, <1>6, <1>7, OwnStep DEF TaskInv, TypeInv

LEMMA SortFailuresKeeps ==
  ASSUME IInv, NEW l \in Tasks, SortFailures(l)
  PROVE  IInv'
<1>1. /\ TypeInv /\ task[l].pc = "got" /\ ResultInv(l) /\ PassInv(l)
      /\ task[l] \in TaskType /\ "refresh" \in Pcs /\ "done" \in Pcs
      /\ UNCHANGED <<enabled, token, good, degraded, cache, repairs, toggles>>
  BY DEF SortFailures, IInv, TaskInv, TypeInv, Pcs
<1>2. CacheInv'
  BY <1>1, CacheStays
<1>3. CASE task[l].pass = 1 /\ Refused(l) # {}
  <2>1. task' = [task EXCEPT ![l].pc = "refresh", ![l].todo = Refused(l)]
    BY <1>3 DEF SortFailures
  <2>2. Refused(l) \subseteq Servers
    BY <1>1 DEF Refused, TaskType
  <2>3. /\ task' \in [Tasks -> TaskType] /\ \A k \in Tasks \ {l} : task'[k] = task[k]
        /\ SameBut(l, "refresh", task[l].res) /\ task'[l].todo = Refused(l)
    BY <1>1, <2>1, <2>2 DEF TypeInv, TaskType, SameBut
  <2>4. ResultInv(l)'
    BY <1>1, <2>3 DEF ResultInv, SameBut, Complete, Rightly
  <2>5. PassInv(l)'
    BY <1>1, <1>3, <2>3 DEF PassInv, SameBut, Refused
  <2>6. QED
    BY <1>1, <1>2, <2>3, <2>4, <2>5, OwnStep DEF TaskInv, TypeInv
<1>4. CASE ~ (task[l].pass = 1 /\ Refused(l) # {})
  <2>1. /\ task' \in [Tasks -> TaskType] /\ \A k \in Tasks \ {l} : task'[k] = task[k]
        /\ SameBut(l, "done", task[l].res)
    BY <1>1, <1>4, SetPc DEF SortFailures
  <2>2. ResultInv(l)' /\ PassInv(l)'
    BY <1>1, <2>1 DEF ResultInv, PassInv, SameBut, Complete, Rightly
  <2>3. QED
    BY <1>1, <1>2, <2>1, <2>2, OwnStep DEF TaskInv, TypeInv
<1> QED
  BY <1>3, <1>4

\* A refresh keeps what is stored, or brings what the server accepts.
LEMMA RefreshFacts ==
  ASSUME TypeInv, NEW s \in Servers, Refreshes(s) \/ RefreshFails(s)
  PROVE  /\ token' \in Tokens /\ good' = good /\ degraded' \subseteq Servers
         /\ \A r \in Servers : token[r] <= token'[r] /\ token'[r] <= good'[r]
         /\ Refreshes(s) => token'[s] = good[s]
<1>1. \A r \in Servers : token[r] \in 0 .. MaxToken /\ good[r] \in 0 .. MaxToken
                        /\ token[r] <= good[r]
  BY DEF TypeInv, Tokens
<1>2. CASE token' = token /\ good' = good /\ (Refreshes(s) => token[s] = good[s])
  BY <1>1, <1>2, Numbers DEF TypeInv, Refreshes, RefreshFails
<1>3. CASE token' = [token EXCEPT ![s] = good[s]] /\ good' = good
  <2>1. /\ token'[s] = good[s] /\ \A r \in Servers \ {s} : token'[r] = token[r]
        /\ token' \in Tokens
    BY <1>1, <1>3 DEF TypeInv, Tokens
  <2>2. QED
    BY <1>1, <1>3, <2>1, Numbers DEF TypeInv, Refreshes, RefreshFails
<1>4. CASE Refreshes(s)
  BY <1>2, <1>3, <1>4 DEF Refreshes
<1>5. CASE RefreshFails(s)
  <2>1. CASE Refreshes(s)
    BY <1>4, <2>1
  <2>2. QED
    BY <1>2, <1>5, <2>1 DEF RefreshFails
<1> QED
  BY <1>4, <1>5

LEMMA RefreshOneKeeps ==
  ASSUME IInv, NEW l \in Tasks, RefreshOne(l)
  PROVE  IInv'
<1>1. /\ TypeInv /\ task[l].pc = "refresh" /\ ResultInv(l) /\ PassInv(l) /\ CacheInv
      /\ task[l] \in TaskType /\ UNCHANGED <<enabled, cache, repairs, toggles>>
  BY DEF RefreshOne, IInv, TaskInv, TypeInv
<1>2. PICK s \in task[l].todo :
        \/ /\ Refreshes(s)
           /\ task' = [task EXCEPT ![l].todo = @ \ {s}, ![l].refreshed = @ \cup {s}]
        \/ /\ RefreshFails(s)
           /\ task' = [task EXCEPT ![l].todo = @ \ {s}]
  BY DEF RefreshOne
<1>3. s \in Servers
  BY <1>1 DEF TaskType
<1>4. /\ task' \in [Tasks -> TaskType] /\ \A k \in Tasks \ {l} : task'[k] = task[k]
      /\ task'[l].pc = "refresh" /\ task'[l].res = task[l].res
      /\ task'[l].pass = task[l].pass /\ task'[l].servers = task[l].servers
      /\ task'[l].token = task[l].token /\ task'[l].was = task[l].was
      /\ task'[l].todo = task[l].todo \ {s}
      /\ \/ task'[l].refreshed = task[l].refreshed \cup {s} /\ Refreshes(s)
         \/ task'[l].refreshed = task[l].refreshed
  BY <1>1, <1>2, <1>3 DEF TypeInv, TaskType
<1>5. /\ token' \in Tokens /\ good' = good /\ degraded' \subseteq Servers
      /\ \A r \in Servers : token[r] <= token'[r] /\ token'[r] <= good'[r]
      /\ Refreshes(s) => token'[s] = good[s]
  BY <1>1, <1>2, <1>3, RefreshFacts
<1>6. TypeInv'
  BY <1>1, <1>4, <1>5 DEF TypeInv
<1>7. \A r \in Servers : /\ token[r] \in Nat /\ token'[r] \in Nat /\ good[r] \in Nat
                         /\ task[l].was[r] \in Nat /\ task[l].token[r] \in Nat
  BY <1>1, <1>5, Numbers DEF TypeInv, TaskType, Tokens
<1>8. Newer
  BY <1>5, <1>7 DEF Newer
<1>9. CacheInv'
  BY <1>1, <1>6, <1>8, CacheKept
<1>10. ASSUME NEW k \in Tasks, k # l PROVE TaskInv(k)'
  BY <1>1, <1>4, <1>6, <1>8, <1>10, TaskKept DEF IInv
<1>11. ResultInv(l)'
  BY <1>1, <1>4, <1>5 DEF ResultInv, Complete, Rightly
<1>12. task[l].was[s] < good[s]
  <2>1. task[l].res[s].out = "refused" /\ task[l].token = task[l].was
    BY <1>1, <1>2 DEF PassInv
  <2>2. task[l].res[s].token < good[s]
    BY <1>1, <1>3, <2>1 DEF ResultInv, Rightly
  <2>3. task[l].res[s].token = task[l].token[s]
    BY <1>1, <1>3, <2>1 DEF ResultInv, Complete
  <2>4. QED
    BY <2>1, <2>2, <2>3
<1>13. PassInv(l)'
  <2>1. \A r \in task'[l].refreshed : task[l].was[r] < token'[r]
    <3>1. \A r \in task[l].refreshed : r \in Servers /\ task[l].was[r] < token[r]
      BY <1>1 DEF PassInv, TaskType
    <3>2. \A r \in task[l].refreshed : task[l].was[r] < token'[r]
      BY <1>5, <1>7, <3>1
    <3>3. QED
      BY <1>4, <1>5, <1>12, <3>2
  <2>2. \A r \in Servers : task[l].token[r] <= token'[r]
    BY <1>1, <1>5, <1>7 DEF PassInv
  <2>3. QED
    BY <1>1, <1>4, <2>1, <2>2 DEF PassInv
<1> QED
  BY <1>6, <1>9, <1>10, <1>11, <1>13 DEF IInv, TaskInv

LEMMA AskAgainKeeps ==
  ASSUME IInv, NEW l \in Tasks, AskAgain(l)
  PROVE  IInv'
<1>1. /\ TypeInv /\ task[l].pc = "refresh" /\ task[l].pass = 1
      /\ ResultInv(l) /\ PassInv(l)
      /\ task[l] \in TaskType /\ "lookup" \in Pcs /\ "done" \in Pcs
      /\ UNCHANGED <<enabled, token, good, degraded, repairs, toggles>>
  BY DEF AskAgain, IInv, TaskInv, TypeInv, PassInv, Pcs
<1>2. CacheInv'
  BY <1>1, CacheStays DEF AskAgain
<1>3. CASE task[l].refreshed = {}
  <2>1. /\ task' \in [Tasks -> TaskType] /\ \A k \in Tasks \ {l} : task'[k] = task[k]
        /\ SameBut(l, "done", task[l].res)
    BY <1>1, <1>3, SetPc DEF AskAgain
  <2>2. ResultInv(l)' /\ PassInv(l)'
    BY <1>1, <1>3, <2>1 DEF ResultInv, PassInv, SameBut, Complete, Rightly
  <2>3. QED
    BY <1>1, <1>2, <2>1, <2>2, OwnStep DEF TaskInv, TypeInv
<1>4. CASE task[l].refreshed # {}
  <2>1. task' = [task EXCEPT ![l].pc = "lookup", ![l].pass = @ + 1, ![l].token = token]
    BY <1>4 DEF AskAgain
  <2>2. /\ task' \in [Tasks -> TaskType] /\ \A k \in Tasks \ {l} : task'[k] = task[k]
        /\ task'[l].pc = "lookup" /\ task'[l].pass = 2 /\ task'[l].token = token
        /\ task'[l].was = task[l].was /\ task'[l].res = task[l].res
        /\ task'[l].refreshed = task[l].refreshed
    BY <1>1, <2>1 DEF TypeInv, TaskType
  <2>3. ResultInv(l)'
    BY <1>1, <2>2 DEF ResultInv, Rightly
  <2>4. \A s \in Servers : token[s] \in Nat
    BY <1>1, Numbers DEF TypeInv, Tokens
  <2>5. PassInv(l)'
    BY <1>1, <2>2, <2>4 DEF PassInv
  <2>6. QED
    BY <1>1, <1>2, <2>2, <2>3, <2>5, OwnStep DEF TaskInv, TypeInv
<1> QED
  BY <1>3, <1>4

LEMMA FinishSnapshotKeeps ==
  ASSUME IInv, NEW l \in Tasks, FinishSnapshot(l)
  PROVE  IInv'
<1>1. /\ TypeInv /\ task[l].pc = "got" /\ ResultInv(l) /\ PassInv(l)
      /\ task[l] \in TaskType /\ "done" \in Pcs
      /\ UNCHANGED <<enabled, token, good, cache, toggles>>
  BY DEF FinishSnapshot, IInv, TaskInv, TypeInv, Pcs
<1>2. degraded' \subseteq Servers /\ repairs' \subseteq Servers
  BY <1>1 DEF FinishSnapshot, Refused, TypeInv, TaskType
<1>3. /\ task' \in [Tasks -> TaskType] /\ \A k \in Tasks \ {l} : task'[k] = task[k]
      /\ SameBut(l, "done", task[l].res)
  BY <1>1, SetPc DEF FinishSnapshot
<1>4. ResultInv(l)' /\ PassInv(l)'
  BY <1>1, <1>3 DEF ResultInv, PassInv, SameBut, Complete, Rightly
<1>5. CacheInv'
  BY <1>1, CacheStays
<1> QED
  BY <1>1, <1>2, <1>3, <1>4, <1>5, OwnStep DEF TaskInv

\* A step outside the tasks.
LEMMA OtherStep ==
  ASSUME IInv, TypeInv', Newer, task' = task, cache' = cache \/ cache' = Nothing
  PROVE  IInv'
<1>1. ASSUME NEW l \in Tasks PROVE TaskInv(l)'
  BY TaskKept DEF IInv
<1>2. CacheInv'
  BY CacheKept DEF IInv
<1> QED
  BY <1>1, <1>2 DEF IInv

LEMMA RepairKeeps ==
  ASSUME IInv, NEW s \in Servers, Repair(s)
  PROVE  IInv'
<1>1. TypeInv /\ (Refreshes(s) \/ RefreshFails(s)) /\ repairs' \subseteq Servers
  BY DEF Repair, IInv, TypeInv
<1>2. /\ token' \in Tokens /\ good' = good /\ degraded' \subseteq Servers
      /\ \A r \in Servers : token[r] <= token'[r] /\ token'[r] <= good'[r]
  BY <1>1, RefreshFacts
<1>3. TypeInv'
  BY <1>1, <1>2 DEF Repair, TypeInv
<1>4. Newer
  <2>1. \A r \in Servers : good[r] \in Nat
    BY <1>1, Numbers DEF TypeInv, Tokens
  <2>2. QED
    BY <1>2, <2>1 DEF Newer
<1> QED
  BY <1>3, <1>4, OtherStep DEF Repair

LEMMA ToggleKeeps ==
  ASSUME IInv, NEW s \in Servers, Toggle(s)
  PROVE  IInv'
<1>1. TypeInv'
  BY DEF Toggle, IInv, TypeInv
<1>2. Newer
  <2>1. \A r \in Servers : token[r] \in Nat /\ good[r] \in Nat
    BY Numbers DEF IInv, TypeInv, Tokens
  <2>2. QED
    BY <2>1 DEF Newer, Toggle
<1> QED
  BY <1>1, <1>2, OtherStep DEF Toggle

LEMMA ExpireKeeps ==
  ASSUME IInv, NEW s \in Servers, Expire(s)
  PROVE  IInv'
<1>1. TypeInv /\ token' = token /\ good' = [good EXCEPT ![s] = @ + 1] /\ good[s] < MaxToken
      /\ \A r \in Servers : /\ token[r] \in 0 .. MaxToken /\ good[r] \in 0 .. MaxToken
                            /\ token[r] <= good[r]
  BY DEF Expire, IInv, TypeInv, Tokens
<1>2. good[s] + 1 \in 0 .. MaxToken
  BY <1>1, Numbers
<1>3. /\ good' \in Tokens /\ good'[s] = good[s] + 1
      /\ \A r \in Servers \ {s} : good'[r] = good[r]
  BY <1>1, <1>2 DEF TypeInv, Tokens
<1>4. Newer /\ \A r \in Servers : token'[r] <= good'[r]
  BY <1>1, <1>3, Numbers DEF Newer
<1>5. TypeInv'
  BY <1>1, <1>3, <1>4 DEF Expire, TypeInv
<1> QED
  BY <1>4, <1>5, OtherStep DEF Expire

\* Answers that grow older stay what they are.
LEMMA AllOlderFacts ==
  ASSUME NEW res \in Results
  PROVE  /\ AllOlder(res) \in Results
         /\ \A s \in Servers : /\ AllOlder(res)[s].out = res[s].out
                               /\ AllOlder(res)[s].token = res[s].token
                               /\ AllOlder(res)[s].age <= res[s].age + 1
<1>1. ASSUME NEW s \in Servers
      PROVE  /\ AllOlder(res)[s] \in Answer
             /\ AllOlder(res)[s].out = res[s].out
             /\ AllOlder(res)[s].token = res[s].token
             /\ AllOlder(res)[s].age <= res[s].age + 1
  <2>1. res[s] \in Answer
    BY DEF Results
  <2>2. res[s].age \in 0 .. Ttl + MaxProbing + 1
    BY <2>1 DEF Answer
  <2> DEFINE age == Older(res[s].age, Ttl + MaxProbing + 1)
  <2>3. age \in 0 .. Ttl + MaxProbing + 1 /\ age <= res[s].age + 1
        /\ res[s].age <= res[s].age + 1
    BY <2>2, Numbers DEF Older
  <2>4. AllOlder(res)[s] = IF res[s].out = "none" THEN res[s]
                           ELSE [res[s] EXCEPT !.age = age]
    BY DEF AllOlder
  <2> HIDE DEF age
  <2>5. QED
    BY <2>1, <2>3, <2>4 DEF Answer
<1> QED
  BY <1>1 DEF Results, AllOlder

LEMMA TickKeeps ==
  ASSUME IInv, Tick
  PROVE  IInv'
<1>1. TypeInv /\ CacheInv /\ UNCHANGED <<enabled, token, good, degraded, repairs, toggles>>
  BY DEF IInv, Tick
<1>2. ASSUME NEW l \in Tasks
      PROVE  task'[l] \in TaskType /\ TaskInv(l)'
  <2>1. task[l] \in TaskType /\ task[l].res \in Results /\ ResultInv(l) /\ PassInv(l)
    BY <1>1 DEF IInv, TypeInv, TaskInv, TaskType
  <2>2. CASE task[l].pc = "probe"
    <3> DEFINE old == AllOlder(task[l].res)
    <3>1. task'[l] = [task[l] EXCEPT !.res = old]
      BY <2>2 DEF Tick
    <3>2. /\ old \in Results
          /\ \A s \in Servers : /\ old[s].out = task[l].res[s].out
                                /\ old[s].token = task[l].res[s].token
                                /\ old[s].age <= task[l].res[s].age + 1
      BY <2>1, AllOlderFacts
    <3>3. task'[l] \in TaskType /\ SameBut(l, "probe", old)
      BY <2>1, <2>2, <3>1, <3>2 DEF TaskType, SameBut
    <3>4. Partial(task[l].servers, task[l].token, old)
      <4>1. \A s \in Servers : task[l].res[s].age \in Nat /\ old[s].age \in Nat
        BY <2>1, <3>2, Numbers DEF Results, Answer
      <4>2. \A s \in Servers : task[l].res[s].out # "none" => task[l].res[s].age < MaxProbing
        BY <2>2 DEF Tick
      <4>3. \A s \in Servers : task[l].res[s].out # "none" => old[s].age <= MaxProbing
        BY <3>2, <4>1, <4>2, Numbers
      <4>4. QED
        BY <2>1, <2>2, <3>2, <4>3 DEF ResultInv, Partial
    <3>5. Rightly(old)
      BY <2>1, <3>2 DEF ResultInv, Rightly
    <3>6. ResultInv(l)' /\ PassInv(l)'
      BY <1>1, <2>1, <2>2, <3>3, <3>4, <3>5 DEF ResultInv, PassInv, SameBut, Partial, Rightly
    <3>7. QED
      BY <3>3, <3>6 DEF TaskInv
  <2>3. CASE task[l].pc # "probe"
    <3>1. task'[l] = task[l]
      BY <2>3 DEF Tick
    <3>2. QED
      BY <1>1, <2>1, <3>1 DEF TaskInv, ResultInv, PassInv, Partial, Complete, Rightly
  <2> QED
    BY <2>2, <2>3
<1>3. TypeInv'
  <2>1. task' \in [Tasks -> TaskType]
    BY <1>2 DEF Tick
  <2>2. QED
    BY <1>1, <2>1 DEF TypeInv
<1>4. CacheInv'
  <2>1. CASE cache = Nothing
    BY <2>1 DEF Tick, CacheInv
  <2>2. CASE cache # Nothing
    <3> DEFINE age == Older(cache.age, Ttl + 1)
               old == AllOlder(cache.res)
    <3>1. /\ cache \in Entries /\ Rightly(cache.res)
          /\ Complete(cache.servers, cache.token, cache.res, cache.age + MaxProbing)
      BY <1>1, <2>2 DEF CacheInv
    <3>2. /\ cache.res \in Results /\ cache.age \in 0 .. Ttl + 1
          /\ cache.servers \subseteq Servers /\ cache.token \in [Servers -> 0 .. MaxToken]
      BY <3>1 DEF Entries
    <3>3. cache' = [servers |-> cache.servers, token |-> cache.token, age |-> age, res |-> old]
      BY <2>2 DEF Tick
    <3>4. /\ old \in Results
          /\ \A s \in Servers : /\ old[s].out = cache.res[s].out
                                /\ old[s].token = cache.res[s].token
                                /\ old[s].age <= cache.res[s].age + 1
      BY <3>2, AllOlderFacts
    <3>5. age \in 0 .. Ttl + 1
      BY <3>2, Numbers DEF Older
    <3>6. cache' \in Entries
      BY <3>2, <3>3, <3>4, <3>5 DEF Entries
    <3>7. Complete(cache.servers, cache.token, old, age + MaxProbing)
      <4>1. ASSUME NEW s \in cache.servers
            PROVE  old[s].age <= age + MaxProbing
        <5>1. /\ s \in Servers /\ cache.res[s].out # "none"
              /\ cache.res[s].age <= cache.age + MaxProbing
          BY <3>1, <3>2 DEF Complete
        <5>2. /\ cache.res[s].age \in 0 .. Ttl + MaxProbing + 1
              /\ old[s].age \in 0 .. Ttl + MaxProbing + 1
          BY <3>2, <3>4, <5>1 DEF Results, Answer
        <5>3. old[s].age <= cache.res[s].age + 1
          BY <3>4, <5>1
        <5>4. QED
          BY <3>2, <5>1, <5>2, <5>3, Numbers DEF Older
      <4>2. QED
        BY <3>1, <3>4, <4>1 DEF Complete
    <3>8. \A s \in Servers : old[s].out = "refused" => old[s].token < good'[s]
      BY <1>1, <3>1, <3>4 DEF Rightly
    <3>9. QED
      BY <3>3, <3>6, <3>7, <3>8 DEF CacheInv, Complete, Rightly
  <2> QED
    BY <2>1, <2>2
<1> QED
  BY <1>2, <1>3, <1>4 DEF IInv

LEMMA IInvNext == IInv /\ [Next]_vars => IInv'
<1> SUFFICES ASSUME IInv, [Next]_vars PROVE IInv'
  OBVIOUS
<1>1. ASSUME NEW l \in Tasks,
             \/ Begin(l) \/ Lookup(l) \/ Store(l) \/ SortFailures(l)
             \/ RefreshOne(l) \/ AskAgain(l) \/ FinishSnapshot(l)
             \/ \E s \in Servers : Probe(l, s)
      PROVE  IInv'
  BY <1>1, BeginKeeps, LookupKeeps, StoreKeeps, SortFailuresKeeps, RefreshOneKeeps,
     AskAgainKeeps, FinishSnapshotKeeps, ProbeKeeps
<1>2. ASSUME NEW s \in Servers, Repair(s) \/ Toggle(s) \/ Expire(s)
      PROVE  IInv'
  BY <1>2, RepairKeeps, ToggleKeeps, ExpireKeeps
<1>3. CASE UNCHANGED vars
  <2>1. TypeInv' /\ task' = task /\ cache' = cache
    BY <1>3 DEF vars, IInv, TypeInv
  <2>2. \A s \in Servers : token[s] \in Nat /\ good[s] \in Nat
    BY Numbers DEF IInv, TypeInv, Tokens
  <2>3. QED
    BY <1>3, <2>1, <2>2, OtherStep DEF vars, Newer
<1> QED
  BY <1>1, <1>2, <1>3, TickKeeps DEF Next

-----------------------------------------------------------------------------
\* The inductive invariant holds in every reachable state.
THEOREM InductiveInvariant == Spec => []IInv
  BY IInvInit, IInvNext, PTL DEF Spec

\* What a listing or a snapshot shows of a server is at most one discovery and one
\* time to live old, whichever of them filled the cache and whenever it was forgotten.
THEOREM AnswersAreFresh == Spec => []FreshAnswers
<1>1. IInv => FreshAnswers
  BY DEF IInv, TypeInv, TaskType, TaskInv, ResultInv, Complete, FreshAnswers
<1> QED
  BY <1>1, InductiveInvariant, PTL

\* It shows the servers that were enabled when it began, each as it answered the token
\* the listing found stored for it.
THEOREM AnswersHaveTheirKey == Spec => []KeyedAnswers
<1>1. IInv => KeyedAnswers
  BY DEF IInv, TaskInv, ResultInv, Complete, KeyedAnswers
<1> QED
  BY <1>1, InductiveInvariant, PTL

\* A listing that refreshed a server's token asks it with the new one.
THEOREM NotRefusedTwice == Spec => []NotRefusedAsBefore
<1>1. IInv => NotRefusedAsBefore
  <2> SUFFICES ASSUME IInv, NEW l \in Lists, task[l].pc = "done",
                      NEW s \in task[l].refreshed, s \in Refused(l)
               PROVE  task[l].res[s].token # task[l].was[s]
    BY DEF NotRefusedAsBefore
  <2>1. l \in Tasks /\ task[l] \in TaskType /\ ResultInv(l) /\ PassInv(l)
    BY DEF Tasks, IInv, TypeInv, TaskInv
  <2>2. task[l].pass = 2 /\ s \in Servers /\ s \in task[l].servers
    BY <2>1 DEF TaskType, PassInv, Refused
  <2>3. task[l].was[s] < task[l].token[s] /\ task[l].res[s].token = task[l].token[s]
    BY <2>1, <2>2 DEF PassInv, ResultInv, Complete
  <2>4. task[l].was[s] \in Nat /\ task[l].token[s] \in Nat
    BY <2>1, <2>2, Numbers DEF TaskType, Tokens
  <2>5. QED
    BY <2>3, <2>4
<1> QED
  BY <1>1, InductiveInvariant, PTL
================================================================================
