--------------------------- MODULE OAuthLoginProofs ---------------------------
(***************************************************************************)
(* Proofs about OAuthLogin, for any number of servers, logins, callbacks,  *)
(* bootstraps, restarts and removals, and any time to live.                *)
(***************************************************************************)
EXTENDS OAuthLogin, TLAPS

-----------------------------------------------------------------------------
\* The inductive invariant.

\* Callback t has taken the state of start a and not yet exchanged its code.
Holds(t, a) == /\ task[t].pc \in {"resolve", "register", "save", "resolved"}
               /\ task[t].state = a

\* A task at work knows its server, the client id it goes on with and, if it is a
\* callback, its state.
KnownInv ==
  /\ \A t \in Tasks : task[t].pc \notin {"idle", "done"} => task[t].server \in Servers
  /\ \A t \in Tasks : task[t].pc = "save" => task[t].id \in Ids
  /\ \A t \in Tasks : task[t].pc \in {"resolved", "persist"} => task[t].id # NoId
  /\ \A t \in Callbacks : task[t].pc \notin {"idle", "done"} => task[t].state \in Starts
  /\ \A a \in Starts : login[a].id # NoId => login[a].server \in Servers

\* A start that has not made its URL: nobody knows its state, whose clock is at zero.
UnbornInv ==
  \A a \in Starts : task[a].pc # "done" =>
    /\ a \notin pending /\ age[a] = 0 /\ login[a].id = NoId
    /\ \A t \in Callbacks : ~ Holds(t, a)
    /\ \A c \in codes : c[2] # a

\* A state is in one place: pending, held by one callback, or used up; and a callback
\* holds it only when it was brought back in time.
StateInv ==
  /\ \A a \in pending : /\ \A t \in Callbacks : ~ Holds(t, a)
                        /\ \A c \in codes : c[2] # a
  /\ \A t \in Callbacks, a \in Starts : Holds(t, a) =>
       /\ age[a] <= Ttl
       /\ \A c \in codes : c[2] # a
       /\ \A u \in Callbacks : Holds(u, a) => u = t

\* Without a race, the first client of a server is the only one, and whoever went on
\* with an id has that one.
ClientInv ==
  \A s \in Servers \ (raced \cup Static) :
    /\ \A t \in Tasks : task[t].server = s =>
         /\ task[t].pc \in {"register", "save"} => clientId[s] = NoId
         /\ task[t].pc \in {"resolved", "persist"} => clientId[s] = task[t].id
    /\ \A t, u \in Registering(s) : t = u

LoginInv == UnbornInv /\ StateInv /\ OneExchange /\ ExchangedInTime /\ PendingSpan

IInv == TypeOK /\ KnownInv /\ LoginInv /\ ClientInv /\ UrlClientKept

-----------------------------------------------------------------------------
LEMMA IInvInit == Init => IInv
<1> SUFFICES ASSUME Init PROVE IInv
  OBVIOUS
<1> USE LoginConstants DEF Init
<1>1. TypeOK
  BY DEF TypeOK, Idle, AnyId
<1>2. KnownInv /\ UnbornInv /\ StateInv
  BY DEF KnownInv, UnbornInv, StateInv, Holds, Idle, Tasks
<1>3. ClientInv
  BY DEF ClientInv, Idle, Registering
<1>4. OneExchange /\ ExchangedInTime /\ PendingSpan /\ UrlClientKept
  BY DEF OneExchange, ExchangedInTime, PendingSpan, UrlClientKept
<1> QED
  BY <1>1, <1>2, <1>3, <1>4 DEF IInv, LoginInv

\* A task that does not touch pending states, URLs or codes.
LEMMA LocalStep ==
  ASSUME TypeOK, LoginInv, NEW t \in Tasks, UNCHANGED <<pending, age, login, codes>>,
         \A u \in Tasks \ {t} : task'[u] = task[u],
         task[t].pc = "done" => task'[t].pc = "done",
         t \in Callbacks => \A a \in Starts : Holds(t, a)' => Holds(t, a)
  PROVE  LoginInv'
<1> USE DEF LoginInv
<1>1. \A a \in Starts : task'[a].pc # "done" => task[a].pc # "done"
  BY DEF Tasks
<1>2. \A u \in Callbacks, a \in Starts : Holds(u, a)' => Holds(u, a)
  BY DEF Tasks, Holds
<1>3. UnbornInv'
  BY <1>1, <1>2 DEF UnbornInv
<1>4. StateInv'
  BY <1>2 DEF StateInv, TypeOK
<1>5. OneExchange' /\ ExchangedInTime' /\ PendingSpan'
  BY DEF OneExchange, ExchangedInTime, PendingSpan
<1> QED
  BY <1>3, <1>4, <1>5

\* States, codes and times, one step at a time.
LEMMA LoginNext ==
  ASSUME TypeOK, KnownInv, LoginInv, [Next]_vars
  PROVE  LoginInv'
<1> USE LoginConstants
<1>1. task \in [Tasks -> [pc : {"idle", "resolve", "register", "save", "resolved", "persist", "done"},
                          server : Servers \cup {NoServer}, state : Starts \cup {NoState}, id : AnyId]]
  BY DEF TypeOK
<1>2. ASSUME NEW t \in Tasks, ReadClient(t) \/ RegisterClient(t) \/ SaveClient(t)
      PROVE  LoginInv'
  <2>1. /\ \A u \in Tasks \ {t} : task'[u] = task[u]
        /\ task[t].pc \in {"resolve", "register", "save"} /\ task'[t].state = task[t].state
        /\ UNCHANGED <<pending, age, login, codes>>
    BY <1>1, <1>2 DEF ReadClient, RegisterClient, SaveClient, Goto
  <2>2. QED
    BY <2>1, LocalStep DEF Holds
<1>3. ASSUME NEW t \in Tasks, FlowFails(t) \/ FinishBoot(t) \/ PersistLogin(t)
      PROVE  LoginInv'
  <2>1. /\ \A u \in Tasks \ {t} : task'[u] = task[u]
        /\ task'[t].pc = "done" /\ UNCHANGED <<pending, age, login, codes>>
    BY <1>1, <1>3 DEF FlowFails, FinishBoot, PersistLogin, Done, Idle
  <2>2. QED
    BY <2>1, LocalStep DEF Holds
<1>4. ASSUME NEW t \in Starts \cup Boots, NEW s \in Servers, Begin(t, s)
      PROVE  LoginInv'
  <2>1. /\ \A u \in Tasks \ {t} : task'[u] = task[u]
        /\ task[t].pc = "idle" /\ UNCHANGED <<pending, age, login, codes>>
    BY <1>1, <1>4 DEF Begin, Done, Idle, Tasks
  <2>2. t \in Tasks /\ t \notin Callbacks
    BY DEF Tasks
  <2>3. QED
    BY <2>1, <2>2, LocalStep
<1>5. ASSUME NEW t \in Callbacks, NEW a \in Starts, TakeState(t, a)
      PROVE  LoginInv'
  <2>1. /\ \A u \in Tasks \ {t} : task'[u] = task[u]
        /\ pending' = pending \ {a} /\ UNCHANGED <<age, login, codes>>
        /\ task[t].pc = "idle" /\ t \in Tasks
        /\ task'[t].pc = "done" \/ (a \in pending /\ age[a] <= Ttl /\ task'[t].state = a)
    BY <1>1, <1>5 DEF TakeState, Done, Idle, Tasks, TypeOK
  <2>2. \A u \in Callbacks, b \in Starts :
           Holds(u, b)' => Holds(u, b) \/ (u = t /\ b = a /\ a \in pending /\ age[a] <= Ttl)
    BY <2>1 DEF Holds, Tasks
  <2>3. \A b \in Starts : task'[b].pc # "done" => task[b].pc # "done"
    BY <2>1 DEF Tasks
  <2>4. UnbornInv'
    BY <2>1, <2>2, <2>3 DEF LoginInv, UnbornInv
  <2>5. StateInv'
    BY <2>1, <2>2 DEF LoginInv, StateInv, TypeOK
  <2>6. OneExchange' /\ ExchangedInTime' /\ PendingSpan'
    BY <2>1 DEF LoginInv, OneExchange, ExchangedInTime, PendingSpan
  <2>7. QED
    BY <2>4, <2>5, <2>6 DEF LoginInv
<1>6. ASSUME NEW t \in Tasks, FinishStart(t) PROVE LoginInv'
  <2>1. /\ t \in Starts /\ \A u \in Tasks \ {t} : task'[u] = task[u]
        /\ pending' = {b \in pending : age[b] <= Ttl} \cup {t} /\ UNCHANGED <<age, codes>>
        /\ task[t].pc = "resolved" /\ task'[t].pc = "done"
        /\ \A b \in Starts \ {t} : login'[b] = login[b]
    BY <1>1, <1>6 DEF FinishStart, Done, Idle, TypeOK
  <2>2. \A u \in Callbacks, b \in Starts : Holds(u, b)' => Holds(u, b)
    BY <2>1 DEF Holds, Tasks
  <2>3. age[t] = 0 /\ (\A u \in Callbacks : ~ Holds(u, t)) /\ (\A c \in codes : c[2] # t)
    BY <2>1 DEF LoginInv, UnbornInv
  <2>4. UnbornInv'
    BY <2>1, <2>2 DEF LoginInv, UnbornInv, Tasks
  <2>5. StateInv'
    BY <2>1, <2>2, <2>3 DEF LoginInv, StateInv, TypeOK
  <2>6. OneExchange' /\ ExchangedInTime'
    BY <2>1 DEF LoginInv, OneExchange, ExchangedInTime
  <2>7. PendingSpan'
    <3>1. Ttl \in Nat /\ \A b \in Starts : age[b] \in Nat
      BY DEF TypeOK
    <3>2. pending \subseteq Starts
      BY DEF TypeOK
    <3>3. QED
      BY <2>1, <2>3, <3>1, <3>2 DEF LoginInv, PendingSpan
  <2>8. QED
    BY <2>4, <2>5, <2>6, <2>7 DEF LoginInv
<1>7. ASSUME NEW t \in Tasks, ExchangeCode(t) PROVE LoginInv'
  <2> DEFINE a == task[t].state
  <2>1. /\ t \in Callbacks /\ \A u \in Tasks \ {t} : task'[u] = task[u]
        /\ codes' = codes \cup {<<t, a>>} /\ UNCHANGED <<pending, age, login>>
        /\ task[t].pc = "resolved" /\ task'[t].pc \in {"persist", "done"} /\ a \in Starts
    BY <1>1, <1>7 DEF ExchangeCode, Goto, Done, Idle, KnownInv
  <2>2. Holds(t, a)
    BY <2>1 DEF Holds
  <2>3. \A u \in Callbacks, b \in Starts : Holds(u, b)' => Holds(u, b) /\ u # t
    BY <2>1 DEF Holds, Tasks
  <2>4. \A b \in Starts : task'[b].pc # "done" => task[b].pc # "done"
    BY <2>1 DEF Tasks
  <2>5. /\ age[a] <= Ttl /\ a \notin pending /\ (\A c \in codes : c[2] # a)
        /\ \A u \in Callbacks : Holds(u, a) => u = t
    BY <2>1, <2>2 DEF LoginInv, StateInv
  <2>6. UnbornInv'
    BY <2>1, <2>2, <2>3, <2>4 DEF LoginInv, UnbornInv
  <2>7. StateInv'
    BY <2>1, <2>3, <2>5 DEF LoginInv, StateInv, TypeOK
  <2>8. OneExchange' /\ ExchangedInTime' /\ PendingSpan'
    BY <2>1, <2>5 DEF LoginInv, OneExchange, ExchangedInTime, PendingSpan
  <2>9. QED
    BY <2>6, <2>7, <2>8 DEF LoginInv
<1>8. CASE Tick
  <2>1. /\ UNCHANGED <<pending, login, codes, task>> /\ pending \subseteq Starts
        /\ codes \subseteq Callbacks \X Starts
        /\ \A a \in Starts : age[a] \in Nat
        /\ \A a \in Starts : age'[a] = IF a \in pending THEN age[a] + 1 ELSE age[a]
    BY <1>8 DEF Tick, TypeOK
  <2>2. \A u, a : Holds(u, a)' <=> Holds(u, a)
    BY <2>1 DEF Holds
  <2>3. UnbornInv'
    BY <2>1, <2>2 DEF LoginInv, UnbornInv
  <2>4. StateInv'
    BY <2>1, <2>2 DEF LoginInv, StateInv
  <2>5. OneExchange' /\ ExchangedInTime'
    BY <2>1 DEF LoginInv, OneExchange, ExchangedInTime, StateInv
  <2>6. PendingSpan'
    BY <2>1 DEF LoginInv, PendingSpan
  <2>7. QED
    BY <2>3, <2>4, <2>5, <2>6 DEF LoginInv
<1>9. CASE Restart
  <2>1. /\ UNCHANGED <<age, login, codes>> /\ pending' = {}
        /\ \A t \in Tasks : /\ task'[t].pc \in {"idle", "done"}
                            /\ task'[t].pc # "done" => task[t].pc = "idle"
    BY <1>1, <1>9 DEF Restart, Idle
  <2>2. \A t \in Callbacks, a \in Starts : ~ Holds(t, a)'
    BY <2>1 DEF Holds, Tasks
  <2>3. UnbornInv'
    BY <2>1, <2>2 DEF LoginInv, UnbornInv, Tasks
  <2>4. QED
    BY <2>1, <2>2, <2>3
       DEF LoginInv, StateInv, OneExchange, ExchangedInTime, PendingSpan
<1>10. ASSUME UNCHANGED <<pending, age, login, codes, task>> PROVE LoginInv'
  BY <1>10 DEF LoginInv, UnbornInv, StateInv, Holds, OneExchange, ExchangedInTime, PendingSpan
<1>11. ASSUME NEW s \in Servers, RemoveServer(s) \/ AddServer(s) PROVE LoginInv'
  BY <1>10, <1>11 DEF RemoveServer, AddServer
<1>12. CASE UNCHANGED vars
  BY <1>10, <1>12 DEF vars
<1> QED
  BY <1>2, <1>3, <1>4, <1>5, <1>6, <1>7, <1>8, <1>9, <1>11, <1>12 DEF Next, TaskStep

-----------------------------------------------------------------------------
\* Types, and what tasks know.

TaskType == [pc : {"idle", "resolve", "register", "save", "resolved", "persist", "done"},
             server : Servers \cup {NoServer}, state : Starts \cup {NoState}, id : AnyId]

\* One task changes, to one that knows what it must; the URLs stay.
LEMMA TaskKnows ==
  ASSUME KnownInv, NEW t \in Tasks, UNCHANGED login, NEW r \in TaskType,
         \A u \in Tasks : task'[u] = IF u = t THEN r ELSE task[u],
         r.pc \notin {"idle", "done"} => r.server \in Servers,
         r.pc \notin {"idle", "done"} /\ t \in Callbacks => r.state \in Starts,
         r.pc = "save" => r.id \in Ids,
         r.pc \in {"resolved", "persist"} => r.id # NoId
  PROVE  KnownInv'
<1>1. ASSUME NEW u \in Callbacks, task'[u].pc \notin {"idle", "done"} PROVE task'[u].state \in Starts
  <2>1. u \in Tasks
    BY DEF Tasks
  <2>2. CASE u = t
    BY <1>1, <2>1, <2>2
  <2>3. CASE u # t
    BY <1>1, <2>1, <2>3 DEF KnownInv
  <2>4. QED
    BY <2>2, <2>3
<1>2. \A u \in Tasks : task'[u].pc \notin {"idle", "done"} => task'[u].server \in Servers
  BY DEF KnownInv
<1>3. \A u \in Tasks : task'[u].pc = "save" => task'[u].id \in Ids
  BY DEF KnownInv
<1>4. \A u \in Tasks : task'[u].pc \in {"resolved", "persist"} => task'[u].id # NoId
  BY DEF KnownInv
<1>5. \A a \in Starts : login'[a].id # NoId => login'[a].server \in Servers
  BY DEF KnownInv
<1> QED
  BY <1>1, <1>2, <1>3, <1>4, <1>5 DEF KnownInv

\* The shape of a step of one task.
LEMMA OneTask ==
  ASSUME TypeOK, NEW t \in Tasks, NEW r \in TaskType, task' = [task EXCEPT ![t] = r]
  PROVE  /\ task' \in [Tasks -> TaskType]
         /\ \A u \in Tasks : task'[u] = IF u = t THEN r ELSE task[u]
<1>1. task \in [Tasks -> TaskType]
  BY DEF TypeOK, TaskType
<1> QED
  BY <1>1

LEMMA TypeNext ==
  ASSUME TypeOK, KnownInv, [Next]_vars
  PROVE  TypeOK' /\ KnownInv'
<1> USE LoginConstants DEF TypeOK, AnyId
<1> DEFINE done == [pc |-> "done", server |-> NoServer, state |-> NoState, id |-> NoId]
<1>0. ASSUME NEW t \in Tasks, Done(t), UNCHANGED login
      PROVE  task' \in [Tasks -> TaskType] /\ KnownInv'
  <2>1. done \in TaskType
    BY DEF TaskType
  <2>2. task' = [task EXCEPT ![t] = done]
    <3>1. [Idle EXCEPT !.pc = "done"] = done
      BY DEF Idle
    <3>2. QED
      BY <1>0, <3>1 DEF Done
  <2>3. /\ task' \in [Tasks -> TaskType]
        /\ \A u \in Tasks : task'[u] = IF u = t THEN done ELSE task[u]
    BY <2>1, <2>2, OneTask
  <2>4. KnownInv'
    BY <1>0, <2>1, <2>3, TaskKnows
  <2>5. QED
    BY <2>3, <2>4
<1>1. ASSUME NEW t \in Tasks, ReadClient(t) PROVE TypeOK' /\ KnownInv'
  <2> DEFINE s == task[t].server
             known == IF s \in Static THEN StaticId ELSE clientId[s]
             new == [task[t] EXCEPT !.pc = IF known = NoId THEN "register" ELSE "resolved",
                                    !.id = known]
  <2>1. task[t] \in TaskType /\ task[t].pc = "resolve" /\ s \in Servers
    BY <1>1 DEF ReadClient, KnownInv, TaskType
  <2>2. known \in AnyId
    BY <2>1
  <2>3. task' = [task EXCEPT ![t] = new]
    BY <1>1 DEF ReadClient
  <2>4. raced' \subseteq Servers
    BY <1>1, <2>1 DEF ReadClient
  <2> HIDE DEF known
  <2>5. /\ new \in TaskType /\ new.server = s /\ new.state = task[t].state /\ new.id = known
        /\ new.pc = IF known = NoId THEN "register" ELSE "resolved"
    BY <2>1, <2>2 DEF TaskType
  <2> HIDE DEF new
  <2>6. /\ task' \in [Tasks -> TaskType]
        /\ \A u \in Tasks : task'[u] = IF u = t THEN new ELSE task[u]
    BY <2>3, <2>5, OneTask
  <2>7. t \in Callbacks => task[t].state \in Starts
    BY <2>1 DEF KnownInv
  <2>8. UNCHANGED <<configured, clientId, token, pending, age, login, codes, restarts, removals>>
    BY <1>1 DEF ReadClient
  <2>9. KnownInv'
    BY <2>1, <2>5, <2>6, <2>7, <2>8, TaskKnows
  <2>10. QED
    BY <2>4, <2>6, <2>8, <2>9 DEF TaskType
<1>2. ASSUME NEW t \in Tasks, RegisterClient(t) PROVE TypeOK' /\ KnownInv'
  BY <1>2 DEF RegisterClient, KnownInv, Tasks
<1>3. ASSUME NEW t \in Tasks, SaveClient(t) PROVE TypeOK' /\ KnownInv'
  BY <1>3 DEF SaveClient, Goto, KnownInv, Tasks
<1>4. ASSUME NEW t \in Tasks, FlowFails(t) \/ FinishBoot(t) PROVE TypeOK' /\ KnownInv'
  BY <1>0, <1>4 DEF FlowFails, FinishBoot, TaskType
<1>5. ASSUME NEW t \in Tasks, FinishStart(t) PROVE TypeOK' /\ KnownInv'
  BY <1>5 DEF FinishStart, Done, Idle, KnownInv, Tasks
<1>6. ASSUME NEW t \in Tasks, ExchangeCode(t) PROVE TypeOK' /\ KnownInv'
  <2>1. /\ t \in Callbacks /\ task[t].pc = "resolved" /\ task[t].state \in Starts
        /\ codes' = codes \cup {<<t, task[t].state>>}
        /\ UNCHANGED <<configured, clientId, token, pending, age, login, raced, restarts, removals>>
    BY <1>6 DEF ExchangeCode, KnownInv
  <2>2. task' \in [Tasks -> TaskType] /\ KnownInv'
    <3>1. CASE Done(t)
      BY <1>0, <2>1, <3>1
    <3>2. CASE Goto(t, "persist")
      <4>1. task[t] \in TaskType /\ [task[t] EXCEPT !.pc = "persist"] \in TaskType
        BY DEF TaskType
      <4>2. task' = [task EXCEPT ![t] = [task[t] EXCEPT !.pc = "persist"]]
        BY <3>2 DEF Goto
      <4> DEFINE new == [task[t] EXCEPT !.pc = "persist"]
      <4>3. /\ new.pc = "persist" /\ new.server = task[t].server
            /\ new.state = task[t].state /\ new.id = task[t].id
        BY <4>1 DEF TaskType
      <4>4. /\ task[t].server \in Servers /\ task[t].id # NoId
        BY <2>1 DEF KnownInv, Tasks
      <4> HIDE DEF new
      <4>5. /\ new \in TaskType /\ task' = [task EXCEPT ![t] = new]
        BY <4>1, <4>2 DEF new
      <4>6. /\ task' \in [Tasks -> TaskType]
            /\ \A u \in Tasks : task'[u] = IF u = t THEN new ELSE task[u]
        BY <4>5, OneTask
      <4>7. KnownInv'
        BY <2>1, <4>3, <4>4, <4>5, <4>6, TaskKnows
      <4>8. QED
        BY <4>6, <4>7
    <3>3. QED
      BY <1>6, <3>1, <3>2 DEF ExchangeCode
  <2>3. QED
    BY <2>1, <2>2 DEF TaskType
<1>7. ASSUME NEW t \in Tasks, PersistLogin(t) PROVE TypeOK' /\ KnownInv'
  BY <1>7 DEF PersistLogin, Done, Idle, KnownInv, Tasks
<1>8. ASSUME NEW t \in Starts \cup Boots, NEW s \in Servers, Begin(t, s)
      PROVE  TypeOK' /\ KnownInv'
  <2>1. t \in Tasks /\ t \notin Callbacks
    BY DEF Tasks
  <2>2. task' \in [Tasks -> TaskType] /\ KnownInv'
    <3>1. CASE Done(t)
      BY <1>0, <1>8, <2>1, <3>1 DEF Begin
    <3>2. CASE s \in configured
      <4> DEFINE r == [pc |-> "resolve", server |-> s, state |-> NoState, id |-> NoId]
      <4>2. task' = [task EXCEPT ![t] = r] /\ UNCHANGED login
        BY <1>8, <3>2 DEF Begin
      <4>3. r \in TaskType
        BY DEF TaskType
      <4>4. /\ task' \in [Tasks -> TaskType]
            /\ \A u \in Tasks : task'[u] = IF u = t THEN r ELSE task[u]
        BY <4>2, <4>3, <2>1, OneTask
      <4>5. KnownInv'
        BY <4>2, <4>3, <4>4, <2>1, TaskKnows
      <4>6. QED
        BY <4>4, <4>5
    <3>3. QED
      BY <1>8, <3>1, <3>2 DEF Begin
  <2>3. QED
    BY <1>8, <2>2 DEF Begin, TaskType
<1>9. ASSUME NEW t \in Callbacks, NEW a \in Starts, TakeState(t, a)
      PROVE  TypeOK' /\ KnownInv'
  <2>1. t \in Tasks
    BY DEF Tasks
  <2>2. task' \in [Tasks -> TaskType] /\ KnownInv'
    <3>1. CASE Done(t)
      BY <1>0, <1>9, <2>1, <3>1 DEF TakeState
    <3>2. CASE ~ Done(t)
      <4> DEFINE r == [pc |-> "resolve", server |-> login[a].server, state |-> a, id |-> NoId]
      <4>1. /\ login[a].server \in Servers /\ task' = [task EXCEPT ![t] = r] /\ UNCHANGED login
        BY <1>9, <3>2 DEF TakeState
      <4>2. r \in TaskType
        BY <4>1 DEF TaskType
      <4>3. /\ task' \in [Tasks -> TaskType]
            /\ \A u \in Tasks : task'[u] = IF u = t THEN r ELSE task[u]
        BY <4>1, <4>2, <2>1, OneTask
      <4>4. KnownInv'
        BY <4>1, <4>2, <4>3, <2>1, TaskKnows
      <4>5. QED
        BY <4>3, <4>4
    <3>3. QED
      BY <3>1, <3>2
  <2>3. QED
    BY <1>9, <2>2 DEF TakeState, TaskType
<1>10. ASSUME NEW s \in Servers, RemoveServer(s) \/ AddServer(s)
       PROVE  TypeOK' /\ KnownInv'
  BY <1>10 DEF RemoveServer, AddServer, KnownInv
<1>11. CASE Tick
  BY <1>11 DEF Tick, KnownInv
<1>12. CASE Restart
  BY <1>12 DEF Restart, Idle, KnownInv, Tasks
<1>13. CASE UNCHANGED vars
  BY <1>13 DEF vars, KnownInv
<1> QED
  BY <1>1, <1>2, <1>3, <1>4, <1>5, <1>6, <1>7, <1>8, <1>9, <1>10, <1>11, <1>12, <1>13
     DEF Next, TaskStep

\* A task that registers nothing, and stays or ends.
LEMMA ClientKept ==
  ASSUME TypeOK, ClientInv, UrlClientKept, UNCHANGED <<clientId, login, raced>>,
         \A t \in Tasks : \/ task'[t] = task[t]
                         \/ task'[t].pc \in {"idle", "resolve", "done"}
                         \/ /\ task[t].pc = "resolved" /\ task'[t].pc = "persist"
                            /\ task'[t].server = task[t].server /\ task'[t].id = task[t].id
  PROVE  ClientInv' /\ UrlClientKept'
<1>1. \A s : Registering(s)' \subseteq Registering(s)
  BY DEF Registering
<1>2. ClientInv'
  BY <1>1 DEF ClientInv
<1> QED
  BY <1>2 DEF UrlClientKept

\* The client of a server, one step at a time.
LEMMA ClientNext ==
  ASSUME TypeOK, KnownInv, ClientInv, UrlClientKept, [Next]_vars
  PROVE  ClientInv' /\ UrlClientKept'
<1> USE LoginConstants
<1>1. task \in [Tasks -> [pc : {"idle", "resolve", "register", "save", "resolved", "persist", "done"},
                          server : Servers \cup {NoServer}, state : Starts \cup {NoState}, id : AnyId]]
  BY DEF TypeOK
<1>2. ASSUME NEW t \in Tasks, ReadClient(t) PROVE ClientInv' /\ UrlClientKept'
  <2> DEFINE s == task[t].server
             known == IF s \in Static THEN StaticId ELSE clientId[s]
  <2>1. /\ \A u \in Tasks \ {t} : task'[u] = task[u]
        /\ task[t].pc = "resolve" /\ task'[t].server = s /\ task'[t].id = known
        /\ task'[t].pc = IF known = NoId THEN "register" ELSE "resolved"
        /\ UNCHANGED <<clientId, login>>
        /\ raced \subseteq raced' /\ (known = NoId /\ s \notin raced' => Registering(s) = {})
    BY <1>1, <1>2 DEF ReadClient
  <2>2. \A r \in Servers : Registering(r)' \subseteq Registering(r)
                            \/ (r = s /\ known = NoId /\ Registering(r)' \subseteq Registering(r) \cup {t})
    BY <2>1 DEF Registering
  <2>3. ClientInv'
    BY <2>1, <2>2 DEF ClientInv
  <2>4. UrlClientKept'
    BY <2>1 DEF UrlClientKept
  <2>5. QED
    BY <2>3, <2>4
<1>3. ASSUME NEW t \in Tasks, RegisterClient(t) PROVE ClientInv' /\ UrlClientKept'
  <2>1. /\ \A u \in Tasks \ {t} : task'[u] = task[u]
        /\ task[t].pc = "register" /\ task'[t].pc = "save"
        /\ task'[t].server = task[t].server /\ UNCHANGED <<clientId, login, raced>>
    BY <1>1, <1>3 DEF RegisterClient
  <2>2. \A s : Registering(s)' = Registering(s)
    BY <2>1 DEF Registering
  <2>3. ClientInv'
    BY <2>1, <2>2 DEF ClientInv
  <2>4. QED
    BY <2>1, <2>3 DEF UrlClientKept
<1>4. ASSUME NEW t \in Tasks, SaveClient(t) PROVE ClientInv' /\ UrlClientKept'
  <2> DEFINE s == task[t].server
  <2>1. /\ \A u \in Tasks \ {t} : task'[u] = task[u]
        /\ task[t].pc = "save" /\ task'[t].pc = "resolved" /\ task'[t].server = s
        /\ task'[t].id = task[t].id /\ UNCHANGED <<login, raced>> /\ s \in Servers
        /\ clientId' = [clientId EXCEPT ![s] = task[t].id] /\ task[t].id # NoId
    BY <1>1, <1>4 DEF SaveClient, Goto, KnownInv
  <2>2. \A r \in Servers : clientId'[r] = IF r = s THEN task[t].id ELSE clientId[r]
    BY <2>1 DEF TypeOK
  <2>3. \A r : Registering(r)' = Registering(r) \ {t}
    BY <2>1 DEF Registering
  <2>4. s \notin raced \cup Static => /\ clientId[s] = NoId /\ Registering(s) = {t}
                                      /\ \A u \in Tasks \ {t} : task[u].server = s =>
                                           task[u].pc \notin {"register", "save", "resolved", "persist"}
    BY <2>1 DEF ClientInv, Registering, KnownInv
  <2>5. ClientInv'
    BY <2>1, <2>2, <2>3, <2>4 DEF ClientInv
  <2>6. UrlClientKept'
    BY <2>1, <2>2, <2>4 DEF UrlClientKept, KnownInv
  <2>7. QED
    BY <2>5, <2>6
<1>5. ASSUME NEW t \in Tasks, FlowFails(t) \/ FinishBoot(t) \/ PersistLogin(t) \/ ExchangeCode(t)
      PROVE  ClientInv' /\ UrlClientKept'
  BY <1>1, <1>5, ClientKept
     DEF FlowFails, FinishBoot, PersistLogin, ExchangeCode, Goto, Done, Idle
<1>6. ASSUME NEW t \in Starts \cup Boots, NEW s \in Servers, Begin(t, s)
      PROVE  ClientInv' /\ UrlClientKept'
  <2>1. /\ UNCHANGED <<clientId, login, raced>> /\ t \in Tasks
        /\ \A u \in Tasks : u # t => task'[u] = task[u]
        /\ task'[t].pc \in {"resolve", "done"}
    <3>1. t \in Tasks
      BY DEF Tasks
    <3>2. CASE s \in configured
      BY <1>1, <1>6, <3>1, <3>2 DEF Begin
    <3>3. CASE s \notin configured
      BY <1>1, <1>6, <3>1, <3>3 DEF Begin, Done, Idle
    <3>4. QED
      BY <3>2, <3>3
  <2>2. QED
    BY <2>1, ClientKept
<1>7. ASSUME NEW t \in Callbacks, NEW a \in Starts, TakeState(t, a)
      PROVE  ClientInv' /\ UrlClientKept'
  BY <1>1, <1>7, ClientKept DEF TakeState, Done, Idle, Tasks
<1>8. CASE Restart
  BY <1>1, <1>8, ClientKept DEF Restart, Idle
<1>9. CASE Tick
  BY <1>9, ClientKept DEF Tick
<1>10. ASSUME NEW t \in Tasks, FinishStart(t) PROVE ClientInv' /\ UrlClientKept'
  <2>1. /\ \A u \in Tasks \ {t} : task'[u] = task[u]
        /\ task[t].pc = "resolved" /\ task'[t].pc = "done" /\ UNCHANGED <<clientId, raced>>
        /\ login' = [login EXCEPT ![t] = [server |-> task[t].server, id |-> task[t].id]]
        /\ t \in Starts /\ task[t].server \in Servers
    BY <1>1, <1>10 DEF FinishStart, Done, Idle, KnownInv
  <2>2. \A a \in Starts : login'[a] = IF a = t THEN [server |-> task[t].server, id |-> task[t].id]
                                       ELSE login[a]
    BY <2>1 DEF TypeOK
  <2>3. \A s : Registering(s)' \subseteq Registering(s)
    BY <2>1 DEF Registering
  <2>4. ClientInv'
    BY <2>1, <2>3 DEF ClientInv
  <2>5. UrlClientKept'
    BY <2>1, <2>2 DEF UrlClientKept, ClientInv
  <2>6. QED
    BY <2>4, <2>5
<1>11. ASSUME NEW s \in Servers, RemoveServer(s) \/ AddServer(s)
       PROVE  ClientInv' /\ UrlClientKept'
  <2>1. /\ UNCHANGED <<login, task>> /\ raced \subseteq raced'
        /\ \A r \in Servers \ raced' : clientId'[r] = clientId[r]
    BY <1>11 DEF RemoveServer, AddServer, TypeOK
  <2>2. \A r : Registering(r)' = Registering(r)
    BY <2>1 DEF Registering
  <2>3. ClientInv'
    BY <2>1, <2>2 DEF ClientInv
  <2>4. UrlClientKept'
    BY <2>1 DEF UrlClientKept, KnownInv
  <2>5. QED
    BY <2>3, <2>4
<1>12. CASE UNCHANGED vars
  BY <1>12, ClientKept DEF vars
<1> QED
  BY <1>2, <1>3, <1>4, <1>5, <1>6, <1>7, <1>8, <1>9, <1>10, <1>11, <1>12 DEF Next, TaskStep

\* The invariant is inductive.
LEMMA IInvNext == IInv /\ [Next]_vars => IInv'
  BY TypeNext, LoginNext, ClientNext DEF IInv

THEOREM InductiveInvariant == Spec => []IInv
  BY IInvInit, IInvNext, PTL DEF Spec

-----------------------------------------------------------------------------
\* The theorems.

\* However many callbacks bring a state back, and whatever restarts in between, its
\* code is exchanged at most once (callback removes the state under the mutex).
THEOREM CodesExchangedOnce == Spec => []OneExchange
<1>1. IInv => OneExchange
  BY DEF IInv, LoginInv
<1>2. QED
  BY <1>1, InductiveInvariant, PTL

\* No code is exchanged for a state older than PENDING_AUTH_TTL when it came back,
\* for every time to live.
THEOREM CodesExchangedInTime == Spec => []ExchangedInTime
<1>1. IInv => ExchangedInTime
  BY DEF IInv, LoginInv
<1>2. QED
  BY <1>1, InductiveInvariant, PTL

\* The oldest pending state is at most the time to live older than the youngest, so
\* their number is bounded by the rate of starts (pending.retain in start).
THEOREM PendingStatesExpire == Spec => []PendingSpan
<1>1. IInv => PendingSpan
  BY DEF IInv, LoginInv
<1>2. QED
  BY <1>1, InductiveInvariant, PTL

\* A URL's client id stays the server's registered one unless two registrations raced
\* or the server was removed (resolve_oauth_config).
THEOREM UrlClientsKept == Spec => []UrlClientKept
<1>1. IInv => UrlClientKept
  BY DEF IInv
<1>2. QED
  BY <1>1, InductiveInvariant, PTL
===============================================================================
