-------------------------- MODULE AuthTokensProofs --------------------------
(***************************************************************************)
(* Proofs about AuthTokens, for any number of servers, processes, flows,   *)
(* tokens and lock objects.                                                *)
(***************************************************************************)
EXTENDS AuthTokens, TLAPS

\* Types.
LEMMA TypeInit == Init => TypeOK
  BY ServersAssumption DEF Init, TypeOK, Steps, Statuses

\* Suspending or ending keeps the types of a flow's locals.
LEMMA FlowTypes ==
  ASSUME TypeOK, NEW t \in Tasks
  PROVE  /\ \A step \in Steps : Goto(t, step) => pc' \in [Tasks -> Steps]
         /\ UNCHANGED flowVars \/ Return(t) =>
              /\ srv' \in [Tasks -> Servers \cup {NoServer}]
              /\ lock' \in [Tasks -> LockIds \cup {NoLock}]
              /\ attempted' \in [Tasks -> Tokens \cup {NoToken}]
              /\ got' \in [Tasks -> Tokens \cup {NoToken, AccessOnly}]
              /\ snap' \in [Tasks -> SUBSET Servers]
         /\ Return(t) => pc' \in [Tasks -> Steps]
<1>1. \A step \in Steps : Goto(t, step) => pc' \in [Tasks -> Steps]
  BY DEF TypeOK, Goto
<1>2. ASSUME Return(t) PROVE pc' \in [Tasks -> Steps]
  BY <1>1, <1>2 DEF Return, Steps
<1>3. ASSUME Return(t)
      PROVE  /\ srv' \in [Tasks -> Servers \cup {NoServer}]
             /\ lock' \in [Tasks -> LockIds \cup {NoLock}]
             /\ attempted' \in [Tasks -> Tokens \cup {NoToken}]
  BY <1>3 DEF TypeOK, Return
<1>4. ASSUME Return(t)
      PROVE  /\ got' \in [Tasks -> Tokens \cup {NoToken, AccessOnly}]
             /\ snap' \in [Tasks -> SUBSET Servers]
  BY <1>4 DEF TypeOK, Return
<1> QED
  BY <1>1, <1>2, <1>3, <1>4 DEF TypeOK, flowVars

\* One step keeps the types, given what the locals hold.
LEMMA TypeNext == TypeOK /\ LocalsInv /\ [Next]_vars => TypeOK'
<1> SUFFICES ASSUME TypeOK, LocalsInv, [Next]_vars PROVE TypeOK'
  OBVIOUS
<1> USE ServersAssumption, TasksAssumption
    DEF TypeOK, Steps, Statuses, Refreshing, Critical, LoginSteps, PruneSteps, Late
<1>1. ASSUME NEW t \in Tasks, RefreshStep(t) PROVE TypeOK'
  <2>1. ASSUME NEW s \in Servers, RefreshBegin(t, s) PROVE TypeOK'
    BY <2>1 DEF RefreshBegin, Goto, storeVars, providerVars
  <2>2. CASE RefreshAcquire(t)
    BY <2>2 DEF RefreshAcquire, Goto, storeVars, flowVars, providerVars
  <2>3. CASE LoadServerRefreshToken(t)
    BY <2>3 DEF LoadServerRefreshToken, Goto, storeVars, providerVars
  <2>4. CASE RefreshFindServer(t) \/ RefreshResolve(t) \/ RefreshFailsEarly(t)
             \/ RefreshRefused(t)
             \/ RefreshFails(t)
    <3>1. \E step \in Steps : Goto(t, step)
      BY <2>4 DEF RefreshFindServer, RefreshResolve, RefreshFailsEarly, RefreshRefused,
                  RefreshFails
    <3>2. UNCHANGED <<storeVars, registry, flowVars, providerVars>>
      BY <2>4 DEF RefreshFindServer, RefreshResolve, RefreshFailsEarly, RefreshRefused,
                  RefreshFails
    <3>3. QED
      BY <3>1, <3>2, FlowTypes DEF storeVars, flowVars, providerVars
  <2>5. CASE RefreshGranted(t)
    <3>1. CASE srv[t] \in Rotates
      <4>1. PICK r \in Tokens :
              /\ status' = [status EXCEPT ![attempted[t]] = "spent",
                                          ![r] = "live"]
              /\ issuer' = [issuer EXCEPT ![r] = srv[t]]
              /\ got' = [got EXCEPT ![t] = r]
        BY <2>5, <3>1 DEF RefreshGranted
      <4>2. status' \in [Tokens -> Statuses]
        BY <4>1
      <4>3. issuer' \in [Tokens -> Servers \cup {NoServer}]
        BY <4>1
      <4>4. got' \in [Tasks -> Tokens \cup {NoToken, AccessOnly}]
        BY <4>1
      <4>5. QED
        BY <2>5, <4>2, <4>3, <4>4 DEF RefreshGranted, Goto, storeVars
    <3>2. CASE srv[t] \notin Rotates
      BY <2>5, <3>2 DEF RefreshGranted, Goto, storeVars, providerVars, LocalsInv
    <3>3. QED
      BY <3>1, <3>2
  <2>6. CASE RefreshAnswerLost(t)
    BY <2>6 DEF RefreshAnswerLost, Goto, storeVars, flowVars
  <2>7. CASE PersistRefreshed(t)
    BY <2>7 DEF PersistRefreshed, Return, Goto, SetHealth, providerVars
  <2>unsynced. CASE PersistRefreshedUnsynced(t)
    BY <2>unsynced DEF PersistRefreshedUnsynced, Goto, SetHealth, flowVars, providerVars
  <2>8. CASE PersistRefreshedFails(t)
    <3>1. status' \in [Tokens -> Statuses]
      BY <2>8 DEF PersistRefreshedFails, LosesSuccessor
    <3>2. (Goto(t, "degrading") /\ UNCHANGED flowVars) \/ Return(t)
      BY <2>8 DEF PersistRefreshedFails
    <3>3. UNCHANGED <<storeVars, registry, issuer>>
      BY <2>8 DEF PersistRefreshedFails
    <3>4. QED
      BY <3>1, <3>2, <3>3, FlowTypes DEF storeVars
  <2>9. CASE RemoveStaleToken(t)
    <3>1. token' \in [Servers -> Tokens \cup {NoToken, AccessOnly}]
      <4>1. token' = token \/ token' = [token EXCEPT ![srv[t]] = NoToken]
        BY <2>9 DEF RemoveStaleToken
      <4>2. QED
        BY <4>1
    <3>2. (Goto(t, "degrading") /\ UNCHANGED flowVars) \/ Return(t)
      BY <2>9 DEF RemoveStaleToken
    <3>3. UNCHANGED <<configured, health, clients, registry, providerVars>>
      BY <2>9 DEF RemoveStaleToken
    <3>4. QED
      BY <3>1, <3>2, <3>3, FlowTypes DEF providerVars
  <2>10. CASE MarkServerDegraded(t)
    <3>1. health' \in [Servers -> {"none", "healthy", "degraded"}]
      BY <2>10 DEF MarkServerDegraded, SetHealth
    <3>2. UNCHANGED <<configured, token, clients, registry, providerVars>>
      BY <2>10 DEF MarkServerDegraded
    <3>3. CASE t \in SweepTasks
      <4>1. Goto(t, "remark") /\ UNCHANGED <<srv, snap>>
        BY <2>10, <3>3 DEF MarkServerDegraded
      <4>2. /\ lock' \in [Tasks -> LockIds \cup {NoLock}]
            /\ attempted' \in [Tasks -> Tokens \cup {NoToken}]
            /\ got' \in [Tasks -> Tokens \cup {NoToken, AccessOnly}]
        <5>1. /\ lock' = [lock EXCEPT ![t] = NoLock]
              /\ attempted' = [attempted EXCEPT ![t] = NoToken]
              /\ got' = [got EXCEPT ![t] = NoToken]
          BY <2>10, <3>3 DEF MarkServerDegraded
        <5>2. QED
          BY <5>1
      <4>3. QED
        BY <3>1, <3>2, <4>1, <4>2, FlowTypes DEF providerVars
    <3>4. CASE t \notin SweepTasks
      <4>1. Return(t)
        BY <2>10, <3>4 DEF MarkServerDegraded
      <4>2. QED
        BY <3>1, <3>2, <4>1, FlowTypes DEF providerVars
    <3>5. QED
      BY <3>3, <3>4
  <2>11. CASE SweepMarksDegraded(t)
    <3>1. health' \in [Servers -> {"none", "healthy", "degraded"}]
      BY <2>11 DEF SweepMarksDegraded, SetHealth
    <3>2. Return(t) /\ UNCHANGED <<configured, token, clients, registry, providerVars>>
      BY <2>11 DEF SweepMarksDegraded
    <3>3. QED
      BY <3>1, <3>2, FlowTypes DEF providerVars
  <2>12. QED
    BY <2>unsynced, <1>1, <2>1, <2>2, <2>3, <2>4, <2>5, <2>6, <2>7, <2>8, <2>9, <2>10, <2>11
       DEF RefreshStep
<1>2. ASSUME NEW t \in Tasks, LoginStep(t) PROVE TypeOK'
  <2>1. ASSUME NEW s \in Servers, LoginBegin(t, s) PROVE TypeOK'
    BY <2>1 DEF LoginBegin, Goto, storeVars, providerVars
  <2>2. CASE LoginResolve(t)
    BY <2>2 DEF LoginResolve, Goto, storeVars, flowVars, providerVars
  <2>3. CASE PersistRegisteredClient(t)
    <3>1. srv[t] \in Servers
      BY <2>3 DEF PersistRegisteredClient, LocalsInv
    <3>2. QED
      BY <2>3, <3>1 DEF PersistRegisteredClient, Goto, flowVars, providerVars
  <2>4. CASE ExchangeCode(t)
    <3>1. status' \in [Tokens -> Statuses]
      BY <2>4 DEF ExchangeCode, providerVars
    <3>2. issuer' \in [Tokens -> Servers \cup {NoServer}]
      BY <2>4 DEF ExchangeCode, providerVars
    <3>3. got' \in [Tasks -> Tokens \cup {NoToken, AccessOnly}]
      BY <2>4 DEF ExchangeCode
    <3>4. QED
      BY <2>4, <3>1, <3>2, <3>3 DEF ExchangeCode, Goto, storeVars
  <2>5. CASE LoginEnds(t)
    BY <2>5 DEF LoginEnds, Return, Goto, storeVars, providerVars
  <2>6. CASE PersistLogin(t)
    BY <2>6 DEF PersistLogin, Return, Goto, SetHealth, providerVars
  <2>7. QED
    BY <1>2, <2>1, <2>2, <2>3, <2>4, <2>5, <2>6 DEF LoginStep
<1>3. ASSUME NEW t \in Tasks, ConfigStep(t) PROVE TypeOK'
  <2>1. ASSUME NEW s \in Servers, RemoveServer(t, s) PROVE TypeOK'
    BY <2>1 DEF RemoveServer, Goto, flowVars, providerVars
  <2>2. ASSUME NEW S \in SUBSET Servers, ImportConfig(t, S) PROVE TypeOK'
    BY <2>2 DEF ImportConfig, Goto, flowVars, providerVars
  <2>3. CASE PruneLoad(t)
    BY <2>3 DEF PruneLoad, Goto, storeVars, providerVars
  <2>4. CASE PruneTokens(t)
    BY <2>4 DEF PruneTokens, Goto, flowVars, providerVars
  <2>5. CASE PruneLocks(t)
    BY <2>5 DEF PruneLocks, Return, Goto, storeVars, providerVars
  <2>6. CASE PruneFails(t)
    BY <2>6 DEF PruneFails, Return, Goto, storeVars, providerVars
  <2>7. QED
    BY <1>3, <2>1, <2>2, <2>3, <2>4, <2>5, <2>6 DEF ConfigStep
<1>4. ASSUME NEW s \in Servers, AddServer(s) PROVE TypeOK'
  BY <1>4 DEF AddServer, flowVars, providerVars
<1>5. ASSUME NEW S \in SUBSET Servers, MarkServersHealthy(S) PROVE TypeOK'
  BY <1>5 DEF MarkServersHealthy, flowVars, providerVars
<1>6. ASSUME NEW r \in Tokens, Revoke(r) PROVE TypeOK'
  BY <1>6 DEF Revoke, storeVars, flowVars
<1>7. ASSUME NEW p \in Procs, Crash(p) \/ Shutdown(p) PROVE TypeOK'
  <2>1. Terminate(p)
    BY <1>7 DEF Crash, Shutdown
  <2>2. status' \in [Tokens -> Statuses]
    BY <2>1 DEF Terminate
  <2>3. registry' \in [Procs -> [Servers -> LockIds \cup {NoLock}]]
    BY <2>1 DEF Terminate
  <2>4. /\ pc' \in [Tasks -> Steps]
        /\ srv' \in [Tasks -> Servers \cup {NoServer}]
        /\ lock' \in [Tasks -> LockIds \cup {NoLock}]
        /\ attempted' \in [Tasks -> Tokens \cup {NoToken}]
        /\ got' \in [Tasks -> Tokens \cup {NoToken, AccessOnly}]
        /\ snap' \in [Tasks -> SUBSET Servers]
    BY <2>1 DEF Terminate
  <2>5. QED
    BY <2>1, <2>2, <2>3, <2>4 DEF Terminate, storeVars
<1>8. CASE UNCHANGED vars
  BY <1>8 DEF vars, storeVars, flowVars, providerVars
<1>9. ASSUME NEW t \in Tasks, HangUp(t) \/ HangUpInUpdate(t) PROVE TypeOK'
  <2>1. CASE HangUp(t)
    <3>1. status' \in [Tokens -> Statuses]
      BY <2>1 DEF HangUp, LosesSuccessor
    <3>2. Return(t) /\ UNCHANGED <<storeVars, registry, issuer>>
      BY <2>1 DEF HangUp
    <3>3. QED
      BY <3>1, <3>2, FlowTypes DEF storeVars
  <2>2. CASE HangUpInUpdate(t)
    BY <2>2 DEF HangUpInUpdate, Goto, storeVars, providerVars
  <2>3. QED
    BY <1>9, <2>1, <2>2
<1>10. QED
  BY <1>1, <1>2, <1>3, <1>4, <1>5, <1>6, <1>7, <1>8, <1>9 DEF Next

\* What a crash or a shutdown does to one flow and to one token.
LEMMA TerminateFlows ==
  ASSUME NEW p \in Procs, Terminate(p)
  PROVE  \A t \in Tasks :
           IF ProcOf[t] = p
           THEN /\ pc'[t] = "idle"
                /\ srv'[t] = NoServer
                /\ lock'[t] = NoLock
                /\ attempted'[t] = NoToken
                /\ got'[t] = NoToken
                /\ snap'[t] = {}
           ELSE /\ pc'[t] = pc[t]
                /\ srv'[t] = srv[t]
                /\ lock'[t] = lock[t]
                /\ attempted'[t] = attempted[t]
                /\ got'[t] = got[t]
                /\ snap'[t] = snap[t]
  BY DEF Terminate

\* Only tokens whose successor dies with the process change.
LEMMA TerminateTokens ==
  ASSUME NEW p \in Procs, Terminate(p)
  PROVE  \A r \in Tokens :
           IF \E t \in Tasks : ProcOf[t] = p /\ HoldsSuccessor(t) /\ attempted[t] = r
           THEN status'[r] = "stranded"
           ELSE status'[r] = status[r]
  BY DEF Terminate

\* The locals of a flow hold what its next step needs.
LEMMA LocalsInvNext == TypeOK /\ LocalsInv /\ [Next]_vars => LocalsInv'
<1> SUFFICES ASSUME TypeOK, LocalsInv, [Next]_vars PROVE LocalsInv'
  OBVIOUS
<1> USE ServersAssumption, TasksAssumption, TokensAssumption, LocksAssumption
    DEF TypeOK, LocalsInv, Steps, Refreshing, Critical, LoginSteps,
        PruneSteps, Late
<1>1. ASSUME NEW t \in Tasks, RefreshStep(t) PROVE LocalsInv'
  <2>1. ASSUME NEW s \in Servers, RefreshBegin(t, s) PROVE LocalsInv'
    BY <2>1 DEF RefreshBegin, Goto, storeVars, providerVars
  <2>2. CASE LoadServerRefreshToken(t)
    BY <2>2 DEF LoadServerRefreshToken, Goto, storeVars, providerVars
  <2>3. CASE RefreshGranted(t)
    BY <2>3 DEF RefreshGranted, Goto, storeVars, providerVars
  <2>4. CASE RefreshAnswerLost(t)
    BY <2>4 DEF RefreshAnswerLost, Goto, storeVars, flowVars
  <2>5. CASE PersistRefreshed(t)
    BY <2>5 DEF PersistRefreshed, Return, Goto, SetHealth, providerVars
  <2>unsynced. CASE PersistRefreshedUnsynced(t)
    BY <2>unsynced DEF PersistRefreshedUnsynced, Goto, SetHealth, flowVars, providerVars
  <2>6. CASE PersistRefreshedFails(t)
    BY <2>6 DEF PersistRefreshedFails, LosesSuccessor, HoldsSuccessor,
       Return, Goto, storeVars, flowVars
  <2>7. CASE RemoveStaleToken(t)
    BY <2>7 DEF RemoveStaleToken, Return, Goto, flowVars, providerVars
  <2>8. CASE MarkServerDegraded(t)
    <3>1. CASE t \in SweepTasks
      BY <2>8, <3>1 DEF MarkServerDegraded, Goto, SetHealth, providerVars
    <3>2. CASE t \notin SweepTasks
      BY <2>8, <3>2 DEF MarkServerDegraded, Return, Goto, SetHealth, providerVars
    <3>3. QED
      BY <3>1, <3>2
  <2>9. CASE SweepMarksDegraded(t)
    BY <2>9 DEF SweepMarksDegraded, Return, Goto, SetHealth, providerVars
  <2>10. CASE \/ RefreshAcquire(t) \/ RefreshFindServer(t) \/ RefreshResolve(t)
              \/ RefreshFailsEarly(t)
            \/ RefreshRefused(t) \/ RefreshFails(t)
    BY <2>10 DEF RefreshAcquire, Goto, storeVars, flowVars, providerVars,
       RefreshFindServer, RefreshResolve, RefreshFailsEarly, RefreshRefused,
       RefreshFails
  <2>11. QED
    BY <2>unsynced, <1>1, <2>1, <2>2, <2>3, <2>4, <2>5, <2>6, <2>7, <2>8, <2>9, <2>10
       DEF RefreshStep
<1>2. ASSUME NEW t \in Tasks, LoginStep(t) PROVE LocalsInv'
  <2>1. ASSUME NEW s \in Servers, LoginBegin(t, s) PROVE LocalsInv'
    BY <2>1 DEF LoginBegin, Goto, storeVars, providerVars
  <2>2. CASE ExchangeCode(t)
    BY <2>2 DEF ExchangeCode, Goto, storeVars, providerVars
  <2>3. CASE LoginEnds(t)
    BY <2>3 DEF LoginEnds, Return, Goto, storeVars, providerVars
  <2>4. CASE PersistLogin(t)
    BY <2>4 DEF PersistLogin, Return, Goto, SetHealth, providerVars
  <2>5. CASE \/ LoginResolve(t) \/ PersistRegisteredClient(t)
    BY <2>5 DEF LoginResolve, Goto, storeVars, flowVars, providerVars,
       PersistRegisteredClient
  <2>6. QED
    BY <1>2, <2>1, <2>2, <2>3, <2>4, <2>5
       DEF LoginStep
<1>3. ASSUME NEW t \in Tasks, ConfigStep(t) PROVE LocalsInv'
  <2>1. ASSUME NEW s \in Servers, RemoveServer(t, s) PROVE LocalsInv'
    BY <2>1 DEF RemoveServer, Goto, flowVars, providerVars
  <2>2. ASSUME NEW S \in SUBSET Servers, ImportConfig(t, S) PROVE LocalsInv'
    BY <2>2 DEF ImportConfig, Goto, flowVars, providerVars
  <2>3. CASE PruneLoad(t)
    BY <2>3 DEF PruneLoad, Goto, storeVars, providerVars
  <2>4. CASE PruneTokens(t)
    BY <2>4 DEF PruneTokens, Goto, flowVars, providerVars
  <2>5. CASE PruneLocks(t)
    BY <2>5 DEF PruneLocks, Return, Goto, storeVars, providerVars
  <2>6. CASE PruneFails(t)
    BY <2>6 DEF PruneFails, Return, Goto, storeVars, providerVars
  <2>7. QED
    BY <1>3, <2>1, <2>2, <2>3, <2>4, <2>5, <2>6
       DEF ConfigStep
<1>4. ASSUME NEW s \in Servers, AddServer(s) PROVE LocalsInv'
  BY <1>4 DEF AddServer, flowVars, providerVars
<1>5. ASSUME NEW S \in SUBSET Servers, MarkServersHealthy(S) PROVE LocalsInv'
  BY <1>5 DEF MarkServersHealthy, flowVars, providerVars
<1>6. ASSUME NEW r \in Tokens, Revoke(r) PROVE LocalsInv'
  BY <1>6 DEF Revoke, storeVars, flowVars
<1>7. ASSUME NEW p \in Procs, Crash(p) \/ Shutdown(p) PROVE LocalsInv'
  BY <1>7 DEF Crash, Shutdown, Terminate, storeVars
<1>8. CASE UNCHANGED vars
  BY <1>8 DEF vars, storeVars, flowVars, providerVars
<1>9. ASSUME NEW t \in Tasks, HangUp(t) \/ HangUpInUpdate(t) PROVE LocalsInv'
  <2>1. CASE HangUp(t)
    BY <2>1 DEF HangUp, LosesSuccessor, HoldsSuccessor, Return, Goto, storeVars
  <2>2. CASE HangUpInUpdate(t)
    BY <2>2 DEF HangUpInUpdate, Goto, storeVars, providerVars
  <2>3. QED
    BY <1>9, <2>1, <2>2
<1>10. QED
  BY <1>1, <1>2, <1>3, <1>4, <1>5, <1>6, <1>7, <1>8, <1>9 DEF Next

\* A refresh of a stable server works under the registered lock.
LEMMA LockInvNext == TypeOK /\ LocalsInv /\ LockInv /\ [Next]_vars => LockInv'
<1> SUFFICES ASSUME TypeOK, LocalsInv, LockInv, [Next]_vars PROVE LockInv'
  OBVIOUS
<1> USE ServersAssumption, TasksAssumption, TokensAssumption, LocksAssumption
    DEF TypeOK, LocalsInv, LockInv, LocksInUse, Steps, Refreshing, Critical,
       LoginSteps,
        PruneSteps, Late
<1>1. ASSUME NEW t \in Tasks, RefreshStep(t) PROVE LockInv'
  <2>1. ASSUME NEW s \in Servers, RefreshBegin(t, s) PROVE LockInv'
    BY <2>1 DEF RefreshBegin, Goto, storeVars, providerVars
  <2>2. CASE PersistRefreshed(t)
    BY <2>2 DEF PersistRefreshed, Return, Goto, SetHealth, providerVars
  <2>unsynced. CASE PersistRefreshedUnsynced(t)
    BY <2>unsynced DEF PersistRefreshedUnsynced, Goto, SetHealth, flowVars, providerVars
  <2>3. CASE MarkServerDegraded(t)
    <3>1. CASE t \in SweepTasks
      BY <2>3, <3>1 DEF MarkServerDegraded, Goto, SetHealth, providerVars
    <3>2. CASE t \notin SweepTasks
      BY <2>3, <3>2 DEF MarkServerDegraded, Return, Goto, SetHealth, providerVars
    <3>3. QED
      BY <3>1, <3>2
  <2>4. CASE SweepMarksDegraded(t)
    BY <2>4 DEF SweepMarksDegraded, Return, Goto, SetHealth, providerVars
  <2>5. CASE \/ RefreshAcquire(t) \/ LoadServerRefreshToken(t)
             \/ RefreshFindServer(t) \/ RefreshResolve(t)
            \/ RefreshFailsEarly(t) \/ RefreshGranted(t) \/ RefreshAnswerLost(t)
            \/ RefreshRefused(t) \/ RefreshFails(t) \/ PersistRefreshedFails(t)
            \/ RemoveStaleToken(t)
    BY <2>5 DEF RefreshAcquire, Goto, storeVars, flowVars, providerVars,
       LoadServerRefreshToken, RefreshFindServer, RefreshResolve,
       RefreshFailsEarly,
       RefreshGranted, RefreshAnswerLost, RefreshRefused, RefreshFails,
       PersistRefreshedFails, LosesSuccessor,
       HoldsSuccessor, RemoveStaleToken, Return
  <2>6. QED
    BY <2>unsynced, <1>1, <2>1, <2>2, <2>3, <2>4, <2>5
       DEF RefreshStep
<1>2. ASSUME NEW t \in Tasks, LoginStep(t) PROVE LockInv'
  <2>1. ASSUME NEW s \in Servers, LoginBegin(t, s) PROVE LockInv'
    BY <2>1 DEF LoginBegin, Goto, storeVars, providerVars
  <2>2. CASE LoginEnds(t)
    BY <2>2 DEF LoginEnds, Return, Goto, storeVars, providerVars
  <2>3. CASE PersistLogin(t)
    BY <2>3 DEF PersistLogin, Return, Goto, SetHealth, providerVars
  <2>4. CASE \/ LoginResolve(t) \/ PersistRegisteredClient(t) \/ ExchangeCode(t)
    BY <2>4 DEF LoginResolve, Goto, storeVars, flowVars, providerVars,
       PersistRegisteredClient, ExchangeCode
  <2>5. QED
    BY <1>2, <2>1, <2>2, <2>3, <2>4
       DEF LoginStep
<1>3. ASSUME NEW t \in Tasks, ConfigStep(t) PROVE LockInv'
  <2>1. ASSUME NEW s \in Servers, RemoveServer(t, s) PROVE LockInv'
    BY <2>1 DEF RemoveServer, Goto, flowVars, providerVars
  <2>2. ASSUME NEW S \in SUBSET Servers, ImportConfig(t, S) PROVE LockInv'
    BY <2>2 DEF ImportConfig, Goto, flowVars, providerVars
  <2>3. CASE PruneLocks(t)
    BY <2>3 DEF PruneLocks, Return, Goto, storeVars, providerVars
  <2>4. CASE PruneFails(t)
    BY <2>4 DEF PruneFails, Return, Goto, storeVars, providerVars
  <2>5. CASE \/ PruneLoad(t) \/ PruneTokens(t)
    BY <2>5 DEF PruneLoad, Goto, storeVars, providerVars, PruneTokens,
       flowVars
  <2>6. QED
    BY <1>3, <2>1, <2>2, <2>3, <2>4, <2>5
       DEF ConfigStep
<1>4. ASSUME NEW s \in Servers, AddServer(s) PROVE LockInv'
  BY <1>4 DEF AddServer, flowVars, providerVars
<1>5. ASSUME NEW S \in SUBSET Servers, MarkServersHealthy(S) PROVE LockInv'
  BY <1>5 DEF MarkServersHealthy, flowVars, providerVars
<1>6. ASSUME NEW r \in Tokens, Revoke(r) PROVE LockInv'
  BY <1>6 DEF Revoke, storeVars, flowVars
<1>7. ASSUME NEW p \in Procs, Crash(p) \/ Shutdown(p) PROVE LockInv'
  BY <1>7 DEF Crash, Shutdown, Terminate, storeVars
<1>8. CASE UNCHANGED vars
  BY <1>8 DEF vars, storeVars, flowVars, providerVars
<1>9. ASSUME NEW t \in Tasks, HangUp(t) \/ HangUpInUpdate(t) PROVE LockInv'
  <2>1. CASE HangUp(t)
    BY <2>1 DEF HangUp, LosesSuccessor, HoldsSuccessor, Return, Goto, storeVars
  <2>2. CASE HangUpInUpdate(t)
    BY <2>2 DEF HangUpInUpdate, Goto, storeVars, providerVars
  <2>3. QED
    BY <1>9, <2>1, <2>2
<1>10. QED
  BY <1>1, <1>2, <1>3, <1>4, <1>5, <1>6, <1>7, <1>8, <1>9 DEF Next

\* The guard of RefreshAcquire keeps the second refresh out.
LEMMA SingleFlightNext ==
  TypeOK /\ LocalsInv /\ LockInv /\ SingleFlight /\ [Next]_vars =>
    SingleFlight'
<1> SUFFICES ASSUME TypeOK, LocalsInv, LockInv, SingleFlight, [Next]_vars
                 PROVE SingleFlight'
  OBVIOUS
<1> USE ServersAssumption, TasksAssumption, TokensAssumption, LocksAssumption
    DEF TypeOK, LocalsInv, LockInv, SingleFlight, Steps, Refreshing, Critical,
       LoginSteps,
        PruneSteps, Late
<1>1. ASSUME NEW t \in Tasks, RefreshStep(t) PROVE SingleFlight'
  <2>1. ASSUME NEW s \in Servers, RefreshBegin(t, s) PROVE SingleFlight'
    BY <2>1 DEF RefreshBegin, Goto, storeVars, providerVars
  <2>2. CASE RefreshAcquire(t)
    BY <2>2 DEF RefreshAcquire, Goto, storeVars, flowVars, providerVars
  <2>3. CASE PersistRefreshed(t)
    BY <2>3 DEF PersistRefreshed, Return, Goto, SetHealth, providerVars
  <2>unsynced. CASE PersistRefreshedUnsynced(t)
    BY <2>unsynced DEF PersistRefreshedUnsynced, Goto, SetHealth, flowVars, providerVars
  <2>4. CASE MarkServerDegraded(t)
    <3>1. CASE t \in SweepTasks
      BY <2>4, <3>1 DEF MarkServerDegraded, Goto, SetHealth, providerVars
    <3>2. CASE t \notin SweepTasks
      BY <2>4, <3>2 DEF MarkServerDegraded, Return, Goto, SetHealth, providerVars
    <3>3. QED
      BY <3>1, <3>2
  <2>5. CASE SweepMarksDegraded(t)
    BY <2>5 DEF SweepMarksDegraded, Return, Goto, SetHealth, providerVars
  <2>6. CASE \/ LoadServerRefreshToken(t) \/ RefreshFindServer(t)
             \/ RefreshResolve(t) \/ RefreshFailsEarly(t)
            \/ RefreshGranted(t) \/ RefreshAnswerLost(t) \/ RefreshRefused(t)
            \/ RefreshFails(t) \/ PersistRefreshedFails(t) \/ RemoveStaleToken(t)
    BY <2>6 DEF LoadServerRefreshToken, Goto, storeVars, providerVars,
       RefreshFindServer, RefreshResolve, flowVars, RefreshFailsEarly,
       RefreshGranted,
       RefreshAnswerLost, RefreshRefused, RefreshFails,
       PersistRefreshedFails, LosesSuccessor,
       HoldsSuccessor, RemoveStaleToken, Return
  <2>7. QED
    BY <2>unsynced, <1>1, <2>1, <2>2, <2>3, <2>4, <2>5, <2>6
       DEF RefreshStep
<1>2. ASSUME NEW t \in Tasks, LoginStep(t) PROVE SingleFlight'
  <2>1. ASSUME NEW s \in Servers, LoginBegin(t, s) PROVE SingleFlight'
    BY <2>1 DEF LoginBegin, Goto, storeVars, providerVars
  <2>2. CASE LoginEnds(t)
    BY <2>2 DEF LoginEnds, Return, Goto, storeVars, providerVars
  <2>3. CASE PersistLogin(t)
    BY <2>3 DEF PersistLogin, Return, Goto, SetHealth, providerVars
  <2>4. CASE \/ LoginResolve(t) \/ PersistRegisteredClient(t) \/ ExchangeCode(t)
    BY <2>4 DEF LoginResolve, Goto, storeVars, flowVars, providerVars,
       PersistRegisteredClient, ExchangeCode
  <2>5. QED
    BY <1>2, <2>1, <2>2, <2>3, <2>4
       DEF LoginStep
<1>3. ASSUME NEW t \in Tasks, ConfigStep(t) PROVE SingleFlight'
  <2>1. ASSUME NEW s \in Servers, RemoveServer(t, s) PROVE SingleFlight'
    BY <2>1 DEF RemoveServer, Goto, flowVars, providerVars
  <2>2. ASSUME NEW S \in SUBSET Servers, ImportConfig(t, S) PROVE SingleFlight'
    BY <2>2 DEF ImportConfig, Goto, flowVars, providerVars
  <2>3. CASE PruneLocks(t)
    BY <2>3 DEF PruneLocks, Return, Goto, storeVars, providerVars
  <2>4. CASE PruneFails(t)
    BY <2>4 DEF PruneFails, Return, Goto, storeVars, providerVars
  <2>5. CASE \/ PruneLoad(t) \/ PruneTokens(t)
    BY <2>5 DEF PruneLoad, Goto, storeVars, providerVars, PruneTokens,
       flowVars
  <2>6. QED
    BY <1>3, <2>1, <2>2, <2>3, <2>4, <2>5
       DEF ConfigStep
<1>4. ASSUME NEW s \in Servers, AddServer(s) PROVE SingleFlight'
  BY <1>4 DEF AddServer, flowVars, providerVars
<1>5. ASSUME NEW S \in SUBSET Servers, MarkServersHealthy(S) PROVE SingleFlight'
  BY <1>5 DEF MarkServersHealthy, flowVars, providerVars
<1>6. ASSUME NEW r \in Tokens, Revoke(r) PROVE SingleFlight'
  BY <1>6 DEF Revoke, storeVars, flowVars
<1>7. ASSUME NEW p \in Procs, Crash(p) \/ Shutdown(p) PROVE SingleFlight'
  BY <1>7 DEF Crash, Shutdown, Terminate, storeVars
<1>8. CASE UNCHANGED vars
  BY <1>8 DEF vars, storeVars, flowVars, providerVars
<1>9. ASSUME NEW t \in Tasks, HangUp(t) \/ HangUpInUpdate(t) PROVE SingleFlight'
  <2>1. CASE HangUp(t)
    BY <2>1 DEF HangUp, LosesSuccessor, HoldsSuccessor, Return, Goto, storeVars
  <2>2. CASE HangUpInUpdate(t)
    BY <2>2 DEF HangUpInUpdate, Goto, storeVars, providerVars
  <2>3. QED
    BY <1>9, <2>1, <2>2
<1>10. QED
  BY <1>1, <1>2, <1>3, <1>4, <1>5, <1>6, <1>7, <1>8, <1>9 DEF Next

\* Tokens keep their server when a step only forgets some of them.
LEMMA IssuerFrame ==
  ASSUME TokensAssumption,
         IssuerInv,
         \A s \in Servers : token'[s] \in {token[s], NoToken},
         \A u \in Tasks : /\ attempted'[u] \in {attempted[u], NoToken}
                          /\ got'[u] \in {got[u], NoToken}
                          /\ srv'[u] # srv[u] => /\ attempted'[u] = NoToken
                                                /\ got'[u] = NoToken,
         \A r \in Tokens : status'[r] = "unissued" <=> status[r] = "unissued",
         issuer' = issuer
  PROVE  IssuerInv'
  BY DEF TokensAssumption, IssuerInv

\* Tokens stay with the server whose provider issued them.
LEMMA IssuerInvNext ==
  TypeOK /\ LocalsInv /\ IssuerInv /\ [Next]_vars => IssuerInv'
<1> SUFFICES ASSUME TypeOK, LocalsInv, IssuerInv, [Next]_vars PROVE IssuerInv'
  OBVIOUS
<1> USE ServersAssumption, TasksAssumption, TokensAssumption, LocksAssumption
    DEF TypeOK, LocalsInv, IssuerInv, Statuses, Steps, Refreshing, Critical,
       LoginSteps,
        PruneSteps, Late
<1>1. ASSUME NEW t \in Tasks, RefreshStep(t) PROVE IssuerInv'
  <2>1. ASSUME NEW s \in Servers, RefreshBegin(t, s) PROVE IssuerInv'
    BY <2>1 DEF RefreshBegin, Goto, storeVars, providerVars
  <2>2. CASE LoadServerRefreshToken(t)
    BY <2>2 DEF LoadServerRefreshToken, Goto, storeVars, providerVars
  <2>3. CASE RefreshGranted(t)
    <3>1. CASE srv[t] \in Rotates
      <4>1. PICK r \in Tokens :
              /\ status[r] = "unissued"
              /\ status' = [status EXCEPT ![attempted[t]] = "spent",
                                          ![r] = "live"]
              /\ issuer' = [issuer EXCEPT ![r] = srv[t]]
              /\ got' = [got EXCEPT ![t] = r]
        BY <2>3, <3>1 DEF RefreshGranted
      <4>2. /\ r # attempted[t]
            /\ attempted[t] \in Tokens
            /\ issuer[r] = NoServer
            /\ srv[t] \in Servers
            /\ \A s \in Servers : token[s] # r
            /\ \A u \in Tasks : attempted[u] # r /\ (u # t => got[u] # r)
        BY <2>3, <4>1 DEF RefreshGranted
      <4>3. QED
        BY <2>3, <3>1, <4>1, <4>2 DEF RefreshGranted, Goto, storeVars
    <3>2. CASE srv[t] \notin Rotates
      <4>1. /\ UNCHANGED <<token, status, issuer, srv, attempted>>
            /\ got' = [got EXCEPT ![t] = attempted[t]]
        BY <2>3, <3>2 DEF RefreshGranted, storeVars, providerVars
      <4>2. attempted[t] \in Tokens
        BY <2>3 DEF RefreshGranted
      <4>3. \A u \in Tasks : got'[u] = IF u = t THEN attempted[t] ELSE got[u]
        BY <4>1
      <4>4. QED
        BY <4>1, <4>2, <4>3
    <3>3. QED
      BY <3>1, <3>2
  <2>4. CASE RefreshAnswerLost(t)
    BY <2>4 DEF RefreshAnswerLost, Goto, storeVars, flowVars
  <2>5. CASE PersistRefreshed(t)
    BY <2>5 DEF PersistRefreshed, Return, Goto, SetHealth, providerVars
  <2>unsynced. CASE PersistRefreshedUnsynced(t)
    BY <2>unsynced DEF PersistRefreshedUnsynced, Goto, SetHealth, flowVars, providerVars
  <2>6. CASE PersistRefreshedFails(t)
    <3>1. Return(t) \/ UNCHANGED flowVars
      BY <2>6 DEF PersistRefreshedFails
    <3>2. token' = token /\ issuer' = issuer
      BY <2>6 DEF PersistRefreshedFails, storeVars
    <3>3. \A r \in Tokens : status'[r] = "unissued" <=> status[r] = "unissued"
      <4>1. status' = status
              \/ /\ status' = [status EXCEPT ![attempted[t]] = "stranded"]
                 /\ HoldsSuccessor(t)
        BY <2>6 DEF PersistRefreshedFails, LosesSuccessor
      <4>2. attempted[t] \in Tokens /\ issuer[attempted[t]] # NoServer
        <5>1. pc[t] \in {"persisting", "lateStore"}
          BY <2>6 DEF PersistRefreshedFails
        <5>2. attempted[t] \in Tokens /\ srv[t] \in Servers
          BY <5>1
        <5>3. QED
          BY <5>2
      <4>3. status[attempted[t]] # "unissued"
        BY <4>2
      <4>4. QED
        BY <4>1, <4>2, <4>3
    <3>4. \A u \in Tasks : /\ attempted'[u] \in {attempted[u], NoToken}
                           /\ got'[u] \in {got[u], NoToken}
                           /\ srv'[u] # srv[u] => /\ attempted'[u] = NoToken
                                                 /\ got'[u] = NoToken
      <4>1. CASE Return(t)
        BY <4>1 DEF Return
      <4>2. CASE UNCHANGED flowVars
        BY <4>2 DEF flowVars
      <4>3. QED
        BY <3>1, <4>1, <4>2
    <3>5. QED
      BY <3>2, <3>3, <3>4, IssuerFrame
  <2>7. CASE RemoveStaleToken(t)
    <3>1. \A s \in Servers : token'[s] \in {token[s], NoToken}
      BY <2>7 DEF RemoveStaleToken
    <3>2. \A u \in Tasks : /\ attempted'[u] \in {attempted[u], NoToken}
                           /\ got'[u] \in {got[u], NoToken}
                           /\ srv'[u] # srv[u] => /\ attempted'[u] = NoToken
                                                 /\ got'[u] = NoToken
      BY <2>7 DEF RemoveStaleToken, Return, Goto, flowVars
    <3>3. status' = status /\ issuer' = issuer
      BY <2>7 DEF RemoveStaleToken, providerVars
    <3>4. QED
      BY <3>1, <3>2, <3>3, IssuerFrame
  <2>8. CASE MarkServerDegraded(t)
    <3>1. \A u \in Tasks : /\ attempted'[u] \in {attempted[u], NoToken}
                           /\ got'[u] \in {got[u], NoToken}
                           /\ srv'[u] # srv[u] => /\ attempted'[u] = NoToken
                                                 /\ got'[u] = NoToken
      <4>1. CASE t \in SweepTasks
        BY <2>8, <4>1 DEF MarkServerDegraded
      <4>2. CASE t \notin SweepTasks
        BY <2>8, <4>2 DEF MarkServerDegraded, Return
      <4>3. QED
        BY <4>1, <4>2
    <3>2. token' = token /\ status' = status /\ issuer' = issuer
      BY <2>8 DEF MarkServerDegraded, providerVars
    <3>3. QED
      BY <3>1, <3>2, IssuerFrame
  <2>9. CASE SweepMarksDegraded(t)
    BY <2>9 DEF SweepMarksDegraded, Return, Goto, SetHealth, providerVars
  <2>10. CASE \/ RefreshAcquire(t) \/ RefreshFindServer(t) \/ RefreshResolve(t)
              \/ RefreshFailsEarly(t)
            \/ RefreshRefused(t) \/ RefreshFails(t)
    BY <2>10 DEF RefreshAcquire, Goto, storeVars, flowVars, providerVars,
       RefreshFindServer, RefreshResolve, RefreshFailsEarly, RefreshRefused,
       RefreshFails
  <2>11. QED
    BY <2>unsynced, <1>1, <2>1, <2>2, <2>3, <2>4, <2>5, <2>6, <2>7, <2>8, <2>9, <2>10
       DEF RefreshStep
<1>2. ASSUME NEW t \in Tasks, LoginStep(t) PROVE IssuerInv'
  <2>1. ASSUME NEW s \in Servers, LoginBegin(t, s) PROVE IssuerInv'
    BY <2>1 DEF LoginBegin, Goto, storeVars, providerVars
  <2>2. CASE ExchangeCode(t)
    <3>1. ASSUME NEW r \in Tokens,
                 status[r] = "unissued",
                 status' = [status EXCEPT ![r] = "live"],
                 issuer' = [issuer EXCEPT ![r] = srv[t]],
                 got' = [got EXCEPT ![t] = r]
          PROVE  IssuerInv'
      <4>1. /\ issuer[r] = NoServer
            /\ srv[t] \in Servers
            /\ \A s \in Servers : token[s] # r
            /\ \A u \in Tasks : attempted[u] # r /\ (u # t => got[u] # r)
        BY <2>2, <3>1 DEF ExchangeCode
      <4>2. QED
        BY <2>2, <3>1, <4>1 DEF ExchangeCode, Goto, storeVars
    <3>2. CASE got' = [got EXCEPT ![t] = AccessOnly] /\ UNCHANGED providerVars
      BY <2>2, <3>2 DEF ExchangeCode, Goto, storeVars, providerVars
    <3>3. QED
      BY <2>2, <3>1, <3>2 DEF ExchangeCode
  <2>3. CASE LoginEnds(t)
    BY <2>3 DEF LoginEnds, Return, Goto, storeVars, providerVars
  <2>4. CASE PersistLogin(t)
    BY <2>4 DEF PersistLogin, Return, Goto, SetHealth, providerVars
  <2>5. CASE \/ LoginResolve(t) \/ PersistRegisteredClient(t)
    BY <2>5 DEF LoginResolve, Goto, storeVars, flowVars, providerVars,
       PersistRegisteredClient
  <2>6. QED
    BY <1>2, <2>1, <2>2, <2>3, <2>4, <2>5
       DEF LoginStep
<1>3. ASSUME NEW t \in Tasks, ConfigStep(t) PROVE IssuerInv'
  <2>1. ASSUME NEW s \in Servers, RemoveServer(t, s) PROVE IssuerInv'
    BY <2>1 DEF RemoveServer, Goto, flowVars, providerVars
  <2>2. ASSUME NEW S \in SUBSET Servers, ImportConfig(t, S) PROVE IssuerInv'
    BY <2>2 DEF ImportConfig, Goto, flowVars, providerVars
  <2>3. CASE PruneTokens(t)
    BY <2>3 DEF PruneTokens, Goto, flowVars, providerVars
  <2>4. CASE PruneLocks(t)
    BY <2>4 DEF PruneLocks, Return, Goto, storeVars, providerVars
  <2>5. CASE PruneFails(t)
    BY <2>5 DEF PruneFails, Return, Goto, storeVars, providerVars
  <2>6. CASE \/ PruneLoad(t)
    BY <2>6 DEF PruneLoad, Goto, storeVars, providerVars
  <2>7. QED
    BY <1>3, <2>1, <2>2, <2>3, <2>4, <2>5, <2>6
       DEF ConfigStep
<1>4. ASSUME NEW s \in Servers, AddServer(s) PROVE IssuerInv'
  BY <1>4 DEF AddServer, flowVars, providerVars
<1>5. ASSUME NEW S \in SUBSET Servers, MarkServersHealthy(S) PROVE IssuerInv'
  BY <1>5 DEF MarkServersHealthy, flowVars, providerVars
<1>6. ASSUME NEW r \in Tokens, Revoke(r) PROVE IssuerInv'
  BY <1>6 DEF Revoke, storeVars, flowVars
<1>7. ASSUME NEW p \in Procs, Crash(p) \/ Shutdown(p) PROVE IssuerInv'
  <2>1. Terminate(p)
    BY <1>7 DEF Crash, Shutdown
  <2>2. QED
    BY <2>1, TerminateFlows, TerminateTokens DEF Terminate, storeVars
<1>8. CASE UNCHANGED vars
  BY <1>8 DEF vars, storeVars, flowVars, providerVars
<1>9. ASSUME NEW t \in Tasks, HangUp(t) \/ HangUpInUpdate(t) PROVE IssuerInv'
  <2>1. CASE HangUp(t)
    BY <2>1 DEF HangUp, LosesSuccessor, HoldsSuccessor, Return, Goto, storeVars
  <2>2. CASE HangUpInUpdate(t)
    BY <2>2 DEF HangUpInUpdate, Goto, storeVars, providerVars
  <2>3. QED
    BY <1>9, <2>1, <2>2
<1>10. QED
  BY <1>1, <1>2, <1>3, <1>4, <1>5, <1>6, <1>7, <1>8, <1>9 DEF Next

\* A token just issued stays private to its flow until it is stored.
LEMMA FreshInvNext ==
  TypeOK /\ LocalsInv /\ IssuerInv /\ FreshInv /\ [Next]_vars => FreshInv'
<1> SUFFICES ASSUME TypeOK, LocalsInv, IssuerInv, FreshInv, [Next]_vars PROVE
                 FreshInv'
  OBVIOUS
<1> USE ServersAssumption, TasksAssumption, TokensAssumption, LocksAssumption
    DEF TypeOK, LocalsInv, IssuerInv, FreshInv, Fresh, HoldsSuccessor, Honoured,
        Statuses, Steps, Refreshing, Critical, LoginSteps,
        PruneSteps, Late
<1>1. ASSUME NEW t \in Tasks, RefreshStep(t) PROVE FreshInv'
  <2>1. ASSUME NEW s \in Servers, RefreshBegin(t, s) PROVE FreshInv'
    BY <2>1 DEF RefreshBegin, Goto, storeVars, providerVars
  <2>2. CASE LoadServerRefreshToken(t)
    BY <2>2 DEF LoadServerRefreshToken, Goto, storeVars, providerVars
  <2>3. CASE RefreshGranted(t)
    <3>1. CASE srv[t] \in Rotates
      <4>1. PICK r \in Tokens :
              /\ status[r] = "unissued"
              /\ status' = [status EXCEPT ![attempted[t]] = "spent",
                                          ![r] = "live"]
              /\ issuer' = [issuer EXCEPT ![r] = srv[t]]
              /\ got' = [got EXCEPT ![t] = r]
        BY <2>3, <3>1 DEF RefreshGranted
      <4>2. /\ r # attempted[t]
            /\ attempted[t] \in Tokens
            /\ issuer[r] = NoServer
            /\ srv[t] \in Servers
            /\ \A s \in Servers : token[s] # r
            /\ \A u \in Tasks : attempted[u] # r /\ (u # t => got[u] # r)
        BY <2>3, <4>1 DEF RefreshGranted
      <4>3. QED
        BY <2>3, <3>1, <4>1, <4>2 DEF RefreshGranted, Goto, storeVars
    <3>2. CASE srv[t] \notin Rotates
      BY <2>3, <3>2 DEF RefreshGranted, Goto, storeVars, providerVars
    <3>3. QED
      BY <3>1, <3>2
  <2>4. CASE RefreshAnswerLost(t)
    BY <2>4 DEF RefreshAnswerLost, Goto, storeVars, flowVars
  <2>5. CASE PersistRefreshed(t)
    BY <2>5 DEF PersistRefreshed, Return, Goto, SetHealth, providerVars
  <2>unsynced. CASE PersistRefreshedUnsynced(t)
    BY <2>unsynced DEF PersistRefreshedUnsynced, Goto, SetHealth, flowVars, providerVars
  <2>6. CASE PersistRefreshedFails(t)
    BY <2>6 DEF PersistRefreshedFails, LosesSuccessor, HoldsSuccessor,
       Return, Goto, storeVars, flowVars
  <2>7. CASE RemoveStaleToken(t)
    BY <2>7 DEF RemoveStaleToken, Return, Goto, flowVars, providerVars
  <2>8. CASE MarkServerDegraded(t)
    <3>1. CASE t \in SweepTasks
      BY <2>8, <3>1 DEF MarkServerDegraded, Goto, SetHealth, providerVars
    <3>2. CASE t \notin SweepTasks
      BY <2>8, <3>2 DEF MarkServerDegraded, Return, Goto, SetHealth, providerVars
    <3>3. QED
      BY <3>1, <3>2
  <2>9. CASE SweepMarksDegraded(t)
    BY <2>9 DEF SweepMarksDegraded, Return, Goto, SetHealth, providerVars
  <2>10. CASE \/ RefreshAcquire(t) \/ RefreshFindServer(t) \/ RefreshResolve(t)
              \/ RefreshFailsEarly(t)
            \/ RefreshRefused(t) \/ RefreshFails(t)
    BY <2>10 DEF RefreshAcquire, Goto, storeVars, flowVars, providerVars,
       RefreshFindServer, RefreshResolve, RefreshFailsEarly, RefreshRefused,
       RefreshFails
  <2>11. QED
    BY <2>unsynced, <1>1, <2>1, <2>2, <2>3, <2>4, <2>5, <2>6, <2>7, <2>8, <2>9, <2>10
       DEF RefreshStep
<1>2. ASSUME NEW t \in Tasks, LoginStep(t) PROVE FreshInv'
  <2>1. ASSUME NEW s \in Servers, LoginBegin(t, s) PROVE FreshInv'
    BY <2>1 DEF LoginBegin, Goto, storeVars, providerVars
  <2>2. CASE LoginResolve(t)
    <3>1. \A u \in Tasks : pc'[u] \in {"storing", "persisting", "lateStore"} => pc[u] = pc'[u]
      BY <2>2 DEF LoginResolve, Goto
    <3>2. QED
      BY <2>2, <3>1 DEF LoginResolve, storeVars, flowVars, providerVars
  <2>3. CASE ExchangeCode(t)
    <3>1. ASSUME NEW r \in Tokens,
                 status[r] = "unissued",
                 status' = [status EXCEPT ![r] = "live"],
                 issuer' = [issuer EXCEPT ![r] = srv[t]],
                 got' = [got EXCEPT ![t] = r]
          PROVE  FreshInv'
      <4>1. /\ issuer[r] = NoServer
            /\ srv[t] \in Servers
            /\ \A s \in Servers : token[s] # r
            /\ \A u \in Tasks : attempted[u] # r /\ (u # t => got[u] # r)
        BY <2>3, <3>1 DEF ExchangeCode
      <4>2. QED
        BY <2>3, <3>1, <4>1 DEF ExchangeCode, Goto, storeVars
    <3>2. CASE got' = [got EXCEPT ![t] = AccessOnly] /\ UNCHANGED providerVars
      BY <2>3, <3>2 DEF ExchangeCode, Goto, storeVars, providerVars
    <3>3. QED
      BY <2>3, <3>1, <3>2 DEF ExchangeCode
  <2>4. CASE LoginEnds(t)
    BY <2>4 DEF LoginEnds, Return, Goto, storeVars, providerVars
  <2>5. CASE PersistLogin(t)
    BY <2>5 DEF PersistLogin, Return, Goto, SetHealth, providerVars
  <2>6. CASE \/ PersistRegisteredClient(t)
    BY <2>6 DEF PersistRegisteredClient, Goto, flowVars, providerVars
  <2>7. QED
    BY <1>2, <2>1, <2>2, <2>3, <2>4, <2>5, <2>6
       DEF LoginStep
<1>3. ASSUME NEW t \in Tasks, ConfigStep(t) PROVE FreshInv'
  <2>1. ASSUME NEW s \in Servers, RemoveServer(t, s) PROVE FreshInv'
    BY <2>1 DEF RemoveServer, Goto, flowVars, providerVars
  <2>2. ASSUME NEW S \in SUBSET Servers, ImportConfig(t, S) PROVE FreshInv'
    BY <2>2 DEF ImportConfig, Goto, flowVars, providerVars
  <2>3. CASE PruneTokens(t)
    BY <2>3 DEF PruneTokens, Goto, flowVars, providerVars
  <2>4. CASE PruneLocks(t)
    BY <2>4 DEF PruneLocks, Return, Goto, storeVars, providerVars
  <2>5. CASE PruneFails(t)
    BY <2>5 DEF PruneFails, Return, Goto, storeVars, providerVars
  <2>6. CASE \/ PruneLoad(t)
    BY <2>6 DEF PruneLoad, Goto, storeVars, providerVars
  <2>7. QED
    BY <1>3, <2>1, <2>2, <2>3, <2>4, <2>5, <2>6
       DEF ConfigStep
<1>4. ASSUME NEW s \in Servers, AddServer(s) PROVE FreshInv'
  BY <1>4 DEF AddServer, flowVars, providerVars
<1>5. ASSUME NEW S \in SUBSET Servers, MarkServersHealthy(S) PROVE FreshInv'
  BY <1>5 DEF MarkServersHealthy, flowVars, providerVars
<1>6. ASSUME NEW r \in Tokens, Revoke(r) PROVE FreshInv'
  BY <1>6 DEF Revoke, storeVars, flowVars
<1>7. ASSUME NEW p \in Procs, Crash(p) \/ Shutdown(p) PROVE FreshInv'
  <2>1. Terminate(p)
    BY <1>7 DEF Crash, Shutdown
  <2>2. token' = token /\ issuer' = issuer
    BY <2>1 DEF Terminate, storeVars
  <2>3. \A u \in Tasks : /\ attempted'[u] \in {attempted[u], NoToken}
                         /\ got'[u] \in {got[u], NoToken}
                         /\ got'[u] # NoToken =>
                              ProcOf[u] # p /\ pc'[u] = pc[u]
                                /\ attempted'[u] = attempted[u] /\ got'[u] = got[u]
    BY <2>1, TerminateFlows
  <2>4. ASSUME NEW u \in Tasks, Fresh(u)', got'[u] \in Tokens
        PROVE  /\ Fresh(u) /\ got[u] \in Tokens /\ got'[u] = got[u]
               /\ status'[got[u]] \in {status[got[u]], "stranded"}
               /\ status'[got[u]] = "stranded" =>
                    \E t \in Tasks : attempted[t] = got[u]
    <3>1. Fresh(u) /\ got[u] \in Tokens /\ got'[u] = got[u]
      BY <2>3, <2>4
    <3>2. \/ status'[got[u]] = status[got[u]]
          \/ \E t \in Tasks : attempted[t] = got[u]
      BY <2>1, <3>1, TerminateTokens
    <3>3. status[got[u]] \in {"live", "revoked"}
      BY <3>1
    <3>4. status'[got[u]] \in {status[got[u]], "stranded"}
      BY <2>1, <3>1, TerminateTokens
    <3>5. QED
      BY <3>1, <3>2, <3>3, <3>4
  <2>5. QED
    BY <2>2, <2>3, <2>4
<1>8. CASE UNCHANGED vars
  BY <1>8 DEF vars, storeVars, flowVars, providerVars
<1>9. ASSUME NEW t \in Tasks, HangUp(t) \/ HangUpInUpdate(t) PROVE FreshInv'
  <2>1. CASE HangUp(t)
    BY <2>1 DEF HangUp, LosesSuccessor, HoldsSuccessor, Return, Goto, storeVars
  <2>2. CASE HangUpInUpdate(t)
    BY <2>2 DEF HangUpInUpdate, Goto, storeVars, providerVars
  <2>3. QED
    BY <1>9, <2>1, <2>2
<1>10. QED
  BY <1>1, <1>2, <1>3, <1>4, <1>5, <1>6, <1>7, <1>8, <1>9 DEF Next

\* Only tokens of rotating providers are spent.
LEMMA RotationInvNext ==
  TypeOK /\ LocalsInv /\ IssuerInv /\ RotationInv /\ [Next]_vars =>
    RotationInv'
<1> SUFFICES ASSUME TypeOK, LocalsInv, IssuerInv, RotationInv, [Next]_vars
                 PROVE RotationInv'
  OBVIOUS
<1> USE ServersAssumption, TasksAssumption, TokensAssumption, LocksAssumption
    DEF TypeOK, LocalsInv, IssuerInv, RotationInv, Honoured, Statuses, Steps,
       Refreshing, Critical, LoginSteps,
        PruneSteps, Late
<1>1. ASSUME NEW t \in Tasks, RefreshStep(t) PROVE RotationInv'
  <2>1. ASSUME NEW s \in Servers, RefreshBegin(t, s) PROVE RotationInv'
    BY <2>1 DEF RefreshBegin, Goto, storeVars, providerVars
  <2>2. CASE RefreshGranted(t)
    <3>1. CASE srv[t] \in Rotates
      <4>1. PICK r \in Tokens :
              /\ status[r] = "unissued"
              /\ status' = [status EXCEPT ![attempted[t]] = "spent",
                                          ![r] = "live"]
              /\ issuer' = [issuer EXCEPT ![r] = srv[t]]
              /\ got' = [got EXCEPT ![t] = r]
        BY <2>2, <3>1 DEF RefreshGranted
      <4>2. /\ r # attempted[t]
            /\ attempted[t] \in Tokens
            /\ issuer[r] = NoServer
            /\ srv[t] \in Servers
            /\ \A s \in Servers : token[s] # r
            /\ \A u \in Tasks : attempted[u] # r /\ (u # t => got[u] # r)
        BY <2>2, <4>1 DEF RefreshGranted
      <4>3. QED
        BY <2>2, <3>1, <4>1, <4>2 DEF RefreshGranted, Goto, storeVars
    <3>2. CASE srv[t] \notin Rotates
      BY <2>2, <3>2 DEF RefreshGranted, Goto, storeVars, providerVars
    <3>3. QED
      BY <3>1, <3>2
  <2>3. CASE RefreshAnswerLost(t)
    BY <2>3 DEF RefreshAnswerLost, Goto, storeVars, flowVars
  <2>4. CASE PersistRefreshed(t)
    BY <2>4 DEF PersistRefreshed, Return, Goto, SetHealth, providerVars
  <2>unsynced. CASE PersistRefreshedUnsynced(t)
    BY <2>unsynced DEF PersistRefreshedUnsynced, Goto, SetHealth, flowVars, providerVars
  <2>5. CASE PersistRefreshedFails(t)
    BY <2>5 DEF PersistRefreshedFails, LosesSuccessor, HoldsSuccessor,
       Return, Goto, storeVars, flowVars
  <2>6. CASE RemoveStaleToken(t)
    BY <2>6 DEF RemoveStaleToken, Return, Goto, flowVars, providerVars
  <2>7. CASE MarkServerDegraded(t)
    <3>1. CASE t \in SweepTasks
      BY <2>7, <3>1 DEF MarkServerDegraded, Goto, SetHealth, providerVars
    <3>2. CASE t \notin SweepTasks
      BY <2>7, <3>2 DEF MarkServerDegraded, Return, Goto, SetHealth, providerVars
    <3>3. QED
      BY <3>1, <3>2
  <2>8. CASE SweepMarksDegraded(t)
    BY <2>8 DEF SweepMarksDegraded, Return, Goto, SetHealth, providerVars
  <2>9. CASE \/ RefreshAcquire(t) \/ LoadServerRefreshToken(t)
             \/ RefreshFindServer(t) \/ RefreshResolve(t)
            \/ RefreshFailsEarly(t) \/ RefreshRefused(t) \/ RefreshFails(t)
    BY <2>9 DEF RefreshAcquire, Goto, storeVars, flowVars, providerVars,
       LoadServerRefreshToken, RefreshFindServer, RefreshResolve,
       RefreshFailsEarly,
       RefreshRefused, RefreshFails
  <2>10. QED
    BY <2>unsynced, <1>1, <2>1, <2>2, <2>3, <2>4, <2>5, <2>6, <2>7, <2>8, <2>9
       DEF RefreshStep
<1>2. ASSUME NEW t \in Tasks, LoginStep(t) PROVE RotationInv'
  <2>1. ASSUME NEW s \in Servers, LoginBegin(t, s) PROVE RotationInv'
    BY <2>1 DEF LoginBegin, Goto, storeVars, providerVars
  <2>2. CASE ExchangeCode(t)
    <3>1. ASSUME NEW r \in Tokens,
                 status[r] = "unissued",
                 status' = [status EXCEPT ![r] = "live"],
                 issuer' = [issuer EXCEPT ![r] = srv[t]],
                 got' = [got EXCEPT ![t] = r]
          PROVE  RotationInv'
      <4>1. /\ issuer[r] = NoServer
            /\ srv[t] \in Servers
            /\ \A s \in Servers : token[s] # r
            /\ \A u \in Tasks : attempted[u] # r /\ (u # t => got[u] # r)
        BY <2>2, <3>1 DEF ExchangeCode
      <4>2. QED
        BY <2>2, <3>1, <4>1 DEF ExchangeCode, Goto, storeVars
    <3>2. CASE got' = [got EXCEPT ![t] = AccessOnly] /\ UNCHANGED providerVars
      BY <2>2, <3>2 DEF ExchangeCode, Goto, storeVars, providerVars
    <3>3. QED
      BY <2>2, <3>1, <3>2 DEF ExchangeCode
  <2>3. CASE LoginEnds(t)
    BY <2>3 DEF LoginEnds, Return, Goto, storeVars, providerVars
  <2>4. CASE PersistLogin(t)
    BY <2>4 DEF PersistLogin, Return, Goto, SetHealth, providerVars
  <2>5. CASE \/ LoginResolve(t) \/ PersistRegisteredClient(t)
    BY <2>5 DEF LoginResolve, Goto, storeVars, flowVars, providerVars,
       PersistRegisteredClient
  <2>6. QED
    BY <1>2, <2>1, <2>2, <2>3, <2>4, <2>5
       DEF LoginStep
<1>3. ASSUME NEW t \in Tasks, ConfigStep(t) PROVE RotationInv'
  <2>1. ASSUME NEW s \in Servers, RemoveServer(t, s) PROVE RotationInv'
    BY <2>1 DEF RemoveServer, Goto, flowVars, providerVars
  <2>2. ASSUME NEW S \in SUBSET Servers, ImportConfig(t, S) PROVE RotationInv'
    BY <2>2 DEF ImportConfig, Goto, flowVars, providerVars
  <2>3. CASE PruneLocks(t)
    BY <2>3 DEF PruneLocks, Return, Goto, storeVars, providerVars
  <2>4. CASE PruneFails(t)
    BY <2>4 DEF PruneFails, Return, Goto, storeVars, providerVars
  <2>5. CASE \/ PruneLoad(t) \/ PruneTokens(t)
    BY <2>5 DEF PruneLoad, Goto, storeVars, providerVars, PruneTokens,
       flowVars
  <2>6. QED
    BY <1>3, <2>1, <2>2, <2>3, <2>4, <2>5
       DEF ConfigStep
<1>4. ASSUME NEW s \in Servers, AddServer(s) PROVE RotationInv'
  BY <1>4 DEF AddServer, flowVars, providerVars
<1>5. ASSUME NEW S \in SUBSET Servers, MarkServersHealthy(S) PROVE RotationInv'
  BY <1>5 DEF MarkServersHealthy, flowVars, providerVars
<1>6. ASSUME NEW r \in Tokens, Revoke(r) PROVE RotationInv'
  BY <1>6 DEF Revoke, storeVars, flowVars
<1>7. ASSUME NEW p \in Procs, Crash(p) \/ Shutdown(p) PROVE RotationInv'
  <2>1. Terminate(p)
    BY <1>7 DEF Crash, Shutdown
  <2>2. QED
    BY <2>1, TerminateFlows, TerminateTokens DEF Terminate, storeVars
<1>8. CASE UNCHANGED vars
  BY <1>8 DEF vars, storeVars, flowVars, providerVars
<1>9. ASSUME NEW t \in Tasks, HangUp(t) \/ HangUpInUpdate(t) PROVE RotationInv'
  <2>1. CASE HangUp(t)
    BY <2>1 DEF HangUp, LosesSuccessor, HoldsSuccessor, Return, Goto, storeVars
  <2>2. CASE HangUpInUpdate(t)
    BY <2>2 DEF HangUpInUpdate, Goto, storeVars, providerVars
  <2>3. QED
    BY <1>9, <2>1, <2>2
<1>10. QED
  BY <1>1, <1>2, <1>3, <1>4, <1>5, <1>6, <1>7, <1>8, <1>9 DEF Next

\* A step keeps every heir if it brings no token into the store, spends none
\* and leaves alone the flows that hold a successor.
LEMMA HeirFrame ==
  ASSUME TokensAssumption,
         SpentTokenHasHeir,
         \A s \in Servers : token'[s] \in {token[s], NoToken},
         \A r \in Tokens : status'[r] = "spent" => status[r] = "spent",
         \A u \in Tasks : HoldsSuccessor(u)
            => pc'[u] = pc[u] /\ got'[u] = got[u] /\ attempted'[u] = attempted[u]
  PROVE  SpentTokenHasHeir'
<1>1. SUFFICES ASSUME NEW s \in Servers, token'[s] \in Tokens,
                      status'[token'[s]] = "spent"
               PROVE  \E u \in Tasks : HoldsSuccessor(u)' /\ attempted'[u] = token'[s]
  BY DEF SpentTokenHasHeir
<1>2. token'[s] = token[s] /\ status[token[s]] = "spent"
  BY <1>1 DEF TokensAssumption
<1>3. PICK u \in Tasks : HoldsSuccessor(u) /\ attempted[u] = token[s]
  BY <1>1, <1>2 DEF SpentTokenHasHeir
<1>4. QED
  BY <1>2, <1>3 DEF HoldsSuccessor

\* A stored token that was spent has an heir on its way.
LEMMA HeirNext ==
  TypeOK /\ LocalsInv /\ IssuerInv /\ FreshInv /\ RotationInv /\
    SpentTokenHasHeir /\ [Next]_vars => SpentTokenHasHeir'
<1> SUFFICES ASSUME TypeOK, LocalsInv, IssuerInv, FreshInv, RotationInv,
                 SpentTokenHasHeir, [Next]_vars PROVE SpentTokenHasHeir'
  OBVIOUS
<1> USE ServersAssumption, TasksAssumption, TokensAssumption, LocksAssumption
    DEF TypeOK, LocalsInv, IssuerInv, SpentTokenHasHeir, HoldsSuccessor, Honoured,
        Statuses, Steps, Refreshing, Critical, LoginSteps,
        PruneSteps, Late
<1>1. ASSUME NEW t \in Tasks, RefreshStep(t) PROVE SpentTokenHasHeir'
  <2>1. ASSUME NEW s \in Servers, RefreshBegin(t, s) PROVE SpentTokenHasHeir'
    BY <2>1 DEF RefreshBegin, Goto, storeVars, providerVars
  <2>2. CASE LoadServerRefreshToken(t)
    BY <2>2 DEF LoadServerRefreshToken, Goto, storeVars, providerVars
  <2>3. CASE RefreshGranted(t)
    <3>1. CASE srv[t] \in Rotates
      <4>1. PICK r \in Tokens :
              /\ status[r] = "unissued"
              /\ status' = [status EXCEPT ![attempted[t]] = "spent",
                                          ![r] = "live"]
              /\ issuer' = [issuer EXCEPT ![r] = srv[t]]
              /\ got' = [got EXCEPT ![t] = r]
        BY <2>3, <3>1 DEF RefreshGranted
      <4>2. /\ r # attempted[t]
            /\ attempted[t] \in Tokens
            /\ issuer[r] = NoServer
            /\ srv[t] \in Servers
            /\ \A s \in Servers : token[s] # r
            /\ \A u \in Tasks : attempted[u] # r /\ (u # t => got[u] # r)
        BY <2>3, <4>1 DEF RefreshGranted
      <4>3. /\ token' = token
            /\ HoldsSuccessor(t)'
            /\ attempted' = attempted
            /\ \A u \in Tasks : HoldsSuccessor(u) => HoldsSuccessor(u)'
        BY <2>3, <3>1, <4>1, <4>2 DEF RefreshGranted, Goto, storeVars
      <4>4. ASSUME NEW s \in Servers, token[s] \in Tokens,
                   status'[token[s]] = "spent"
            PROVE  \E u \in Tasks : HoldsSuccessor(u)' /\ attempted[u] = token[s]
        <5>1. CASE token[s] = attempted[t]
          BY <4>3, <5>1
        <5>2. CASE token[s] # attempted[t]
          <6>1. status[token[s]] = "spent"
            BY <4>1, <4>4, <5>2
          <6>2. QED
            BY <4>3, <4>4, <6>1
        <5>3. QED
          BY <5>1, <5>2
      <4>5. QED
        BY <4>3, <4>4
    <3>2. CASE srv[t] \notin Rotates
      BY <2>3, <3>2 DEF RefreshGranted, Goto, storeVars, providerVars
    <3>3. QED
      BY <3>1, <3>2
  <2>4. CASE RefreshAnswerLost(t)
    BY <2>4 DEF RefreshAnswerLost, Goto, storeVars, flowVars
  <2>5. CASE PersistRefreshed(t)
    <3>1. srv[t] \in Servers /\ got[t] \in Tokens /\ attempted[t] \in Tokens
      BY <2>5 DEF PersistRefreshed
    <3>2. status[got[t]] # "spent"
      BY <2>5, <3>1 DEF PersistRefreshed, FreshInv, Fresh, RotationInv
    <3>3. ASSUME NEW s \in Servers, token'[s] \in Tokens,
                 status'[token'[s]] = "spent"
          PROVE  \E u \in Tasks : HoldsSuccessor(u)' /\ attempted'[u] = token'[s]
      <4>1. s # srv[t] /\ token'[s] = token[s]
        BY <2>5, <3>1, <3>2, <3>3 DEF PersistRefreshed, providerVars
      <4>2. PICK u \in Tasks : HoldsSuccessor(u) /\ attempted[u] = token[s]
        BY <2>5, <3>3, <4>1 DEF PersistRefreshed, providerVars
      <4>3. u # t
        BY <3>1, <4>1, <4>2, <3>3
      <4>4. QED
        BY <2>5, <4>1, <4>2, <4>3 DEF PersistRefreshed, Return, Goto
    <3>4. QED
      BY <3>3
  <2>unsynced. CASE PersistRefreshedUnsynced(t)
    <3>1. srv[t] \in Servers /\ got[t] \in Tokens /\ attempted[t] \in Tokens
      BY <2>unsynced DEF PersistRefreshedUnsynced
    <3>2. status[got[t]] # "spent"
      <4>1. CASE got[t] # attempted[t]
        BY <2>unsynced, <3>1, <4>1 DEF PersistRefreshedUnsynced, FreshInv, Fresh
      <4>2. CASE got[t] = attempted[t]
        BY <2>unsynced, <3>1, <4>2 DEF PersistRefreshedUnsynced, RotationInv
      <4>3. QED
        BY <4>1, <4>2
    <3>3. ASSUME NEW s \in Servers, token'[s] \in Tokens,
                 status'[token'[s]] = "spent"
          PROVE  \E u \in Tasks : HoldsSuccessor(u)' /\ attempted'[u] = token'[s]
      <4>1. s # srv[t] /\ token'[s] = token[s]
        BY <2>unsynced, <3>1, <3>2, <3>3 DEF PersistRefreshedUnsynced, providerVars
      <4>2. PICK u \in Tasks : HoldsSuccessor(u) /\ attempted[u] = token[s]
        BY <2>unsynced, <3>3, <4>1 DEF PersistRefreshedUnsynced, providerVars
      <4>3. u # t
        BY <3>1, <4>1, <4>2, <3>3
      <4>4. QED
        BY <2>unsynced, <4>1, <4>2, <4>3 DEF PersistRefreshedUnsynced, Goto, flowVars
    <3>4. QED
      BY <3>3
  <2>6. CASE PersistRefreshedFails(t)
    BY <2>6 DEF PersistRefreshedFails, LosesSuccessor, HoldsSuccessor,
       Return, Goto, storeVars, flowVars
  <2>7. CASE RemoveStaleToken(t)
    <3>1. /\ \A s \in Servers : token'[s] \in {token[s], NoToken}
          /\ \A u \in Tasks : HoldsSuccessor(u) => /\ pc'[u] = pc[u]
                                                   /\ got'[u] = got[u]
                                                   /\ attempted'[u] = attempted[u]
          /\ status' = status
      BY <2>7 DEF RemoveStaleToken, Return, Goto, flowVars, providerVars
    <3>2. QED
      BY <3>1, HeirFrame
  <2>8. CASE MarkServerDegraded(t)
    <3>1. /\ \A s \in Servers : token'[s] \in {token[s], NoToken}
          /\ \A u \in Tasks : HoldsSuccessor(u) => /\ pc'[u] = pc[u]
                                                   /\ got'[u] = got[u]
                                                   /\ attempted'[u] = attempted[u]
          /\ status' = status
      BY <2>8 DEF MarkServerDegraded, Return, Goto, SetHealth, providerVars
    <3>2. QED
      BY <3>1, HeirFrame
  <2>9. CASE SweepMarksDegraded(t)
    <3>1. /\ \A s \in Servers : token'[s] \in {token[s], NoToken}
          /\ \A u \in Tasks : HoldsSuccessor(u) => /\ pc'[u] = pc[u]
                                                   /\ got'[u] = got[u]
                                                   /\ attempted'[u] = attempted[u]
          /\ status' = status
      BY <2>9 DEF SweepMarksDegraded, Return, Goto, SetHealth, providerVars
    <3>2. QED
      BY <3>1, HeirFrame
  <2>10. CASE \/ RefreshAcquire(t) \/ RefreshFindServer(t) \/ RefreshResolve(t)
              \/ RefreshFailsEarly(t)
            \/ RefreshRefused(t) \/ RefreshFails(t)
    <3>1. /\ \A s \in Servers : token'[s] \in {token[s], NoToken}
          /\ \A u \in Tasks : HoldsSuccessor(u) => /\ pc'[u] = pc[u]
                                                   /\ got'[u] = got[u]
                                                   /\ attempted'[u] = attempted[u]
          /\ status' = status
      BY <2>10 DEF RefreshAcquire, Goto, storeVars, flowVars, providerVars,
         RefreshFindServer, RefreshResolve, RefreshFailsEarly, RefreshRefused,
         RefreshFails
    <3>2. QED
      BY <3>1, HeirFrame
  <2>11. QED
    BY <2>unsynced, <1>1, <2>1, <2>2, <2>3, <2>4, <2>5, <2>6, <2>7, <2>8, <2>9, <2>10
       DEF RefreshStep
<1>2. ASSUME NEW t \in Tasks, LoginStep(t) PROVE SpentTokenHasHeir'
  <2>1. ASSUME NEW s \in Servers, LoginBegin(t, s) PROVE SpentTokenHasHeir'
    BY <2>1 DEF LoginBegin, Goto, storeVars, providerVars
  <2>2. CASE ExchangeCode(t)
    <3>1. ASSUME NEW r \in Tokens,
                 status[r] = "unissued",
                 status' = [status EXCEPT ![r] = "live"],
                 issuer' = [issuer EXCEPT ![r] = srv[t]],
                 got' = [got EXCEPT ![t] = r]
          PROVE  SpentTokenHasHeir'
      <4>1. /\ \A s \in Servers : token'[s] \in {token[s], NoToken}
            /\ \A u \in Tasks : HoldsSuccessor(u) => /\ pc'[u] = pc[u]
                                                     /\ got'[u] = got[u]
                                                     /\ attempted'[u] = attempted[u]
        BY <2>2, <3>1 DEF ExchangeCode, Goto, storeVars
      <4>2. \A x \in Tokens : status'[x] = "spent" => status[x] = "spent"
        BY <3>1
      <4>3. QED
        BY <4>1, <4>2, HeirFrame
    <3>2. CASE got' = [got EXCEPT ![t] = AccessOnly] /\ UNCHANGED providerVars
      BY <2>2, <3>2 DEF ExchangeCode, Goto, storeVars, providerVars
    <3>3. QED
      BY <2>2, <3>1, <3>2 DEF ExchangeCode
  <2>3. CASE LoginEnds(t)
    <3>1. /\ \A s \in Servers : token'[s] \in {token[s], NoToken}
          /\ \A u \in Tasks : HoldsSuccessor(u) => /\ pc'[u] = pc[u]
                                                   /\ got'[u] = got[u]
                                                   /\ attempted'[u] = attempted[u]
          /\ status' = status
      BY <2>3 DEF LoginEnds, Return, Goto, storeVars, providerVars
    <3>2. QED
      BY <3>1, HeirFrame
  <2>4. CASE PersistLogin(t)
    <3>1. got[t] \in Tokens => status[got[t]] # "spent"
      BY <2>4 DEF PersistLogin, FreshInv, Fresh
    <3>2. ASSUME NEW s \in Servers, token'[s] \in Tokens,
                 status'[token'[s]] = "spent"
          PROVE  \E u \in Tasks : HoldsSuccessor(u)' /\ attempted'[u] = token'[s]
      <4>1. token'[s] = token[s]
        BY <2>4, <3>1, <3>2 DEF PersistLogin, providerVars
      <4>2. PICK u \in Tasks : HoldsSuccessor(u) /\ attempted[u] = token[s]
        BY <2>4, <3>2, <4>1 DEF PersistLogin, providerVars
      <4>3. QED
        BY <2>4, <4>1, <4>2 DEF PersistLogin, Return, Goto
    <3>3. QED
      BY <3>2
  <2>5. CASE \/ LoginResolve(t) \/ PersistRegisteredClient(t)
    <3>1. /\ \A s \in Servers : token'[s] \in {token[s], NoToken}
          /\ \A u \in Tasks : HoldsSuccessor(u) => /\ pc'[u] = pc[u]
                                                   /\ got'[u] = got[u]
                                                   /\ attempted'[u] = attempted[u]
          /\ status' = status
      BY <2>5 DEF LoginResolve, Goto, storeVars, flowVars, providerVars,
         PersistRegisteredClient
    <3>2. QED
      BY <3>1, HeirFrame
  <2>6. QED
    BY <1>2, <2>1, <2>2, <2>3, <2>4, <2>5
       DEF LoginStep
<1>3. ASSUME NEW t \in Tasks, ConfigStep(t) PROVE SpentTokenHasHeir'
  <2>1. ASSUME NEW s \in Servers, RemoveServer(t, s) PROVE SpentTokenHasHeir'
    BY <2>1 DEF RemoveServer, Goto, flowVars, providerVars
  <2>2. ASSUME NEW S \in SUBSET Servers, ImportConfig(t, S) PROVE SpentTokenHasHeir'
    BY <2>2 DEF ImportConfig, Goto, flowVars, providerVars
  <2>3. CASE PruneTokens(t)
    <3>1. /\ \A s \in Servers : token'[s] \in {token[s], NoToken}
          /\ \A u \in Tasks : HoldsSuccessor(u) => /\ pc'[u] = pc[u]
                                                   /\ got'[u] = got[u]
                                                   /\ attempted'[u] = attempted[u]
          /\ status' = status
      BY <2>3 DEF PruneTokens, Goto, flowVars, providerVars
    <3>2. QED
      BY <3>1, HeirFrame
  <2>4. CASE PruneLocks(t)
    <3>1. /\ \A s \in Servers : token'[s] \in {token[s], NoToken}
          /\ \A u \in Tasks : HoldsSuccessor(u) => /\ pc'[u] = pc[u]
                                                   /\ got'[u] = got[u]
                                                   /\ attempted'[u] = attempted[u]
          /\ status' = status
      BY <2>4 DEF PruneLocks, Return, Goto, storeVars, providerVars
    <3>2. QED
      BY <3>1, HeirFrame
  <2>5. CASE PruneFails(t)
    <3>1. /\ \A s \in Servers : token'[s] \in {token[s], NoToken}
          /\ \A u \in Tasks : HoldsSuccessor(u) => /\ pc'[u] = pc[u]
                                                   /\ got'[u] = got[u]
                                                   /\ attempted'[u] = attempted[u]
          /\ status' = status
      BY <2>5 DEF PruneFails, Return, Goto, storeVars, providerVars
    <3>2. QED
      BY <3>1, HeirFrame
  <2>6. CASE \/ PruneLoad(t)
    <3>1. /\ \A s \in Servers : token'[s] \in {token[s], NoToken}
          /\ \A u \in Tasks : HoldsSuccessor(u) => /\ pc'[u] = pc[u]
                                                   /\ got'[u] = got[u]
                                                   /\ attempted'[u] = attempted[u]
          /\ status' = status
      BY <2>6 DEF PruneLoad, Goto, storeVars, providerVars
    <3>2. QED
      BY <3>1, HeirFrame
  <2>7. QED
    BY <1>3, <2>1, <2>2, <2>3, <2>4, <2>5, <2>6
       DEF ConfigStep
<1>4. ASSUME NEW s \in Servers, AddServer(s) PROVE SpentTokenHasHeir'
  BY <1>4 DEF AddServer, flowVars, providerVars
<1>5. ASSUME NEW S \in SUBSET Servers, MarkServersHealthy(S) PROVE SpentTokenHasHeir'
  BY <1>5 DEF MarkServersHealthy, flowVars, providerVars
<1>6. ASSUME NEW r \in Tokens, Revoke(r) PROVE SpentTokenHasHeir'
  BY <1>6 DEF Revoke, storeVars, flowVars
<1>7. ASSUME NEW p \in Procs, Crash(p) \/ Shutdown(p) PROVE SpentTokenHasHeir'
  <2>1. Terminate(p)
    BY <1>7 DEF Crash, Shutdown
  <2>2. QED
    BY <2>1, TerminateFlows, TerminateTokens DEF Terminate, storeVars
<1>8. CASE UNCHANGED vars
  BY <1>8 DEF vars, storeVars, flowVars, providerVars
<1>9. ASSUME NEW t \in Tasks, HangUp(t) \/ HangUpInUpdate(t) PROVE SpentTokenHasHeir'
  <2>1. CASE HangUp(t)
    <3>1. /\ token' = token
          /\ \A u \in Tasks \ {t} : HoldsSuccessor(u) =>
               HoldsSuccessor(u)' /\ attempted'[u] = attempted[u]
      BY <2>1 DEF HangUp, Return, Goto, storeVars
    <3>2. ASSUME NEW s \in Servers, token[s] \in Tokens,
                 status'[token[s]] = "spent"
          PROVE  \E u \in Tasks : HoldsSuccessor(u)' /\ attempted'[u] = token[s]
      <4>1. /\ status[token[s]] = "spent"
            /\ ~(HoldsSuccessor(t) /\ attempted[t] = token[s])
        BY <2>1, <3>2 DEF HangUp, LosesSuccessor
      <4>2. QED
        <5>1. PICK u \in Tasks : HoldsSuccessor(u) /\ attempted[u] = token[s]
          BY <3>2, <4>1
        <5>2. u \in Tasks \ {t}
          BY <4>1, <5>1
        <5>3. HoldsSuccessor(u)' /\ attempted'[u] = token[s]
          BY <3>1, <5>1, <5>2
        <5>4. QED
          BY <5>3
    <3>3. QED
      BY <3>1, <3>2
  <2>2. CASE HangUpInUpdate(t)
    <3>1. UNCHANGED <<token, status, attempted, got>>
      BY <2>2 DEF HangUpInUpdate, storeVars, providerVars
    <3>2. ASSUME NEW u \in Tasks, HoldsSuccessor(u) PROVE HoldsSuccessor(u)'
      <4>1. u # t => pc'[u] = pc[u]
        BY <2>2 DEF HangUpInUpdate, Goto
      <4>2. pc[t] = "persisting" => pc'[t] = "lateStore"
        BY <2>2 DEF HangUpInUpdate, Goto
      <4>3. pc[t] # "lateStore"
        BY <2>2 DEF HangUpInUpdate
      <4>4. QED
        BY <3>1, <3>2, <4>1, <4>2, <4>3
    <3>3. QED
      BY <3>1, <3>2
  <2>3. QED
    BY <1>9, <2>1, <2>2
<1>10. QED
  BY <1>1, <1>2, <1>3, <1>4, <1>5, <1>6, <1>7, <1>8, <1>9 DEF Next

\* The token a cleanup compares with is dead.
LEMMA CleanupInvNext ==
  TypeOK /\ LocalsInv /\ IssuerInv /\ CleanupInv /\ [Next]_vars =>
    CleanupInv'
<1> SUFFICES ASSUME TypeOK, LocalsInv, IssuerInv, CleanupInv, [Next]_vars
                 PROVE CleanupInv'
  OBVIOUS
<1> USE ServersAssumption, TasksAssumption, TokensAssumption, LocksAssumption
    DEF TypeOK, LocalsInv, IssuerInv, CleanupInv, Honoured, Statuses, Steps,
       Refreshing, Critical, LoginSteps,
        PruneSteps, Late
<1>1. ASSUME NEW t \in Tasks, RefreshStep(t) PROVE CleanupInv'
  <2>1. ASSUME NEW s \in Servers, RefreshBegin(t, s) PROVE CleanupInv'
    BY <2>1 DEF RefreshBegin, Goto, storeVars, providerVars
  <2>2. CASE RefreshGranted(t)
    <3>1. SUFFICES ASSUME NEW u \in Tasks, pc'[u] \in {"cleanup", "lateRemove"}
                   PROVE  status'[attempted'[u]] \notin {"live", "unissued"}
      BY DEF CleanupInv
    <3>2. /\ u # t /\ attempted'[u] = attempted[u] /\ attempted[u] \in Tokens
          /\ status[attempted[u]] \notin {"live", "unissued"}
      BY <2>2, <3>1 DEF RefreshGranted, Goto
    <3>3. \A x \in Tokens : status[x] # "unissued" =>
             status'[x] \in {status[x], "spent"}
      BY <2>2 DEF RefreshGranted, providerVars
    <3>4. QED
      BY <3>2, <3>3
  <2>3. CASE RefreshAnswerLost(t)
    BY <2>3 DEF RefreshAnswerLost, Goto, storeVars, flowVars
  <2>4. CASE RefreshRefused(t)
    BY <2>4 DEF RefreshRefused, Goto, storeVars, flowVars, providerVars
  <2>5. CASE PersistRefreshed(t)
    BY <2>5 DEF PersistRefreshed, Return, Goto, SetHealth, providerVars
  <2>unsynced. CASE PersistRefreshedUnsynced(t)
    BY <2>unsynced DEF PersistRefreshedUnsynced, Goto, SetHealth, flowVars, providerVars
  <2>6. CASE PersistRefreshedFails(t)
    BY <2>6 DEF PersistRefreshedFails, LosesSuccessor, HoldsSuccessor,
       Return, Goto, storeVars, flowVars
  <2>7. CASE RemoveStaleToken(t)
    BY <2>7 DEF RemoveStaleToken, Return, Goto, flowVars, providerVars
  <2>8. CASE MarkServerDegraded(t)
    <3>1. CASE t \in SweepTasks
      BY <2>8, <3>1 DEF MarkServerDegraded, Goto, SetHealth, providerVars
    <3>2. CASE t \notin SweepTasks
      BY <2>8, <3>2 DEF MarkServerDegraded, Return, Goto, SetHealth, providerVars
    <3>3. QED
      BY <3>1, <3>2
  <2>9. CASE SweepMarksDegraded(t)
    BY <2>9 DEF SweepMarksDegraded, Return, Goto, SetHealth, providerVars
  <2>10. CASE \/ RefreshAcquire(t) \/ LoadServerRefreshToken(t)
              \/ RefreshFindServer(t) \/ RefreshResolve(t)
            \/ RefreshFailsEarly(t) \/ RefreshFails(t)
    BY <2>10 DEF RefreshAcquire, Goto, storeVars, flowVars, providerVars,
       LoadServerRefreshToken, RefreshFindServer, RefreshResolve,
       RefreshFailsEarly,
       RefreshFails
  <2>11. QED
    BY <2>unsynced, <1>1, <2>1, <2>2, <2>3, <2>4, <2>5, <2>6, <2>7, <2>8, <2>9, <2>10
       DEF RefreshStep
<1>2. ASSUME NEW t \in Tasks, LoginStep(t) PROVE CleanupInv'
  <2>1. ASSUME NEW s \in Servers, LoginBegin(t, s) PROVE CleanupInv'
    BY <2>1 DEF LoginBegin, Goto, storeVars, providerVars
  <2>2. CASE ExchangeCode(t)
    BY <2>2 DEF ExchangeCode, Goto, storeVars, providerVars
  <2>3. CASE LoginEnds(t)
    BY <2>3 DEF LoginEnds, Return, Goto, storeVars, providerVars
  <2>4. CASE PersistLogin(t)
    BY <2>4 DEF PersistLogin, Return, Goto, SetHealth, providerVars
  <2>5. CASE \/ LoginResolve(t) \/ PersistRegisteredClient(t)
    BY <2>5 DEF LoginResolve, Goto, storeVars, flowVars, providerVars,
       PersistRegisteredClient
  <2>6. QED
    BY <1>2, <2>1, <2>2, <2>3, <2>4, <2>5
       DEF LoginStep
<1>3. ASSUME NEW t \in Tasks, ConfigStep(t) PROVE CleanupInv'
  <2>1. ASSUME NEW s \in Servers, RemoveServer(t, s) PROVE CleanupInv'
    BY <2>1 DEF RemoveServer, Goto, flowVars, providerVars
  <2>2. ASSUME NEW S \in SUBSET Servers, ImportConfig(t, S) PROVE CleanupInv'
    BY <2>2 DEF ImportConfig, Goto, flowVars, providerVars
  <2>3. CASE PruneLocks(t)
    BY <2>3 DEF PruneLocks, Return, Goto, storeVars, providerVars
  <2>4. CASE PruneFails(t)
    BY <2>4 DEF PruneFails, Return, Goto, storeVars, providerVars
  <2>5. CASE \/ PruneLoad(t) \/ PruneTokens(t)
    BY <2>5 DEF PruneLoad, Goto, storeVars, providerVars, PruneTokens,
       flowVars
  <2>6. QED
    BY <1>3, <2>1, <2>2, <2>3, <2>4, <2>5
       DEF ConfigStep
<1>4. ASSUME NEW s \in Servers, AddServer(s) PROVE CleanupInv'
  BY <1>4 DEF AddServer, flowVars, providerVars
<1>5. ASSUME NEW S \in SUBSET Servers, MarkServersHealthy(S) PROVE CleanupInv'
  BY <1>5 DEF MarkServersHealthy, flowVars, providerVars
<1>6. ASSUME NEW r \in Tokens, Revoke(r) PROVE CleanupInv'
  BY <1>6 DEF Revoke, storeVars, flowVars
<1>7. ASSUME NEW p \in Procs, Crash(p) \/ Shutdown(p) PROVE CleanupInv'
  <2>1. Terminate(p)
    BY <1>7 DEF Crash, Shutdown
  <2>2. QED
    BY <2>1, TerminateFlows, TerminateTokens DEF Terminate, storeVars
<1>8. CASE UNCHANGED vars
  BY <1>8 DEF vars, storeVars, flowVars, providerVars
<1>9. ASSUME NEW t \in Tasks, HangUp(t) \/ HangUpInUpdate(t) PROVE CleanupInv'
  <2>1. CASE HangUp(t)
    BY <2>1 DEF HangUp, LosesSuccessor, HoldsSuccessor, Return, Goto, storeVars
  <2>2. CASE HangUpInUpdate(t)
    BY <2>2 DEF HangUpInUpdate, Goto, storeVars, providerVars
  <2>3. QED
    BY <1>9, <2>1, <2>2
<1>10. QED
  BY <1>1, <1>2, <1>3, <1>4, <1>5, <1>6, <1>7, <1>8, <1>9 DEF Next

\* Within one process, the token a refresh loaded is not spent by another.
LEMMA ReplayInvNext ==
  TypeOK /\ LocalsInv /\ SingleFlight /\ IssuerInv /\ SpentTokenHasHeir /\
    ReplayInv /\ [Next]_vars => ReplayInv'
<1> SUFFICES ASSUME TypeOK, LocalsInv, SingleFlight, IssuerInv,
                 SpentTokenHasHeir, ReplayInv, [Next]_vars PROVE ReplayInv'
  OBVIOUS
<1> USE ServersAssumption, TasksAssumption, TokensAssumption, LocksAssumption
    DEF TypeOK, LocalsInv, SingleFlight, IssuerInv, SpentTokenHasHeir, ReplayInv,
        OneProcess, HoldsSuccessor, Honoured, Statuses, Steps, Refreshing, Critical, LoginSteps,
        PruneSteps, Late
<1>1. ASSUME NEW t \in Tasks, RefreshStep(t) PROVE ReplayInv'
  <2>1. ASSUME NEW s \in Servers, RefreshBegin(t, s) PROVE ReplayInv'
    BY <2>1 DEF RefreshBegin, Goto, storeVars, providerVars
  <2>2. CASE LoadServerRefreshToken(t)
    BY <2>2 DEF LoadServerRefreshToken, Goto, storeVars, providerVars
  <2>3. CASE RefreshFindServer(t) \/ RefreshResolve(t)
    BY <2>3 DEF RefreshFindServer, RefreshResolve, Goto, storeVars, flowVars,
       providerVars
  <2>4. CASE RefreshGranted(t)
    <3>1. SUFFICES ASSUME OneProcess, Requests = {}, NEW u \in Tasks,
                          pc'[u] \in {"resolving", "discovering", "sending"},
                          srv'[u] \in Stable
                   PROVE  status'[attempted'[u]] # "spent"
      BY DEF ReplayInv, OneProcess
    <3>2. /\ u # t /\ pc'[u] = pc[u] /\ srv'[u] = srv[u]
          /\ attempted'[u] = attempted[u] /\ attempted[u] \in Tokens
      BY <2>4, <3>1 DEF RefreshGranted, Goto
    <3>3. attempted[u] # attempted[t]
      BY <2>4, <3>1, <3>2 DEF RefreshGranted
    <3>4. status[attempted[u]] # "spent"
      BY <3>1, <3>2
    <3>5. QED
      BY <2>4, <3>2, <3>3, <3>4 DEF RefreshGranted, providerVars
  <2>5. CASE RefreshAnswerLost(t)
    BY <2>5 DEF RefreshAnswerLost, Goto, storeVars, flowVars
  <2>6. CASE PersistRefreshed(t)
    BY <2>6 DEF PersistRefreshed, Return, Goto, SetHealth, providerVars
  <2>unsynced. CASE PersistRefreshedUnsynced(t)
    BY <2>unsynced DEF PersistRefreshedUnsynced, Goto, SetHealth, flowVars, providerVars
  <2>7. CASE PersistRefreshedFails(t)
    BY <2>7 DEF PersistRefreshedFails, LosesSuccessor, HoldsSuccessor,
       Return, Goto, storeVars, flowVars
  <2>8. CASE RemoveStaleToken(t)
    BY <2>8 DEF RemoveStaleToken, Return, Goto, flowVars, providerVars
  <2>9. CASE MarkServerDegraded(t)
    <3>1. CASE t \in SweepTasks
      BY <2>9, <3>1 DEF MarkServerDegraded, Goto, SetHealth, providerVars
    <3>2. CASE t \notin SweepTasks
      BY <2>9, <3>2 DEF MarkServerDegraded, Return, Goto, SetHealth, providerVars
    <3>3. QED
      BY <3>1, <3>2
  <2>10. CASE SweepMarksDegraded(t)
    BY <2>10 DEF SweepMarksDegraded, Return, Goto, SetHealth, providerVars
  <2>11. CASE \/ RefreshAcquire(t) \/ RefreshFailsEarly(t) \/ RefreshRefused(t)
            \/ RefreshFails(t)
    BY <2>11 DEF RefreshAcquire, Goto, storeVars, flowVars, providerVars,
       RefreshFailsEarly, RefreshRefused, RefreshFails
  <2>12. QED
    BY <2>unsynced, <1>1, <2>1, <2>2, <2>3, <2>4, <2>5, <2>6, <2>7, <2>8, <2>9, <2>10, <2>11
       DEF RefreshStep
<1>2. ASSUME NEW t \in Tasks, LoginStep(t) PROVE ReplayInv'
  <2>1. ASSUME NEW s \in Servers, LoginBegin(t, s) PROVE ReplayInv'
    BY <2>1 DEF LoginBegin, Goto, storeVars, providerVars
  <2>2. CASE ExchangeCode(t)
    BY <2>2 DEF ExchangeCode, Goto, storeVars, providerVars
  <2>3. CASE LoginEnds(t)
    BY <2>3 DEF LoginEnds, Return, Goto, storeVars, providerVars
  <2>4. CASE PersistLogin(t)
    BY <2>4 DEF PersistLogin, Return, Goto, SetHealth, providerVars
  <2>5. CASE \/ LoginResolve(t) \/ PersistRegisteredClient(t)
    BY <2>5 DEF LoginResolve, Goto, storeVars, flowVars, providerVars,
       PersistRegisteredClient
  <2>6. QED
    BY <1>2, <2>1, <2>2, <2>3, <2>4, <2>5
       DEF LoginStep
<1>3. ASSUME NEW t \in Tasks, ConfigStep(t) PROVE ReplayInv'
  <2>1. ASSUME NEW s \in Servers, RemoveServer(t, s) PROVE ReplayInv'
    BY <2>1 DEF RemoveServer, Goto, flowVars, providerVars
  <2>2. ASSUME NEW S \in SUBSET Servers, ImportConfig(t, S) PROVE ReplayInv'
    BY <2>2 DEF ImportConfig, Goto, flowVars, providerVars
  <2>3. CASE PruneLocks(t)
    BY <2>3 DEF PruneLocks, Return, Goto, storeVars, providerVars
  <2>4. CASE PruneFails(t)
    BY <2>4 DEF PruneFails, Return, Goto, storeVars, providerVars
  <2>5. CASE \/ PruneLoad(t) \/ PruneTokens(t)
    BY <2>5 DEF PruneLoad, Goto, storeVars, providerVars, PruneTokens,
       flowVars
  <2>6. QED
    BY <1>3, <2>1, <2>2, <2>3, <2>4, <2>5
       DEF ConfigStep
<1>4. ASSUME NEW s \in Servers, AddServer(s) PROVE ReplayInv'
  BY <1>4 DEF AddServer, flowVars, providerVars
<1>5. ASSUME NEW S \in SUBSET Servers, MarkServersHealthy(S) PROVE ReplayInv'
  BY <1>5 DEF MarkServersHealthy, flowVars, providerVars
<1>6. ASSUME NEW r \in Tokens, Revoke(r) PROVE ReplayInv'
  BY <1>6 DEF Revoke, storeVars, flowVars
<1>7. ASSUME NEW p \in Procs, Crash(p) \/ Shutdown(p) PROVE ReplayInv'
  <2>1. Terminate(p)
    BY <1>7 DEF Crash, Shutdown
  <2>2. QED
    BY <2>1, TerminateFlows, TerminateTokens DEF Terminate, storeVars
<1>8. CASE UNCHANGED vars
  BY <1>8 DEF vars, storeVars, flowVars, providerVars
<1>9. ASSUME NEW t \in Tasks, HangUp(t) \/ HangUpInUpdate(t) PROVE ReplayInv'
  <2>1. CASE HangUp(t)
    BY <2>1 DEF HangUp, LosesSuccessor, HoldsSuccessor, Return, Goto, storeVars
  <2>2. CASE HangUpInUpdate(t)
    BY <2>2 DEF HangUpInUpdate, Goto, storeVars, providerVars
  <2>3. QED
    BY <1>9, <2>1, <2>2
<1>10. QED
  BY <1>1, <1>2, <1>3, <1>4, <1>5, <1>6, <1>7, <1>8, <1>9 DEF Next

-----------------------------------------------------------------------------
\* IInv holds in the initial states.
LEMMA IInvInit == Init => IInv
<1> SUFFICES ASSUME Init PROVE IInv
  OBVIOUS
<1> USE ServersAssumption, TasksAssumption, TokensAssumption
    DEF Init, Refreshing, Critical, LoginSteps, PruneSteps, Late
<1>1. TypeOK
  BY TypeInit
<1>2. LocalsInv /\ LockInv /\ SingleFlight
  BY DEF LocalsInv, LockInv, SingleFlight
<1>3. IssuerInv /\ FreshInv /\ RotationInv /\ SpentTokenHasHeir
  BY DEF IssuerInv, FreshInv, Fresh, HoldsSuccessor, RotationInv, SpentTokenHasHeir
<1>4. CleanupInv /\ ReplayInv
  BY DEF CleanupInv, ReplayInv
<1>5. QED
  BY <1>1, <1>2, <1>3, <1>4 DEF IInv

\* IInv is inductive: each conjunct from itself and those it leans on.
LEMMA IInvNext == IInv /\ [Next]_vars => IInv'
  BY TypeNext, LocalsInvNext, LockInvNext, SingleFlightNext, IssuerInvNext,
     FreshInvNext, RotationInvNext, HeirNext, CleanupInvNext, ReplayInvNext
     DEF IInv

\* The inductive invariant, for every value of the constants.
THEOREM InductiveInvariant == Spec => []IInv
  BY IInvInit, IInvNext, PTL DEF Spec

\* Every reachable state is well typed.
THEOREM TypeCorrect == Spec => []TypeOK
<1>1. IInv => TypeOK
  BY DEF IInv
<1>2. QED
  BY <1>1, InductiveInvariant, PTL

\* AuthManager::refresh: one refresh per server and process at a time.
THEOREM RefreshIsSingleFlight == Spec => []SingleFlight
<1>1. IInv => SingleFlight
  BY DEF IInv
<1>2. QED
  BY <1>1, InductiveInvariant, PTL

\* refresh_once and callback: a rotated-away token is never written back.
THEOREM SpentTokensHaveHeirs == Spec => []SpentTokenHasHeir
<1>1. IInv => SpentTokenHasHeir
  BY DEF IInv
<1>2. QED
  BY <1>1, InductiveInvariant, PTL

\* The purpose of the refresh lock: no spent token is presented again.
THEOREM NoReplayInOneProcess == Spec => []NoReplay
<1>1. IInv => NoReplay
  BY DEF IInv, ReplayInv, NoReplay
<1>2. QED
  BY <1>1, InductiveInvariant, PTL

\* The steps that write oauth_tokens.
LEMMA TokenWriters ==
  ASSUME Next
  PROVE  \/ UNCHANGED token
         \/ \E t \in Tasks : \/ PersistRefreshed(t) \/ PersistRefreshedUnsynced(t)
                             \/ RemoveStaleToken(t)
                             \/ PersistLogin(t) \/ PruneTokens(t)
<1>1. ASSUME NEW t \in Tasks, RefreshStep(t), ~PersistRefreshed(t),
             ~PersistRefreshedUnsynced(t), ~RemoveStaleToken(t)
      PROVE  UNCHANGED token
  BY <1>1 DEF RefreshStep, RefreshBegin, RefreshAcquire, LoadServerRefreshToken,
     RefreshFindServer, RefreshResolve, RefreshFailsEarly, RefreshGranted, RefreshAnswerLost,
     RefreshRefused, RefreshFails, PersistRefreshedFails, MarkServerDegraded,
     SweepMarksDegraded, storeVars
<1>2. ASSUME NEW t \in Tasks, LoginStep(t), ~PersistLogin(t)
      PROVE  UNCHANGED token
  BY <1>2 DEF LoginStep, LoginBegin, LoginResolve, PersistRegisteredClient,
     ExchangeCode, LoginEnds, storeVars
<1>3. ASSUME NEW t \in Tasks, ConfigStep(t), ~PruneTokens(t)
      PROVE  UNCHANGED token
  BY <1>3 DEF ConfigStep, RemoveServer, ImportConfig, PruneLoad, PruneLocks,
     PruneFails, storeVars
<1>4. ASSUME \/ \E s \in Servers : AddServer(s)
             \/ \E S \in SUBSET Servers : MarkServersHealthy(S)
             \/ \E r \in Tokens : Revoke(r)
             \/ \E p \in Procs : Crash(p) \/ Shutdown(p)
             \/ \E t \in Tasks : HangUp(t) \/ HangUpInUpdate(t)
      PROVE  UNCHANGED token
  BY <1>4 DEF AddServer, MarkServersHealthy, Revoke, Crash, Shutdown, Terminate,
     HangUp, HangUpInUpdate, storeVars
<1>5. QED
  BY <1>1, <1>2, <1>3, <1>4 DEF Next

\* remove_oauth_token_if_refresh_token_matches and its callers: a stable
\* server loses its stored refresh token only when the provider refuses it.
THEOREM LiveTokensKept == Spec => LiveTokenNeverDropped
<1>1. ASSUME IInv, [Next]_vars, NEW s \in Stable,
             token[s] \in Tokens, token'[s] = NoToken
      PROVE  status[token[s]] # "live"
  <2> USE <1>1, ServersAssumption, TokensAssumption DEF IInv, TypeOK
  <2>1. Next
    BY DEF vars, storeVars
  <2>2. PICK t \in Tasks : \/ PersistRefreshed(t) \/ PersistRefreshedUnsynced(t)
                           \/ RemoveStaleToken(t)
                           \/ PersistLogin(t) \/ PruneTokens(t)
    BY <2>1, TokenWriters
  <2>3. CASE PersistRefreshed(t) \/ PersistRefreshedUnsynced(t)
    BY <2>3 DEF PersistRefreshed, PersistRefreshedUnsynced, LocalsInv
  <2>4. CASE RemoveStaleToken(t)
    BY <2>4 DEF RemoveStaleToken, CleanupInv
  <2>5. CASE PersistLogin(t)
    BY <2>5 DEF PersistLogin, LocalsInv
  <2>6. CASE PruneTokens(t)
    BY <2>6 DEF PruneTokens, LocalsInv
  <2>7. QED
    BY <2>2, <2>3, <2>4, <2>5, <2>6
<1>2. IInv /\ [Next]_vars =>
        [\A s \in Stable : (token[s] \in Tokens /\ token'[s] = NoToken)
                           => status[token[s]] # "live"]_vars
  BY <1>1
<1>3. QED
  BY <1>2, InductiveInvariant, PTL DEF Spec, LiveTokenNeverDropped

\* Only PruneTokens takes a health entry or a registered client away.
LEMMA EntriesKept ==
  ASSUME TypeOK, Next, NEW s \in Servers
  PROVE  \/ \E t \in Tasks : PruneTokens(t)
         \/ /\ health[s] # "none" => health'[s] # "none"
            /\ clients \subseteq clients'
<1> USE DEF TypeOK, storeVars, SetHealth
<1>1. ASSUME NEW t \in Tasks, RefreshStep(t)
      PROVE  (health[s] # "none" => health'[s] # "none") /\ clients' = clients
  <2>1. CASE PersistRefreshed(t) \/ PersistRefreshedUnsynced(t)
    BY <2>1 DEF PersistRefreshed, PersistRefreshedUnsynced
  <2>2. CASE MarkServerDegraded(t)
    BY <2>2 DEF MarkServerDegraded
  <2>3. CASE SweepMarksDegraded(t)
    BY <2>3 DEF SweepMarksDegraded
  <2>4. ASSUME ~PersistRefreshed(t), ~PersistRefreshedUnsynced(t),
               ~MarkServerDegraded(t), ~SweepMarksDegraded(t)
        PROVE  health' = health /\ clients' = clients
    BY <1>1, <2>4 DEF RefreshStep, RefreshBegin, RefreshAcquire,
       LoadServerRefreshToken, RefreshFindServer, RefreshResolve,
       RefreshFailsEarly, RefreshGranted, RefreshAnswerLost, RefreshRefused,
       RefreshFails, PersistRefreshedFails, RemoveStaleToken
  <2>5. QED
    BY <2>1, <2>2, <2>3, <2>4
<1>2. ASSUME NEW t \in Tasks, LoginStep(t)
      PROVE  /\ health[s] # "none" => health'[s] # "none"
             /\ clients \subseteq clients'
  <2>1. CASE PersistLogin(t)
    BY <2>1 DEF PersistLogin
  <2>2. CASE PersistRegisteredClient(t)
    BY <2>2 DEF PersistRegisteredClient
  <2>3. ASSUME ~PersistLogin(t), ~PersistRegisteredClient(t)
        PROVE  health' = health /\ clients' = clients
    BY <1>2, <2>3 DEF LoginStep, LoginBegin, LoginResolve, ExchangeCode, LoginEnds
  <2>4. QED
    BY <2>1, <2>2, <2>3
<1>3. ASSUME NEW t \in Tasks, ConfigStep(t), ~PruneTokens(t)
      PROVE  health' = health /\ clients' = clients
  BY <1>3 DEF ConfigStep, RemoveServer, ImportConfig, PruneLoad, PruneLocks,
     PruneFails
<1>4. ASSUME NEW S \in SUBSET Servers, MarkServersHealthy(S)
      PROVE  (health[s] # "none" => health'[s] # "none") /\ clients' = clients
  BY <1>4 DEF MarkServersHealthy
<1>5. ASSUME \/ \E x \in Servers : AddServer(x)
             \/ \E r \in Tokens : Revoke(r)
             \/ \E p \in Procs : Crash(p) \/ Shutdown(p)
             \/ \E t \in Tasks : HangUp(t) \/ HangUpInUpdate(t)
      PROVE  health' = health /\ clients' = clients
  BY <1>5 DEF AddServer, Revoke, Crash, Shutdown, Terminate, HangUp, HangUpInUpdate
<1>6. QED
  BY <1>1, <1>2, <1>3, <1>4, <1>5 DEF Next

\* prune_orphaned_state: the configuration it loaded earlier still holds every
\* server that stays configured, so their entries survive.
THEOREM PruneSparesConfigured == Spec => PruneSparesStable
<1>1. ASSUME IInv, [Next]_vars, NEW s \in Stable
      PROVE  /\ health[s] # "none" => health'[s] # "none"
             /\ s \in clients => s \in clients'
  <2>1. s \in Servers /\ TypeOK
    BY <1>1, ServersAssumption DEF IInv
  <2>2. CASE Next
    <3>1. CASE \E t \in Tasks : PruneTokens(t)
      <4>1. PICK t \in Tasks : PruneTokens(t)
        BY <3>1
      <4>2. s \in snap[t]
        BY <1>1, <4>1 DEF PruneTokens, IInv, LocalsInv
      <4>3. QED
        BY <2>1, <4>1, <4>2 DEF PruneTokens
    <3>2. QED
      BY <2>1, <2>2, <3>1, EntriesKept
  <2>3. CASE UNCHANGED vars
    BY <2>3 DEF vars, storeVars
  <2>4. QED
    BY <1>1, <2>2, <2>3
<1>2. IInv /\ [Next]_vars =>
        [\A s \in Stable : /\ health[s] # "none" => health'[s] # "none"
                           /\ s \in clients => s \in clients']_vars
  BY <1>1
<1>3. QED
  BY <1>2, InductiveInvariant, PTL DEF Spec, PruneSparesStable
=============================================================================
