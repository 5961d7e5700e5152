----------------------------- MODULE DaemonProofs -----------------------------
(***************************************************************************)
(* Proofs about Daemon, for any number of processes and any timeouts of   *)
(* which the heartbeat interval is the shorter.                           *)
(***************************************************************************)
EXTENDS Daemon, TLAPS

ProcType == [pc : {"off", "check", "spawned", "poll", "run", "stopping", "clearing", "ended"},
             admin : {"none", "bind", "serving", "lost"}, mcp : BOOLEAN, shared : BOOLEAN]

-----------------------------------------------------------------------------
\* The inductive invariant.

\* Only a running process has an admin task; one that shares a daemon has none, and an
\* MCP process that shares none has its own.
ShapeInv ==
  /\ \A p \in Procs : proc[p].admin # "none" => proc[p].pc = "run"
  /\ \A p \in Procs : proc[p].shared =>
       p \in Mcps /\ proc[p].pc = "run" /\ proc[p].admin = "none"
  /\ \A p \in Mcps : proc[p].pc = "run" => proc[p].shared \/ proc[p].admin # "none"

\* The daemon of a process that has not spawned it does not run yet.
NewInv == \A p \in Mcps : proc[p].pc \in {"off", "check"} => proc[Child[p]].pc = "off"

\* Left alone, the daemon that MCP processes share is there, and was never idle for
\* longer than any of them has been silent.
SharedInv ==
  ~ disturbed => \A p \in Mcps : proc[p].shared => Serving # {} /\ idle <= beat[p]

IInv == TypeOK /\ ShapeInv /\ NewInv /\ SharedInv

-----------------------------------------------------------------------------
\* What a step may do to the processes.

\* The step is process p's, or done to it.
OnlyProc(p) == /\ proc' \in [Procs -> ProcType]
               /\ \A q \in Procs \ {p} : proc'[q] = proc[q]

\* What ShapeInv says of process p.
Shaped(p) == /\ proc[p].admin # "none" => proc[p].pc = "run"
             /\ proc[p].shared => p \in Mcps /\ proc[p].pc = "run" /\ proc[p].admin = "none"
             /\ p \in Mcps /\ proc[p].pc = "run" => proc[p].shared \/ proc[p].admin # "none"

LEMMA ProcsTyped == TypeOK => proc \in [Procs -> ProcType]
  BY DEF TypeOK, ProcType

LEMMA ShapeKept ==
  ASSUME ShapeInv, NEW p \in Procs, OnlyProc(p), Shaped(p)'
  PROVE  ShapeInv'
<1>1. ASSUME NEW q \in Procs PROVE Shaped(q)'
  BY DEF ShapeInv, OnlyProc, Shaped
<1> QED
  BY <1>1 DEF ShapeInv, Shaped, Procs

LEMMA NewKept ==
  ASSUME NewInv, NEW p \in Procs, OnlyProc(p), p \in Mcps \/ proc[p].pc # "off",
         proc'[p].pc \in {"off", "check"} => proc[p].pc \in {"off", "check"}
  PROVE  NewInv'
<1>1. ASSUME NEW q \in Mcps, proc'[q].pc \in {"off", "check"} PROVE proc'[Child[q]].pc = "off"
  <2>1. proc[q].pc \in {"off", "check"}
    BY <1>1 DEF OnlyProc, Procs
  <2>2. Child[q] \in Daemons /\ proc[Child[q]].pc = "off"
    BY <2>1, DaemonConstants DEF NewInv
  <2>3. Child[q] # p
    BY <2>2, DaemonConstants
  <2>4. QED
    BY <2>2, <2>3 DEF OnlyProc, Procs
<1> QED
  BY <1>1 DEF NewInv

\* Nobody begins to share or stops to serve, and the admin API is not idle for longer.
LEMMA SharedKept ==
  ASSUME TypeOK, SharedInv, NEW p \in Procs, OnlyProc(p),
         proc'[p].shared => proc[p].shared, Serving \subseteq Serving',
         idle' = idle \/ idle' = 0, UNCHANGED <<beat, disturbed>>
  PROVE  SharedInv'
<1>1. ASSUME ~ disturbed, NEW q \in Mcps, proc'[q].shared PROVE Serving' # {} /\ idle' <= beat'[q]
  <2>1. proc[q].shared /\ beat[q] \in Nat /\ idle \in Nat
    BY <1>1, DaemonConstants DEF OnlyProc, Procs, TypeOK
  <2>2. Serving # {} /\ idle <= beat[q]
    BY <1>1, <2>1 DEF SharedInv
  <2>3. QED
    BY <2>1, <2>2
<1> QED
  BY <1>1 DEF SharedInv

LEMMA ServingKept ==
  ASSUME NEW p \in Procs, OnlyProc(p), proc[p].admin = "serving" => proc'[p].admin = "serving"
  PROVE  Serving \subseteq Serving'
  BY DEF OnlyProc, Serving

\* A process is told to stop.
LEMMA StoppingFacts ==
  ASSUME TypeOK, NEW p \in Procs, proc' = Stopping(p)
  PROVE  /\ OnlyProc(p) /\ Shaped(p)'
         /\ proc'[p].pc = "stopping" /\ ~ proc'[p].shared /\ proc'[p].admin = "none"
<1>1. proc \in [Procs -> ProcType]
  BY ProcsTyped
<1>2. [Off EXCEPT !.pc = "stopping"] \in ProcType
  BY DEF Off, ProcType
<1> QED
  BY <1>1, <1>2 DEF Stopping, OnlyProc, Shaped, Off

-----------------------------------------------------------------------------
LEMMA IInvInit == Init => IInv
<1> SUFFICES ASSUME Init PROVE IInv
  OBVIOUS
<1>1. TypeOK
  <2>1. 0 \in 0 .. IdleTimeout /\ 0 \in 0 .. Heartbeat /\ 0 \in 0 .. MaxEvents
    BY DaemonConstants
  <2>2. Off \in ProcType
    BY DEF Off, ProcType
  <2>3. QED
    BY <2>1, <2>2 DEF Init, TypeOK, ProcType
<1>2. ShapeInv /\ NewInv /\ SharedInv
  BY DaemonConstants DEF Init, ShapeInv, NewInv, SharedInv, Off, Procs
<1> QED
  BY <1>1, <1>2 DEF IInv

\* A step that is p's own: what remains to be shown of it.
LEMMA OwnStepKeeps ==
  ASSUME IInv, NEW p \in Procs, OnlyProc(p), Shaped(p)',
         p \in Mcps \/ proc[p].pc # "off",
         proc'[p].pc \in {"off", "check"} => proc[p].pc \in {"off", "check"},
         idle' \in 0 .. IdleTimeout, beat' \in [Mcps -> 0 .. Heartbeat],
         record' \in Daemons \cup {NoProcess}, disturbed' \in BOOLEAN,
         events' \in 0 .. MaxEvents, UNCHANGED stop, SharedInv'
  PROVE  IInv'
<1>1. ShapeInv' /\ NewInv'
  BY ShapeKept, NewKept DEF IInv
<1>2. TypeOK'
  BY DEF IInv, TypeOK, OnlyProc, ProcType
<1> QED
  BY <1>1, <1>2 DEF IInv

\* The steps before a process runs that leave it without a task: Launch, WriteRecord.
LEMMA StartingKeeps ==
  ASSUME IInv, NEW p \in Mcps, Launch(p) \/ WriteRecord(p)
  PROVE  IInv'
<1>1. proc \in [Procs -> ProcType] /\ p \in Procs /\ Child[p] \in Daemons
  BY ProcsTyped, DaemonConstants DEF IInv, Procs
<1>2. /\ proc[p].pc \in {"off", "spawned"} /\ UNCHANGED <<idle, beat, stop, disturbed, events>>
      /\ record' \in {record, Child[p]}
  BY DEF Launch, WriteRecord
<1>3. /\ OnlyProc(p) /\ proc'[p].pc \in {"check", "poll"}
      /\ proc'[p].pc = "check" => proc[p].pc = "off"
      /\ proc'[p].admin = proc[p].admin /\ proc'[p].shared = proc[p].shared
  BY <1>1 DEF Launch, WriteRecord, OnlyProc, ProcType
<1>4. Shaped(p)'
  BY <1>1, <1>2, <1>3 DEF IInv, ShapeInv, Shaped
<1>5. SharedInv'
  BY <1>1, <1>2, <1>3, SharedKept, ServingKept DEF IInv
<1> QED
  BY <1>1, <1>2, <1>3, <1>4, <1>5, OwnStepKeeps DEF IInv, TypeOK

LEMMA FindHealthyKeeps ==
  ASSUME IInv, NEW p \in Procs, FindHealthy(p)
  PROVE  IInv'
<1>1. proc \in [Procs -> ProcType] /\ p \in Mcps
  BY ProcsTyped DEF IInv, FindHealthy
<1>2. /\ proc[p].pc \in {"check", "poll"} /\ Serving # {} /\ idle' = 0
      /\ beat' = [beat EXCEPT ![p] = Heartbeat]
      /\ UNCHANGED <<record, stop, disturbed, events>>
  BY DEF FindHealthy, StartShared, Touched
<1>3. /\ OnlyProc(p) /\ proc'[p].pc = "run" /\ proc'[p].shared /\ proc'[p].admin = "none"
  BY <1>1 DEF FindHealthy, StartShared, OnlyProc, ProcType
<1>4. Shaped(p)'
  BY <1>1, <1>3 DEF Shaped
<1>5. beat \in [Mcps -> 0 .. Heartbeat] /\ Heartbeat \in Nat /\ IdleTimeout \in Nat
  BY DaemonConstants DEF IInv, TypeOK
<1>6. beat' \in [Mcps -> 0 .. Heartbeat] /\ idle' \in 0 .. IdleTimeout
  <2>1. Heartbeat \in 0 .. Heartbeat /\ 0 \in 0 .. IdleTimeout
    BY <1>5
  <2>2. QED
    BY <1>1, <1>2, <1>5, <2>1
<1>7. SharedInv'
  <2>1. proc[p].admin = "none"
    BY <1>2 DEF IInv, ShapeInv
  <2>2. Serving' # {}
    BY <1>2, <1>3, <2>1, ServingKept
  <2>3. \A q \in Mcps : idle' <= beat'[q]
    BY <1>2, <1>5, <1>6
  <2>4. QED
    BY <2>2, <2>3 DEF SharedInv
<1> QED
  BY <1>1, <1>2, <1>3, <1>4, <1>6, <1>7, OwnStepKeeps DEF IInv, TypeOK

\* Two processes change: the daemon, which is new, starts to run.
LEMMA SpawnDaemonKeeps ==
  ASSUME IInv, NEW p \in Procs, SpawnDaemon(p)
  PROVE  IInv'
<1> DEFINE d == Child[p]
<1>1. /\ proc \in [Procs -> ProcType] /\ p \in Mcps /\ d \in Daemons /\ p # d /\ d \in Procs
      /\ d \notin Mcps
  BY ProcsTyped, DaemonConstants DEF IInv, SpawnDaemon, Procs
<1>2. proc[p].pc = "check" /\ UNCHANGED <<idle, beat, record, stop, disturbed, events>>
  BY DEF SpawnDaemon
<1>3. proc[d].pc = "off"
  BY <1>1, <1>2 DEF IInv, NewInv
<1>4. /\ proc' \in [Procs -> ProcType]
      /\ \A q \in Procs \ {p, d} : proc'[q] = proc[q]
      /\ proc'[p].pc = "spawned" /\ proc'[p].admin = proc[p].admin
      /\ proc'[p].shared = proc[p].shared
      /\ proc'[d].pc = "run" /\ proc'[d].admin = "bind" /\ ~ proc'[d].shared
  BY <1>1 DEF SpawnDaemon, ProcType
<1>5. ShapeInv'
  <2>1. ASSUME NEW q \in Procs PROVE Shaped(q)'
    BY <1>1, <1>2, <1>4 DEF IInv, ShapeInv, Shaped
  <2>2. QED
    BY <2>1 DEF ShapeInv, Shaped, Procs
<1>6. NewInv'
  <2>1. ASSUME NEW q \in Mcps, proc'[q].pc \in {"off", "check"}
        PROVE  proc'[Child[q]].pc = "off"
    <3>1. q # p /\ q # d /\ proc[q].pc \in {"off", "check"}
      BY <1>1, <1>4, <2>1 DEF Procs
    <3>2. Child[q] \in Daemons /\ Child[q] # p /\ Child[q] # d
      BY <1>1, <3>1, DaemonConstants
    <3>3. QED
      BY <1>4, <3>1, <3>2 DEF IInv, NewInv, Procs
  <2>2. QED
    BY <2>1 DEF NewInv
<1>7. SharedInv'
  <2>1. Serving \subseteq Serving'
    BY <1>1, <1>2, <1>3, <1>4 DEF IInv, ShapeInv, Serving
  <2>2. \A q \in Mcps : proc'[q].shared => proc[q].shared
    BY <1>1, <1>4 DEF Procs
  <2>3. QED
    BY <1>2, <2>1, <2>2 DEF IInv, SharedInv
<1>8. TypeOK'
  BY <1>2, <1>4 DEF IInv, TypeOK, ProcType
<1> QED
  BY <1>5, <1>6, <1>7, <1>8 DEF IInv

\* The process hosts the admin API itself.
LEMMA AloneKeeps ==
  ASSUME IInv, NEW p \in Procs, SpawnFails(p) \/ PollTimeout(p)
  PROVE  IInv'
<1>1. proc \in [Procs -> ProcType] /\ p \in Mcps
  BY ProcsTyped DEF IInv, SpawnFails, PollTimeout
<1>2. /\ proc[p].pc \in {"check", "spawned", "poll"} /\ proc' = [proc EXCEPT ![p] = AloneProc]
      /\ UNCHANGED <<idle, beat, stop, disturbed, events>> /\ record' \in {record, NoProcess}
  BY DEF SpawnFails, PollTimeout
<1>3. /\ OnlyProc(p) /\ proc'[p].pc = "run" /\ ~ proc'[p].shared /\ proc'[p].admin = "bind"
  BY <1>1, <1>2 DEF AloneProc, OnlyProc, ProcType
<1>4. Shaped(p)'
  BY <1>3 DEF Shaped
<1>5. SharedInv'
  <2>1. proc[p].admin = "none"
    BY <1>2 DEF IInv, ShapeInv
  <2>2. QED
    BY <1>2, <1>3, <2>1, SharedKept, ServingKept DEF IInv
<1> QED
  BY <1>1, <1>2, <1>3, <1>4, <1>5, OwnStepKeeps DEF IInv, TypeOK

LEMMA BindAdminKeeps ==
  ASSUME IInv, NEW p \in Procs, BindAdmin(p)
  PROVE  IInv'
<1>1. proc \in [Procs -> ProcType]
  BY ProcsTyped DEF IInv
<1>2. /\ proc[p].pc = "run" /\ proc[p].admin = "bind" /\ (idle' = idle \/ idle' = 0)
      /\ UNCHANGED <<beat, record, stop, disturbed, events>>
  BY DEF BindAdmin, Running
<1>3. /\ OnlyProc(p) /\ proc'[p].pc = "run" /\ proc'[p].shared = proc[p].shared
      /\ proc'[p].admin \in {"serving", "lost"}
  BY <1>1, <1>2 DEF BindAdmin, OnlyProc, ProcType
<1>4. ~ proc[p].shared
  BY <1>2 DEF IInv, ShapeInv
<1>5. Shaped(p)'
  BY <1>3, <1>4 DEF Shaped
<1>6. SharedInv'
  BY <1>2, <1>3, SharedKept, ServingKept DEF IInv
<1>7. idle' \in 0 .. IdleTimeout
  BY <1>2, DaemonConstants DEF IInv, TypeOK
<1> QED
  BY <1>2, <1>3, <1>5, <1>6, <1>7, OwnStepKeeps DEF IInv, TypeOK

\* Somebody fails, is interrupted or told to stop by gambi stop: the processes are
\* disturbed from then on.
LEMMA DisturbedKeeps ==
  ASSUME IInv, NEW p \in Procs, proc[p].pc # "off", OnlyProc(p), Shaped(p)',
         proc'[p].pc \notin {"off", "check"}, disturbed' = TRUE,
         events' \in 0 .. MaxEvents, stop' \in {"idle", "posted", "record", "term"},
         UNCHANGED <<idle, beat, record>>
  PROVE  IInv'
<1>1. ShapeInv' /\ NewInv'
  BY ShapeKept, NewKept DEF IInv
<1>2. SharedInv'
  BY DEF SharedInv
<1>3. TypeOK'
  BY DEF IInv, TypeOK, OnlyProc, ProcType
<1> QED
  BY <1>1, <1>2, <1>3 DEF IInv

LEMMA EndedFacts ==
  ASSUME TypeOK, NEW p \in Procs, proc' = [proc EXCEPT ![p] = Ended]
  PROVE  OnlyProc(p) /\ Shaped(p)' /\ proc'[p].pc = "ended"
<1>1. proc \in [Procs -> ProcType]
  BY ProcsTyped
<1>2. Ended \in ProcType
  BY DEF Ended, Off, ProcType
<1> QED
  BY <1>1, <1>2 DEF Ended, OnlyProc, Shaped, Off

LEMMA AdminFailsKeeps ==
  ASSUME IInv, NEW p \in Procs, AdminFails(p)
  PROVE  IInv'
<1>1. /\ proc[p].pc = "run" /\ proc' = Stopping(p) /\ disturbed' = TRUE
      /\ events' \in 0 .. MaxEvents /\ UNCHANGED <<idle, beat, record, stop>>
  BY DaemonConstants DEF AdminFails, Running, IInv, TypeOK
<1> QED
  BY <1>1, StoppingFacts, DisturbedKeeps DEF IInv, TypeOK

LEMMA InterruptKeeps ==
  ASSUME IInv, NEW p \in Procs, Interrupt(p)
  PROVE  IInv'
<1>1. /\ proc[p].pc # "off" /\ disturbed' = TRUE
      /\ proc' = Stopping(p) \/ proc' = [proc EXCEPT ![p] = Ended]
      /\ events' \in 0 .. MaxEvents /\ UNCHANGED <<idle, beat, record, stop>>
  BY DaemonConstants DEF Interrupt, Alive, IInv, TypeOK
<1> QED
  BY <1>1, StoppingFacts, EndedFacts, DisturbedKeeps DEF IInv, TypeOK

LEMMA SendHeartbeatKeeps ==
  ASSUME IInv, NEW p \in Procs, SendHeartbeat(p)
  PROVE  IInv'
<1>1. /\ p \in Mcps /\ beat' = [beat EXCEPT ![p] = 0] /\ idle' = 0
      /\ UNCHANGED <<proc, record, stop, disturbed, events>>
  BY DEF SendHeartbeat, Touched
<1>2. beat \in [Mcps -> 0 .. Heartbeat] /\ Heartbeat \in Nat /\ IdleTimeout \in Nat
  BY DaemonConstants DEF IInv, TypeOK
<1>3. beat' \in [Mcps -> 0 .. Heartbeat] /\ idle' \in 0 .. IdleTimeout
      /\ \A q \in Mcps : idle' <= beat'[q]
  BY <1>1, <1>2
<1>4. SharedInv'
  BY <1>1, <1>3 DEF IInv, SharedInv, Serving
<1>5. TypeOK' /\ ShapeInv' /\ NewInv'
  BY <1>1, <1>3 DEF IInv, TypeOK, ShapeInv, NewInv
<1> QED
  BY <1>4, <1>5 DEF IInv

\* The idle timeout is longer than any shared daemon's silence, so nobody shares it.
LEMMA IdleExitKeeps ==
  ASSUME IInv, NEW p \in Procs, IdleExit(p)
  PROVE  IInv'
<1>1. /\ p \in Serving /\ idle >= IdleTimeout /\ proc' = Stopping(p)
      /\ UNCHANGED <<idle, beat, record, stop, disturbed, events>>
  BY DEF IdleExit
<1>2. proc[p].pc = "run"
  BY <1>1 DEF IInv, ShapeInv, Serving
<1>3. OnlyProc(p) /\ Shaped(p)' /\ proc'[p].pc = "stopping" /\ ~ proc'[p].shared
  BY <1>1, StoppingFacts DEF IInv
<1>4. ASSUME ~ disturbed, NEW q \in Mcps PROVE ~ proc'[q].shared
  <2>1. proc'[q].shared => proc[q].shared
    BY <1>3 DEF OnlyProc, Procs
  <2>2. beat[q] \in 0 .. Heartbeat /\ idle \in 0 .. IdleTimeout
    BY DEF IInv, TypeOK
  <2>3. proc[q].shared => idle <= beat[q]
    BY <1>4 DEF IInv, SharedInv
  <2>4. QED
    BY <1>1, <2>1, <2>2, <2>3, DaemonConstants
<1>5. SharedInv'
  BY <1>1, <1>4 DEF SharedInv
<1> QED
  BY <1>1, <1>2, <1>3, <1>5, OwnStepKeeps DEF IInv, TypeOK

LEMMA McpEndsKeeps ==
  ASSUME IInv, NEW p \in Procs, McpEnds(p)
  PROVE  IInv'
<1>1. proc \in [Procs -> ProcType] /\ p \in Mcps
  BY ProcsTyped DEF IInv, McpEnds
<1>2. proc[p].pc = "run" /\ UNCHANGED <<idle, beat, record, stop, disturbed, events>>
  BY DEF McpEnds, Running
<1>3. CASE proc[p].shared /\ proc' = Stopping(p)
  <2>1. proc[p].admin = "none"
    BY <1>3 DEF IInv, ShapeInv
  <2>2. OnlyProc(p) /\ Shaped(p)' /\ proc'[p].pc = "stopping" /\ ~ proc'[p].shared
    BY <1>3, StoppingFacts DEF IInv
  <2>3. SharedInv'
    BY <1>2, <2>1, <2>2, SharedKept, ServingKept DEF IInv
  <2>4. QED
    BY <1>1, <1>2, <2>2, <2>3, OwnStepKeeps DEF IInv, TypeOK
<1>4. CASE ~ proc[p].shared /\ proc' = [proc EXCEPT ![p].mcp = FALSE]
  <2>1. /\ OnlyProc(p) /\ proc'[p].pc = "run" /\ proc'[p].shared = proc[p].shared
        /\ proc'[p].admin = proc[p].admin
    BY <1>1, <1>2, <1>4 DEF OnlyProc, ProcType
  <2>2. Shaped(p)'
    BY <1>1, <1>2, <2>1 DEF IInv, ShapeInv, Shaped
  <2>3. SharedInv'
    BY <1>2, <2>1, SharedKept, ServingKept DEF IInv
  <2>4. QED
    BY <1>1, <1>2, <2>1, <2>2, <2>3, OwnStepKeeps DEF IInv, TypeOK
<1> QED
  BY <1>3, <1>4 DEF McpEnds

\* A stopping process gets on with it, and has no tasks that would miss it.
LEMMA FinishKeeps ==
  ASSUME IInv, NEW p \in Procs, FinishStop(p) \/ ClearRecord(p)
  PROVE  IInv'
<1>1. proc \in [Procs -> ProcType]
  BY ProcsTyped DEF IInv
<1>2. /\ proc[p].pc \in {"stopping", "clearing"} /\ record' \in {record, NoProcess}
      /\ UNCHANGED <<idle, beat, stop, disturbed, events>>
  BY DEF FinishStop, ClearRecord
<1>3. /\ OnlyProc(p) /\ proc'[p].pc \in {"clearing", "ended"}
      /\ proc'[p].shared = proc[p].shared /\ proc'[p].admin = proc[p].admin
  BY <1>1 DEF FinishStop, ClearRecord, OnlyProc, ProcType
<1>4. Shaped(p)'
  BY <1>2, <1>3 DEF IInv, ShapeInv, Shaped
<1>5. SharedInv'
  BY <1>2, <1>3, SharedKept, ServingKept DEF IInv
<1> QED
  BY <1>2, <1>3, <1>4, <1>5, OwnStepKeeps DEF IInv, TypeOK

\* The visits of the admin page, and the steps of gambi stop that touch no process.
LEMMA QuietKeeps ==
  ASSUME IInv, UNCHANGED <<proc, beat, disturbed>>, idle' = idle \/ idle' = 0,
         record' \in {record, NoProcess}, events' \in 0 .. MaxEvents,
         stop' \in {"idle", "posted", "record", "term"}
  PROVE  IInv'
<1>1. beat \in [Mcps -> 0 .. Heartbeat] /\ idle \in Nat /\ IdleTimeout \in Nat /\ Heartbeat \in Nat
  BY DaemonConstants DEF IInv, TypeOK
<1>2. SharedInv'
  <2>1. \A q \in Mcps : idle <= beat[q] => idle' <= beat'[q]
    BY <1>1
  <2>2. QED
    BY <2>1 DEF IInv, SharedInv, Serving
<1>3. TypeOK' /\ ShapeInv' /\ NewInv'
  BY <1>1 DEF IInv, TypeOK, ShapeInv, NewInv
<1> QED
  BY <1>2, <1>3 DEF IInv

LEMMA StopKeeps ==
  ASSUME IInv, StopPost \/ StopPoll \/ StopByRecord \/ StopTerminated \/ VisitAdmin
  PROVE  IInv'
<1>1. events \in 0 .. MaxEvents /\ MaxEvents \in Nat
  BY DaemonConstants DEF IInv, TypeOK
<1>2. CASE VisitAdmin
  BY <1>1, <1>2, QuietKeeps DEF VisitAdmin, Touched, IInv, TypeOK
<1>3. CASE StopPoll
  BY <1>1, <1>3, QuietKeeps DEF StopPoll, Touched
<1>4. CASE StopTerminated
  BY <1>1, <1>4, QuietKeeps DEF StopTerminated
<1>5. CASE StopPost
  <2>1. events' \in 0 .. MaxEvents
    BY <1>1, <1>5 DEF StopPost
  <2>2. CASE Serving = {}
    BY <1>5, <2>1, <2>2, QuietKeeps DEF StopPost
  <2>3. ASSUME NEW p \in Serving, proc' = Stopping(p), disturbed' = TRUE, stop' = "posted",
               UNCHANGED <<idle, beat, record>>
        PROVE  IInv'
    <3>1. p \in Procs /\ proc[p].pc = "run"
      BY <2>3 DEF IInv, ShapeInv, Serving
    <3>2. QED
      BY <2>1, <2>3, <3>1, StoppingFacts, DisturbedKeeps DEF IInv
  <2>4. QED
    BY <1>5, <2>2, <2>3 DEF StopPost
<1>6. CASE StopByRecord
  <2>1. CASE record = NoProcess \/ ~ Alive(record)
    BY <1>1, <1>6, <2>1, QuietKeeps DEF StopByRecord
  <2>2. CASE ~ (record = NoProcess \/ ~ Alive(record))
    <3>1. /\ record \in Procs /\ proc[record].pc # "off"
      BY <2>2 DEF IInv, TypeOK, Procs, Alive
    <3>2. /\ proc' = [proc EXCEPT ![record] = Ended] /\ disturbed' = TRUE /\ stop' = "term"
          /\ UNCHANGED <<idle, beat, record, events>>
      BY <1>6, <2>2 DEF StopByRecord
    <3>3. QED
      BY <1>1, <3>1, <3>2, EndedFacts, DisturbedKeeps DEF IInv
  <2>3. QED
    BY <2>1, <2>2
<1> QED
  BY <1>2, <1>3, <1>4, <1>5, <1>6

\* The daemon's clock and those of its clients go on together.
LEMMA TickKeeps ==
  ASSUME IInv, Tick
  PROVE  IInv'
<1>1. /\ UNCHANGED <<proc, record, stop, disturbed, events>>
      /\ beat' = [p \in Mcps |-> IF Running(p) /\ proc[p].shared THEN beat[p] + 1 ELSE 0]
      /\ idle' = IF Serving = {} THEN 0 ELSE IF idle < IdleTimeout THEN idle + 1 ELSE idle
      /\ \A p \in Mcps : Running(p) /\ proc[p].shared => beat[p] < Heartbeat
  BY DEF Tick
<1>2. /\ beat \in [Mcps -> 0 .. Heartbeat] /\ idle \in 0 .. IdleTimeout
      /\ Heartbeat \in Nat /\ IdleTimeout \in Nat
  BY DaemonConstants DEF IInv, TypeOK
<1>3. beat' \in [Mcps -> 0 .. Heartbeat] /\ idle' \in 0 .. IdleTimeout /\ idle' <= idle + 1
  BY <1>1, <1>2
<1>4. SharedInv'
  <2>1. ASSUME ~ disturbed, NEW p \in Mcps, proc[p].shared
        PROVE  Serving # {} /\ idle' <= beat'[p]
    <3>1. Serving # {} /\ idle <= beat[p] /\ Running(p)
      BY <2>1 DEF IInv, SharedInv, ShapeInv, Running, Procs
    <3>2. beat'[p] = beat[p] + 1
      BY <1>1, <2>1, <3>1
    <3>3. QED
      BY <1>2, <1>3, <3>1, <3>2
  <2>2. QED
    BY <1>1, <2>1 DEF SharedInv, Serving
<1>5. TypeOK' /\ ShapeInv' /\ NewInv'
  BY <1>1, <1>3 DEF IInv, TypeOK, ShapeInv, NewInv
<1> QED
  BY <1>4, <1>5 DEF IInv

-----------------------------------------------------------------------------
LEMMA IInvNext == IInv /\ [Next]_vars => IInv'
<1> SUFFICES ASSUME IInv, [Next]_vars PROVE IInv'
  OBVIOUS
<1>1. ASSUME NEW p \in Procs, Launch(p) \/ ProcStep(p) PROVE IInv'
  BY <1>1, StartingKeeps, FindHealthyKeeps, SpawnDaemonKeeps, AloneKeeps, BindAdminKeeps,
     IdleExitKeeps, FinishKeeps DEF ProcStep, Launch, WriteRecord
<1>2. ASSUME NEW p \in Procs,
             SpawnFails(p) \/ AdminFails(p) \/ SendHeartbeat(p) \/ McpEnds(p) \/ Interrupt(p)
      PROVE  IInv'
  BY <1>2, AloneKeeps, AdminFailsKeeps, SendHeartbeatKeeps, McpEndsKeeps, InterruptKeeps
<1>3. CASE VisitAdmin \/ StopPost \/ StopPoll \/ StopByRecord \/ StopTerminated
  BY <1>3, StopKeeps
<1>4. CASE Tick
  BY <1>4, TickKeeps
<1>5. CASE UNCHANGED vars
  BY <1>5 DEF vars, IInv, TypeOK, ShapeInv, NewInv, SharedInv, Serving
<1> QED
  BY <1>1, <1>2, <1>3, <1>4, <1>5 DEF Next

\* What holds of the processes of gambi serve in every state, from which the next
\* theorem follows.
THEOREM InductiveInvariant == Spec => []IInv
  BY IInvInit, IInvNext, PTL DEF Spec

\* As long as nobody stops or kills a process, some process refreshes tokens while an
\* MCP process is at work, for any number of processes and any heartbeat interval shorter
\* than the idle timeout (ensure_shared_admin_daemon, run_admin_heartbeat, run_admin).
THEOREM RefreshNeverLost == Spec => []RefreshKept
<1>1. IInv => RefreshKept
  <2> SUFFICES ASSUME IInv, ~ disturbed, NEW p \in Mcps, Running(p), proc[p].mcp
               PROVE  \E q \in Procs : Refreshes(q)
    BY DEF RefreshKept
  <2>1. CASE proc[p].shared
    <3>1. PICK q \in Procs : proc[q].admin = "serving"
      BY <2>1 DEF IInv, SharedInv, Serving
    <3>2. QED
      BY <3>1 DEF IInv, ShapeInv, Refreshes, Running
  <2>2. CASE ~ proc[p].shared
    BY <2>2 DEF IInv, ShapeInv, Refreshes, Running, Procs
  <2>3. QED
    BY <2>1, <2>2
<1> QED
  BY <1>1, InductiveInvariant, PTL
===============================================================================
