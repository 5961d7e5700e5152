-------------------------------- MODULE Daemon --------------------------------
(***************************************************************************)
(* The processes of gambi serve (src/src/server/mod.rs): MCP processes,   *)
(* one per MCP client, and the admin daemons they spawn.  One process at  *)
(* a time can listen on the admin port; the others do without, or share   *)
(* it and keep it alive with heartbeats (src/src/server/admin.rs).  gambi *)
(* stop is that of src/src/cli.rs.  A process that hosts the admin API    *)
(* also runs the token refresh loop of its auth manager.                  *)
(***************************************************************************)
EXTENDS Naturals

CONSTANTS Mcps,        \* processes started by MCP clients: gambi serve
          Daemons,     \* gambi serve --admin-only
          Child,       \* Child[p]: the daemon process p would spawn
          Heartbeat,   \* ADMIN_DAEMON_HEARTBEAT_INTERVAL
          IdleTimeout, \* ADMIN_DAEMON_IDLE_TIMEOUT
          MaxEvents,   \* bound on visits of the admin page, stops, signals, failures
          NoProcess

ASSUME DaemonConstants ==
  /\ Mcps \cap Daemons = {}
  /\ Child \in [Mcps -> Daemons] /\ \A p, q \in Mcps : Child[p] = Child[q] => p = q
  /\ {Heartbeat, IdleTimeout, MaxEvents} \subseteq Nat
  /\ Heartbeat < IdleTimeout

Procs == Mcps \cup Daemons

VARIABLES
  proc,      \* proc[p]: a process
  idle,      \* time since the last request the admin API served
  beat,      \* beat[p]: time since p's last heartbeat
  record,    \* the process that daemon.state names, or NoProcess
  stop,      \* gambi stop: where the command is
  disturbed, \* somebody stopped, signalled or killed a process, or one failed
  events     \* number of such events

vars == <<proc, idle, beat, record, stop, disturbed, events>>

Off == [pc |-> "off", admin |-> "none", mcp |-> FALSE, shared |-> FALSE]

TypeOK ==
  /\ proc \in [Procs ->
       [pc : {"off", "check", "spawned", "poll", "run", "stopping", "clearing", "ended"},
        admin : {"none", "bind", "serving", "lost"}, mcp : BOOLEAN, shared : BOOLEAN]]
  /\ idle \in 0 .. IdleTimeout /\ beat \in [Mcps -> 0 .. Heartbeat]
  /\ record \in Daemons \cup {NoProcess}
  /\ stop \in {"idle", "posted", "record", "term"}
  /\ disturbed \in BOOLEAN
  /\ events \in 0 .. MaxEvents

Init ==
  /\ proc = [p \in Procs |-> Off]
  /\ idle = 0 /\ beat = [p \in Mcps |-> 0]
  /\ record = NoProcess /\ stop = "idle"
  /\ disturbed = FALSE
  /\ events = 0

-----------------------------------------------------------------------------
Serving == {p \in Procs : proc[p].admin = "serving"}
Running(p) == proc[p].pc = "run"
Alive(p) == proc[p].pc \notin {"off", "ended"}
\* A process that hosts, or wanted to host, the admin API runs the refresh loop.
Refreshes(p) == Running(p) /\ proc[p].admin # "none"

Ended == [Off EXCEPT !.pc = "ended"]
Stopping(p) == [proc EXCEPT ![p] = [Off EXCEPT !.pc = "stopping"]]

\* Every request of the admin API, the health check included, is activity.
Touched == 0

\* An MCP process starts its tasks: with the admin API and the refresh loop of
\* its own, or with a heartbeat to whoever serves it, due at once.
StartShared(p) ==
  /\ proc' = [proc EXCEPT ![p] = [pc |-> "run", admin |-> "none", mcp |-> TRUE,
                                  shared |-> TRUE]]
  /\ beat' = [beat EXCEPT ![p] = Heartbeat]

AloneProc == [pc |-> "run", admin |-> "bind", mcp |-> TRUE, shared |-> FALSE]

-----------------------------------------------------------------------------
\* ensure_shared_admin_daemon.

Launch(p) ==
  /\ p \in Mcps /\ proc[p].pc = "off"
  /\ proc' = [proc EXCEPT ![p].pc = "check"]
  /\ UNCHANGED <<idle, beat, record, stop, disturbed, events>>

\* Somebody answers the health check.
FindHealthy(p) ==
  /\ p \in Mcps /\ proc[p].pc \in {"check", "poll"} /\ Serving # {}
  /\ StartShared(p)
  /\ idle' = Touched
  /\ UNCHANGED <<record, stop, disturbed, events>>

\* Nobody did, or not in time: the daemon is spawned, its record written afterwards.
SpawnDaemon(p) ==
  /\ p \in Mcps /\ proc[p].pc = "check"
  /\ proc' = [proc EXCEPT ![p].pc = "spawned",
                          ![Child[p]] = [pc |-> "run", admin |-> "bind", mcp |-> FALSE,
                                         shared |-> FALSE]]
  /\ UNCHANGED <<idle, beat, record, stop, disturbed, events>>

WriteRecord(p) ==
  /\ p \in Mcps /\ proc[p].pc = "spawned"
  /\ proc' = [proc EXCEPT ![p].pc = "poll"]
  /\ record' = Child[p]
  /\ UNCHANGED <<idle, beat, stop, disturbed, events>>

\* The spawn, or writing the record, fails: the admin API is run in-process.
SpawnFails(p) ==
  /\ p \in Mcps /\ proc[p].pc \in {"check", "spawned"}
  /\ proc' = [proc EXCEPT ![p] = AloneProc]
  /\ UNCHANGED <<idle, beat, record, stop, disturbed, events>>

\* No health in time, though there may be some by now: whatever record there is is
\* removed.
PollTimeout(p) ==
  /\ p \in Mcps /\ proc[p].pc = "poll"
  /\ proc' = [proc EXCEPT ![p] = AloneProc]
  /\ record' = NoProcess
  /\ UNCHANGED <<idle, beat, stop, disturbed, events>>

-----------------------------------------------------------------------------
\* The tasks of a running process.

\* The admin task listens, or finds the port in use and ends: the process goes on
\* without it, with the refresh loop and, in an MCP process, MCP.
BindAdmin(p) ==
  /\ Running(p) /\ proc[p].admin = "bind"
  /\ proc' = [proc EXCEPT ![p].admin = IF Serving = {} THEN "serving" ELSE "lost"]
  /\ idle' = IF Serving = {} THEN 0 ELSE idle
  /\ UNCHANGED <<beat, record, stop, disturbed, events>>

\* Any other failure of the admin task stops the process.
AdminFails(p) ==
  /\ Running(p) /\ proc[p].admin \in {"bind", "serving"} /\ events < MaxEvents
  /\ events' = events + 1 /\ disturbed' = TRUE
  /\ proc' = Stopping(p)
  /\ UNCHANGED <<idle, beat, record, stop>>

\* Mutant: a heartbeat is not counted as activity.
QuietSendHeartbeat(p) ==
  /\ p \in Mcps /\ Running(p) /\ proc[p].shared
  /\ beat' = [beat EXCEPT ![p] = 0]
  /\ UNCHANGED <<proc, idle, record, stop, disturbed, events>>

\* A heartbeat, answered or not.
SendHeartbeat(p) ==
  /\ p \in Mcps /\ Running(p) /\ proc[p].shared
  /\ beat' = [beat EXCEPT ![p] = 0]
  /\ idle' = Touched
  /\ UNCHANGED <<proc, record, stop, disturbed, events>>

\* The user of the admin page does something.
VisitAdmin ==
  /\ Serving # {} /\ events < MaxEvents
  /\ events' = events + 1
  /\ idle' = Touched
  /\ UNCHANGED <<proc, beat, record, stop, disturbed>>

\* Mutant: only a daemon's admin API has an idle timeout.
MutIdleExit(p) ==
  /\ p \in Serving /\ p \in Daemons /\ idle >= IdleTimeout
  /\ proc' = Stopping(p)
  /\ UNCHANGED <<idle, beat, record, stop, disturbed, events>>

\* The admin API was idle for too long, so its process stops.
IdleExit(p) ==
  /\ p \in Serving /\ idle >= IdleTimeout
  /\ proc' = Stopping(p)
  /\ UNCHANGED <<idle, beat, record, stop, disturbed, events>>

\* Mutant: the end of MCP is never the end of the process.
MutMcpEnds(p) ==
  /\ p \in Mcps /\ Running(p) /\ proc[p].mcp
  /\ proc' = [proc EXCEPT ![p].mcp = FALSE]
  /\ UNCHANGED <<idle, beat, record, stop, disturbed, events>>

\* The MCP client is gone, or MCP fails: that stops a process that has nothing
\* but MCP to do, and not one that wanted to host the admin API.
McpEnds(p) ==
  /\ p \in Mcps /\ Running(p) /\ proc[p].mcp
  /\ proc' = IF proc[p].shared THEN Stopping(p) ELSE [proc EXCEPT ![p].mcp = FALSE]
  /\ UNCHANGED <<idle, beat, record, stop, disturbed, events>>

\* The other tasks are cancelled and drained, then the upstream clients shut
\* down; a daemon then reads daemon.state to see whether it is named there.  When
\* that takes too long, the process exits as it is.
FinishStop(p) ==
  /\ proc[p].pc = "stopping"
  /\ \/ proc' = [proc EXCEPT ![p].pc = IF record = p THEN "clearing" ELSE "ended"]
     \/ proc' = [proc EXCEPT ![p].pc = "ended"]
  /\ UNCHANGED <<idle, beat, record, stop, disturbed, events>>

\* It was: whatever the file names by now is removed.
ClearRecord(p) ==
  /\ proc[p].pc = "clearing"
  /\ proc' = [proc EXCEPT ![p].pc = "ended"]
  /\ record' = NoProcess
  /\ UNCHANGED <<idle, beat, stop, disturbed, events>>

\* An interrupt stops a running process, a crash or other signal ends any.
Interrupt(p) ==
  /\ Alive(p) /\ events < MaxEvents
  /\ events' = events + 1 /\ disturbed' = TRUE
  /\ proc' \in {Stopping(p), [proc EXCEPT ![p] = Ended]}
  /\ proc'[p].pc = "stopping" => Running(p)
  /\ UNCHANGED <<idle, beat, record, stop>>

-----------------------------------------------------------------------------
\* gambi stop.

\* POST /shutdown ends the admin task of whoever serves, so its process stops, an
\* MCP process included.
StopPost ==
  /\ stop = "idle" /\ events < MaxEvents
  /\ events' = events + 1
  /\ IF Serving = {}
     THEN stop' = "record" /\ UNCHANGED <<proc, disturbed>>
     ELSE /\ stop' = "posted" /\ disturbed' = TRUE
          /\ \E p \in Serving : proc' = Stopping(p)
  /\ UNCHANGED <<idle, beat, record>>

\* The health check fails, so the daemon is taken to be stopped; or it is
\* answered, by another process by now, until patience ends.
StopPoll ==
  /\ stop = "posted"
  /\ IF Serving = {}
     THEN stop' = "idle" /\ record' = NoProcess /\ UNCHANGED idle
     ELSE stop' = "record" /\ UNCHANGED record /\ idle' = Touched
  /\ UNCHANGED <<proc, beat, disturbed, events>>

\* Without an answer daemon.state says what to terminate; its record is removed
\* when there is no such process.  Nobody catches SIGTERM.
StopByRecord ==
  /\ stop = "record"
  /\ IF record = NoProcess
     THEN stop' = "idle" /\ UNCHANGED <<proc, record, disturbed>>
     ELSE IF ~ Alive(record)
     THEN stop' = "idle" /\ record' = NoProcess /\ UNCHANGED <<proc, disturbed>>
     ELSE /\ stop' = "term" /\ disturbed' = TRUE
          /\ proc' = [proc EXCEPT ![record] = Ended]
          /\ UNCHANGED record
  /\ UNCHANGED <<idle, beat, events>>

StopTerminated ==
  /\ stop = "term"
  /\ stop' = "idle" /\ record' = NoProcess
  /\ UNCHANGED <<proc, idle, beat, disturbed, events>>

-----------------------------------------------------------------------------
\* Time passes, but no heartbeat is late.
Tick ==
  /\ \A p \in Mcps : Running(p) /\ proc[p].shared => beat[p] < Heartbeat
  /\ \E p \in Procs : Alive(p)
  /\ idle' = IF Serving = {} THEN 0
             ELSE IF idle < IdleTimeout THEN idle + 1 ELSE idle
  /\ beat' = [p \in Mcps |-> IF Running(p) /\ proc[p].shared THEN beat[p] + 1 ELSE 0]
  /\ UNCHANGED <<proc, record, stop, disturbed, events>>

ProcStep(p) == \/ FindHealthy(p) \/ SpawnDaemon(p) \/ WriteRecord(p)
               \/ PollTimeout(p) \/ BindAdmin(p) \/ IdleExit(p)
               \/ FinishStop(p) \/ ClearRecord(p)

Next ==
  \/ \E p \in Procs : \/ Launch(p) \/ ProcStep(p) \/ SpawnFails(p)
                      \/ AdminFails(p) \/ SendHeartbeat(p) \/ McpEnds(p)
                      \/ Interrupt(p)
  \/ VisitAdmin \/ StopPost \/ StopPoll \/ StopByRecord \/ StopTerminated \/ Tick

Spec == Init /\ [][Next]_vars

\* Processes do what is theirs to do, and time goes on.
FairSpec == /\ Spec /\ WF_vars(Tick)
            /\ \A p \in Procs : WF_vars(ProcStep(p))
            /\ \A p \in Mcps : WF_vars(SendHeartbeat(p) /\ beat'[p] # beat[p])

-----------------------------------------------------------------------------
\* Properties.

\* As long as nobody stops or kills a process, MCP processes at work are not left
\* without a process that refreshes tokens, whoever won the admin port: the
\* daemon they share does not go idle, and those that share none have their own.
RefreshKept ==
  ~ disturbed /\ (\E p \in Mcps : Running(p) /\ proc[p].mcp)
    => \E q \in Procs : Refreshes(q)

\* An MCP process that shares a daemon ends once its client is gone, whatever has
\* become of the daemon.
ClientGoneEnds ==
  \A p \in Mcps :
    ((Running(p) /\ proc[p].shared /\ ~ proc[p].mcp) \/ proc[p].pc = "stopping")
      ~> (proc[p].pc = "ended")

\* Once there are no MCP clients left, no process goes on serving the admin API.
UnusedAdminEnds ==
  <>[](\A p \in Mcps : ~ proc[p].mcp) => <>[](Serving = {})
=============================================================================
