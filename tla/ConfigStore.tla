---------------------------- MODULE ConfigStore ----------------------------
(***************************************************************************)
(* ConfigStore of config.rs: the calls of several processes on one JSON    *)
(* file (config.json, or tokens.json in file mode), serialised by an       *)
(* advisory lock on a file beside it and written by renaming a temporary   *)
(* file.  Only the first creation of the file happens outside the lock and *)
(* in place.                                                               *)
(*                                                                         *)
(* A call runs on a thread of its process's blocking pool and opens the    *)
(* lock file itself, so the lock excludes calls of the same process too.   *)
(* The operating system drops the lock with the process.  A stored value   *)
(* is the set of the updates it contains: it tells a lost update.          *)
(***************************************************************************)
EXTENDS Naturals, FiniteSets

CONSTANTS
    Calls,          \* calls of load, update and replace
    Updates,        \* those that write
    Replaces,       \* those that write without reading first
    Procs,          \* processes
    ProcOf,         \* the process a call runs in
    MaxPolls,       \* LOCK_WAIT_TIMEOUT / LOCK_POLL_INTERVAL, 100 in the code
    RetriesEmpty,   \* whether an empty file is read again (config.json is)
    Stuck,          \* calls that may hang anywhere, for instance in an fsync
    NoCall

Values == SUBSET Updates

\* What a path leads to: no file, a file without content, or a JSON document.
Absent == [form |-> "absent", value |-> {}]
Empty == [form |-> "empty", value |-> {}]
Json(v) == [form |-> "json", value |-> v]
Contents == {Absent, Empty} \cup {Json(v) : v \in Values}

ASSUME CallsAssumption ==
    /\ Replaces \subseteq Updates
    /\ Updates \subseteq Calls
    /\ ProcOf \in [Calls -> Procs]
    /\ NoCall \notin Calls

ASSUME PollsAssumption == MaxPolls \in Nat \ {0}

ASSUME ModeAssumption == RetriesEmpty \in BOOLEAN

VARIABLES
    file,     \* what the path of the file leads to
    disk,     \* the contents a power loss may leave
    creator,  \* the call that created the present file and has not filled it
    holder,   \* the call that holds the lock
    pc,       \* where each call is
    polls,    \* lock polls it has slept through
    read      \* the value it read

vars == <<file, disk, creator, holder, pc, polls, read>>

Holding == {"reading", "rereading", "writing", "syncing"}
Final == {"ok", "error", "dead"}
Steps == {"idle", "creating", "filling", "settling", "locking"} \cup Holding \cup Final

TypeOK ==
    /\ file \in Contents
    /\ disk \in SUBSET Contents
    /\ creator \in Calls \cup {NoCall}
    /\ holder \in Calls \cup {NoCall}
    /\ pc \in [Calls -> Steps]
    /\ polls \in [Calls -> 0 .. MaxPolls]
    /\ read \in [Calls -> Values]

\* A directory without the file, or with one from an earlier session.
Init ==
    /\ file \in {Absent, Json({})}
    /\ disk = {file}
    /\ creator = NoCall
    /\ holder = NoCall
    /\ pc = [c \in Calls |-> "idle"]
    /\ polls = [c \in Calls |-> 0]
    /\ read = [c \in Calls |-> {}]

-----------------------------------------------------------------------------
Goto(c, step) == pc' = [pc EXCEPT ![c] = step]

\* The file handle of c is gone; whoever comes next sees what c left.
LetGo(C) == creator' = IF creator \in C THEN NoCall ELSE creator

\* Dropping the LockGuard: every return path of a call that has the lock.
Finish(c, outcome) ==
    /\ Goto(c, outcome)
    /\ holder' = IF holder = c THEN NoCall ELSE holder

-----------------------------------------------------------------------------
(***************************************************************************)
(* ensure_layout, in front of the lock: exists(), then an exclusive        *)
(* creation, then the content, then its fsync.  Once the file exists the   *)
(* later calls of ensure_layout, under the lock, change nothing.           *)
(***************************************************************************)
Begin(c) ==
    /\ pc[c] = "idle"
    /\ Goto(c, IF file = Absent THEN "creating" ELSE "locking")
    /\ UNCHANGED <<file, disk, creator, holder, polls, read>>

CreateFile(c) ==
    /\ pc[c] = "creating"
    /\ file = Absent
    /\ file' = Empty
    /\ disk' = disk \cup {Empty}
    /\ creator' = c
    /\ Goto(c, "filling")
    /\ UNCHANGED <<holder, polls, read>>

\* create_new reports AlreadyExists: another call has created it since.
LoseCreation(c) ==
    /\ pc[c] = "creating"
    /\ file # Absent
    /\ Goto(c, "locking")
    /\ UNCHANGED <<file, disk, creator, holder, polls, read>>

\* The content goes to the created file, which a rename may have unlinked.
FillFile(c) ==
    /\ pc[c] = "filling"
    /\ file' = IF creator = c THEN Json({}) ELSE file
    /\ disk' = IF creator = c THEN disk \cup {Json({})} ELSE disk
    /\ LetGo({c})
    /\ Goto(c, "settling")
    /\ UNCHANGED <<holder, polls, read>>

\* sync_data of the file and fsync of the directory.
SyncCreated(c) ==
    /\ pc[c] = "settling"
    /\ disk' = {file}
    /\ Goto(c, "locking")
    /\ UNCHANGED <<file, creator, holder, polls, read>>

\* An I/O error, which leaves what has been created so far.
LayoutFails(c) ==
    /\ pc[c] \in {"creating", "filling", "settling"}
    /\ LetGo({c})
    /\ Goto(c, "error")
    /\ UNCHANGED <<file, disk, holder, polls, read>>

-----------------------------------------------------------------------------
(***************************************************************************)
(* acquire_lock                                                            *)
(***************************************************************************)
\* Mutant: try_lock_shared instead of try_lock_exclusive.
MutTryLock(c) ==
    /\ pc[c] = "locking"
    /\ holder' = c
    /\ Goto(c, IF c \in Replaces THEN "writing" ELSE "reading")
    /\ UNCHANGED <<file, disk, creator, polls, read>>

TryLock(c) ==
    /\ pc[c] = "locking"
    /\ holder = NoCall
    /\ holder' = c
    /\ Goto(c, IF c \in Replaces THEN "writing" ELSE "reading")
    /\ UNCHANGED <<file, disk, creator, polls, read>>

\* Mutant: the start of the wait is taken again in every round.
MutPoll(c) ==
    /\ pc[c] = "locking"
    /\ holder # NoCall
    /\ UNCHANGED vars

\* The lock is taken: sleep, possibly for longer than one interval.
Poll(c) ==
    /\ pc[c] = "locking"
    /\ holder # NoCall
    /\ \E n \in 1 .. (MaxPolls - polls[c]) : polls' = [polls EXCEPT ![c] = @ + n]
    /\ UNCHANGED <<file, disk, creator, holder, pc, read>>

GiveUp(c) ==
    /\ pc[c] = "locking"
    /\ holder # NoCall
    /\ polls[c] >= MaxPolls
    /\ Goto(c, "error")
    /\ UNCHANGED <<file, disk, creator, holder, polls, read>>

\* The lock file cannot be opened, or flock fails otherwise.
LockFails(c) ==
    /\ pc[c] = "locking"
    /\ Goto(c, "error")
    /\ UNCHANGED <<file, disk, creator, holder, polls, read>>

-----------------------------------------------------------------------------
(***************************************************************************)
(* load_unlocked, load_tokens_unlocked                                     *)
(***************************************************************************)
ReadFile(c) ==
    /\ pc[c] \in {"reading", "rereading"}
    /\ file.form = "json"
    /\ read' = [read EXCEPT ![c] = file.value]
    /\ IF c \in Updates THEN Goto(c, "writing") /\ UNCHANGED holder ELSE Finish(c, "ok")
    /\ UNCHANGED <<file, disk, creator, polls>>

\* load_unlocked sleeps 10 ms over an empty file; load_tokens_unlocked does not.
AwaitContent(c) ==
    /\ pc[c] = "reading"
    /\ file = Empty
    /\ RetriesEmpty
    /\ Goto(c, "rereading")
    /\ UNCHANGED <<file, disk, creator, holder, polls, read>>

\* Invalid JSON.
RejectEmpty(c) ==
    /\ pc[c] = "rereading" \/ (pc[c] = "reading" /\ ~RetriesEmpty)
    /\ file = Empty
    /\ Finish(c, "error")
    /\ UNCHANGED <<file, disk, creator, polls, read>>

ReadFails(c) ==
    /\ pc[c] \in {"reading", "rereading"}
    /\ Finish(c, "error")
    /\ UNCHANGED <<file, disk, creator, polls, read>>

-----------------------------------------------------------------------------
(***************************************************************************)
(* update, replace, and atomic_write_json                                  *)
(***************************************************************************)
\* Mutant: the file is truncated and rewritten instead of replaced.
MutWriteFails(c) ==
    /\ pc[c] = "writing"
    /\ file' = Empty
    /\ Finish(c, "error")
    /\ UNCHANGED <<disk, creator, polls, read>>

\* The closure refuses, or the temporary file cannot be written and synced.
WriteFails(c) ==
    /\ pc[c] = "writing"
    /\ Finish(c, "error")
    /\ UNCHANGED <<file, disk, creator, polls, read>>

\* persist: the synced temporary file takes the name.
Rename(c) ==
    /\ pc[c] = "writing"
    /\ file' = Json(IF c \in Replaces THEN {c} ELSE read[c] \cup {c})
    /\ disk' = disk \cup {file'}
    /\ creator' = NoCall
    /\ Goto(c, "syncing")
    /\ UNCHANGED <<holder, polls, read>>

\* Mutant: the guard is dropped and the update acknowledged without the directory fsync.
MutSyncDirectory(c) ==
    /\ pc[c] = "syncing"
    /\ Finish(c, "ok")
    /\ UNCHANGED <<file, disk, creator, polls, read>>

\* fsync_parent_dir, then the guard is dropped.
SyncDirectory(c) ==
    /\ pc[c] = "syncing"
    /\ disk' = {file}
    /\ Finish(c, "ok")
    /\ UNCHANGED <<file, creator, polls, read>>

\* Permissions or fsync fail after the rename: an error, though it is written.
SyncFails(c) ==
    /\ pc[c] = "syncing"
    /\ Finish(c, "error")
    /\ UNCHANGED <<file, disk, creator, polls, read>>

-----------------------------------------------------------------------------
UnderWay(c) == pc[c] \notin {"idle"} \cup Final

CallsOf(p) == {c \in Calls : ProcOf[c] = p}

Kill(C) == pc' = [c \in Calls |-> IF c \in C /\ UnderWay(c) THEN "dead" ELSE pc[c]]

\* A process dies; its file descriptors close, and the lock with them.
Crash(p) ==
    /\ Kill(CallsOf(p))
    /\ holder' = IF holder \in CallsOf(p) THEN NoCall ELSE holder
    /\ LetGo(CallsOf(p))
    /\ UNCHANGED <<file, disk, polls, read>>

\* The machine goes down, and comes up with what the disk has.
PowerLoss ==
    /\ Kill(Calls)
    /\ file' \in disk
    /\ disk' = {file'}
    /\ holder' = NoCall
    /\ creator' = NoCall
    /\ UNCHANGED <<polls, read>>

-----------------------------------------------------------------------------
Layout(c) == Begin(c) \/ CreateFile(c) \/ LoseCreation(c) \/ FillFile(c)
             \/ SyncCreated(c) \/ LayoutFails(c)
Acquire(c) == TryLock(c) \/ Poll(c) \/ GiveUp(c) \/ LockFails(c)
Load(c) == ReadFile(c) \/ AwaitContent(c) \/ RejectEmpty(c) \/ ReadFails(c)
Save(c) == WriteFails(c) \/ Rename(c) \/ SyncDirectory(c) \/ SyncFails(c)

Step(c) == Layout(c) \/ Acquire(c) \/ Load(c) \/ Save(c)

Next ==
    \/ \E c \in Calls : Step(c)
    \/ \E p \in Procs : Crash(p)
    \/ PowerLoss

Spec == Init /\ [][Next]_vars

\* What a call does next when no operation of the file system fails.
Proceed(c) ==
    \/ CreateFile(c) \/ LoseCreation(c) \/ FillFile(c) \/ SyncCreated(c)
    \/ TryLock(c) \/ Poll(c) \/ GiveUp(c)
    \/ ReadFile(c) \/ AwaitContent(c) \/ RejectEmpty(c)
    \/ Rename(c) \/ SyncDirectory(c)

\* A thread that does not hang runs on; errors are possible, never due.
FairSpec ==
    /\ Spec
    /\ \A c \in Calls \ Stuck : WF_vars(Proceed(c))

-----------------------------------------------------------------------------
(***************************************************************************)
(* Properties                                                              *)
(***************************************************************************)
\* The lock is held by exactly the calls between acquire_lock and the drop of
\* its guard.
HolderInv == \A c \in Calls : holder = c <=> pc[c] \in Holding

\* A file that is not filled yet is empty, and its creator is about to fill it.
CreatorInv ==
    creator # NoCall => file = Empty /\ pc[creator] = "filling"

\* No file exists only while nobody has come further than creating it.
AbsentInv ==
    file = Absent => /\ disk = {Absent}
                     /\ \A c \in Calls : pc[c] \in {"idle", "creating"} \cup Final

\* What an update has read is what the file holds when it writes; what it has
\* renamed is there while it syncs.
WriterInv ==
    \A c \in Calls :
        /\ pc[c] = "writing" /\ c \notin Replaces => file = Json(read[c])
        /\ pc[c] \in {"writing", "syncing"} => c \in Updates
        /\ pc[c] = "syncing" => file.form = "json" /\ c \in file.value

\* What is in the file now may also be on the disk.
DiskInv == file \in disk

\* An update that has returned Ok is in the file after any crash or power loss
\* from then on, unless a replace has overwritten the file.
AcknowledgedKept ==
    \A c \in Updates : pc[c] = "ok" =>
        \A d \in disk : d.form = "json" /\ (c \in d.value \/ d.value \cap Replaces # {})

\* The invariant of the proofs.
StoreInv ==
    /\ TypeOK
    /\ HolderInv
    /\ CreatorInv
    /\ AbsentInv
    /\ WriterInv
    /\ DiskInv
    /\ AcknowledgedKept

\* The state of the abstract store.  A file that is missing or empty stands for
\* the initial configuration.
PhaseOf(step) ==
    CASE step \in Final -> step
      [] step = "syncing" -> "applied"
      [] OTHER -> "open"

AbsPhase == [c \in Calls |-> PhaseOf(pc[c])]
AbsSeen == [c \in Calls |-> IF pc[c] = "ok" /\ c \notin Updates THEN read[c] ELSE {}]
AbsDurable == {d.value : d \in disk}

Atomic == INSTANCE AtomicStore WITH
    value <- file.value, durable <- AbsDurable, phase <- AbsPhase, seen <- AbsSeen

\* load, update and replace look like single steps to each other and to crashes:
\* no update is lost, and an error before the rename has changed nothing.
ImplementsAtomicStore == Atomic!Spec

\* Every call that does not hang itself returns, even if the holder of the lock
\* hangs: the wait for the lock ends after LOCK_WAIT_TIMEOUT.
CallsReturn == \A c \in Calls \ Stuck : UnderWay(c) ~> pc[c] \in Final

=============================================================================
