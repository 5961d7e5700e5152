---------------------------- MODULE ConfigProofs ----------------------------
(***************************************************************************)
(* Proofs about config.rs.  First ConfigStore, for any number of calls,    *)
(* updates, processes and lock polls, and for both kinds of file: it is an *)
(* atomic store.  Then Catalog, for any names, tools, settings, imports    *)
(* and changes: what every configuration in the store satisfies, and what  *)
(* clients are shown and allowed by it.                                    *)
(***************************************************************************)
EXTENDS ConfigStore, Catalog, SequenceTheorems, FiniteSetTheorems, WellFoundedInduction,
        TLAPS

-----------------------------------------------------------------------------
\* The store.

\* What a path may lead to.
LEMMA ContentsFacts ==
    /\ Absent \in Contents /\ Empty \in Contents
    /\ Absent.form = "absent" /\ Empty.form = "empty" /\ Absent # Empty
    /\ Absent.value = {} /\ Empty.value = {}
    /\ \A v \in Values : /\ Json(v) \in Contents
                        /\ Json(v).form = "json"
                        /\ Json(v).value = v
    /\ \A d \in Contents : /\ d.value \in Values
                          /\ (d.form = "json" => d = Json(d.value))
                          /\ (d.form # "json" => d.value = {})
                          /\ d.form \in {"absent", "empty", "json"}
<1>1. /\ Absent \in Contents /\ Empty \in Contents
      /\ Absent.form = "absent" /\ Empty.form = "empty" /\ Absent # Empty
      /\ Absent.value = {} /\ Empty.value = {}
  BY DEF Contents, Absent, Empty
<1>2. ASSUME NEW v \in Values
      PROVE  Json(v) \in Contents /\ Json(v).form = "json" /\ Json(v).value = v
  BY DEF Contents, Json
<1>3. ASSUME NEW d \in Contents
      PROVE  /\ d.value \in Values
             /\ (d.form = "json" => d = Json(d.value))
             /\ (d.form # "json" => d.value = {})
             /\ d.form \in {"absent", "empty", "json"}
  BY DEF Contents, Absent, Empty, Json, Values
<1>4. QED
  BY <1>1, <1>2, <1>3

LEMMA ContentIsTyped ==
  ASSUME NEW d \in Contents
  PROVE  d.value \in Values /\ (d.form = "json" => d = Json(d.value))
  BY DEF Contents, Absent, Empty, Json, Values

LEMMA TypeInit == Init => TypeOK
  BY CallsAssumption, PollsAssumption, ContentsFacts
     DEF Init, TypeOK, Steps, Values

\* One step keeps the types.
LEMMA TypeNext == TypeOK /\ WriterInv /\ [Next]_vars => TypeOK'
<1> SUFFICES ASSUME TypeOK, WriterInv, [Next]_vars PROVE TypeOK'
  OBVIOUS
<1> USE CallsAssumption, PollsAssumption, ContentsFacts DEF TypeOK, Steps, Holding, Final
<1>1. ASSUME NEW c \in Calls, Layout(c) PROVE TypeOK'
  <2>1. CASE Begin(c)
    BY <2>1 DEF Begin, Goto
  <2>2. CASE CreateFile(c)
    BY <2>2 DEF CreateFile, Goto
  <2>3. CASE LoseCreation(c)
    BY <2>3 DEF LoseCreation, Goto
  <2>4. CASE FillFile(c)
    <3>1. Json({}) \in Contents
      BY DEF Values
    <3>2. QED
      BY <2>4, <3>1 DEF FillFile, Goto, LetGo
  <2>5. CASE SyncCreated(c)
    BY <2>5 DEF SyncCreated, Goto
  <2>6. CASE LayoutFails(c)
    BY <2>6 DEF LayoutFails, Goto, LetGo
  <2>7. QED
    BY <1>1, <2>1, <2>2, <2>3, <2>4, <2>5, <2>6 DEF Layout
<1>2. ASSUME NEW c \in Calls, Acquire(c) PROVE TypeOK'
  <2>1. CASE TryLock(c)
    BY <2>1 DEF TryLock, Goto
  <2>2. CASE Poll(c)
    BY <2>2 DEF Poll, Goto
  <2>3. CASE GiveUp(c)
    BY <2>3 DEF GiveUp, Goto
  <2>4. CASE LockFails(c)
    BY <2>4 DEF LockFails, Goto
  <2>5. QED
    BY <1>2, <2>1, <2>2, <2>3, <2>4 DEF Acquire
<1>3. ASSUME NEW c \in Calls, Load(c) PROVE TypeOK'
  <2>1. CASE ReadFile(c)
    <3>1. file.value \in Values
      BY ContentIsTyped
    <3>2. CASE c \in Updates
      BY <2>1, <3>1, <3>2 DEF ReadFile, Goto
    <3>3. CASE c \notin Updates
      BY <2>1, <3>1, <3>3 DEF ReadFile, Goto, Finish
    <3>4. QED
      BY <3>2, <3>3
  <2>2. CASE AwaitContent(c)
    BY <2>2 DEF AwaitContent, Goto
  <2>3. CASE RejectEmpty(c)
    BY <2>3 DEF RejectEmpty, Goto, Finish
  <2>4. CASE ReadFails(c)
    BY <2>4 DEF ReadFails, Goto, Finish
  <2>5. QED
    BY <1>3, <2>1, <2>2, <2>3, <2>4 DEF Load
<1>4. ASSUME NEW c \in Calls, Save(c) PROVE TypeOK'
  <2>1. CASE WriteFails(c)
    BY <2>1 DEF WriteFails, Goto, Finish
  <2>2. CASE Rename(c)
    <3>1. c \in Updates
      BY <2>2 DEF Rename, WriterInv
    <3>2. (IF c \in Replaces THEN {c} ELSE read[c] \cup {c}) \in Values
      BY <3>1 DEF Values
    <3>3. file' \in Contents
      BY <2>2, <3>2 DEF Rename
    <3>4. QED
      BY <2>2, <3>3 DEF Rename, Goto
  <2>3. CASE SyncDirectory(c)
    BY <2>3 DEF SyncDirectory, Goto, Finish
  <2>4. CASE SyncFails(c)
    BY <2>4 DEF SyncFails, Goto, Finish
  <2>5. QED
    BY <1>4, <2>1, <2>2, <2>3, <2>4 DEF Save
<1>5. ASSUME NEW p \in Procs, Crash(p) PROVE TypeOK'
  BY <1>5 DEF Crash, Kill, LetGo, CallsOf, UnderWay
<1>6. CASE PowerLoss
  BY <1>6 DEF PowerLoss, Kill, UnderWay
<1>7. CASE UNCHANGED vars
  BY <1>7 DEF vars
<1>8. QED
  BY <1>1, <1>2, <1>3, <1>4, <1>5, <1>6, <1>7 DEF Next, Step

\* Nobody gets a lock that another call holds, and every way out drops it.
LEMMA HolderNext == TypeOK /\ HolderInv /\ [Next]_vars => HolderInv'
<1> SUFFICES ASSUME TypeOK /\ HolderInv, [Next]_vars PROVE HolderInv'
  OBVIOUS
<1> USE CallsAssumption DEF TypeOK, HolderInv, Holding, Final
<1>1. ASSUME NEW c \in Calls, Layout(c) PROVE HolderInv'
  <2>1. CASE Begin(c)
    BY <2>1 DEF Begin, Goto
  <2>2. CASE CreateFile(c)
    BY <2>2 DEF CreateFile, Goto
  <2>3. CASE LoseCreation(c)
    BY <2>3 DEF LoseCreation, Goto
  <2>4. CASE FillFile(c)
    BY <2>4 DEF FillFile, Goto, LetGo
  <2>5. CASE SyncCreated(c)
    BY <2>5 DEF SyncCreated, Goto
  <2>6. CASE LayoutFails(c)
    BY <2>6 DEF LayoutFails, Goto, LetGo
  <2>7. QED
    BY <1>1, <2>1, <2>2, <2>3, <2>4, <2>5, <2>6 DEF Layout
<1>2. ASSUME NEW c \in Calls, Acquire(c) PROVE HolderInv'
  <2>1. CASE TryLock(c)
    BY <2>1 DEF TryLock, Goto
  <2>2. CASE Poll(c)
    BY <2>2 DEF Poll, Goto
  <2>3. CASE GiveUp(c)
    BY <2>3 DEF GiveUp, Goto
  <2>4. CASE LockFails(c)
    BY <2>4 DEF LockFails, Goto
  <2>5. QED
    BY <1>2, <2>1, <2>2, <2>3, <2>4 DEF Acquire
<1>3. ASSUME NEW c \in Calls, Load(c) PROVE HolderInv'
  <2>1. CASE ReadFile(c)
    BY <2>1 DEF ReadFile, Goto, Finish
  <2>2. CASE AwaitContent(c)
    BY <2>2 DEF AwaitContent, Goto
  <2>3. CASE RejectEmpty(c)
    BY <2>3 DEF RejectEmpty, Goto, Finish
  <2>4. CASE ReadFails(c)
    BY <2>4 DEF ReadFails, Goto, Finish
  <2>5. QED
    BY <1>3, <2>1, <2>2, <2>3, <2>4 DEF Load
<1>4. ASSUME NEW c \in Calls, Save(c) PROVE HolderInv'
  <2>1. CASE WriteFails(c)
    BY <2>1 DEF WriteFails, Goto, Finish
  <2>2. CASE Rename(c)
    BY <2>2 DEF Rename, Goto
  <2>3. CASE SyncDirectory(c)
    BY <2>3 DEF SyncDirectory, Goto, Finish
  <2>4. CASE SyncFails(c)
    BY <2>4 DEF SyncFails, Goto, Finish
  <2>5. QED
    BY <1>4, <2>1, <2>2, <2>3, <2>4 DEF Save
<1>5. ASSUME NEW p \in Procs, Crash(p) PROVE HolderInv'
  BY <1>5 DEF Crash, Kill, LetGo, CallsOf, UnderWay
<1>6. CASE PowerLoss
  BY <1>6 DEF PowerLoss, Kill, UnderWay
<1>7. CASE UNCHANGED vars
  BY <1>7 DEF vars
<1>8. QED
  BY <1>1, <1>2, <1>3, <1>4, <1>5, <1>6, <1>7 DEF Next, Step

\* A file stays empty only under its creator.
LEMMA CreatorNext == TypeOK /\ CreatorInv /\ [Next]_vars => CreatorInv'
<1> SUFFICES ASSUME TypeOK /\ CreatorInv, [Next]_vars PROVE CreatorInv'
  OBVIOUS
<1> USE CallsAssumption, ContentsFacts DEF TypeOK, CreatorInv, Final
<1>1. ASSUME NEW c \in Calls, Layout(c) PROVE CreatorInv'
  <2>1. CASE Begin(c)
    BY <2>1 DEF Begin, Goto
  <2>2. CASE CreateFile(c)
    BY <2>2 DEF CreateFile, Goto
  <2>3. CASE LoseCreation(c)
    BY <2>3 DEF LoseCreation, Goto
  <2>4. CASE FillFile(c)
    BY <2>4 DEF FillFile, Goto, LetGo
  <2>5. CASE SyncCreated(c)
    BY <2>5 DEF SyncCreated, Goto
  <2>6. CASE LayoutFails(c)
    BY <2>6 DEF LayoutFails, Goto, LetGo
  <2>7. QED
    BY <1>1, <2>1, <2>2, <2>3, <2>4, <2>5, <2>6 DEF Layout
<1>2. ASSUME NEW c \in Calls, Acquire(c) PROVE CreatorInv'
  <2>1. CASE TryLock(c)
    BY <2>1 DEF TryLock, Goto
  <2>2. CASE Poll(c)
    BY <2>2 DEF Poll, Goto
  <2>3. CASE GiveUp(c)
    BY <2>3 DEF GiveUp, Goto
  <2>4. CASE LockFails(c)
    BY <2>4 DEF LockFails, Goto
  <2>5. QED
    BY <1>2, <2>1, <2>2, <2>3, <2>4 DEF Acquire
<1>3. ASSUME NEW c \in Calls, Load(c) PROVE CreatorInv'
  <2>1. CASE ReadFile(c)
    BY <2>1 DEF ReadFile, Goto, Finish
  <2>2. CASE AwaitContent(c)
    BY <2>2 DEF AwaitContent, Goto
  <2>3. CASE RejectEmpty(c)
    BY <2>3 DEF RejectEmpty, Goto, Finish
  <2>4. CASE ReadFails(c)
    BY <2>4 DEF ReadFails, Goto, Finish
  <2>5. QED
    BY <1>3, <2>1, <2>2, <2>3, <2>4 DEF Load
<1>4. ASSUME NEW c \in Calls, Save(c) PROVE CreatorInv'
  <2>1. CASE WriteFails(c)
    BY <2>1 DEF WriteFails, Goto, Finish
  <2>2. CASE Rename(c)
    BY <2>2 DEF Rename, Goto
  <2>3. CASE SyncDirectory(c)
    BY <2>3 DEF SyncDirectory, Goto, Finish
  <2>4. CASE SyncFails(c)
    BY <2>4 DEF SyncFails, Goto, Finish
  <2>5. QED
    BY <1>4, <2>1, <2>2, <2>3, <2>4 DEF Save
<1>5. ASSUME NEW p \in Procs, Crash(p) PROVE CreatorInv'
  BY <1>5 DEF Crash, Kill, LetGo, CallsOf, UnderWay
<1>6. CASE PowerLoss
  BY <1>6 DEF PowerLoss, Kill, UnderWay
<1>7. CASE UNCHANGED vars
  BY <1>7 DEF vars
<1>8. QED
  BY <1>1, <1>2, <1>3, <1>4, <1>5, <1>6, <1>7 DEF Next, Step

\* Once a file exists it stays, up to a power loss.
LEMMA AbsentNext == TypeOK /\ CreatorInv /\ WriterInv /\ AbsentInv /\ [Next]_vars => AbsentInv'
<1> SUFFICES ASSUME TypeOK /\ CreatorInv /\ WriterInv /\ AbsentInv, [Next]_vars PROVE AbsentInv'
  OBVIOUS
<1> USE CallsAssumption, ContentsFacts DEF TypeOK, CreatorInv, AbsentInv, Holding, Final
<1>1. ASSUME NEW c \in Calls, Layout(c) PROVE AbsentInv'
  <2>1. CASE Begin(c)
    BY <2>1 DEF Begin, Goto
  <2>2. CASE CreateFile(c)
    BY <2>2 DEF CreateFile, Goto
  <2>3. CASE LoseCreation(c)
    BY <2>3 DEF LoseCreation, Goto
  <2>4. CASE FillFile(c)
    <3>1. file # Absent
      BY <2>4 DEF FillFile
    <3>2. Json({}) # Absent
      BY DEF Values
    <3>3. QED
      BY <2>4, <3>1, <3>2 DEF FillFile
  <2>5. CASE SyncCreated(c)
    BY <2>5 DEF SyncCreated, Goto
  <2>6. CASE LayoutFails(c)
    BY <2>6 DEF LayoutFails, Goto, LetGo
  <2>7. QED
    BY <1>1, <2>1, <2>2, <2>3, <2>4, <2>5, <2>6 DEF Layout
<1>2. ASSUME NEW c \in Calls, Acquire(c) PROVE AbsentInv'
  <2>1. CASE TryLock(c)
    BY <2>1 DEF TryLock, Goto
  <2>2. CASE Poll(c)
    BY <2>2 DEF Poll, Goto
  <2>3. CASE GiveUp(c)
    BY <2>3 DEF GiveUp, Goto
  <2>4. CASE LockFails(c)
    BY <2>4 DEF LockFails, Goto
  <2>5. QED
    BY <1>2, <2>1, <2>2, <2>3, <2>4 DEF Acquire
<1>3. ASSUME NEW c \in Calls, Load(c) PROVE AbsentInv'
  <2>1. CASE ReadFile(c)
    BY <2>1 DEF ReadFile, Goto, Finish
  <2>2. CASE AwaitContent(c)
    BY <2>2 DEF AwaitContent, Goto
  <2>3. CASE RejectEmpty(c)
    BY <2>3 DEF RejectEmpty, Goto, Finish
  <2>4. CASE ReadFails(c)
    BY <2>4 DEF ReadFails, Goto, Finish
  <2>5. QED
    BY <1>3, <2>1, <2>2, <2>3, <2>4 DEF Load
<1>4. ASSUME NEW c \in Calls, Save(c) PROVE AbsentInv'
  <2>1. CASE WriteFails(c)
    BY <2>1 DEF WriteFails, Goto, Finish
  <2>2. CASE Rename(c)
    <3>1. c \in Updates
      BY <2>2 DEF Rename, WriterInv
    <3>2. (IF c \in Replaces THEN {c} ELSE read[c] \cup {c}) \in Values
      BY <3>1 DEF Values
    <3>3. file' # Absent
      BY <2>2, <3>2 DEF Rename
    <3>4. QED
      BY <2>2, <3>3 DEF Rename, Goto
  <2>3. CASE SyncDirectory(c)
    BY <2>3 DEF SyncDirectory, Goto, Finish
  <2>4. CASE SyncFails(c)
    BY <2>4 DEF SyncFails, Goto, Finish
  <2>5. QED
    BY <1>4, <2>1, <2>2, <2>3, <2>4 DEF Save
<1>5. ASSUME NEW p \in Procs, Crash(p) PROVE AbsentInv'
  BY <1>5 DEF Crash, Kill, LetGo, CallsOf, UnderWay
<1>6. CASE PowerLoss
  BY <1>6 DEF PowerLoss, Kill, UnderWay
<1>7. CASE UNCHANGED vars
  BY <1>7 DEF vars
<1>8. QED
  BY <1>1, <1>2, <1>3, <1>4, <1>5, <1>6, <1>7 DEF Next, Step

\* The lock keeps what a writer has read, and what it has renamed, in the file.
LEMMA WriterNext == StoreInv /\ [Next]_vars => WriterInv'
<1> SUFFICES ASSUME StoreInv, [Next]_vars PROVE WriterInv'
  OBVIOUS
<1> USE CallsAssumption, ContentsFacts DEF StoreInv, TypeOK, HolderInv, CreatorInv, AbsentInv, WriterInv, Holding, Final
<1>1. ASSUME NEW c \in Calls, Layout(c) PROVE WriterInv'
  <2>1. CASE Begin(c)
    BY <2>1 DEF Begin, Goto
  <2>2. CASE CreateFile(c)
    BY <2>2 DEF CreateFile, Goto
  <2>3. CASE LoseCreation(c)
    BY <2>3 DEF LoseCreation, Goto
  <2>4. CASE FillFile(c)
    BY <2>4 DEF FillFile, Goto, LetGo
  <2>5. CASE SyncCreated(c)
    BY <2>5 DEF SyncCreated, Goto
  <2>6. CASE LayoutFails(c)
    BY <2>6 DEF LayoutFails, Goto, LetGo
  <2>7. QED
    BY <1>1, <2>1, <2>2, <2>3, <2>4, <2>5, <2>6 DEF Layout
<1>2. ASSUME NEW c \in Calls, Acquire(c) PROVE WriterInv'
  <2>1. CASE TryLock(c)
    BY <2>1 DEF TryLock, Goto
  <2>2. CASE Poll(c)
    BY <2>2 DEF Poll, Goto
  <2>3. CASE GiveUp(c)
    BY <2>3 DEF GiveUp, Goto
  <2>4. CASE LockFails(c)
    BY <2>4 DEF LockFails, Goto
  <2>5. QED
    BY <1>2, <2>1, <2>2, <2>3, <2>4 DEF Acquire
<1>3. ASSUME NEW c \in Calls, Load(c) PROVE WriterInv'
  <2>1. CASE ReadFile(c)
    <3>1. file = Json(file.value)
      BY <2>1, ContentIsTyped DEF ReadFile
    <3>2. CASE c \in Updates
      BY <2>1, <3>1, <3>2 DEF ReadFile, Goto
    <3>3. CASE c \notin Updates
      BY <2>1, <3>3 DEF ReadFile, Goto, Finish
    <3>4. QED
      BY <3>2, <3>3
  <2>2. CASE AwaitContent(c)
    BY <2>2 DEF AwaitContent, Goto
  <2>3. CASE RejectEmpty(c)
    BY <2>3 DEF RejectEmpty, Goto, Finish
  <2>4. CASE ReadFails(c)
    BY <2>4 DEF ReadFails, Goto, Finish
  <2>5. QED
    BY <1>3, <2>1, <2>2, <2>3, <2>4 DEF Load
<1>4. ASSUME NEW c \in Calls, Save(c) PROVE WriterInv'
  <2>1. CASE WriteFails(c)
    BY <2>1 DEF WriteFails, Goto, Finish
  <2>2. CASE Rename(c)
    <3>1. c \in Updates
      BY <2>2 DEF Rename
    <3>2. DEFINE new == IF c \in Replaces THEN {c} ELSE read[c] \cup {c}
    <3>3. new \in Values /\ c \in new
      BY <3>1 DEF Values
    <3>4. file'.form = "json" /\ c \in file'.value
      BY <2>2, <3>3 DEF Rename
    <3>5. \A e \in Calls \ {c} : pc'[e] = pc[e] /\ pc[e] \notin Holding
      BY <2>2 DEF Rename, Goto
    <3>6. QED
      BY <2>2, <3>1, <3>4, <3>5 DEF Rename, Goto
  <2>3. CASE SyncDirectory(c)
    BY <2>3 DEF SyncDirectory, Goto, Finish
  <2>4. CASE SyncFails(c)
    BY <2>4 DEF SyncFails, Goto, Finish
  <2>5. QED
    BY <1>4, <2>1, <2>2, <2>3, <2>4 DEF Save
<1>5. ASSUME NEW p \in Procs, Crash(p) PROVE WriterInv'
  BY <1>5 DEF Crash, Kill, LetGo, CallsOf, UnderWay
<1>6. CASE PowerLoss
  BY <1>6 DEF PowerLoss, Kill, UnderWay
<1>7. CASE UNCHANGED vars
  BY <1>7 DEF vars
<1>8. QED
  BY <1>1, <1>2, <1>3, <1>4, <1>5, <1>6, <1>7 DEF Next, Step

\* The disk may always hold the present content.
LEMMA DiskNext == TypeOK /\ DiskInv /\ [Next]_vars => DiskInv'
<1> SUFFICES ASSUME TypeOK /\ DiskInv, [Next]_vars PROVE DiskInv'
  OBVIOUS
<1> USE CallsAssumption, ContentsFacts DEF TypeOK, DiskInv
<1>1. ASSUME NEW c \in Calls, Layout(c) PROVE DiskInv'
  <2>1. CASE Begin(c)
    BY <2>1 DEF Begin, Goto
  <2>2. CASE CreateFile(c)
    BY <2>2 DEF CreateFile, Goto
  <2>3. CASE LoseCreation(c)
    BY <2>3 DEF LoseCreation, Goto
  <2>4. CASE FillFile(c)
    BY <2>4 DEF FillFile, Goto, LetGo
  <2>5. CASE SyncCreated(c)
    BY <2>5 DEF SyncCreated, Goto
  <2>6. CASE LayoutFails(c)
    BY <2>6 DEF LayoutFails, Goto, LetGo
  <2>7. QED
    BY <1>1, <2>1, <2>2, <2>3, <2>4, <2>5, <2>6 DEF Layout
<1>2. ASSUME NEW c \in Calls, Acquire(c) PROVE DiskInv'
  <2>1. CASE TryLock(c)
    BY <2>1 DEF TryLock, Goto
  <2>2. CASE Poll(c)
    BY <2>2 DEF Poll, Goto
  <2>3. CASE GiveUp(c)
    BY <2>3 DEF GiveUp, Goto
  <2>4. CASE LockFails(c)
    BY <2>4 DEF LockFails, Goto
  <2>5. QED
    BY <1>2, <2>1, <2>2, <2>3, <2>4 DEF Acquire
<1>3. ASSUME NEW c \in Calls, Load(c) PROVE DiskInv'
  <2>1. CASE ReadFile(c)
    BY <2>1 DEF ReadFile, Goto, Finish
  <2>2. CASE AwaitContent(c)
    BY <2>2 DEF AwaitContent, Goto
  <2>3. CASE RejectEmpty(c)
    BY <2>3 DEF RejectEmpty, Goto, Finish
  <2>4. CASE ReadFails(c)
    BY <2>4 DEF ReadFails, Goto, Finish
  <2>5. QED
    BY <1>3, <2>1, <2>2, <2>3, <2>4 DEF Load
<1>4. ASSUME NEW c \in Calls, Save(c) PROVE DiskInv'
  <2>1. CASE WriteFails(c)
    BY <2>1 DEF WriteFails, Goto, Finish
  <2>2. CASE Rename(c)
    BY <2>2 DEF Rename, Goto
  <2>3. CASE SyncDirectory(c)
    BY <2>3 DEF SyncDirectory, Goto, Finish
  <2>4. CASE SyncFails(c)
    BY <2>4 DEF SyncFails, Goto, Finish
  <2>5. QED
    BY <1>4, <2>1, <2>2, <2>3, <2>4 DEF Save
<1>5. ASSUME NEW p \in Procs, Crash(p) PROVE DiskInv'
  BY <1>5 DEF Crash, Kill, LetGo, CallsOf, UnderWay
<1>6. CASE PowerLoss
  BY <1>6 DEF PowerLoss, Kill, UnderWay
<1>7. CASE UNCHANGED vars
  BY <1>7 DEF vars
<1>8. QED
  BY <1>1, <1>2, <1>3, <1>4, <1>5, <1>6, <1>7 DEF Next, Step

\* A rename builds on the acknowledged updates, and the directory is synced
\* before the next acknowledgement.
LEMMA AcknowledgedNext == StoreInv /\ [Next]_vars => AcknowledgedKept'
<1> SUFFICES ASSUME StoreInv, [Next]_vars PROVE AcknowledgedKept'
  OBVIOUS
<1> USE CallsAssumption, ContentsFacts DEF StoreInv, TypeOK, HolderInv, CreatorInv, AbsentInv, WriterInv, DiskInv, AcknowledgedKept, Holding, Final, Values
<1>1. ASSUME NEW c \in Calls, Layout(c) PROVE AcknowledgedKept'
  <2>1. CASE Begin(c)
    BY <2>1 DEF Begin, Goto
  <2>2. CASE CreateFile(c)
    BY <2>2 DEF CreateFile, Goto
  <2>3. CASE LoseCreation(c)
    BY <2>3 DEF LoseCreation, Goto
  <2>4. CASE FillFile(c)
    BY <2>4 DEF FillFile, Goto, LetGo
  <2>5. CASE SyncCreated(c)
    BY <2>5 DEF SyncCreated, Goto
  <2>6. CASE LayoutFails(c)
    BY <2>6 DEF LayoutFails, Goto, LetGo
  <2>7. QED
    BY <1>1, <2>1, <2>2, <2>3, <2>4, <2>5, <2>6 DEF Layout
<1>2. ASSUME NEW c \in Calls, Acquire(c) PROVE AcknowledgedKept'
  <2>1. CASE TryLock(c)
    BY <2>1 DEF TryLock, Goto
  <2>2. CASE Poll(c)
    BY <2>2 DEF Poll, Goto
  <2>3. CASE GiveUp(c)
    BY <2>3 DEF GiveUp, Goto
  <2>4. CASE LockFails(c)
    BY <2>4 DEF LockFails, Goto
  <2>5. QED
    BY <1>2, <2>1, <2>2, <2>3, <2>4 DEF Acquire
<1>3. ASSUME NEW c \in Calls, Load(c) PROVE AcknowledgedKept'
  <2>1. CASE ReadFile(c)
    BY <2>1 DEF ReadFile, Goto, Finish
  <2>2. CASE AwaitContent(c)
    BY <2>2 DEF AwaitContent, Goto
  <2>3. CASE RejectEmpty(c)
    BY <2>3 DEF RejectEmpty, Goto, Finish
  <2>4. CASE ReadFails(c)
    BY <2>4 DEF ReadFails, Goto, Finish
  <2>5. QED
    BY <1>3, <2>1, <2>2, <2>3, <2>4 DEF Load
<1>4. ASSUME NEW c \in Calls, Save(c) PROVE AcknowledgedKept'
  <2>1. CASE WriteFails(c)
    BY <2>1 DEF WriteFails, Goto, Finish
  <2>2. CASE Rename(c)
    BY <2>2 DEF Rename, Goto
  <2>3. CASE SyncDirectory(c)
    BY <2>3 DEF SyncDirectory, Goto, Finish
  <2>4. CASE SyncFails(c)
    BY <2>4 DEF SyncFails, Goto, Finish
  <2>5. QED
    BY <1>4, <2>1, <2>2, <2>3, <2>4 DEF Save
<1>5. ASSUME NEW p \in Procs, Crash(p) PROVE AcknowledgedKept'
  BY <1>5 DEF Crash, Kill, LetGo, CallsOf, UnderWay
<1>6. CASE PowerLoss
  BY <1>6 DEF PowerLoss, Kill, UnderWay
<1>7. CASE UNCHANGED vars
  BY <1>7 DEF vars
<1>8. QED
  BY <1>1, <1>2, <1>3, <1>4, <1>5, <1>6, <1>7 DEF Next, Step

-----------------------------------------------------------------------------
LEMMA StoreInvInit == Init => StoreInv
<1> SUFFICES ASSUME Init PROVE StoreInv
  OBVIOUS
<1>1. TypeOK
  BY TypeInit
<1>2. HolderInv
  BY CallsAssumption DEF Init, HolderInv, Holding
<1>3. CreatorInv /\ AbsentInv /\ WriterInv /\ DiskInv /\ AcknowledgedKept
  BY CallsAssumption DEF Init, CreatorInv, AbsentInv, WriterInv, DiskInv,
     AcknowledgedKept, Final
<1>4. QED
  BY <1>1, <1>2, <1>3 DEF StoreInv

LEMMA StoreInvNext == StoreInv /\ [Next]_vars => StoreInv'
  BY TypeNext, HolderNext, CreatorNext, AbsentNext, WriterNext, DiskNext,
     AcknowledgedNext
     DEF StoreInv

\* The lock, creation, writer, disk and acknowledgement invariants hold together,
\* whatever processes crash and whenever the power fails.
THEOREM StoreInvariant == Spec => []StoreInv
<1>1. Init => StoreInv
  BY StoreInvInit
<1>2. StoreInv /\ [Next]_vars => StoreInv'
  BY StoreInvNext
<1>3. QED
  BY <1>1, <1>2, PTL DEF Spec

\* update and replace return Ok only for what no crash, power loss or concurrent
\* update can undo.
THEOREM AcknowledgedUpdatesKept == Spec => []AcknowledgedKept
<1>1. StoreInv => AcknowledgedKept
  BY DEF StoreInv
<1>2. QED
  BY <1>1, StoreInvariant, PTL

-----------------------------------------------------------------------------
(***************************************************************************)
(* The store implements AtomicStore.                                       *)
(***************************************************************************)
LEMMA PhaseMoves ==
  ASSUME TypeOK, NEW c \in Calls, NEW step \in Steps, Goto(c, step)
  PROVE  AbsPhase' = [AbsPhase EXCEPT ![c] = PhaseOf(step)]
  BY DEF TypeOK, Goto, AbsPhase

LEMMA PhaseStays ==
  ASSUME TypeOK, NEW c \in Calls, NEW step \in Steps, Goto(c, step),
         PhaseOf(step) = PhaseOf(pc[c])
  PROVE  AbsPhase' = AbsPhase
  BY DEF TypeOK, Goto, AbsPhase

\* What a load has seen changes only when a load returns Ok.
LEMMA SeenStays ==
  ASSUME TypeOK, NEW c \in Calls, NEW step \in Steps, Goto(c, step),
         pc[c] # "ok", step # "ok" \/ c \in Updates,
         \A e \in Calls \ {c} : read'[e] = read[e]
  PROVE  AbsSeen' = AbsSeen
  BY DEF TypeOK, Goto, AbsSeen

LEMMA DurableGrows ==
  ASSUME NEW d, disk' = disk \cup {d}
  PROVE  AbsDurable' = AbsDurable \cup {d.value}
  BY DEF AbsDurable

LEMMA DurableSettles ==
  ASSUME NEW d, disk' = {d}
  PROVE  AbsDurable' = {d.value}
  BY DEF AbsDurable

LEMMA DurableStays == UNCHANGED disk => AbsDurable' = AbsDurable
  BY DEF AbsDurable

\* A step of a call that changes nothing but where the call is, and ends it with
\* an error, is an abstract failure.
LEMMA FailImplemented ==
  ASSUME TypeOK, NEW c \in Calls, Goto(c, "error"), UnderWay(c),
         UNCHANGED <<file, disk, read>>
  PROVE  Atomic!Fail(c)
<1>1. AbsPhase' = [AbsPhase EXCEPT ![c] = "error"]
  BY PhaseMoves DEF PhaseOf, Steps, Final
<1>2. AbsSeen' = AbsSeen
  BY SeenStays DEF UnderWay, Steps, Final
<1>3. c \in Atomic!Unfinished
  BY DEF Atomic!Unfinished, AbsPhase, PhaseOf, UnderWay, TypeOK
<1>4. QED
  BY <1>1, <1>2, <1>3, DurableStays DEF Atomic!Fail

\* Calls that die with their process or with the machine are abstractly dead.
LEMMA KillImplemented ==
  ASSUME TypeOK, NEW C \in SUBSET Calls, Kill(C), UNCHANGED read
  PROVE  /\ Atomic!Kill({c \in C : UnderWay(c)})
         /\ {c \in C : UnderWay(c)} \subseteq Atomic!Unfinished
         /\ AbsSeen' = AbsSeen
<1>1. Atomic!Kill({c \in C : UnderWay(c)})
  BY DEF Kill, Atomic!Kill, AbsPhase, PhaseOf, UnderWay, Final, TypeOK
<1>2. {c \in C : UnderWay(c)} \subseteq Atomic!Unfinished
  BY DEF Atomic!Unfinished, AbsPhase, PhaseOf, UnderWay, TypeOK
<1>3. AbsSeen' = AbsSeen
  BY DEF Kill, AbsSeen, UnderWay, Final, TypeOK
<1>4. QED
  BY <1>1, <1>2, <1>3

LEMMA AtomicInit == Init => Atomic!Init
  BY DEF Init, Atomic!Init, Atomic!Values, AbsPhase, AbsSeen, AbsDurable, PhaseOf,
     Final, Absent, Json

\* Every step of a call is a step of the abstract store or changes nothing there.
LEMMA AtomicStep ==
  StoreInv /\ [Next]_vars => [Atomic!Next]_(Atomic!vars)
<1> SUFFICES ASSUME StoreInv, [Next]_vars PROVE [Atomic!Next]_(Atomic!vars)
  OBVIOUS
<1> DEFINE Same == UNCHANGED Atomic!vars
<1> USE CallsAssumption DEF StoreInv
<1>1. ASSUME NEW c \in Calls, Layout(c) PROVE Atomic!Settle \/ Atomic!Fail(c) \/ Same
  <2>1. CASE Begin(c) \/ LoseCreation(c)
    <3>1. PICK step \in {"creating", "locking"} : Goto(c, step)
      BY <2>1 DEF Begin, LoseCreation
    <3>2. pc[c] \in {"idle", "creating"} /\ UNCHANGED <<file, disk, read>>
      BY <2>1 DEF Begin, LoseCreation
    <3>3. AbsPhase' = AbsPhase
      BY <3>1, <3>2, PhaseStays DEF PhaseOf, Steps, Final
    <3>4. AbsSeen' = AbsSeen
      BY <3>1, <3>2, SeenStays DEF Steps
    <3>5. QED
      BY <3>2, <3>3, <3>4, DurableStays DEF Atomic!vars
  <2>2. CASE CreateFile(c)
    <3>1. AbsPhase' = AbsPhase
      BY <2>2, PhaseStays DEF CreateFile, PhaseOf, Steps, Final
    <3>2. AbsSeen' = AbsSeen
      BY <2>2, SeenStays DEF CreateFile, Steps
    <3>3. file.value = {} /\ file'.value = {} /\ file \in disk
      BY <2>2, ContentsFacts DEF CreateFile, DiskInv
    <3>4. AbsDurable' = AbsDurable \cup {{}}
      <4>1. disk' = disk \cup {Empty} /\ Empty.value = {}
        BY <2>2, ContentsFacts DEF CreateFile
      <4>2. AbsDurable' = AbsDurable \cup {Empty.value}
        BY <4>1, DurableGrows
      <4>3. QED
        BY <4>1, <4>2
    <3>5. {} \in AbsDurable
      BY <3>3 DEF AbsDurable
    <3>6. QED
      BY <3>1, <3>2, <3>3, <3>4, <3>5 DEF Atomic!vars
  <2>3. CASE FillFile(c)
    <3>1. AbsPhase' = AbsPhase
      BY <2>3, PhaseStays DEF FillFile, PhaseOf, Steps, Final
    <3>2. AbsSeen' = AbsSeen
      BY <2>3, SeenStays DEF FillFile, Steps
    <3>3. CASE creator = c
      <4>1. file.value = {} /\ file \in disk
        BY <3>3, ContentsFacts DEF CreatorInv, DiskInv
      <4>2. Json({}).value = {}
        BY DEF Json
      <4>3. file'.value = {}
        BY <2>3, <3>3, <4>2 DEF FillFile
      <4>4. AbsDurable' = AbsDurable \cup {{}}
        BY <2>3, <3>3, <4>2, DurableGrows DEF FillFile
      <4>5. {} \in AbsDurable
        BY <4>1 DEF AbsDurable
      <4>6. QED
        BY <3>1, <3>2, <4>1, <4>3, <4>4, <4>5 DEF Atomic!vars
    <3>4. CASE creator # c
      <4>1. UNCHANGED <<file, disk>>
        BY <2>3, <3>4 DEF FillFile
      <4>2. QED
        BY <3>1, <3>2, <4>1, DurableStays DEF Atomic!vars
    <3>5. QED
      BY <3>3, <3>4
  <2>4. CASE SyncCreated(c)
    <3>1. AbsPhase' = AbsPhase
      BY <2>4, PhaseStays DEF SyncCreated, PhaseOf, Steps, Final
    <3>2. AbsSeen' = AbsSeen
      BY <2>4, SeenStays DEF SyncCreated, Steps
    <3>3. AbsDurable' = {file.value} /\ file' = file
      BY <2>4, DurableSettles DEF SyncCreated
    <3>4. QED
      BY <3>1, <3>2, <3>3 DEF Atomic!Settle
  <2>5. CASE LayoutFails(c)
    BY <2>5, FailImplemented DEF LayoutFails, UnderWay, Final
  <2>6. QED
    BY <1>1, <2>1, <2>2, <2>3, <2>4, <2>5 DEF Layout
<1>2. ASSUME NEW c \in Calls, Acquire(c) PROVE Atomic!Fail(c) \/ Same
  <2>1. CASE TryLock(c)
    <3>1. PICK step \in {"reading", "writing"} : Goto(c, step)
      BY <2>1 DEF TryLock
    <3>2. pc[c] = "locking" /\ UNCHANGED <<file, disk, read>>
      BY <2>1 DEF TryLock
    <3>3. AbsPhase' = AbsPhase
      BY <3>1, <3>2, PhaseStays DEF PhaseOf, Steps, Holding, Final
    <3>4. AbsSeen' = AbsSeen
      BY <3>1, <3>2, SeenStays DEF Steps, Holding
    <3>5. QED
      BY <3>2, <3>3, <3>4, DurableStays DEF Atomic!vars
  <2>2. CASE Poll(c)
    BY <2>2, DurableStays DEF Poll, AbsPhase, AbsSeen, Atomic!vars
  <2>3. CASE GiveUp(c) \/ LockFails(c)
    BY <2>3, FailImplemented DEF GiveUp, LockFails, UnderWay, Final
  <2>4. QED
    BY <1>2, <2>1, <2>2, <2>3 DEF Acquire
<1>3. ASSUME NEW c \in Calls, Load(c) PROVE Atomic!Serve(c) \/ Atomic!Fail(c) \/ Same
  <2>1. CASE ReadFile(c) /\ c \in Updates
    <3>1. Goto(c, "writing") /\ pc[c] \in {"reading", "rereading"}
      BY <2>1 DEF ReadFile
    <3>2. \A e \in Calls \ {c} : read'[e] = read[e]
      BY <2>1 DEF ReadFile, TypeOK
    <3>3. AbsPhase' = AbsPhase
      BY <3>1, PhaseStays DEF PhaseOf, Steps, Holding, Final
    <3>4. AbsSeen' = AbsSeen
      BY <3>1, <3>2, SeenStays DEF Steps, Holding
    <3>5. UNCHANGED <<file, disk>>
      BY <2>1 DEF ReadFile
    <3>6. QED
      BY <3>3, <3>4, <3>5, DurableStays DEF Atomic!vars
  <2>2. CASE ReadFile(c) /\ c \notin Updates
    <3>1. Goto(c, "ok") /\ pc[c] \in {"reading", "rereading"}
      BY <2>2 DEF ReadFile, Finish
    <3>2. AbsPhase' = [AbsPhase EXCEPT ![c] = "ok"]
      BY <3>1, PhaseMoves DEF PhaseOf, Steps, Final
    <3>3. AbsPhase[c] = "open"
      BY <3>1 DEF AbsPhase, PhaseOf, Final
    <3>4. AbsSeen' = [AbsSeen EXCEPT ![c] = file.value]
      BY <2>2, <3>1 DEF ReadFile, Goto, AbsSeen, TypeOK
    <3>5. UNCHANGED <<file, disk>>
      BY <2>2 DEF ReadFile
    <3>6. QED
      BY <2>2, <3>2, <3>3, <3>4, <3>5, DurableStays DEF Atomic!Serve
  <2>3. CASE AwaitContent(c)
    <3>1. AbsPhase' = AbsPhase
      BY <2>3, PhaseStays DEF AwaitContent, PhaseOf, Steps, Holding, Final
    <3>2. AbsSeen' = AbsSeen
      BY <2>3, SeenStays DEF AwaitContent, Steps, Holding
    <3>3. QED
      BY <2>3, <3>1, <3>2, DurableStays DEF AwaitContent, Atomic!vars
  <2>4. CASE RejectEmpty(c) \/ ReadFails(c)
    BY <2>4, FailImplemented DEF RejectEmpty, ReadFails, Finish, UnderWay, Final
  <2>5. QED
    BY <1>3, <2>1, <2>2, <2>3, <2>4 DEF Load
<1>4. ASSUME NEW c \in Calls, Save(c)
      PROVE  Atomic!Apply(c) \/ Atomic!Acknowledge(c) \/ Atomic!Fail(c)
  <2>1. CASE Rename(c)
    <3>1. c \in Updates /\ Goto(c, "syncing") /\ pc[c] = "writing"
      BY <2>1 DEF Rename, WriterInv
    <3>2. AbsPhase' = [AbsPhase EXCEPT ![c] = "applied"]
      BY <3>1, PhaseMoves DEF PhaseOf, Steps, Holding, Final
    <3>3. AbsPhase[c] = "open"
      BY <3>1 DEF AbsPhase, PhaseOf, Final
    <3>4. AbsSeen' = AbsSeen
      BY <2>1, <3>1, SeenStays DEF Rename, Steps, Holding
    <3>5. file'.value = Atomic!Effect(c, file.value)
      <4>1. CASE c \in Replaces
        BY <2>1, <4>1 DEF Rename, Json, Atomic!Effect
      <4>2. CASE c \notin Replaces
        <5>1. file.value = read[c]
          BY <3>1, <4>2 DEF WriterInv, Json
        <5>2. file'.value = read[c] \cup {c}
          BY <2>1, <4>2 DEF Rename, Json
        <5>3. QED
          BY <4>2, <5>1, <5>2 DEF Atomic!Effect
      <4>3. QED
        BY <4>1, <4>2
    <3>6. AbsDurable' = AbsDurable \cup {file'.value}
      BY <2>1, DurableGrows DEF Rename
    <3>7. QED
      BY <3>1, <3>2, <3>3, <3>4, <3>5, <3>6 DEF Atomic!Apply
  <2>2. CASE SyncDirectory(c)
    <3>1. c \in Updates /\ Goto(c, "ok") /\ pc[c] = "syncing"
      BY <2>2 DEF SyncDirectory, Finish, WriterInv
    <3>2. AbsPhase' = [AbsPhase EXCEPT ![c] = "ok"]
      BY <3>1, PhaseMoves DEF PhaseOf, Steps, Final
    <3>3. AbsPhase[c] = "applied"
      BY <3>1 DEF AbsPhase, PhaseOf, Final
    <3>4. AbsSeen' = AbsSeen
      BY <2>2, <3>1, SeenStays DEF SyncDirectory, Steps, Final
    <3>5. AbsDurable' = {file.value} /\ file' = file
      BY <2>2, DurableSettles DEF SyncDirectory
    <3>6. QED
      BY <3>2, <3>3, <3>4, <3>5 DEF Atomic!Acknowledge
  <2>3. CASE WriteFails(c) \/ SyncFails(c)
    BY <2>3, FailImplemented DEF WriteFails, SyncFails, Finish, UnderWay, Final
  <2>4. QED
    BY <1>4, <2>1, <2>2, <2>3 DEF Save
<1>5. ASSUME NEW p \in Procs, Crash(p) PROVE Atomic!Crash
  <2>1. Kill(CallsOf(p)) /\ UNCHANGED <<file, disk, read>>
    BY <1>5 DEF Crash
  <2>2. CallsOf(p) \in SUBSET Calls
    BY DEF CallsOf
  <2>3. QED
    BY <2>1, <2>2, KillImplemented, DurableStays DEF Atomic!Crash
<1>6. ASSUME PowerLoss PROVE Atomic!PowerLoss
  <2>1. DEFINE D == {c \in Calls : UnderWay(c)}
  <2>2. Kill(Calls) /\ UNCHANGED read
    BY <1>6 DEF PowerLoss
  <2>3. Atomic!Kill(D) /\ D \subseteq Atomic!Unfinished /\ AbsSeen' = AbsSeen
    BY <2>2, KillImplemented
  <2>4. \A c \in Calls : AbsPhase[c] = "applied" => c \in D
    BY DEF AbsPhase, PhaseOf, Final, UnderWay
  <2>5. file' \in disk /\ disk' = {file'}
    BY <1>6 DEF PowerLoss
  <2>6. file'.value \in AbsDurable
    BY <2>5 DEF AbsDurable
  <2>7. AbsDurable' = {file'.value}
    BY <2>5, DurableSettles
  <2> HIDE DEF D
  <2>8. D \in SUBSET Atomic!Unfinished
    BY <2>3
  <2>9. \E E \in SUBSET Atomic!Unfinished :
           /\ \A c \in Calls : AbsPhase[c] = "applied" => c \in E
           /\ Atomic!Kill(E)
    BY <2>3, <2>4, <2>8, Zenon
  <2>10. QED
    BY <2>3, <2>6, <2>7, <2>9 DEF Atomic!PowerLoss
<1>7. CASE UNCHANGED vars
  BY <1>7, DurableStays DEF vars, AbsPhase, AbsSeen, Atomic!vars
<1>8. QED
  BY <1>1, <1>2, <1>3, <1>4, <1>5, <1>6, <1>7 DEF Next, Step, Atomic!Next

\* The calls of ConfigStore implement the atomic store: load, update and replace
\* appear to happen in one step, and acknowledged updates are durable.
THEOREM StoreIsAtomic == Spec => ImplementsAtomicStore
<1>1. Init => Atomic!Init
  BY AtomicInit
<1>2. StoreInv /\ [Next]_vars => [Atomic!Next]_(Atomic!vars)
  BY AtomicStep
<1>3. QED
  BY <1>1, <1>2, StoreInvariant, PTL DEF Spec, ImplementsAtomicStore, Atomic!Spec

-----------------------------------------------------------------------------
\* Maps.

\* What a map is, and when a function is one.
LEMMA MapFacts ==
  ASSUME NEW K, NEW V, NEW f \in Maps(K, V)
  PROVE  /\ DOMAIN f \subseteq K
         /\ f \in [DOMAIN f -> V]
         /\ \A k \in DOMAIN f : f[k] \in V
  BY DEF Maps

LEMMA MapOf ==
  ASSUME NEW K, NEW V, NEW D \in SUBSET K, NEW f \in [D -> V]
  PROVE  f \in Maps(K, V) /\ DOMAIN f = D
  BY DEF Maps

\* The operators on maps have maps as values, of known keys.
LEMMA EmptyMapIsMap ==
  ASSUME NEW K, NEW V
  PROVE  EmptyMap \in Maps(K, V) /\ DOMAIN EmptyMap = {}
<1>1. EmptyMap \in [{} -> V]
  BY DEF EmptyMap
<1> QED
  BY <1>1, MapOf

LEMMA Domains ==
  ASSUME NEW f, NEW k, NEW v
  PROVE  /\ DOMAIN Put(f, k, v) = DOMAIN f \cup {k}
         /\ DOMAIN Without(f, k) = DOMAIN f \ {k}
  BY DEF Put, Without

LEMMA PutIsMap ==
  ASSUME NEW K, NEW V, NEW f \in Maps(K, V), NEW k \in K, NEW v \in V
  PROVE  Put(f, k, v) \in Maps(K, V)
<1>1. Put(f, k, v) \in [DOMAIN f \cup {k} -> V]
  BY MapFacts DEF Put
<1>2. DOMAIN f \cup {k} \in SUBSET K
  BY MapFacts
<1> QED
  BY <1>1, <1>2, MapOf

LEMMA WithoutIsMap ==
  ASSUME NEW K, NEW V, NEW f \in Maps(K, V), NEW k
  PROVE  Without(f, k) \in Maps(K, V)
<1>1. Without(f, k) \in [DOMAIN f \ {k} -> V]
  BY MapFacts DEF Without
<1>2. DOMAIN f \ {k} \in SUBSET K
  BY MapFacts
<1> QED
  BY <1>1, <1>2, MapOf

LEMMA StoreIsMap ==
  ASSUME NEW K, NEW V, NEW f \in Maps(K, V), NEW k \in K, NEW v \in V, NEW default,
         \A l \in DOMAIN f : f[l] # default
  PROVE  /\ Store(f, k, v, default) \in Maps(K, V)
         /\ DOMAIN Store(f, k, v, default) \subseteq DOMAIN f \cup {k}
         /\ \A l \in DOMAIN Store(f, k, v, default) : Store(f, k, v, default)[l] # default
<1>1. CASE v = default
  <2>1. Store(f, k, v, default) = Without(f, k)
    BY <1>1 DEF Store
  <2>2. Without(f, k) \in Maps(K, V)
    BY WithoutIsMap
  <2>3. \A l \in DOMAIN Without(f, k) : l \in DOMAIN f /\ Without(f, k)[l] = f[l]
    BY DEF Without
  <2>4. QED
    BY <2>1, <2>2, <2>3
<1>2. CASE v # default
  <2>1. Store(f, k, v, default) = Put(f, k, v)
    BY <1>2 DEF Store
  <2>2. Put(f, k, v) \in Maps(K, V)
    BY PutIsMap
  <2>3. \A l \in DOMAIN Put(f, k, v) :
          l \in DOMAIN f \cup {k} /\ Put(f, k, v)[l] = IF l = k THEN v ELSE f[l]
    BY DEF Put
  <2>4. QED
    BY <1>2, <2>1, <2>2, <2>3
<1> QED
  BY <1>1, <1>2

LEMMA GetType ==
  ASSUME NEW K, NEW V, NEW f \in Maps(K, V), NEW k, NEW d \in V
  PROVE  Get(f, k, d) \in V
  BY MapFacts DEF Get

LEMMA Get2Type ==
  ASSUME NEW K, NEW L, NEW V, NEW f \in Maps(K, Maps(L, V)), NEW k, NEW l, NEW d \in V
  PROVE  Get2(f, k, l, d) \in V
<1>1. Get(f, k, EmptyMap) \in Maps(L, V)
  BY EmptyMapIsMap, GetType
<1> QED
  BY <1>1, GetType DEF Get2

LEMMA Put2Domain ==
  ASSUME NEW f, NEW k, NEW l, NEW v
  PROVE  DOMAIN Put2(f, k, l, v) = DOMAIN f \cup {k}
  BY Domains DEF Put2

LEMMA Put2IsMap ==
  ASSUME NEW K, NEW L, NEW V, NEW f \in Maps(K, Maps(L, V)),
         NEW k \in K, NEW l \in L, NEW v \in V
  PROVE  Put2(f, k, l, v) \in Maps(K, Maps(L, V))
<1>1. Get(f, k, EmptyMap) \in Maps(L, V)
  BY EmptyMapIsMap, GetType
<1>2. Put(Get(f, k, EmptyMap), l, v) \in Maps(L, V)
  BY <1>1, PutIsMap
<1>3. Put(f, k, Put(Get(f, k, EmptyMap), l, v)) \in Maps(K, Maps(L, V))
  BY <1>2, PutIsMap
<1> QED
  BY <1>3 DEF Put2

LEMMA Store2IsMap ==
  ASSUME NEW K, NEW L, NEW V, NEW f \in Maps(K, Maps(L, V)), NEW k \in K, NEW g \in Maps(L, V)
  PROVE  /\ Store2(f, k, g) \in Maps(K, Maps(L, V))
         /\ DOMAIN Store2(f, k, g) \subseteq DOMAIN f \cup {k}
<1>1. Without(f, k) \in Maps(K, Maps(L, V)) /\ Put(f, k, g) \in Maps(K, Maps(L, V))
  BY WithoutIsMap, PutIsMap
<1>2. DOMAIN Without(f, k) = DOMAIN f \ {k} /\ DOMAIN Put(f, k, g) = DOMAIN f \cup {k}
  BY Domains
<1>3. Store2(f, k, g) = Without(f, k) \/ Store2(f, k, g) = Put(f, k, g)
  BY DEF Store2
<1> QED
  BY <1>1, <1>2, <1>3

LEMMA Without2IsMap ==
  ASSUME NEW K, NEW L, NEW V, NEW f \in Maps(K, Maps(L, V)), NEW k, NEW l
  PROVE  /\ Without2(f, k, l) \in Maps(K, Maps(L, V))
         /\ DOMAIN Without2(f, k, l) \subseteq DOMAIN f
<1>1. CASE k \in DOMAIN f
  <2>1. k \in K /\ f[k] \in Maps(L, V)
    BY <1>1, MapFacts
  <2>2. Without(f[k], l) \in Maps(L, V)
    BY <2>1, WithoutIsMap
  <2>3. QED
    BY <1>1, <2>1, <2>2, Store2IsMap DEF Without2
<1>2. CASE k \notin DOMAIN f
  BY <1>2 DEF Without2
<1> QED
  BY <1>1, <1>2

-----------------------------------------------------------------------------
\* The configuration keeps its type and loads again.

\* The fields of a configuration, and what validate says of each.
LEMMA ConfigFields ==
  ASSUME NEW c \in Configs
  PROVE  /\ DOMAIN c = {"servers", "modes", "active", "policies", "levels", "texts",
                        "instructions"}
         /\ c.servers \in Maps(Names, ServerConfig)
         /\ c.modes \in Maps(Names, Modes)
         /\ c.active \in Maps(Names, Maps(Tools, BOOLEAN))
         /\ c.policies \in Maps(Names, Policies)
         /\ c.levels \in Maps(Names, Maps(Tools, Levels))
         /\ c.texts \in Maps(Names, Maps(Tools, Descriptions))
         /\ c.instructions \in Maps(Names, {"override"})
  BY DEF Configs

LEMMA ValidFields ==
  ASSUME NEW c \in Configs
  PROVE  Valid(c) <=> /\ \A s \in DOMAIN c.servers : ValidName(s)
                      /\ DOMAIN c.modes \subseteq DOMAIN c.servers
                      /\ DOMAIN c.active \subseteq DOMAIN c.servers
                      /\ DOMAIN c.policies \subseteq DOMAIN c.servers
                      /\ DOMAIN c.levels \subseteq DOMAIN c.servers
                      /\ DOMAIN c.texts \subseteq DOMAIN c.servers
                      /\ DOMAIN c.instructions \subseteq DOMAIN c.servers
                      /\ \A s \in DOMAIN c.modes : c.modes[s] # "all"
                      /\ \A s \in DOMAIN c.policies : c.policies[s] # "heuristic"
  BY ConfigFields DEF Valid

\* A configuration that deserialises and is valid.
Sound(c) == c \in Configs /\ Valid(c)

\* The default configuration.
LEMMA NoConfigIsSound == Sound(NoConfig)
<1>1. NoConfig \in Configs
  BY EmptyMapIsMap DEF NoConfig, Configs
<1> QED
  BY <1>1, EmptyMapIsMap, ValidFields DEF NoConfig, Sound

\* Pruning only touches the overrides of the activation.
LEMMA PruneActiveIsSound ==
  ASSUME NEW c, Sound(c), NEW s \in Names
  PROVE  /\ Sound(PruneActive(c, s))
         /\ PruneActive(c, s).servers = c.servers
<1>1. CASE s \notin DOMAIN c.active
  BY <1>1 DEF PruneActive
<1>2. CASE s \in DOMAIN c.active
  <2> DEFINE kept == {t \in DOMAIN c.active[s] : c.active[s][t] # DefaultEnabled(c, s)}
             g == [t \in kept |-> c.active[s][t]]
             new == Store2(c.active, s, g)
  <2>1. c \in Configs /\ c.active \in Maps(Names, Maps(Tools, BOOLEAN))
    BY ConfigFields DEF Sound
  <2>2. c.active[s] \in Maps(Tools, BOOLEAN)
    BY <1>2, <2>1, MapFacts
  <2>3. kept \in SUBSET Tools /\ g \in [kept -> BOOLEAN]
    BY <2>2, MapFacts
  <2>4. g \in Maps(Tools, BOOLEAN)
    BY <2>3, MapOf
  <2>5. PruneActive(c, s) = [c EXCEPT !.active = new]
    BY <1>2 DEF PruneActive
  <2> HIDE DEF kept, g
  <2>6. /\ new \in Maps(Names, Maps(Tools, BOOLEAN))
        /\ DOMAIN new \subseteq DOMAIN c.active
    BY <1>2, <2>1, <2>4, Store2IsMap
  <2> HIDE DEF new
  <2>7. [c EXCEPT !.active = new] \in Configs
    BY <2>1, <2>6 DEF Configs
  <2>8. Valid([c EXCEPT !.active = new])
    BY <2>1, <2>6, <2>7, ValidFields, ConfigFields DEF Sound
  <2>9. QED
    BY <2>1, <2>5, <2>7, <2>8 DEF Sound, Configs
<1> QED
  BY <1>1, <1>2

\* A new mode, or policy, keeps the configuration sound, and removing a server does.
LEMMA WithModeIsSound ==
  ASSUME NEW c, Sound(c), NEW s \in Names, Known(c, s), NEW mode \in Modes
  PROVE  /\ Sound(WithMode(c, s, mode))
         /\ WithMode(c, s, mode).servers = c.servers
<1> DEFINE new == Store(c.modes, s, mode, "all")
           set == [c EXCEPT !.modes = new]
<1>1. /\ c \in Configs /\ c.modes \in Maps(Names, Modes)
      /\ \A r \in DOMAIN c.modes : c.modes[r] # "all"
  BY ConfigFields, ValidFields DEF Sound
<1>2. /\ new \in Maps(Names, Modes)
      /\ DOMAIN new \subseteq DOMAIN c.modes \cup {s}
      /\ \A r \in DOMAIN new : new[r] # "all"
  BY <1>1, StoreIsMap
<1>3. WithMode(c, s, mode) = PruneActive(set, s)
  BY DEF WithMode
<1> HIDE DEF new
<1>4. set \in Configs
  BY <1>1, <1>2 DEF Configs
<1>5. Valid(set) /\ set.servers = c.servers
  BY <1>1, <1>2, <1>4, ValidFields, ConfigFields DEF Sound, Known
<1> HIDE DEF set
<1> QED
  BY <1>3, <1>4, <1>5, PruneActiveIsSound DEF Sound

LEMMA WithPolicyIsSound ==
  ASSUME NEW c, Sound(c), NEW s \in Names, Known(c, s), NEW policy \in Policies
  PROVE  /\ Sound(WithPolicy(c, s, policy))
         /\ WithPolicy(c, s, policy).servers = c.servers
<1> DEFINE new == Store(c.policies, s, policy, "heuristic")
           set == [c EXCEPT !.policies = new]
<1>1. /\ c \in Configs /\ c.policies \in Maps(Names, Policies)
      /\ \A r \in DOMAIN c.policies : c.policies[r] # "heuristic"
  BY ConfigFields, ValidFields DEF Sound
<1>2. /\ new \in Maps(Names, Policies)
      /\ DOMAIN new \subseteq DOMAIN c.policies \cup {s}
      /\ \A r \in DOMAIN new : new[r] # "heuristic"
  BY <1>1, StoreIsMap
<1>3. WithPolicy(c, s, policy) = set
  BY DEF WithPolicy
<1> HIDE DEF new
<1>4. set \in Configs
  BY <1>1, <1>2 DEF Configs
<1>5. Valid(set) /\ set.servers = c.servers
  BY <1>1, <1>2, <1>4, ValidFields, ConfigFields DEF Sound, Known
<1> QED
  BY <1>3, <1>4, <1>5 DEF Sound

LEMMA WithoutServerIsSound ==
  ASSUME NEW c, Sound(c), NEW s
  PROVE  Sound(WithoutServer(c, s))
<1>1. CASE ~ Known(c, s)
  BY <1>1 DEF WithoutServer
<1>2. CASE Known(c, s)
  <2> DEFINE new == [f \in DOMAIN c |-> Without(c[f], s)]
  <2>1. c \in Configs
    BY DEF Sound
  <2>2. new = [servers |-> Without(c.servers, s), modes |-> Without(c.modes, s),
               active |-> Without(c.active, s), policies |-> Without(c.policies, s),
               levels |-> Without(c.levels, s), texts |-> Without(c.texts, s),
               instructions |-> Without(c.instructions, s)]
    BY <2>1, ConfigFields
  <2>3. WithoutServer(c, s) = new
    BY <1>2 DEF WithoutServer
  <2> HIDE DEF new
  <2>4. new \in Configs
    BY <2>1, <2>2, ConfigFields, WithoutIsMap DEF Configs
  <2>5. /\ \A r \in DOMAIN new.modes : new.modes[r] = c.modes[r] /\ r \in DOMAIN c.modes
        /\ \A r \in DOMAIN new.policies :
             new.policies[r] = c.policies[r] /\ r \in DOMAIN c.policies
    BY <2>2 DEF Without
  <2>6. /\ DOMAIN new.servers = DOMAIN c.servers \ {s}
        /\ DOMAIN new.modes = DOMAIN c.modes \ {s}
        /\ DOMAIN new.active = DOMAIN c.active \ {s}
        /\ DOMAIN new.policies = DOMAIN c.policies \ {s}
        /\ DOMAIN new.levels = DOMAIN c.levels \ {s}
        /\ DOMAIN new.texts = DOMAIN c.texts \ {s}
        /\ DOMAIN new.instructions = DOMAIN c.instructions \ {s}
    BY <2>2 DEF Without
  <2>7. Valid(new)
    BY <2>1, <2>4, <2>5, <2>6, ValidFields DEF Sound
  <2>8. QED
    BY <2>3, <2>4, <2>7 DEF Sound
<1> QED
  BY <1>1, <1>2

\* Changing one of the other fields.
LEMMA FieldsAreSound ==
  ASSUME NEW c, Sound(c)
  PROVE  /\ \A new \in Maps(Names, ServerConfig) :
              DOMAIN c.servers \subseteq DOMAIN new /\ (\A s \in DOMAIN new : ValidName(s))
                => Sound([c EXCEPT !.servers = new])
         /\ \A new \in Maps(Names, Maps(Tools, BOOLEAN)) :
              DOMAIN new \subseteq DOMAIN c.servers => Sound([c EXCEPT !.active = new])
         /\ \A new \in Maps(Names, Maps(Tools, Levels)) :
              DOMAIN new \subseteq DOMAIN c.servers => Sound([c EXCEPT !.levels = new])
         /\ \A new \in Maps(Names, Maps(Tools, Descriptions)) :
              DOMAIN new \subseteq DOMAIN c.servers => Sound([c EXCEPT !.texts = new])
         /\ \A new \in Maps(Names, {"override"}) :
              DOMAIN new \subseteq DOMAIN c.servers => Sound([c EXCEPT !.instructions = new])
<1>0. c \in Configs /\ Valid(c)
  BY DEF Sound
<1>1. ASSUME NEW new \in Maps(Names, ServerConfig),
             DOMAIN c.servers \subseteq DOMAIN new, \A s \in DOMAIN new : ValidName(s)
      PROVE  Sound([c EXCEPT !.servers = new])
  <2>1. [c EXCEPT !.servers = new] \in Configs
    BY <1>0 DEF Configs
  <2>2. QED
    BY <1>0, <1>1, <2>1, ValidFields, ConfigFields DEF Sound
<1>2. ASSUME NEW new \in Maps(Names, Maps(Tools, BOOLEAN)),
             DOMAIN new \subseteq DOMAIN c.servers
      PROVE  Sound([c EXCEPT !.active = new])
  <2>1. [c EXCEPT !.active = new] \in Configs
    BY <1>0 DEF Configs
  <2>2. QED
    BY <1>0, <1>2, <2>1, ValidFields, ConfigFields DEF Sound
<1>3. ASSUME NEW new \in Maps(Names, Maps(Tools, Levels)),
             DOMAIN new \subseteq DOMAIN c.servers
      PROVE  Sound([c EXCEPT !.levels = new])
  <2>1. [c EXCEPT !.levels = new] \in Configs
    BY <1>0 DEF Configs
  <2>2. QED
    BY <1>0, <1>3, <2>1, ValidFields, ConfigFields DEF Sound
<1>4. ASSUME NEW new \in Maps(Names, Maps(Tools, Descriptions)),
             DOMAIN new \subseteq DOMAIN c.servers
      PROVE  Sound([c EXCEPT !.texts = new])
  <2>1. [c EXCEPT !.texts = new] \in Configs
    BY <1>0 DEF Configs
  <2>2. QED
    BY <1>0, <1>4, <2>1, ValidFields, ConfigFields DEF Sound
<1>5. ASSUME NEW new \in Maps(Names, {"override"}),
             DOMAIN new \subseteq DOMAIN c.servers
      PROVE  Sound([c EXCEPT !.instructions = new])
  <2>1. [c EXCEPT !.instructions = new] \in Configs
    BY <1>0 DEF Configs
  <2>2. QED
    BY <1>0, <1>5, <2>1, ValidFields, ConfigFields DEF Sound
<1> QED
  BY <1>1, <1>2, <1>3, <1>4, <1>5

\* The changes of a server and of a tool.

LEMMA ChangeServerIsSound ==
  ASSUME Sound(cfg), NEW s \in Names, ChangeServer(s)
  PROVE  Sound(cfg')
<1>0. /\ cfg \in Configs
      /\ cfg.servers \in Maps(Names, ServerConfig)
      /\ cfg.instructions \in Maps(Names, {"override"})
      /\ \A r \in DOMAIN cfg.servers : ValidName(r)
      /\ DOMAIN cfg.instructions \subseteq DOMAIN cfg.servers
  BY ConfigFields, ValidFields DEF Sound
<1>1. ASSUME NEW e \in Exposures, NEW p \in Policies, NEW m \in Modes, NEW b \in BOOLEAN,
             AddServer(s, e, p, m, b)
      PROVE  Sound(cfg')
  <2> DEFINE server == [exposure |-> e, enabled |-> b]
             new == Put(cfg.servers, s, server)
             added == [cfg EXCEPT !.servers = new]
  <2>1. /\ ValidName(s)
        /\ cfg' = WithMode(WithPolicy(added, s, p), s, m)
    BY <1>1 DEF AddServer, Update
  <2>2. server \in ServerConfig
    BY CatalogConstants DEF ServerConfig
  <2> HIDE DEF server
  <2>3. new \in Maps(Names, ServerConfig)
    BY <1>0, <2>2, PutIsMap
  <2>4. DOMAIN new = DOMAIN cfg.servers \cup {s}
    BY Domains
  <2> HIDE DEF new
  <2>5. Sound(added)
    BY <1>0, <2>1, <2>3, <2>4, FieldsAreSound
  <2>6. Known(added, s)
    BY <1>0, <2>4 DEF Known, Configs
  <2> HIDE DEF added
  <2>7. Sound(WithPolicy(added, s, p)) /\ Known(WithPolicy(added, s, p), s)
    BY <2>5, <2>6, WithPolicyIsSound DEF Known
  <2>8. QED
    BY <2>1, <2>7, WithModeIsSound
<1>2. ASSUME NEW e \in Exposures, SetExposure(s, e) PROVE Sound(cfg')
  <2> DEFINE new == [cfg.servers EXCEPT ![s].exposure = e]
  <2>1. s \in DOMAIN cfg.servers /\ cfg' = [cfg EXCEPT !.servers = new]
    BY <1>0, <1>2 DEF SetExposure, Update, Known, Configs
  <2>2. cfg.servers[s] \in ServerConfig
    BY <1>0, <2>1, MapFacts
  <2>3. [cfg.servers[s] EXCEPT !.exposure = e] \in ServerConfig
    BY <2>2, CatalogConstants DEF ServerConfig
  <2>4. new \in [DOMAIN cfg.servers -> ServerConfig]
    BY <1>0, <2>1, <2>3, MapFacts
  <2>5. DOMAIN cfg.servers \in SUBSET Names
    BY <1>0, MapFacts
  <2> HIDE DEF new
  <2>6. /\ new \in Maps(Names, ServerConfig)
        /\ DOMAIN new = DOMAIN cfg.servers
    BY <2>4, <2>5, MapOf
  <2>7. QED
    BY <1>0, <2>1, <2>6, FieldsAreSound
<1>3. ASSUME NEW b \in BOOLEAN, SetEnabled(s, b) PROVE Sound(cfg')
  <2> DEFINE new == [cfg.servers EXCEPT ![s].enabled = b]
  <2>1. s \in DOMAIN cfg.servers /\ cfg' = [cfg EXCEPT !.servers = new]
    BY <1>0, <1>3 DEF SetEnabled, Update, Known, Configs
  <2>2. cfg.servers[s] \in ServerConfig
    BY <1>0, <2>1, MapFacts
  <2>3. [cfg.servers[s] EXCEPT !.enabled = b] \in ServerConfig
    BY <2>2 DEF ServerConfig
  <2>4. new \in [DOMAIN cfg.servers -> ServerConfig]
    BY <1>0, <2>1, <2>3, MapFacts
  <2>5. DOMAIN cfg.servers \in SUBSET Names
    BY <1>0, MapFacts
  <2> HIDE DEF new
  <2>6. /\ new \in Maps(Names, ServerConfig)
        /\ DOMAIN new = DOMAIN cfg.servers
    BY <2>4, <2>5, MapOf
  <2>7. QED
    BY <1>0, <2>1, <2>6, FieldsAreSound
<1>4. ASSUME NEW m \in Modes, SetMode(s, m) PROVE Sound(cfg')
  BY <1>4, WithModeIsSound DEF SetMode, Update
<1>5. ASSUME NEW p \in Policies, SetPolicy(s, p) PROVE Sound(cfg')
  BY <1>5, WithPolicyIsSound DEF SetPolicy, Update
<1>6. CASE RemoveServer(s)
  BY <1>6, WithoutServerIsSound DEF RemoveServer, Update
<1>7. CASE SetInstruction(s)
  <2>1. s \in DOMAIN cfg.servers
    BY <1>7 DEF SetInstruction, Known
  <2>2. cfg' = [cfg EXCEPT !.instructions = Put(cfg.instructions, s, "override")]
    BY <1>7 DEF SetInstruction, Update
  <2>3. Put(cfg.instructions, s, "override") \in Maps(Names, {"override"})
    BY <1>0, PutIsMap
  <2>4. DOMAIN Put(cfg.instructions, s, "override") = DOMAIN cfg.instructions \cup {s}
    BY Domains
  <2>5. QED
    BY <1>0, <2>1, <2>2, <2>3, <2>4, FieldsAreSound
<1>8. CASE RemoveInstruction(s)
  <2>1. cfg' = [cfg EXCEPT !.instructions = Without(cfg.instructions, s)]
    BY <1>8 DEF RemoveInstruction, Update
  <2>2. Without(cfg.instructions, s) \in Maps(Names, {"override"})
    BY <1>0, WithoutIsMap
  <2>3. DOMAIN Without(cfg.instructions, s) = DOMAIN cfg.instructions \ {s}
    BY Domains
  <2>4. QED
    BY <1>0, <2>1, <2>2, <2>3, FieldsAreSound
<1> QED
  BY <1>1, <1>2, <1>3, <1>4, <1>5, <1>6, <1>7, <1>8 DEF ChangeServer

LEMMA ChangeToolIsSound ==
  ASSUME Sound(cfg), NEW s \in Names, NEW t \in Tools, ChangeTool(s, t)
  PROVE  Sound(cfg')
<1>0. /\ cfg.active \in Maps(Names, Maps(Tools, BOOLEAN))
      /\ cfg.levels \in Maps(Names, Maps(Tools, Levels))
      /\ cfg.texts \in Maps(Names, Maps(Tools, Descriptions))
      /\ DOMAIN cfg.active \subseteq DOMAIN cfg.servers
      /\ DOMAIN cfg.levels \subseteq DOMAIN cfg.servers
      /\ DOMAIN cfg.texts \subseteq DOMAIN cfg.servers
  BY ConfigFields, ValidFields DEF Sound
<1>1. ASSUME NEW b \in BOOLEAN, SetActive(s, t, b) PROVE Sound(cfg')
  <2> DEFINE put == Put2(cfg.active, s, t, b)
             removed == Without2(cfg.active, s, t)
  <2>1. s \in DOMAIN cfg.servers
    BY <1>1 DEF SetActive, Known
  <2>2. cfg' \in {[cfg EXCEPT !.active = put], [cfg EXCEPT !.active = removed]}
    BY <1>1 DEF SetActive, Update
  <2>3. put \in Maps(Names, Maps(Tools, BOOLEAN))
    BY <1>0, Put2IsMap
  <2>9. DOMAIN put = DOMAIN cfg.active \cup {s}
    BY Put2Domain
  <2>4. /\ removed \in Maps(Names, Maps(Tools, BOOLEAN))
        /\ DOMAIN removed \subseteq DOMAIN cfg.active
    BY <1>0, Without2IsMap
  <2> HIDE DEF put, removed
  <2>5. Sound([cfg EXCEPT !.active = put]) /\ Sound([cfg EXCEPT !.active = removed])
    BY <1>0, <2>1, <2>3, <2>9, <2>4, FieldsAreSound
  <2>6. QED
    BY <2>2, <2>5
<1>2. ASSUME NEW l \in Levels, SetLevel(s, t, l) PROVE Sound(cfg')
  <2> DEFINE put == Put2(cfg.levels, s, t, l)
  <2>1. s \in DOMAIN cfg.servers /\ cfg' = [cfg EXCEPT !.levels = put]
    BY <1>2 DEF SetLevel, Known, Update
  <2>2. put \in Maps(Names, Maps(Tools, Levels))
    BY <1>0, Put2IsMap
  <2>9. DOMAIN put = DOMAIN cfg.levels \cup {s}
    BY Put2Domain
  <2> HIDE DEF put
  <2>3. QED
    BY <1>0, <2>1, <2>2, <2>9, FieldsAreSound
<1>3. ASSUME NEW d \in Descriptions, SetText(s, t, d) PROVE Sound(cfg')
  <2> DEFINE put == Put2(cfg.texts, s, t, d)
  <2>1. s \in DOMAIN cfg.servers /\ cfg' = [cfg EXCEPT !.texts = put]
    BY <1>3 DEF SetText, Known, Update
  <2>2. put \in Maps(Names, Maps(Tools, Descriptions))
    BY <1>0, Put2IsMap
  <2>9. DOMAIN put = DOMAIN cfg.texts \cup {s}
    BY Put2Domain
  <2> HIDE DEF put
  <2>3. QED
    BY <1>0, <2>1, <2>2, <2>9, FieldsAreSound
<1>4. CASE RemoveLevel(s, t)
  <2> DEFINE removed == Without2(cfg.levels, s, t)
  <2>1. cfg' = [cfg EXCEPT !.levels = removed]
    BY <1>4 DEF RemoveLevel, Update
  <2>2. /\ removed \in Maps(Names, Maps(Tools, Levels))
        /\ DOMAIN removed \subseteq DOMAIN cfg.levels
    BY <1>0, Without2IsMap
  <2> HIDE DEF removed
  <2>3. QED
    BY <1>0, <2>1, <2>2, FieldsAreSound
<1>5. CASE RemoveText(s, t)
  <2> DEFINE removed == Without2(cfg.texts, s, t)
  <2>1. cfg' = [cfg EXCEPT !.texts = removed]
    BY <1>5 DEF RemoveText, Update
  <2>2. /\ removed \in Maps(Names, Maps(Tools, Descriptions))
        /\ DOMAIN removed \subseteq DOMAIN cfg.texts
    BY <1>0, Without2IsMap
  <2> HIDE DEF removed
  <2>3. QED
    BY <1>0, <2>1, <2>2, FieldsAreSound
<1> QED
  BY <1>1, <1>2, <1>3, <1>4, <1>5 DEF ChangeTool

\* The inductive invariant of the configuration.
ConfigInv == Sound(cfg)

LEMMA SoundInit == CatalogInit => ConfigInv
  BY NoConfigIsSound DEF CatalogInit, ConfigInv

LEMMA SoundStep == ConfigInv /\ [CatalogNext]_catalogVars => ConfigInv'
<1> SUFFICES ASSUME ConfigInv, [CatalogNext]_catalogVars PROVE ConfigInv'
  OBVIOUS
<1>1. ASSUME NEW s \in Names, NEW t \in Offers[s], ChangeTool(s, t) PROVE ConfigInv'
  <2>1. t \in Tools
    BY <1>1 DEF Tools
  <2>2. QED
    BY <1>1, <2>1, ChangeToolIsSound DEF ConfigInv
<1>2. ASSUME NEW c \in Imports, Import(c) PROVE ConfigInv'
  BY <1>2, CatalogConstants DEF Import, Update, Sound, ConfigInv
<1>3. ASSUME NEW failed, ListPage(failed) \/ ListOutOfRange(failed) PROVE ConfigInv'
  BY <1>3 DEF ConfigInv, ListPage, ListOutOfRange
<1>4. CASE UNCHANGED catalogVars
  BY <1>4 DEF ConfigInv, catalogVars
<1> QED
  BY <1>1, <1>2, <1>3, <1>4, ChangeServerIsSound DEF ConfigInv, CatalogNext

\* However often the configuration is changed and imported, for any names and tools, it
\* passes the validation of the next load.
THEOREM ConfigAlwaysLoads == CatalogSpec => []ConfigLoads
<1>1. ConfigInv => ConfigLoads
  BY DEF ConfigInv, Sound, ConfigLoads
<1> QED
  BY <1>1, SoundInit, SoundStep, PTL DEF CatalogSpec

-----------------------------------------------------------------------------
\* A change of mode leaves overrides alone.

\* What a map of maps says after the map of one key was replaced.
LEMMA Store2Gets ==
  ASSUME NEW f, NEW k, NEW g, NEW r, NEW l, NEW d
  PROVE  /\ r # k => Get2(Store2(f, k, g), r, l, d) = Get2(f, r, l, d)
         /\ Get2(Store2(f, k, g), k, l, d) = Get(g, l, d)
<1>1. ASSUME r # k PROVE Get(Store2(f, k, g), r, EmptyMap) = Get(f, r, EmptyMap)
  BY <1>1 DEF Store2, Put, Without, Get
<1>2. CASE DOMAIN g = {}
  <2>1. Get(Store2(f, k, g), k, EmptyMap) = EmptyMap
    BY <1>2 DEF Store2, Without, Get
  <2>2. DOMAIN EmptyMap = {}
    BY DEF EmptyMap
  <2>3. QED
    BY <1>1, <1>2, <2>1, <2>2 DEF Get2, Get
<1>3. CASE DOMAIN g # {}
  <2>1. Get(Store2(f, k, g), k, EmptyMap) = g
    BY <1>3 DEF Store2, Put, Get
  <2>2. QED
    BY <1>1, <2>1 DEF Get2, Get
<1> QED
  BY <1>2, <1>3

\* What pruning leaves of a server's overrides says what they said.
LEMMA PruneKeepsAnswers ==
  ASSUME NEW c \in Configs, NEW s, NEW r, NEW t
  PROVE  IsToolEnabled(PruneActive(c, s), r, t) = IsToolEnabled(c, r, t)
<1>1. CASE s \notin DOMAIN c.active
  BY <1>1 DEF PruneActive
<1>2. CASE s \in DOMAIN c.active
  <2> DEFINE kept == {l \in DOMAIN c.active[s] : c.active[s][l] # DefaultEnabled(c, s)}
             g == [l \in kept |-> c.active[s][l]]
             new == Store2(c.active, s, g)
  <2>1. PruneActive(c, s) = [c EXCEPT !.active = new]
    BY <1>2 DEF PruneActive
  <2>2. /\ [c EXCEPT !.active = new].active = new
        /\ [c EXCEPT !.active = new].modes = c.modes
    BY DEF Configs
  <2>3. \A q : DefaultEnabled([c EXCEPT !.active = new], q) = DefaultEnabled(c, q)
    BY <2>2 DEF DefaultEnabled, ModeFor
  <2>4. IsToolEnabled(PruneActive(c, s), r, t) = Get2(new, r, t, DefaultEnabled(c, r))
    BY <2>1, <2>2, <2>3 DEF IsToolEnabled
  <2> HIDE DEF g
  <2>5. CASE r # s
    BY <2>4, <2>5, Store2Gets DEF IsToolEnabled
  <2>6. CASE r = s
    <3>1. Get2(new, r, t, DefaultEnabled(c, r)) = Get(g, t, DefaultEnabled(c, s))
      BY <2>6, Store2Gets
    <3>2. IsToolEnabled(c, s, t) = Get(c.active[s], t, DefaultEnabled(c, s))
      BY <1>2 DEF IsToolEnabled, Get2, Get
    <3>3. Get(g, t, DefaultEnabled(c, s)) = Get(c.active[s], t, DefaultEnabled(c, s))
      BY DEF Get, g
    <3>4. QED
      BY <2>4, <2>6, <3>1, <3>2, <3>3
  <2>7. QED
    BY <2>5, <2>6
<1> QED
  BY <1>1, <1>2

\* A change of mode changes the default of one server, and nothing else is answered
\* differently.
LEMMA ModeChangesDefault ==
  ASSUME NEW c \in Configs, NEW s \in Names, NEW mode \in Modes, NEW r, NEW t,
         r # s \/ (r \in DOMAIN c.active /\ t \in DOMAIN c.active[r])
  PROVE  IsToolEnabled(WithMode(c, s, mode), r, t) = IsToolEnabled(c, r, t)
<1> DEFINE new == Store(c.modes, s, mode, "all")
           set == [c EXCEPT !.modes = new]
<1>1. c.modes \in Maps(Names, Modes)
  BY ConfigFields
<1>2. Without(c.modes, s) \in Maps(Names, Modes) /\ Put(c.modes, s, mode) \in Maps(Names, Modes)
  BY <1>1, PutIsMap, WithoutIsMap
<1>3. new \in Maps(Names, Modes)
  BY <1>2 DEF Store
<1>4. set \in Configs /\ set.active = c.active /\ set.modes = new
  BY <1>3 DEF Configs
<1>5. WithMode(c, s, mode) = PruneActive(set, s)
  BY DEF WithMode
<1>6. r # s => DefaultEnabled(set, r) = DefaultEnabled(c, r)
  BY <1>4 DEF DefaultEnabled, ModeFor, Get, Store, Put, Without
<1> HIDE DEF set
<1>7. IsToolEnabled(set, r, t) = IsToolEnabled(c, r, t)
  BY <1>4, <1>6 DEF IsToolEnabled, Get2, Get
<1> QED
  BY <1>4, <1>5, <1>7, PruneKeepsAnswers

\* A change of the mode of a server's tools leaves the tools that were set one by one, and
\* the tools of other servers, as they were.
THEOREM ModesSpareOverrides == CatalogSpec => OverridesSurviveMode
<1>1. ASSUME ConfigInv, NEW s \in Names, NEW mode \in Modes, SetMode(s, mode)
      PROVE  \A r \in DOMAIN cfg.servers : \A t \in Offers[r] :
               r # s \/ (r \in DOMAIN cfg.active /\ t \in DOMAIN cfg.active[r])
                 => IsToolEnabled(cfg', r, t) = IsToolEnabled(cfg, r, t)
  BY <1>1, ModeChangesDefault DEF ConfigInv, Sound, SetMode, Update
<1>2. ConfigInv =>
        [\A s \in Names, mode \in Modes : SetMode(s, mode) =>
           \A r \in DOMAIN cfg.servers : \A t \in Offers[r] :
             r # s \/ (r \in DOMAIN cfg.active /\ t \in DOMAIN cfg.active[r])
               => IsToolEnabled(cfg', r, t) = IsToolEnabled(cfg, r, t)]_catalogVars
  BY <1>1
<1> QED
  BY <1>2, SoundInit, SoundStep, PTL DEF CatalogSpec, OverridesSurviveMode

-----------------------------------------------------------------------------
\* Lists.

\* A set of numbers has a least one.
LEMMA LeastNumber ==
  ASSUME NEW T \in SUBSET Nat, T # {}
  PROVE  \E i \in T : \A j \in T : i <= j
<1> DEFINE Lt == OpToRel(<, Nat)
<1>1. IsWellFoundedOn(Lt, Nat)
  BY NatLessThanWellFounded, Zenon
<1>2. Lt = {ss \in Nat \X Nat : ss[1] < ss[2]}
  BY Zenon DEF OpToRel
<1> HIDE DEF Lt
<1>3. PICK i \in T : \A j \in T : ~ (<<j, i>> \in Lt)
  BY <1>1, WFMin, Zenon
<1>4. \A j \in T : ~ (j < i)
  BY <1>2, <1>3
<1> QED
  BY <1>4

\* How many places of a sequence are in a set of places, up to the i-th.
Rank(at, i) == Cardinality(at \cap (1 .. i))

\* It grows by one at each of these places.
LEMMA RankFacts ==
  ASSUME NEW n \in Nat, NEW at \in SUBSET (1 .. n)
  PROVE  /\ \A i \in 0 .. n : Rank(at, i) \in Nat
         /\ Rank(at, 0) = 0 /\ Rank(at, n) = Cardinality(at)
         /\ \A i \in 1 .. n : Rank(at, i) = Rank(at, i - 1) + (IF i \in at THEN 1 ELSE 0)
         /\ \A i, j \in 0 .. n : i <= j => Rank(at, i) <= Rank(at, j)
<1>0. \A j \in at : j \in Int /\ 1 <= j /\ j <= n
  OBVIOUS
<1>1. IsFiniteSet(at)
  <2>1. IsFiniteSet(1 .. n)
    BY FS_Interval
  <2>2. QED
    BY <2>1, FS_Subset
<1>2. \A i \in 0 .. n : IsFiniteSet(at \cap (1 .. i)) /\ Rank(at, i) \in Nat
  <2>1. ASSUME NEW i \in 0 .. n PROVE IsFiniteSet(at \cap (1 .. i))
    BY <1>1, FS_Subset
  <2>2. QED
    BY <2>1, FS_CardinalityType DEF Rank
<1>3. Rank(at, 0) = 0
  <2>1. at \cap (1 .. 0) = {}
    BY <1>0
  <2>2. QED
    BY <2>1, FS_EmptySet DEF Rank
<1>4. Rank(at, n) = Cardinality(at)
  <2>1. at \cap (1 .. n) = at
    BY <1>0
  <2>2. QED
    BY <2>1 DEF Rank
<1>5. ASSUME NEW i \in 1 .. n
      PROVE  Rank(at, i) = Rank(at, i - 1) + (IF i \in at THEN 1 ELSE 0)
  <2>0. i - 1 \in 0 .. n
    OBVIOUS
  <2>1. CASE i \in at
    <3>1. at \cap (1 .. i) = (at \cap (1 .. i - 1)) \cup {i}
      BY <1>0, <2>1
    <3>2. i \notin (at \cap (1 .. i - 1))
      OBVIOUS
    <3>3. Cardinality((at \cap (1 .. i - 1)) \cup {i}) = Cardinality(at \cap (1 .. i - 1)) + 1
      BY <1>2, <2>0, <3>2, FS_AddElement
    <3>4. QED
      BY <2>1, <3>1, <3>3 DEF Rank
  <2>2. CASE i \notin at
    <3>1. at \cap (1 .. i) = at \cap (1 .. i - 1)
      BY <1>0, <2>2
    <3>2. Rank(at, i) = Rank(at, i - 1) /\ Rank(at, i - 1) \in Nat
      BY <1>2, <2>0, <3>1 DEF Rank
    <3>3. QED
      BY <2>2, <3>2
  <2>3. QED
    BY <2>1, <2>2
<1>6. ASSUME NEW i \in 0 .. n, NEW j \in 0 .. n, i <= j PROVE Rank(at, i) <= Rank(at, j)
  <2>1. at \cap (1 .. i) \subseteq at \cap (1 .. j)
    BY <1>0, <1>6
  <2>2. QED
    BY <1>2, <2>1, FS_Subset DEF Rank
<1> QED
  BY <1>2, <1>3, <1>4, <1>5, <1>6

\* Every rank is that of one place.
LEMMA Ranked ==
  ASSUME NEW n \in Nat, NEW at \in SUBSET (1 .. n), NEW k \in 1 .. Cardinality(at)
  PROVE  /\ \E i \in at : Rank(at, i) = k
         /\ \A i, j \in at : Rank(at, i) = k /\ Rank(at, j) = k => i = j
<1>0. Cardinality(at) \in Nat
  BY RankFacts
<1> DEFINE T == {i \in 0 .. n : k <= Rank(at, i)}
<1>1. n \in T /\ T \in SUBSET Nat
  BY <1>0, RankFacts
<1> HIDE DEF T
<1>2. PICK i \in T : \A j \in T : i <= j
  BY <1>1, LeastNumber
<1>3. i \in 0 .. n /\ k <= Rank(at, i) /\ i # 0
  <2>1. i \in 0 .. n /\ k <= Rank(at, i)
    BY <1>2 DEF T
  <2>2. Rank(at, 0) = 0
    BY RankFacts
  <2>3. QED
    BY <1>0, <2>1, <2>2
<1>4. i \in 1 .. n /\ i - 1 \in 0 .. n /\ i - 1 \notin T
  BY <1>2, <1>3
<1>5. Rank(at, i - 1) \in Nat /\ Rank(at, i) \in Nat /\ ~ (k <= Rank(at, i - 1))
  BY <1>3, <1>4, RankFacts DEF T
<1>6. Rank(at, i) = Rank(at, i - 1) + (IF i \in at THEN 1 ELSE 0)
  <2>1. \A h \in 1 .. n : Rank(at, h) = Rank(at, h - 1) + (IF h \in at THEN 1 ELSE 0)
    BY RankFacts
  <2>2. QED
    BY <1>4, <2>1
<1>7. i \in at /\ Rank(at, i) = k
  BY <1>0, <1>3, <1>5, <1>6
<1>8. ASSUME NEW a \in at, NEW b \in at, a < b PROVE Rank(at, a) # Rank(at, b)
  <2>1. /\ a \in 0 .. n /\ b \in 1 .. n /\ b - 1 \in 0 .. n /\ a <= b - 1
    BY <1>8
  <2>2. Rank(at, a) <= Rank(at, b - 1) /\ Rank(at, b) = Rank(at, b - 1) + 1
    BY <2>1, RankFacts
  <2>3. Rank(at, a) \in Nat /\ Rank(at, b - 1) \in Nat
    BY <2>1, RankFacts
  <2>4. QED
    BY <2>2, <2>3
<1>9. \A a, b \in at : Rank(at, a) = k /\ Rank(at, b) = k => a = b
  <2> SUFFICES ASSUME NEW a \in at, NEW b \in at, Rank(at, a) = k, Rank(at, b) = k, a # b
               PROVE  FALSE
    OBVIOUS
  <2>1. a < b \/ b < a
    OBVIOUS
  <2>2. QED
    BY <1>8, <2>1
<1> QED
  BY <1>7, <1>9

\* The names a list has: those of the enabled servers' prompts.
Promised(c, failed) ==
  UNION {{Namespaced(s, t) : t \in Offers[s]} : s \in EnabledServers(c) \ failed}

\* The places that a list's items have in the order of names: the k-th is at place at[k],
\* which grows with k and misses none of the names.
Places(items, names) ==
  {at \in [1 .. Len(items) -> 1 .. Len(Order)] :
     /\ \A k \in 1 .. Len(items) : items[k] = Order[at[k]]
     /\ \A k, l \in 1 .. Len(items) : k < l => at[k] < at[l]
     /\ \A i \in 1 .. Len(Order) :
          Order[i] \in names <=> \E k \in 1 .. Len(items) : at[k] = i}

LEMMA ListPlaces ==
  ASSUME NEW c, NEW failed
  PROVE  /\ Listed(c, failed) \in Seq(Range(Order))
         /\ \E at : at \in Places(Listed(c, failed), Promised(c, failed))
<1> DEFINE places == {i \in 1 .. Len(Order) : Order[i] \in Promised(c, failed)}
           Nth(k) == CHOOSE i \in places : Cardinality(places \cap (1 .. i)) = k
           n == Cardinality(places)
           nth == [k \in 1 .. n |-> Nth(k)]
           items == Listed(c, failed)
<1>1. Len(Order) \in Nat /\ \A i \in 1 .. Len(Order) : Order[i] \in Range(Order)
  BY CatalogConstants, LenProperties, ElementOfSeq
<1>2. items = [k \in 1 .. n |-> Order[Nth(k)]]
  BY DEF Listed, Promised
<1>3. places \in SUBSET (1 .. Len(Order))
  OBVIOUS
<1>4. n \in Nat
  BY <1>1, <1>3, RankFacts
<1> HIDE DEF items, places
<1>5. ASSUME NEW k \in 1 .. n PROVE Nth(k) \in places /\ Rank(places, Nth(k)) = k
  <2>1. \E i \in places : Rank(places, i) = k
    BY <1>1, <1>3, Ranked
  <2>2. \E i \in places : Cardinality(places \cap (1 .. i)) = k
    BY <2>1 DEF Rank
  <2>3. QED
    BY <2>2, Zenon DEF Rank
<1> HIDE DEF Nth
<1>6. items \in [1 .. n -> Range(Order)]
  <2>1. \A k \in 1 .. n : Nth(k) \in 1 .. Len(Order)
    BY <1>3, <1>5
  <2>2. QED
    BY <1>1, <1>2, <2>1
<1>7. items \in Seq(Range(Order)) /\ Len(items) = n
  BY <1>4, <1>6, SeqDef, LenProperties
<1>8. nth \in [1 .. n -> 1 .. Len(Order)]
  BY <1>3, <1>5
<1>9. \A k \in 1 .. n : nth[k] = Nth(k)
  OBVIOUS
<1> HIDE DEF nth, n
<1>10. \A k \in 1 .. n : items[k] = Order[nth[k]]
  BY <1>2, <1>9
<1>11. ASSUME NEW k \in 1 .. n, NEW l \in 1 .. n, k < l PROVE nth[k] < nth[l]
  <2>1. /\ nth[k] \in 1 .. Len(Order) /\ nth[l] \in 1 .. Len(Order)
        /\ Rank(places, nth[k]) = k /\ Rank(places, nth[l]) = l
    BY <1>5, <1>8, <1>9
  <2>2. \A i, j \in 0 .. Len(Order) : i <= j => Rank(places, i) <= Rank(places, j)
    BY <1>1, <1>3, RankFacts
  <2>3. nth[l] <= nth[k] => l <= k
    BY <1>1, <2>1, <2>2
  <2>4. QED
    BY <1>1, <1>4, <1>11, <2>1, <2>3
<1>12. ASSUME NEW i \in 1 .. Len(Order)
       PROVE  Order[i] \in Promised(c, failed) <=> \E k \in 1 .. n : nth[k] = i
  <2>1. i \in places <=> Order[i] \in Promised(c, failed)
    BY DEF places
  <2>2. ASSUME i \in places PROVE \E k \in 1 .. n : nth[k] = i
    <3>1. Rank(places, i) \in 1 .. n
      <4>1. Rank(places, i) = Rank(places, i - 1) + 1 /\ Rank(places, i - 1) \in Nat
        <5>1. i - 1 \in 0 .. Len(Order) /\ i \in 0 .. Len(Order)
          BY <1>1
        <5>2. \A j \in 1 .. Len(Order) :
                Rank(places, j) = Rank(places, j - 1) + (IF j \in places THEN 1 ELSE 0)
          BY <1>1, <1>3, RankFacts
        <5>3. Rank(places, i - 1) \in Nat
          BY <1>1, <1>3, <5>1, RankFacts
        <5>4. QED
          BY <2>2, <5>2, <5>3
      <4>2. Rank(places, i) <= n
        <5>1. i \in 0 .. Len(Order) /\ Len(Order) \in 0 .. Len(Order) /\ i <= Len(Order)
          BY <1>1
        <5>2. Rank(places, i) <= Rank(places, Len(Order))
          BY <1>1, <1>3, <5>1, RankFacts
        <5>3. QED
          BY <1>1, <1>3, <5>2, RankFacts DEF n
      <4>3. QED
        BY <1>4, <4>1, <4>2
    <3>2. /\ nth[Rank(places, i)] \in places
          /\ Rank(places, nth[Rank(places, i)]) = Rank(places, i)
      BY <1>5, <1>9, <3>1
    <3>3. nth[Rank(places, i)] = i
      BY <1>1, <1>3, <2>2, <3>1, <3>2, Ranked DEF n
    <3>4. QED
      BY <3>1, <3>3
  <2>3. ASSUME NEW k \in 1 .. n, nth[k] = i PROVE i \in places
    BY <1>5, <1>9, <2>3
  <2>4. QED
    BY <2>1, <2>2, <2>3
<1>13. nth \in Places(items, Promised(c, failed))
  BY <1>7, <1>8, <1>10, <1>11, <1>12 DEF Places
<1> QED
  BY <1>7, <1>13 DEF items

\* What a configuration says of a list: it has the names of all enabled servers that were
\* discovered, and no others, in the order of names and each once.
THEOREM ListsAreComplete ==
  ASSUME NEW c \in Configs, NEW failed
  PROVE  LET items == Listed(c, failed)
         IN  /\ Range(items) = Promised(c, failed)
             /\ \A k, l \in 1 .. Len(items), i, j \in 1 .. Len(Order) :
                  k < l /\ items[k] = Order[i] /\ items[l] = Order[j] => i < j
<1> DEFINE items == Listed(c, failed)
<1>1. items \in Seq(Range(Order)) /\ Order \in Seq(Range(Order))
  BY ListPlaces, CatalogConstants
<1>2. DOMAIN items = 1 .. Len(items) /\ DOMAIN Order = 1 .. Len(Order)
  BY <1>1, LenProperties
<1>3. PICK at : at \in Places(items, Promised(c, failed))
  BY ListPlaces
<1> HIDE DEF items
<1>4. /\ at \in [1 .. Len(items) -> 1 .. Len(Order)]
      /\ \A k \in 1 .. Len(items) : items[k] = Order[at[k]]
      /\ \A k, l \in 1 .. Len(items) : k < l => at[k] < at[l]
      /\ \A i \in 1 .. Len(Order) :
           Order[i] \in Promised(c, failed) <=> \E k \in 1 .. Len(items) : at[k] = i
  BY <1>3 DEF Places
<1>5. \A n \in Promised(c, failed) : \E i \in 1 .. Len(Order) : Order[i] = n
  <2>1. EnabledServers(c) \subseteq Names
    <3>1. c.servers \in Maps(Names, ServerConfig)
      BY DEF Configs
    <3>2. QED
      BY <3>1, MapFacts DEF EnabledServers
  <2>2. Promised(c, failed) \subseteq Range(Order)
    <3>1. \A s \in Names : \A t \in Offers[s] : Namespaced(s, t) \in Range(Order)
      BY CatalogConstants, Zenon DEF Namespaced
    <3>2. ASSUME NEW n \in Promised(c, failed)
          PROVE  \E s \in EnabledServers(c) : \E t \in Offers[s] : n = Namespaced(s, t)
      BY DEF Promised
    <3>3. QED
      BY <2>1, <3>1, <3>2
  <2>3. QED
    BY <1>2, <2>2 DEF Range
<1>6. ASSUME NEW n \in Promised(c, failed) PROVE n \in Range(items)
  <2>1. PICK i \in 1 .. Len(Order) : Order[i] = n
    BY <1>5
  <2>2. PICK k \in 1 .. Len(items) : at[k] = i
    BY <1>4, <2>1
  <2>3. items[k] = n
    BY <1>4, <2>1, <2>2
  <2>4. QED
    BY <1>2, <2>3 DEF Range
<1>7. ASSUME NEW k \in 1 .. Len(items) PROVE items[k] \in Promised(c, failed)
  <2>1. at[k] \in 1 .. Len(Order) /\ Order[at[k]] = items[k]
    BY <1>4
  <2>2. QED
    BY <1>4, <2>1
<1>8. Range(items) = Promised(c, failed)
  BY <1>2, <1>6, <1>7 DEF Range
<1>9. ASSUME NEW k \in 1 .. Len(items), NEW l \in 1 .. Len(items),
             NEW i \in 1 .. Len(Order), NEW j \in 1 .. Len(Order),
             k < l, items[k] = Order[i], items[l] = Order[j]
      PROVE  i < j
  <2>1. \A a, b \in 1 .. Len(Order) : Order[a] = Order[b] => a = b
    BY CatalogConstants
  <2>2. /\ at[k] \in 1 .. Len(Order) /\ Order[at[k]] = items[k]
        /\ at[l] \in 1 .. Len(Order) /\ Order[at[l]] = items[l]
    BY <1>4
  <2>3. at[k] = i /\ at[l] = j
    BY <1>9, <2>1, <2>2
  <2>4. QED
    BY <1>4, <1>9, <2>3
<1> QED
  BY <1>8, <1>9 DEF items

\* The client's list.
ListInv ==
  /\ list \in [cursor : Nat, got : Seq(Range(Order)), items : Seq(Range(Order)),
               stable : BOOLEAN]
  /\ PagesAreTheList

\* A page goes on where the one before it ended, and the last one ends the list.
LEMMA PageFacts ==
  ASSUME NEW items \in Seq(Range(Order)), NEW start \in 0 .. Len(items)
  PROVE  /\ NextCursor(items, start) \in Nat
         /\ Page(items, start) \in Seq(Range(Order))
         /\ SubSeq(items, 1, start) \o Page(items, start)
              = IF NextCursor(items, start) = 0 THEN items
                ELSE SubSeq(items, 1, NextCursor(items, start))
<1> DEFINE end == IF start + PageSize < Len(items) THEN start + PageSize ELSE Len(items)
<1>1. PageSize \in Nat /\ PageSize > 0 /\ Len(items) \in Nat /\ start \in Nat
  BY CatalogConstants, LenProperties
<1>2. end \in start .. Len(items) /\ start \in 0 .. Len(items)
  BY <1>1
<1>3. \A i \in start + 1 .. end : items[i] \in Range(Order)
  BY <1>1, <1>2, ElementOfSeq
<1>4. Page(items, start) = SubSeq(items, start + 1, end)
  BY DEF Page
<1>5. NextCursor(items, start) = IF start + PageSize < Len(items) THEN end ELSE 0
  BY DEF NextCursor
<1>6. start + PageSize < Len(items) => end # 0
  BY <1>1
<1>7. ~ (start + PageSize < Len(items)) => end = Len(items)
  OBVIOUS
<1> HIDE DEF end
<1>8. SubSeq(items, start + 1, end) \in Seq(Range(Order))
  BY <1>1, <1>2, <1>3, SubSeqProperties
<1>9. SubSeq(items, 1, start) \o SubSeq(items, start + 1, end) = SubSeq(items, 1, end)
  <2>1. 1 \in 1 .. Len(items) + 1 /\ start \in 1 - 1 .. Len(items)
    BY <1>1, <1>2
  <2>2. QED
    BY <1>2, <2>1, ConcatAdjacentSubSeq
<1>10. SubSeq(items, 1, Len(items)) = items
  BY SubSeqFull
<1>11. NextCursor(items, start) \in Nat
  BY <1>1, <1>2, <1>5
<1>12. CASE start + PageSize < Len(items)
  BY <1>4, <1>5, <1>6, <1>8, <1>9, <1>11, <1>12
<1>13. CASE ~ (start + PageSize < Len(items))
  BY <1>4, <1>5, <1>7, <1>8, <1>9, <1>10, <1>11, <1>13
<1> QED
  BY <1>12, <1>13

LEMMA ListInit == CatalogInit => ListInv
  BY EmptySeq DEF CatalogInit, NoList, ListInv, PagesAreTheList

LEMMA ListStep == ListInv /\ [CatalogNext]_catalogVars => ListInv'
<1> SUFFICES ASSUME ListInv, [CatalogNext]_catalogVars PROVE ListInv'
  OBVIOUS
<1>1. ASSUME NEW failed, ListPage(failed) PROVE ListInv'
  <2> DEFINE items == Listed(cfg, failed)
             start == list.cursor
             before == IF start = 0 THEN <<>> ELSE list.got
  <2>1. items \in Seq(Range(Order))
    BY ListPlaces
  <2> HIDE DEF items
  <2>2. /\ start <= Len(items)
        /\ list' = [cursor |-> NextCursor(items, start), got |-> before \o Page(items, start),
                    items |-> IF start = 0 THEN items ELSE list.items,
                    stable |-> start = 0 \/ (list.stable /\ items = list.items)]
    BY <1>1 DEF ListPage, items
  <2>3. start \in Nat /\ start \in 0 .. Len(items)
    BY <2>1, <2>2, LenProperties DEF ListInv
  <2>4. before \in Seq(Range(Order))
    BY EmptySeq DEF ListInv
  <2>5. /\ NextCursor(items, start) \in Nat
        /\ Page(items, start) \in Seq(Range(Order))
        /\ SubSeq(items, 1, start) \o Page(items, start)
             = IF NextCursor(items, start) = 0 THEN items
               ELSE SubSeq(items, 1, NextCursor(items, start))
    BY <2>1, <2>3, PageFacts
  <2>6. before \o Page(items, start) \in Seq(Range(Order))
    BY <2>4, <2>5, ConcatProperties
  <2>7. (list.stable /\ items = list.items) \/ start = 0 => before = SubSeq(items, 1, start)
    <3>1. CASE start = 0
      BY <3>1, SubSeqEmpty
    <3>2. CASE start # 0
      BY <3>2 DEF ListInv, PagesAreTheList
    <3>3. QED
      BY <3>1, <3>2
  <2>8. list' \in [cursor : Nat, got : Seq(Range(Order)), items : Seq(Range(Order)),
                   stable : BOOLEAN]
    BY <2>1, <2>2, <2>5, <2>6 DEF ListInv
  <2>9. PagesAreTheList'
    <3> SUFFICES ASSUME list'.stable
                 PROVE  list'.got = IF list'.cursor = 0 THEN list'.items
                                    ELSE SubSeq(list'.items, 1, list'.cursor)
      BY DEF PagesAreTheList
    <3>1. /\ (list.stable /\ items = list.items) \/ start = 0
          /\ list'.items = items
          /\ list'.cursor = NextCursor(items, start)
          /\ list'.got = before \o Page(items, start)
      BY <2>2
    <3>2. QED
      BY <2>5, <2>7, <3>1
  <2>10. QED
    BY <2>8, <2>9 DEF ListInv
<1>2. ASSUME NEW failed, ListOutOfRange(failed) PROVE ListInv'
  BY <1>2, EmptySeq DEF ListOutOfRange, NoList, ListInv, PagesAreTheList
<1>3. CASE UNCHANGED list
  BY <1>3 DEF ListInv, PagesAreTheList
<1>4. ASSUME NEW s \in Names, ChangeServer(s) PROVE UNCHANGED list
  BY <1>4 DEF ChangeServer, AddServer, RemoveServer, SetExposure, SetEnabled, SetMode,
              SetPolicy, SetInstruction, RemoveInstruction, Update
<1>5. ASSUME NEW s \in Names, NEW t \in Offers[s], ChangeTool(s, t) PROVE UNCHANGED list
  BY <1>5 DEF ChangeTool, SetActive, SetLevel, RemoveLevel, SetText, RemoveText, Update
<1>6. ASSUME NEW c \in Imports, Import(c) PROVE UNCHANGED list
  BY <1>6 DEF Import, Update
<1> QED
  BY <1>1, <1>2, <1>3, <1>4, <1>5, <1>6 DEF CatalogNext, catalogVars

\* The pages of a list that does not change while a client pages through it add up to
\* that list, for any page size and any servers, failures and changes before and after.
THEOREM PagesAddUp == CatalogSpec => []PagesAreTheList
<1>1. ListInv => PagesAreTheList
  BY DEF ListInv
<1> QED
  BY <1>1, ListInit, ListStep, PTL DEF CatalogSpec

-----------------------------------------------------------------------------
\* Names and routes.

\* What a first colon at a place of a name makes of it.
LEMMA SplitAt ==
  ASSUME NEW S, NEW n \in Seq(S), NEW at \in 1 .. Len(n), n[at] = Colon,
         \A j \in 1 .. at - 1 : n[j] # Colon
  PROVE  Split(n) = <<SubSeq(n, 1, at - 1), SubSeq(n, at + 1, Len(n))>>
<1> DEFINE first == CHOOSE i \in 1 .. Len(n) :
                      n[i] = Colon /\ \A j \in 1 .. i - 1 : n[j] # Colon
<1>1. Len(n) \in Nat
  BY LenProperties
<1>2. first \in 1 .. Len(n) /\ n[first] = Colon /\ \A j \in 1 .. first - 1 : n[j] # Colon
  OBVIOUS
<1>3. Split(n) = <<SubSeq(n, 1, first - 1), SubSeq(n, first + 1, Len(n))>>
  BY DEF Split
<1> HIDE DEF first
<1>4. first = at
  <2>1. ~ (first < at)
    BY <1>1, <1>2
  <2>2. ~ (at < first)
    BY <1>1, <1>2
  <2>3. QED
    BY <1>1, <1>2, <2>1, <2>2
<1> QED
  BY <1>3, <1>4

\* A namespaced name is the server's, a colon, and the tool's.
LEMMA NamespacedFacts ==
  ASSUME NEW S, NEW s \in Seq(S), NEW t \in Seq(S), Colon \in S
  PROVE  /\ Namespaced(s, t) \in Seq(S)
         /\ Len(Namespaced(s, t)) = Len(s) + 1 + Len(t)
         /\ \A i \in 1 .. Len(s) : Namespaced(s, t)[i] = s[i]
         /\ Namespaced(s, t)[Len(s) + 1] = Colon
         /\ \A i \in 1 .. Len(t) : Namespaced(s, t)[Len(s) + 1 + i] = t[i]
<1> DEFINE m == s \o <<Colon>>
<1>1. /\ <<Colon>> \in Seq(S) /\ Len(<<Colon>>) = 1 /\ <<Colon>>[1] = Colon
      /\ Len(s) \in Nat /\ Len(t) \in Nat
  BY LenProperties
<1>2. /\ m \in Seq(S) /\ Len(m) = Len(s) + 1
      /\ \A i \in 1 .. Len(s) + 1 : m[i] = IF i <= Len(s) THEN s[i] ELSE <<Colon>>[i - Len(s)]
  BY <1>1, ConcatProperties
<1>3. (\A i \in 1 .. Len(s) : m[i] = s[i]) /\ m[Len(s) + 1] = Colon
  BY <1>1, <1>2
<1> HIDE DEF m
<1>4. /\ m \o t \in Seq(S) /\ Len(m \o t) = Len(m) + Len(t)
      /\ \A i \in 1 .. Len(m) + Len(t) :
           (m \o t)[i] = IF i <= Len(m) THEN m[i] ELSE t[i - Len(m)]
  <2>1. m \in Seq(S)
    BY <1>2
  <2>2. QED
    BY <2>1, ConcatProperties, Zenon
<1>5. Namespaced(s, t) = m \o t
  BY DEF Namespaced, m
<1> QED
  BY <1>1, <1>2, <1>3, <1>4, <1>5

\* Its first colon is the one after the server's name, which has none.
LEMMA SplitsBack ==
  ASSUME NEW S, NEW s \in Seq(S), NEW t \in Seq(S), Colon \in S,
         \A i \in 1 .. Len(s) : s[i] # Colon
  PROVE  /\ Split(Namespaced(s, t)) = <<s, t>>
         /\ Colon \in Range(Namespaced(s, t))
<1> DEFINE n == Namespaced(s, t)
<1>1. s \in Seq(S) /\ t \in Seq(S)
  OBVIOUS
<1>2. Len(s) \in Nat /\ Len(t) \in Nat
  BY LenProperties
<1>3. \A i \in 1 .. Len(s) : s[i] # Colon
  OBVIOUS
<1>4. /\ n \in Seq(S)
      /\ Len(n) = Len(s) + 1 + Len(t)
      /\ \A i \in 1 .. Len(s) : n[i] = s[i]
      /\ n[Len(s) + 1] = Colon
      /\ \A i \in 1 .. Len(t) : n[Len(s) + 1 + i] = t[i]
  <2>1. n \in Seq(S)
    BY NamespacedFacts
  <2>2. Len(n) = Len(s) + 1 + Len(t)
    BY NamespacedFacts
  <2>3. \A i \in 1 .. Len(s) : n[i] = s[i]
    BY NamespacedFacts
  <2>4. n[Len(s) + 1] = Colon
    BY NamespacedFacts
  <2>5. \A i \in 1 .. Len(t) : n[Len(s) + 1 + i] = t[i]
    BY NamespacedFacts
  <2>6. QED
    BY <2>1, <2>2, <2>3, <2>4, <2>5
<1> HIDE DEF n
<1>5. Len(s) + 1 \in 1 .. Len(n) /\ \A j \in 1 .. (Len(s) + 1) - 1 : n[j] # Colon
  <2>1. Len(s) + 1 \in 1 .. Len(n)
    BY <1>2, <1>4
  <2>2. \A j \in 1 .. Len(s) : n[j] # Colon
    BY <1>3, <1>4
  <2>3. (Len(s) + 1) - 1 = Len(s)
    BY <1>2
  <2>4. QED
    BY <2>1, <2>2, <2>3
<1>6. Split(n) = <<SubSeq(n, 1, (Len(s) + 1) - 1), SubSeq(n, (Len(s) + 1) + 1, Len(n))>>
  BY <1>4, <1>5, SplitAt
<1>7. SubSeq(n, 1, (Len(s) + 1) - 1) = s
  <2>1. \A i \in 1 .. (Len(s) + 1) - 1 : n[i] \in S
    BY <1>2, <1>4, ElementOfSeq
  <2>2. /\ SubSeq(n, 1, (Len(s) + 1) - 1) \in Seq(S)
        /\ Len(SubSeq(n, 1, (Len(s) + 1) - 1)) = Len(s)
        /\ \A i \in 1 .. Len(s) : SubSeq(n, 1, (Len(s) + 1) - 1)[i] = n[i]
    BY <1>2, <2>1, SubSeqProperties
  <2>3. QED
    BY <1>1, <1>2, <1>4, <2>2, SeqEqual
<1>8. SubSeq(n, (Len(s) + 1) + 1, Len(n)) = t
  <2>1. \A i \in (Len(s) + 1) + 1 .. Len(n) : n[i] \in S
    BY <1>2, <1>4, ElementOfSeq
  <2>2. /\ SubSeq(n, (Len(s) + 1) + 1, Len(n)) \in Seq(S)
        /\ Len(SubSeq(n, (Len(s) + 1) + 1, Len(n))) = Len(t)
        /\ \A i \in 1 .. Len(t) : SubSeq(n, (Len(s) + 1) + 1, Len(n))[i] = n[Len(s) + 1 + i]
    BY <1>2, <1>4, <2>1, SubSeqProperties
  <2>3. QED
    BY <1>1, <1>2, <1>4, <2>2, SeqEqual
<1>9. Colon \in Range(n)
  BY <1>2, <1>4, LenProperties DEF Range
<1> QED
  BY <1>6, <1>7, <1>8, <1>9 DEF n

\* A namespaced name gives back the server and the tool it was made of, whatever colons
\* the tool's name has.
THEOREM NamesSplit ==
  ASSUME NEW s, NEW t, s \in Seq(Range(s)), t \in Seq(Range(t)), Colon \notin Range(s)
  PROVE  /\ Split(Namespaced(s, t)) = <<s, t>>
         /\ Colon \in Range(Namespaced(s, t))
<1> DEFINE S == Range(s) \cup Range(t) \cup {Colon}
<1>1. s \in Seq(S) /\ t \in Seq(S) /\ Colon \in S
  BY SeqMonotonic
<1>2. \A i \in 1 .. Len(s) : s[i] # Colon
  BY LenProperties DEF Range
<1> HIDE DEF S
<1> QED
  BY <1>1, <1>2, SplitsBack

\* The parts of a name with a colon make that name.
LEMMA PartsMakeName ==
  ASSUME NEW n, n \in Seq(Range(n)), Colon \in Range(n)
  PROVE  n = Namespaced(Split(n)[1], Split(n)[2])
<1> DEFINE T == {i \in 1 .. Len(n) : n[i] = Colon}
<1>1. Len(n) \in Nat /\ DOMAIN n = 1 .. Len(n)
  BY LenProperties
<1>2. T # {} /\ T \in SUBSET Nat
  BY <1>1 DEF Range
<1> HIDE DEF T
<1>3. PICK at \in T : \A j \in T : at <= j
  BY <1>2, LeastNumber
<1>4. at \in 1 .. Len(n) /\ n[at] = Colon
  BY <1>3 DEF T
<1>5. \A j \in 1 .. at - 1 : n[j] # Colon
  BY <1>1, <1>3, <1>4 DEF T
<1> DEFINE left == SubSeq(n, 1, at - 1)
           mid == SubSeq(n, at, at)
           right == SubSeq(n, at + 1, Len(n))
<1>6. Split(n) = <<left, right>>
  BY <1>4, <1>5, SplitAt
<1>7. mid = <<Colon>>
  <2>1. \A i \in at .. at : n[i] \in Range(n)
    BY <1>1, <1>4, ElementOfSeq
  <2>2. /\ mid \in Seq(Range(n)) /\ Len(mid) = 1 /\ mid[1] = n[at]
    BY <1>1, <1>4, <2>1, SubSeqProperties
  <2>3. <<Colon>> \in Seq(Range(n)) /\ Len(<<Colon>>) = 1 /\ <<Colon>>[1] = Colon
    OBVIOUS
  <2> HIDE DEF mid
  <2>4. QED
    BY <1>4, <2>2, <2>3, SeqEqual
<1>8. SubSeq(n, 1, at) = left \o mid
  <2>1. 1 \in 1 .. Len(n) + 1 /\ at - 1 \in 1 - 1 .. Len(n) /\ at \in at - 1 .. Len(n)
    BY <1>1, <1>4
  <2>2. SubSeq(n, 1, at - 1) \o SubSeq(n, (at - 1) + 1, at) = SubSeq(n, 1, at)
    BY <2>1, ConcatAdjacentSubSeq
  <2>3. (at - 1) + 1 = at
    BY <1>1, <1>4
  <2>4. QED
    BY <2>2, <2>3
<1>9. SubSeq(n, 1, at) \o right = SubSeq(n, 1, Len(n))
  <2>1. 1 \in 1 .. Len(n) + 1 /\ at \in 1 - 1 .. Len(n) /\ Len(n) \in at .. Len(n)
    BY <1>1, <1>4
  <2>2. QED
    BY <2>1, ConcatAdjacentSubSeq
<1>10. SubSeq(n, 1, Len(n)) = n
  BY SubSeqFull
<1> HIDE DEF left, mid, right
<1>11. Split(n)[1] = left /\ Split(n)[2] = right
  BY <1>6
<1>12. n = (left \o <<Colon>>) \o right
  BY <1>7, <1>8, <1>9, <1>10
<1> QED
  BY <1>11, <1>12 DEF Namespaced

\* A server of a sound configuration, and a tool it offers, have names that are sequences,
\* and only the tool's may have a colon.
LEMMA EnabledNames ==
  ASSUME ConfigInv, NEW s \in EnabledServers(cfg), NEW t \in Offers[s]
  PROVE  /\ s \in Names /\ t \in Tools
         /\ s \in Seq(Range(s)) /\ Colon \notin Range(s)
         /\ t \in Seq(Range(t))
<1>1. s \in DOMAIN cfg.servers /\ cfg \in Configs /\ Valid(cfg)
  BY DEF EnabledServers, ConfigInv, Sound
<1>2. s \in Names
  BY <1>1, ConfigFields, MapFacts
<1>3. Colon \notin Range(s)
  BY <1>1 DEF Valid, ValidName
<1>4. t \in Tools
  BY <1>2 DEF Tools
<1> QED
  BY <1>2, <1>3, <1>4, CatalogConstants

\* A name that is not namespaced is described only as itself, or as its parts.
LEMMA HelpOfOwnName ==
  ASSUME NEW c, NEW servers, NEW t, t \in Seq(Range(t)), HelpTool(c, servers, t) # <<>>
  PROVE  t \in {HelpTool(c, servers, t)[2],
                Namespaced(HelpTool(c, servers, t)[1], HelpTool(c, servers, t)[2])}
<1>1. CASE Colon \in Range(t)
  <2>1. HelpTool(c, servers, t) = Split(t)
    BY <1>1 DEF HelpTool
  <2>2. QED
    BY <1>1, <2>1, PartsMakeName
<1>2. CASE Colon \notin Range(t)
  <2> DEFINE of == {<<r, t>> : r \in {q \in servers : t \in EnabledTools(c, q)}}
             help == CHOOSE p \in of : TRUE
  <2>1. Cardinality(of) = 1 /\ HelpTool(c, servers, t) = help
    BY <1>2 DEF HelpTool
  <2>2. of # {}
    BY <2>1, FS_EmptySet
  <2>3. help \in of
    BY <2>2
  <2> HIDE DEF help
  <2>4. help[2] = t
    <3>1. PICK r : help = <<r, t>>
      BY <2>3
    <3>2. QED
      BY <3>1
  <2>5. QED
    BY <2>1, <2>4
<1> QED
  BY <1>1, <1>2

\* Whatever names servers and tools have, a listed name is routed to the server and the
\* tool that it is of, and described as that, and a tool's own name is never taken for
\* another tool.
THEOREM NamesRouteBack == CatalogSpec => []RoutesBack
<1>1. ASSUME ConfigInv, NEW s \in EnabledServers(cfg), NEW t \in Offers[s]
      PROVE  /\ Route(cfg, Namespaced(s, t)) = <<s, t>>
             /\ \A servers \in {EnabledServers(cfg), {s}} :
                  /\ t \in EnabledTools(cfg, s)
                       => HelpTool(cfg, servers, Namespaced(s, t)) = <<s, t>>
                  /\ HelpTool(cfg, servers, t) # <<>>
                       => t \in {HelpTool(cfg, servers, t)[2],
                                 Namespaced(HelpTool(cfg, servers, t)[1],
                                            HelpTool(cfg, servers, t)[2])}
  <2>1. /\ s \in Seq(Range(s)) /\ Colon \notin Range(s)
        /\ t \in Seq(Range(t))
    BY <1>1, EnabledNames
  <2>2. Split(Namespaced(s, t)) = <<s, t>> /\ Colon \in Range(Namespaced(s, t))
    BY <2>1, NamesSplit
  <2>3. Route(cfg, Namespaced(s, t)) = <<s, t>>
    BY <1>1, <2>2 DEF Route
  <2>4. ASSUME NEW servers \in {EnabledServers(cfg), {s}}, t \in EnabledTools(cfg, s)
        PROVE  HelpTool(cfg, servers, Namespaced(s, t)) = <<s, t>>
    <3>1. s \in servers
      BY <1>1, <2>4
    <3>2. QED
      BY <2>2, <2>4, <3>1 DEF HelpTool
  <2>5. \A servers : HelpTool(cfg, servers, t) # <<>>
          => t \in {HelpTool(cfg, servers, t)[2],
                    Namespaced(HelpTool(cfg, servers, t)[1], HelpTool(cfg, servers, t)[2])}
    BY <2>1, HelpOfOwnName
  <2>6. QED
    BY <2>3, <2>4, <2>5
<1>2. ConfigInv => RoutesBack
  BY <1>1 DEF RoutesBack
<1> QED
  BY <1>2, SoundInit, SoundStep, PTL DEF CatalogSpec

-----------------------------------------------------------------------------
\* Policies.

\* Names of one server's tools differ as the tools do.
LEMMA NamespacedInjective ==
  ASSUME NEW s, NEW t, NEW u, s \in Seq(Range(s)), t \in Seq(Range(t)), u \in Seq(Range(u)),
         Colon \notin Range(s), Namespaced(s, t) = Namespaced(s, u)
  PROVE  t = u
<1>1. Split(Namespaced(s, t)) = <<s, t>> /\ Split(Namespaced(s, u)) = <<s, u>>
  BY NamesSplit
<1> QED
  BY <1>1

\* A tool is enabled or not.
LEMMA IsToolEnabledType ==
  ASSUME NEW c \in Configs, NEW s, NEW t
  PROVE  IsToolEnabled(c, s, t) \in BOOLEAN
<1>1. c.active \in Maps(Names, Maps(Tools, BOOLEAN)) /\ DefaultEnabled(c, s) \in BOOLEAN
  BY ConfigFields DEF DefaultEnabled
<1> QED
  BY <1>1, Get2Type DEF IsToolEnabled

\* What a script sees of a tool is not milder than what is shown: a description that is
\* missing makes no tool safe.
LEMMA IndexIsNoMilder ==
  ASSUME NEW c, NEW s, NEW t, PolicyLevel(c, s, t, Get2(c.texts, s, t, NoDescription)) = "safe"
  PROVE  ShownLevel(c, s, t) = "safe"
<1> DEFINE policy == Get(c.policies, s, "heuristic")
           seen == Get2(c.texts, s, t, NoDescription)
           shown == EffectiveDescription(c, s, t)
           texts == Get(c.texts, s, EmptyMap)
           levels == Get(c.levels, s, EmptyMap)
           Guess(d) == IF t \in SafeNames \/ d = "gets" THEN "safe" ELSE "escalated"
<1>1. seen = (IF t \in DOMAIN texts THEN texts[t] ELSE NoDescription)
  BY DEF Get2, Get
<1>2. shown = (IF t \in DOMAIN texts THEN texts[t] ELSE Upstream[t])
  BY DEF EffectiveDescription, Get2, Get
<1>3. \A d : PolicyLevel(c, s, t, d) =
               IF policy = "all-safe" THEN "safe"
               ELSE IF policy = "all-escalated" THEN "escalated"
               ELSE IF t \in DOMAIN levels THEN levels[t] ELSE Guess(d)
  BY DEF PolicyLevel, Get2, Get
<1>4. NoDescription # "gets"
  BY DEF NoDescription
<1> HIDE DEF policy, seen, shown, texts, levels
<1>5. CASE t \in DOMAIN texts
  <2>1. seen = shown
    BY <1>1, <1>2, <1>5
  <2>2. QED
    BY <2>1 DEF ShownLevel, seen, shown
<1>6. CASE t \notin DOMAIN texts
  <2>1. seen = NoDescription
    BY <1>1, <1>6
  <2>2. PolicyLevel(c, s, t, seen) = "safe"
    BY DEF seen
  <2>3. PolicyLevel(c, s, t, shown) = "safe"
    BY <1>3, <1>4, <2>1, <2>2
  <2>4. QED
    BY <2>3 DEF ShownLevel, shown
<1> QED
  BY <1>5, <1>6

\* For any servers, tools, settings and descriptions, a script that is not escalated may
\* call what gambi_help and the admin page call enabled and safe, and when the discovery
\* of descriptions fails, nothing more.
THEOREM ShownIsEnforced == CatalogSpec => []EnforcedAsShown
<1>1. ASSUME ConfigInv, NEW s \in EnabledServers(cfg), NEW t \in Offers[s]
      PROVE  LET shown == IsToolEnabled(cfg, s, t) /\ ShownLevel(cfg, s, t) = "safe"
             IN  /\ MayCall(cfg, s, t, {}) = shown
                 /\ MayCall(cfg, s, t, {s}) => shown
                 /\ \A row \in Summary(cfg, s) :
                      row.tool = Namespaced(s, t) => (row.level = "safe") = shown
  <2> DEFINE shown == IsToolEnabled(cfg, s, t) /\ ShownLevel(cfg, s, t) = "safe"
  <2>1. IsToolEnabled(cfg, s, t) \in BOOLEAN
    BY <1>1, IsToolEnabledType DEF ConfigInv, Sound
  <2>2. MayCall(cfg, s, t, {}) = shown
    <3>1. IsToolEnabled(cfg, s, t)
            => IndexedDescription(cfg, s, t, {}) = EffectiveDescription(cfg, s, t)
      BY DEF IndexedDescription
    <3>2. MayCall(cfg, s, t, {}) <=> shown
      BY <1>1, <3>1 DEF MayCall, ShownLevel
    <3>3. QED
      BY <2>1, <3>2 DEF MayCall
  <2>3. MayCall(cfg, s, t, {s}) => shown
    <3>1. IndexedDescription(cfg, s, t, {s}) = Get2(cfg.texts, s, t, NoDescription)
      BY DEF IndexedDescription
    <3>2. QED
      BY <3>1, IndexIsNoMilder DEF MayCall
  <2>4. ASSUME NEW row \in Summary(cfg, s), row.tool = Namespaced(s, t)
        PROVE  (row.level = "safe") = shown
    <3>1. PICK u \in EnabledTools(cfg, s) :
            row.tool = Namespaced(s, u) /\ row.level = ShownLevel(cfg, s, u)
      BY <2>4 DEF Summary
    <3>2. u \in Offers[s] /\ IsToolEnabled(cfg, s, u)
      BY <3>1 DEF EnabledTools
    <3>3. u = t
      <4>1. /\ s \in Seq(Range(s)) /\ Colon \notin Range(s)
            /\ t \in Seq(Range(t)) /\ u \in Seq(Range(u))
        BY <1>1, <3>2, EnabledNames
      <4>2. QED
        BY <2>4, <3>1, <4>1, NamespacedInjective
    <3>4. QED
      BY <3>1, <3>2, <3>3
  <2>5. QED
    BY <2>2, <2>3, <2>4
<1>2. ConfigInv => EnforcedAsShown
  BY <1>1 DEF EnforcedAsShown
<1> QED
  BY <1>2, SoundInit, SoundStep, PTL DEF CatalogSpec
=============================================================================
