CONSTANTS
    d = d  m = m  t1 = t1  t2 = t2  t3 = t3  r1 = r1  r2 = r2  r3 = r3

    Servers = {s1, s2}
    Procs = {d}
    Tasks = {t1, t2}
    ProcOf <- AllInDaemon
    Tokens = {r1}
    LockIds = {l1, l2, l3}
    Stable = {s1}
    Rotates = {}
    StaticClients = {s2}
    SweepTasks = {}
    Requests = {t2}
    Detached = {t1, t2}
    StoreMayFail = TRUE
    NoServer = NoServer  NoToken = NoToken  AccessOnly = AccessOnly  NoLock = NoLock
SPECIFICATION Spec
SYMMETRY LockTokenSymmetry
INVARIANTS SingleFlight
PROPERTIES LiveTokenNeverDropped PruneSparesStable
