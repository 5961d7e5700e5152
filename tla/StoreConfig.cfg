CONSTANTS
    p = p  q = q  u = u  v = v  r = r  l = l

    Calls = {u, v, r, l}
    Updates = {u, v, r}
    Replaces = {r}
    Procs = {p, q}
    ProcOf <- Placement
    MaxPolls = 1
    RetriesEmpty = TRUE
    Stuck = {v}
    NoCall = NoCall
SPECIFICATION FairSpec
INVARIANTS StoreInv AcknowledgedKept
PROPERTIES ImplementsAtomicStore CallsReturn
