SPECIFICATION FairSpec
CONSTANTS
  m1 = m1
  m2 = m2
  d1 = d1
  d2 = d2
  Mcps = {m1, m2}
  Daemons = {d1, d2}
  Child <- ChildOf
  Heartbeat = 1
  IdleTimeout = 2
  MaxEvents = 1
  NoProcess = NoProcess
 
PROPERTIES  UnusedAdminEnds
CHECK_DEADLOCK FALSE
