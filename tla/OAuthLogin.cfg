SPECIFICATION Spec
CONSTANTS
  s1 = s1
  s2 = s2
  start1 = start1
  start2 = start2
  back1 = back1
  back2 = back2
  boot = boot
  i1 = i1
  i2 = i2
  i3 = i3
  Servers = {s1, s2}
  Starts = {start1, start2}
  Callbacks = {back1, back2}
  Boots = {boot}
  Static = {s2}
  Ids = {i1, i2, i3}
  StaticId = StaticId
  NoId = NoId
  NoServer = NoServer
  NoState = NoState
  Ttl = 1
  MaxAge = 3
  MaxRestarts = 1
  MaxRemovals = 1
SYMMETRY Symmetry
INVARIANTS OneExchange ExchangedInTime PendingSpan UrlClientKept
CHECK_DEADLOCK FALSE
