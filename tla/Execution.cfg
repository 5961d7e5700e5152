SPECIFICATION FairSpec
CONSTANTS
  e = e
  r = r
  web = web
  mute = mute
  Servers = {web, mute}
  Stdio = {mute}
  Mute = {mute}
  Requests = {e, r}
  Execs = {e}
  Safe = {e}
  Enabled = {web, mute}
  Escalated = {}
  Described = {web}
  Listers <- IndexOfE
  Named <- NamedBy
  Copies = {1, 2}
  MaxToken = 2
  MaxCalls = 2
  NoClient = NoClient
  NoOne = NoOne
  NoServer = NoServer
INVARIANTS  OwnClientOnly  RoutesOfWaiting
PROPERTIES RequestsEnd 
CHECK_DEADLOCK FALSE
