SPECIFICATION FairSpec
CONSTANTS
  Requests = 4
  Events = 3
  ConnectTimeout = 2
  EndpointTimeout = 3
  PostTimeout = 1
  Endpoint = Endpoint
  Bad = Bad
  End = End
PROPERTIES StreamLongLived
CHECK_DEADLOCK FALSE
