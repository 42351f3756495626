SPECIFICATION FairSpec
CONSTANTS
  Destinations = {"a", "b"}
  AtLeastOnce = {"b"}
  Manual = {}
  Refused = {}
  SendQoS = {}
  Resubscribe = FALSE
  MaxCalls = 4
  MaxPublished = 2
  MaxFaults = 1
  None = None
INVARIANTS TypeOK OwnDestination SettledIsGiven OncePerConnection 
PROPERTY LinkRequestsEnd
CHECK_DEADLOCK FALSE
