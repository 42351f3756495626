SPECIFICATION FairSpec
CONSTANTS
  Destinations = {"a", "b"}
  AtLeastOnce = {"a"}
  Manual = {"a"}
  Refused = {"b"}
  SendQoS = {0, 1}
  Resubscribe = FALSE
  MaxCalls = 3
  MaxPublished = 1
  MaxFaults = 1
  None = None
PROPERTIES KeepsSendPromise 
CHECK_DEADLOCK FALSE
