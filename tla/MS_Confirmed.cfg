SPECIFICATION Spec
CONSTANTS
  Destinations = {}
  AtLeastOnce = {}
  Manual = {}
  Refused = {}
  SendQoS = {1}
  Resubscribe = FALSE
  MaxCalls = 1
  MaxPublished = 0
  MaxFaults = 1
  None = None
INVARIANT ConfirmedMeansReceived
CHECK_DEADLOCK FALSE
