CONSTANTS
  Users = {u1}
  Protons = {p1}
  EndPoints = {e1, e2}
  None = None
  Calls <- Starts
  Services = 2
  MaxCalls = 1
  MaxFaults = 2
  Takeovers = FALSE
  BadOptions = TRUE
SPECIFICATION FairSpec
PROPERTIES ClosedIsNoticed Reconnects StartReturns
CHECK_DEADLOCK FALSE
