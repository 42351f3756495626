CONSTANTS
  Users = {u1}
  Protons = {p1}
  EndPoints = {e1, e2}
  None = None
  Calls <- Starts
  Services = 1
  MaxCalls = 1
  MaxFaults = 2
  Takeovers = TRUE
  BadOptions = FALSE
SPECIFICATION FairSpec
PROPERTY CloseIsFirst
CHECK_DEADLOCK FALSE
