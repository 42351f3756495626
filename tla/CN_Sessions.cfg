CONSTANTS
  Users = {u1}
  Protons = {p1, p2}
  EndPoints = {e1, e2}
  None = None
  Calls <- Sessions
  Services = 1
  MaxCalls = 3
  MaxFaults = 2
  Takeovers = TRUE
  BadOptions = TRUE
SPECIFICATION FairSpec
CONSTRAINT Apart
INVARIANTS TypeOK ThreadsOfEndPoint StartedIsServed
CHECK_DEADLOCK FALSE
