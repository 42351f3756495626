CONSTANTS
  u1 = u1
  u2 = u2
  Users = {u1, u2, u3}
  Workers = {w1}
  Nobody = Nobody
  Calls <- Receives
  TimedCalls <- Untimed
  MaxCalls = 1
  MaxFaults = 0
  Takeovers = FALSE
  StrayReplies = FALSE
SPECIFICATION FairSpec
PROPERTY CallsReturn
CHECK_DEADLOCK FALSE
