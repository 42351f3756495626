CONSTANTS
  u1 = u1
  u2 = u2
  Users = {u1}
  Workers = {w1}
  Nobody = Nobody
  Calls <- Replied
  TimedCalls <- Untimed
  MaxCalls = 2
  MaxFaults = 1
  Takeovers = TRUE
  StrayReplies = FALSE
SPECIFICATION FairSpec
PROPERTY StoppedCallsReturn
CHECK_DEADLOCK FALSE
