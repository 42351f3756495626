CONSTANTS
  u1 = u1
  u2 = u2
  Users = {u1, u2}
  Workers = {w1}
  Nobody = Nobody
  Calls <- Replied
  TimedCalls <- Untimed
  MaxCalls = 2
  MaxFaults = 0
  Takeovers = FALSE
  StrayReplies = FALSE
SPECIFICATION FairSpec
INVARIANTS  RepliesMatchCallers
PROPERTIES CallsReturn 
