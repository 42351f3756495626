CONSTANTS
  u1 = u1
  u2 = u2
  Users = {u1, u2}
  Workers = {w1, w2}
  Nobody = Nobody
  Calls <- Sessions
  TimedCalls <- Timed
  MaxCalls = 2
  MaxFaults = 1
  Takeovers = TRUE
  StrayReplies = TRUE
SPECIFICATION FairSpec
INVARIANTS TypeOK OwnerBlocked OneAtATime ProcessingWhileExecuting SendGetsItsReply
PROPERTIES StopReturns ServedInOrder
CHECK_DEADLOCK FALSE
