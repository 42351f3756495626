SPECIFICATION FairSpec
CONSTANTS
  Users = {u1}
  Protons = {p1, p2}
  IOThreads = {i1}
  Callbacks = {c1, c2}
  MaxCalls = 2
  MaxChanges = 1
  MaxAttempts = 2
  Nil = Nil
INVARIANTS TypeOK LastReportIsState FailedStartHasReason
PROPERTIES InOrder ReportsAreDelivered
CHECK_DEADLOCK FALSE
