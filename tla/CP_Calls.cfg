SPECIFICATION FairSpec
CONSTANTS
  t1 = t1
  t2 = t2
  t3 = t3
  Threads = {t1, t2, t3}
  Workloads <- Loads
  CharBits = 3
  ShortBits = 4
  IntBits = 5
  LongBits = 7
  MsPerSecond = 10
  None = None
INVARIANTS TypeOK ArgumentsIntact BoundsHold RaiseLeavesNothing ResultsIntact
INVARIANTS OneThreadInProton TtlIsHonoured
PROPERTY OthersGetTheirTurn
