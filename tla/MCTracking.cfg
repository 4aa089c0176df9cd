SPECIFICATION FairSpec
CONSTANTS
  k1 = k1
  k2 = k2
  s1 = s1
  Caller = {c1, c2, s1}
  Periodic = {c1, c2}
  Stopper = {s1}
  Tracker = {k1, k2}
  Http = {k2}
  MaxTrx = 3
  MaxNet = 1
  Tier <- TierOfTwo
  StopTracker <- StopAtFirst
  None = None
INVARIANTS
  TransactionsTracked
  NeverIdle
PROPERTIES
  CallsEnd
CHECK_DEADLOCK FALSE
