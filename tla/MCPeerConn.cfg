SPECIFICATION FairSpec
CONSTANTS
  MaxSent = 2
  MaxUploads = 1
INVARIANT InOrder
PROPERTIES
  SilentAfterClose
  BrokenReported
  EndsUnlessHolding
CHECK_DEADLOCK FALSE
