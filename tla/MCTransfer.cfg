SPECIFICATION TransferFairSpec
CONSTANTS
  NeededPieces = {i1, i2}
  NumBlocks = 3
  MaxRequestsIn = {1, 2, 4}
  MaxRequestsOut = 3
  DefaultRequestsOut = 2
  Absent = Absent
INVARIANTS
  AnsweredOnce
  BlocksDivided
  NothingRejected
PROPERTY DownloadEnds
CHECK_DEADLOCK FALSE
