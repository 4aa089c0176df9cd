SPECIFICATION FairSpec
CONSTANTS
  Reader = {r1, r2}
  Torrent = {t1}
  Piece = {1, 2, 3, 4}
  SizeOf <- SizeOfPiece
  MaxSize = 3
  ParallelReads = 1
  Id = {1, 2, 3}
  None = None
INVARIANTS
  ListAccounted
  SingleLoad
PROPERTY GetReturns
