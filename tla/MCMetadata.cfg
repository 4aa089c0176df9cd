SPECIFICATION MetadataSpec
CONSTANTS
  Node = {s, m, o}
  Seed = {s}
  SeedPieces <- OnePiece
  MayFail = {o}
  Block = 2
  Piece = {1, 2}
  Queue = 1
  Parallel = 1
  Lie <- Lies
  MaxLies = 2
  MaxDials = 2
INVARIANTS
  AnnouncementsKept
  HonestKept
PROPERTIES
  InfoArrives
CHECK_DEADLOCK FALSE
