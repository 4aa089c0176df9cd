SPECIFICATION Spec
CONSTANTS
  MaxFiles = 3
  MaxFileLength = 3
  PieceLengths = {3, 4}
  BlockSize = 2
  Nil = Nil
  Bits = 3
  Lines <- MCLines
  MaxLines = 3
  Comment = Comment
  Invalid = Invalid
  Peers = {p1, p2, p3}
  NumUnchoked = 1
  NumOptimisticUnchoked = 1
INVARIANTS
  BytesInPlace
  BlockedIffListed
  SlotsAccounted
