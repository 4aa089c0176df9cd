SPECIFICATION Spec
CONSTANTS
  Peer = {p1, p2}
  Piece = {i1, i2}
  None = None
  MaxDuplicateDownload = 2
  RamLimit = 2
  MaxPeerDial = 2
  MaxWait = 1
  MaxGone = 1
SYMMETRY Symmetry
INVARIANTS
  PickerAgrees
  NoAssertionPanic
PROPERTY ImplementsPieceStore
CHECK_DEADLOCK FALSE
