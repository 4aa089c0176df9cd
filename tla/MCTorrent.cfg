SPECIFICATION FairSpec
CONSTANTS
  Peer = {p1, p2}
  Piece = {i1, i2}
  MaxPeerDial = 1
  StopAfterDownload = FALSE
INVARIANTS
  BitfieldSound
  OneWrite
  PhasesExclude
PROPERTY StopCompletes
CHECK_DEADLOCK FALSE
