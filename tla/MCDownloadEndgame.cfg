SPECIFICATION FairSpec
CONSTANTS
  Peer = {p1, p2, p3}
  Piece = {i1}
  None = None
  MaxDuplicateDownload = 2
  RamLimit = 2
  MaxPeerDial = 2
  MaxWait = 1
  MaxGone = 1
INVARIANT RamAccounted
PROPERTIES
  WriteResumes
  AllDoneCompletes
CHECK_DEADLOCK FALSE
