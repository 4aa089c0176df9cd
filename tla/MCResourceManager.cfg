SPECIFICATION FairSpec
CONSTANTS
  t1 = t1
  t2 = t2
  p1 = p1
  q1 = q1
  Torrent = {t1, t2}
  Peer = {p1, q1}
  OwnerOf <- OwnerOfPeer
  Size <- SizeOfTorrent
  Limit = 2
  MaxWait = 2
  None = None
INVARIANT Accounted
PROPERTIES
  ImplementsBudget
  RequestReturns
  FittingServed
CHECK_DEADLOCK FALSE
