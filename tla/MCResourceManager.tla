------------------------- MODULE MCResourceManager --------------------------
(* Two torrents, the pieces of one of them as long as two of the other.    *)
EXTENDS ResourceManager, TLC

CONSTANTS p1, q1, t1, t2

OwnerOfPeer == p1 :> t1 @@ q1 :> t2
SizeOfTorrent == t1 :> 1 @@ t2 :> 2
=============================================================================
