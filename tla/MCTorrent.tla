----------------------------- MODULE MCTorrent ------------------------------
(* Small instances of Torrent for TLC.                                     *)
EXTENDS Torrent, TLC

Symmetry == Permutations(Peer) \cup Permutations(Piece)
=============================================================================
