---------------------------- MODULE MCSession ----------------------------
(* Two users who add two torrents.                                        *)
EXTENDS Session, TLC

Symmetry == Permutations(User) \cup Permutations(TorrentId)
==========================================================================
