----------------------------- MODULE MCDownload -----------------------------
(* Small instances of Download for TLC.                                    *)
EXTENDS Download, TLC

Symmetry == Permutations(Peer) \cup Permutations(Piece)
=============================================================================
