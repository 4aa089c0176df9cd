---------------------------- MODULE MCPieceCache ----------------------------
(* An instance of PieceCache, in which a block is as large as its index.   *)
EXTENDS PieceCache

SizeOfPiece == [p \in Piece |-> p]
=============================================================================
