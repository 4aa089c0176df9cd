----------------------------- MODULE MCMetadata -----------------------------
(* A seed, a torrent from a magnet link and a third node.                  *)
EXTENDS Metadata

(* An invalid and a valid announcement, a handshake with a wrong size, a   *)
(* wrong block and a reject.                                               *)
Lies == {Invalid, Have({1}), Handshake(1, TRUE),
         Metadata("data", 1, FALSE), Metadata("reject", 1, TRUE)}

(* The seed has one of the two pieces.                                     *)
OnePiece == {{1}}
=============================================================================
