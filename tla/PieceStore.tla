----------------------------- MODULE PieceStore -----------------------------
(***************************************************************************)
(* What the download engine promises about the pieces of a torrent, with   *)
(* peers, pickers, RAM and loops left out: a missing piece is written, one *)
(* at a time; a write makes it a piece that we have, or leaves it missing; *)
(* a piece that we have stays; and the torrent is completed once, when we  *)
(* have all of them, and written to no more.                               *)
(***************************************************************************)
CONSTANT Piece

VARIABLES
  state,      \* of each piece: "missing", "writing" or "have"
  completed

vars == <<state, completed>>

Init ==
  /\ state \in [Piece -> {"missing", "have"}]
  /\ \E i \in Piece : state[i] = "missing"
  /\ completed = FALSE

BeginWrite(i) ==
  /\ ~completed /\ state[i] = "missing"
  /\ \A j \in Piece : state[j] # "writing"
  /\ state' = [state EXCEPT ![i] = "writing"]
  /\ UNCHANGED completed

EndWrite(i) ==
  /\ state[i] = "writing"
  /\ \E s \in {"missing", "have"} : state' = [state EXCEPT ![i] = s]
  /\ UNCHANGED completed

Complete ==
  /\ ~completed /\ \A i \in Piece : state[i] = "have"
  /\ completed' = TRUE
  /\ UNCHANGED state

Next == Complete \/ \E i \in Piece : BeginWrite(i) \/ EndWrite(i)

Spec == Init /\ [][Next]_vars
=============================================================================
