-------------------------- MODULE PieceDownloader --------------------------
(***************************************************************************)
(* A PieceDownloader as a value: the blocks of one piece that are still to *)
(* be requested from a peer, that are requested, and that have arrived.    *)
(* A block is known by its index in the piece; the data and the buffer are *)
(* left out.  Every peer has the fast extension enabled (peer.New), so     *)
(* Choked never moves a block and is left out.                             *)
(***************************************************************************)
EXTENDS Integers, Sequences, FiniteSets, SequencesExt

NewDownloader(piece, numBlocks) ==
  [piece |-> piece, remaining |-> [n \in 1 .. numBlocks |-> n], pending |-> {}, done |-> {}]

(* RequestBlocks takes blocks off remaining until queueLength are pending, *)
(* or none is left: how many it takes.                                     *)
Taken(d, queueLength) ==
  CHOOSE n \in 0 .. Len(d.remaining) :
    LET full(k) == Cardinality(d.pending \cup ToSet(SubSeq(d.remaining, 1, k))) >= queueLength
    IN (full(n) \/ n = Len(d.remaining)) /\ \A k \in 0 .. n - 1 : ~full(k)

(* The blocks it requests, in order: those it takes and does not have.     *)
Requests(d, queueLength) ==
  LET taken == SubSeq(d.remaining, 1, Taken(d, queueLength))
      missing == {i \in 1 .. Len(taken) : taken[i] \notin d.done}
      nth(n) == CHOOSE i \in missing : Cardinality({j \in missing : j <= i}) = n
  IN [n \in 1 .. Cardinality(missing) |-> taken[nth(n)]]

RequestBlocksKeeping(d, queueLength) ==
  [d EXCEPT !.pending = @ \cup ToSet(SubSeq(d.remaining, 1, Taken(d, queueLength)))]

RequestBlocks(d, queueLength) ==
  LET n == Taken(d, queueLength)
  IN [d EXCEPT !.pending = @ \cup ToSet(SubSeq(d.remaining, 1, n)),
               !.remaining = SubSeq(@, n + 1, Len(@))]

GotBlockPending(d, b) == [d EXCEPT !.done = @ \cup {b}]

(* A block is taken whether it was requested or not, a duplicate is not.   *)
GotBlock(d, b) ==
  IF b \in d.done THEN d ELSE [d EXCEPT !.pending = @ \ {b}, !.done = @ \cup {b}]

RejectedLost(d, b) == [d EXCEPT !.pending = @ \ {b}]

Rejected(d, b) == [d EXCEPT !.pending = @ \ {b}, !.remaining = Append(@, b)]

Done(d, numBlocks) == Cardinality(d.done) = numBlocks
=============================================================================
