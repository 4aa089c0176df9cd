---------------------------- MODULE PiecePicker ----------------------------
(***************************************************************************)
(* external/piecepicker: which piece to request next, and from which peer. *)
(* The picker is a data structure owned by the torrent's run loop, so this *)
(* module has no variables: a picker is a record, its methods are          *)
(* operators from pickers to pickers, and the nondeterminism of sort.Slice *)
(* among equal keys makes PickFor a set of possible outcomes.              *)
(*                                                                         *)
(* Left out: webseed sources (piecepicker.New is called with nil) and      *)
(* HandleSnubbed (the run loop no longer receives from peerSnubbedC, so    *)
(* every Snubbed set stays empty).                                         *)
(***************************************************************************)
EXTENDS Integers, FiniteSets

CONSTANTS
  Peer,                  \* remote peers
  Piece,                 \* indexes of the torrent's pieces
  None,                  \* Go's nil
  MaxDuplicateDownload   \* config.EndgameMaxDuplicateDownloads

ASSUME NoneAssumption == None \notin Peer /\ None \notin Piece
ASSUME FiniteAssumption == IsFiniteSet(Peer) /\ IsFiniteSet(Piece)
ASSUME DuplicateAssumption == MaxDuplicateDownload \in Nat \ {0}

(* A piece's Choked set may keep a pointer to a peer that is already       *)
(* closed: "gone" counts those, "choked" holds the open ones.              *)
Picker ==
  [having    : [Piece -> SUBSET Peer],
   requested : [Piece -> SUBSET Peer],
   choked    : [Piece -> SUBSET Peer],
   gone      : [Piece -> Nat],
   available : Int,
   endgame   : BOOLEAN]

NewPicker ==
  [having    |-> [i \in Piece |-> {}],
   requested |-> [i \in Piece |-> {}],
   choked    |-> [i \in Piece |-> {}],
   gone      |-> [i \in Piece |-> 0],
   available |-> 0,
   endgame   |-> FALSE]

StalledDownloads(pk, i) == Cardinality(pk.choked[i]) + pk.gone[i]

RunningDownloads(pk, i) == Cardinality(pk.requested[i]) - StalledDownloads(pk, i)

-----------------------------------------------------------------------------
(* HandleHave for every piece of S: a "have" message carries one piece, a  *)
(* bitfield or "have all" message several.                                 *)
HandleHave(pk, pe, S) ==
  LET first == {i \in S : pk.having[i] = {}}
  IN [pk EXCEPT !.having    = [i \in Piece |-> IF i \in S THEN @[i] \cup {pe} ELSE @[i]],
                !.available = @ + Cardinality(first)]

HandleChoke(pk, pe, i) == [pk EXCEPT !.choked[i] = @ \cup {pe}]

HandleUnchoke(pk, pe, i) == [pk EXCEPT !.choked[i] = @ \ {pe}]

(* Removes the peer from Requested (and Snubbed), but not from Choked.     *)
HandleCancelDownload(pk, pe, i) == [pk EXCEPT !.requested[i] = @ \ {pe}]

HandleDisconnectKeepsHaving(pk, pe) ==
  [pk EXCEPT !.requested = [i \in Piece |-> @[i] \ {pe}],
             !.choked    = [i \in Piece |-> @[i] \ {pe}]]

(* HandleCancelDownload and removeHavingPeer for every piece.              *)
HandleDisconnect(pk, pe) ==
  LET last == {i \in Piece : pk.having[i] = {pe}}
  IN [pk EXCEPT !.requested = [i \in Piece |-> @[i] \ {pe}],
                !.having    = [i \in Piece |-> @[i] \ {pe}],
                !.available = @ - Cardinality(last),
                !.choked    = [i \in Piece |-> @[i] \ {pe}],
                !.gone      = [i \in Piece |-> IF pe \in pk.choked[i] THEN @[i] + 1 ELSE @[i]]]

-----------------------------------------------------------------------------
(* The elements of S that a sort by key may put first.                     *)
Least(S, key(_)) == {i \in S : \A j \in S : key(i) <= key(j)}

OfferedAny(pk, pe, busy) == {i \in Piece : pe \in pk.having[i]}

(* Pieces pe can be asked for, given the pieces that are done or writing.  *)
Offered(pk, pe, busy) == {i \in Piece \ busy : pe \in pk.having[i]}

Unrequested(pk, busy) == {i \in Piece \ busy : pk.requested[i] = {}}

PickAllowedFast(pk, pe, fast, busy) ==
  fast \cap Offered(pk, pe, busy) \cap Unrequested(pk, busy)

PickRarest(pk, pe, busy) ==
  Least(Offered(pk, pe, busy) \cap Unrequested(pk, busy),
        LAMBDA i : Cardinality(pk.having[i]))

BelowDuplicateLimit(pk, S) ==
  {i \in S : Cardinality(pk.requested[i]) < MaxDuplicateDownload}

PickEndgame(pk, pe, busy) ==
  Least(BelowDuplicateLimit(pk, Offered(pk, pe, busy)),
        LAMBDA i : RunningDownloads(pk, i))

PickStalled(pk, pe, busy) ==
  LET stalled == {i \in Offered(pk, pe, busy) : RunningDownloads(pk, i) <= 0}
  IN Least(BelowDuplicateLimit(pk, stalled), LAMBDA i : StalledDownloads(pk, i))

(* The outcomes of PickFor(pe).  An outcome is the picker after the call,  *)
(* the piece (or None) and whether the piece is an allowed-fast one.       *)
Outcomes(pk, pe, S, isFast) ==
  IF S = {}
  THEN {[picker |-> pk, piece |-> None, fast |-> FALSE]}
  ELSE {[picker |-> [pk EXCEPT !.requested[i] = @ \cup {pe}],
         piece |-> i, fast |-> isFast] : i \in S}

PickUnchoked(pk, pe, busy) ==
  LET rarest == PickRarest(pk, pe, busy)
      endgame == pk.endgame \/ (rarest = {} /\ Unrequested(pk, busy) = {})
      pk2 == [pk EXCEPT !.endgame = endgame]
  IN CASE ~pk.endgame /\ rarest # {} -> Outcomes(pk, pe, rarest, FALSE)
       [] endgame                    -> Outcomes(pk2, pe, PickEndgame(pk2, pe, busy), FALSE)
       [] OTHER                      -> Outcomes(pk, pe, PickStalled(pk, pe, busy), FALSE)

PickFor(pk, pe, downloading, choking, fast, busy) ==
  LET fastPicks == PickAllowedFast(pk, pe, fast, busy)
  IN CASE downloading      -> Outcomes(pk, pe, {}, FALSE)
       [] ~downloading /\ fastPicks # {} -> Outcomes(pk, pe, fastPicks, TRUE)
       [] ~downloading /\ fastPicks = {} /\ choking -> Outcomes(pk, pe, {}, FALSE)
       [] OTHER            -> PickUnchoked(pk, pe, busy)
=============================================================================
