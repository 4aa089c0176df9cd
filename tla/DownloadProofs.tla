--------------------------- MODULE DownloadProofs ---------------------------
(***************************************************************************)
(* Proofs about the download engine, for every set of peers and pieces and *)
(* every limit: the picker agrees with the run loop, no RAM is lost, no    *)
(* assertion fails, and the engine implements PieceStore.                  *)
(***************************************************************************)
EXTENDS Download, FiniteSetTheorems, TLAPS

Busy(cur) == {p \in Peer : cur[p] # None}

(* A picker and downloaders that agree on who downloads what.              *)
Agree(pk, cur) == \A p \in Peer, i \in Piece : p \in pk.requested[i] <=> cur[p] = i

(* Available() counts the pieces that somebody has.                        *)
Counted(pk) == pk.available = Cardinality({i \in Piece : pk.having[i] # {}})

(* RAM is free or held by one downloader each.                             *)
Balanced(cur, free) == free \in Nat /\ free + Cardinality(Busy(cur)) = RamLimit

Engine(pk, cur, free) ==
  /\ pk \in Picker /\ cur \in [Peer -> Piece \cup {None}]
  /\ Agree(pk, cur) /\ Counted(pk) /\ Balanced(cur, free)

Type ==
  /\ connected \subseteq Peer /\ choking \subseteq Peer
  /\ fast \in [Peer -> SUBSET Piece]
  /\ pdFast \subseteq Peer
  /\ done \subseteq Piece /\ writers \subseteq Writer
  /\ ramWait \in [Peer -> Nat] /\ ramStale \in Nat
  /\ pc \in {"idle", "starting", "cancelling", "closing", "stopping", "stopped"}
  /\ visit \subseteq Peer

(* A peer that is not connected has left nothing behind.                   *)
Left(p) ==
  /\ pd[p] = None /\ p \notin choking /\ fast[p] = {} /\ ramWait[p] = 0
  /\ \A i \in Piece : p \notin picker.having[i] /\ p \notin picker.choked[i]

(* What a range loop over peers may rely on.                               *)
Visits ==
  /\ \A p \in Peer : pd[p] \in done => pc = "cancelling" /\ p \in visit
  /\ pc = "cancelling" => \A p \in visit : pd[p] # None
  /\ pc \in {"starting", "closing", "stopping"} => visit \subseteq connected

(* A write excludes another one, and writes what is missing.               *)
Writes ==
  /\ \A v, w \in writers : v = w
  /\ suspended <=> writers # {}
  /\ \A w \in writers : w.piece \notin done /\ (w.open => w.src \in connected)

(* Completion comes when every piece is done; nothing is downloaded then.  *)
Ended ==
  /\ pc = "closing" => completed
  /\ completed => /\ done = Piece /\ pc # "cancelling"
                  /\ pc # "closing" => picker = NewPicker

(* The inductive invariant.                                                *)
IInv ==
  /\ Type /\ suspended \in BOOLEAN /\ completed \in BOOLEAN
  /\ Engine(picker, pd, ramFree)
  /\ \A p \in Peer \ connected : Left(p)
  /\ Visits /\ Writes /\ Ended
  /\ panic \in {"none", "close of closed channel"}

-----------------------------------------------------------------------------
(* The picker.                                                             *)

(* The parts of a picker have their types.                                 *)
LEMMA PickerParts ==
  ASSUME NEW pk \in Picker
  PROVE  /\ pk.having \in [Piece -> SUBSET Peer] /\ pk.requested \in [Piece -> SUBSET Peer]
         /\ pk.choked \in [Piece -> SUBSET Peer] /\ pk.gone \in [Piece -> Nat]
         /\ pk.available \in Int /\ pk.endgame \in BOOLEAN
PROOF
  BY DEF Picker

(* PickFor has the picker switch to endgame mode at most, or puts the peer *)
(* among those asked for a piece that it has, that is neither done nor     *)
(* being written, and only if the peer downloads nothing.                  *)
Picks(pk, pe, downloading, busy, o) ==
  /\ o.picker \in Picker
  /\ o.picker.having = pk.having /\ o.picker.choked = pk.choked
  /\ o.picker.gone = pk.gone /\ o.picker.available = pk.available
  /\ \/ o.piece = None /\ o.picker.requested = pk.requested
     \/ /\ ~downloading /\ o.piece \in Piece \ busy /\ pe \in pk.having[o.piece]
        /\ o.picker.requested = [pk.requested EXCEPT ![o.piece] = @ \cup {pe}]

(* Requesting one of the offered pieces, or none, is a pick that adds the  *)
(* peer to that piece alone.                                               *)
LEMMA OutcomesPick ==
  ASSUME NEW pk \in Picker, NEW pe \in Peer, NEW downloading, NEW busy, NEW isFast,
         NEW S \in SUBSET Offered(pk, pe, busy), downloading => S = {},
         NEW o \in Outcomes(pk, pe, S, isFast)
  PROVE  Picks(pk, pe, downloading, busy, o)
PROOF
  <1>1. CASE S = {}
    BY <1>1 DEF Outcomes, Picks
  <1>2. CASE S # {}
    <2>1. PICK i \in S : o = [picker |-> [pk EXCEPT !.requested[i] = @ \cup {pe}],
                             piece |-> i, fast |-> isFast]
      BY <1>2 DEF Outcomes
    <2>2. i \in Piece \ busy /\ pe \in pk.having[i] /\ ~downloading
      BY <1>2 DEF Offered
    <2>3. [pk EXCEPT !.requested[i] = @ \cup {pe}] \in Picker
      BY <2>2 DEF Picker
    <2>4. QED
      BY <2>1, <2>2, <2>3 DEF Picks, Picker
  <1>3. QED
    BY <1>1, <1>2

(* Whatever branch PickFor takes (allowed-fast, rarest, endgame, stalled), *)
(* it picks a piece that the peer has and that is not done or being        *)
(* written.                                                                *)
LEMMA PickForPicks ==
  ASSUME NEW pk \in Picker, NEW pe \in Peer, NEW downloading \in BOOLEAN, NEW ch \in BOOLEAN,
         NEW fs, NEW busy, NEW o \in PickFor(pk, pe, downloading, ch, fs, busy)
  PROVE  Picks(pk, pe, downloading, busy, o)
PROOF
  <1>1. CASE \E isFast : o \in Outcomes(pk, pe, {}, isFast)
    BY <1>1, OutcomesPick
  <1>2. CASE ~downloading /\ o \in Outcomes(pk, pe, PickAllowedFast(pk, pe, fs, busy), TRUE)
    <2>1. PickAllowedFast(pk, pe, fs, busy) \in SUBSET Offered(pk, pe, busy)
      BY DEF PickAllowedFast
    <2>2. QED
      BY <1>2, <2>1, OutcomesPick
  <1>3. CASE ~downloading /\ o \in PickUnchoked(pk, pe, busy)
    <2> DEFINE rarest == PickRarest(pk, pe, busy)
               endgame == pk.endgame \/ (rarest = {} /\ Unrequested(pk, busy) = {})
               pk2 == [pk EXCEPT !.endgame = endgame]
    <2>1. /\ rarest \in SUBSET Offered(pk, pe, busy)
          /\ PickStalled(pk, pe, busy) \in SUBSET Offered(pk, pe, busy)
          /\ PickEndgame(pk2, pe, busy) \in SUBSET Offered(pk2, pe, busy)
      BY DEF PickRarest, PickStalled, PickEndgame, Least, BelowDuplicateLimit
    <2>2. /\ pk2 \in Picker /\ pk2.having = pk.having /\ pk2.requested = pk.requested
          /\ pk2.choked = pk.choked /\ pk2.gone = pk.gone /\ pk2.available = pk.available
      BY DEF Picker
    <2>3. \/ o \in Outcomes(pk, pe, rarest, FALSE)
          \/ o \in Outcomes(pk2, pe, PickEndgame(pk2, pe, busy), FALSE)
          \/ o \in Outcomes(pk, pe, PickStalled(pk, pe, busy), FALSE)
      BY <1>3 DEF PickUnchoked
    <2> HIDE DEF rarest, endgame, pk2
    <2>4. CASE o \in Outcomes(pk, pe, rarest, FALSE)
      BY <1>3, <2>1, <2>4, OutcomesPick
    <2>5. CASE o \in Outcomes(pk, pe, PickStalled(pk, pe, busy), FALSE)
      BY <1>3, <2>1, <2>5, OutcomesPick
    <2>6. CASE o \in Outcomes(pk2, pe, PickEndgame(pk2, pe, busy), FALSE)
      <3>1. Picks(pk2, pe, downloading, busy, o)
        BY <1>3, <2>1, <2>2, <2>6, OutcomesPick
      <3>2. QED
        BY <2>2, <3>1 DEF Picks
    <2>7. QED
      BY <2>3, <2>4, <2>5, <2>6
  <1>4. QED
    BY <1>1, <1>2, <1>3 DEF PickFor

-----------------------------------------------------------------------------
(* What the operations keep of the picker, the downloaders and the RAM.    *)

(* Sets of peers and of pieces are finite.                                 *)
LEMMA Finite ==
  /\ \A S \in SUBSET Peer : IsFiniteSet(S) /\ Cardinality(S) \in Nat
  /\ \A S \in SUBSET Piece : IsFiniteSet(S) /\ Cardinality(S) \in Nat
PROOF
  BY FiniteAssumption, FS_Subset, FS_CardinalityType

(* A downloader more takes a unit of RAM.                                  *)
LEMMA BusyMore ==
  ASSUME NEW cur \in [Peer -> Piece \cup {None}], NEW pe \in Peer, cur[pe] = None,
         NEW i \in Piece, NEW free \in Nat, free > 0, Balanced(cur, free)
  PROVE  Balanced([cur EXCEPT ![pe] = i], free - 1)
PROOF
  <1>1. IsFiniteSet(Busy(cur)) /\ Cardinality(Busy(cur)) \in Nat
    BY Finite DEF Busy
  <1>2. Busy([cur EXCEPT ![pe] = i]) = Busy(cur) \cup {pe} /\ pe \notin Busy(cur)
    BY NoneAssumption DEF Busy
  <1>3. Cardinality(Busy(cur) \cup {pe}) = Cardinality(Busy(cur)) + 1
    BY <1>1, <1>2, FS_AddElement
  <1>4. Cardinality(Busy([cur EXCEPT ![pe] = i])) = Cardinality(Busy(cur) \cup {pe})
    BY <1>2, Zenon
  <1>5. QED
    BY <1>1, <1>3, <1>4, LimitAssumption DEF Balanced

(* A downloader less gives it back; without one, nothing is given back.    *)
LEMMA BusyLess ==
  ASSUME NEW cur \in [Peer -> Piece \cup {None}], NEW S \in SUBSET Peer, NEW free \in Nat,
         Balanced(cur, free)
  PROVE  /\ WithoutDownloaders(cur, S) \in [Peer -> Piece \cup {None}]
         /\ Balanced(WithoutDownloaders(cur, S), free + Released(cur, S))
PROOF
  <1> DEFINE B == Busy(cur)
             C == {p \in S : cur[p] # None}
  <1>1. IsFiniteSet(B) /\ Cardinality(B) \in Nat /\ Cardinality(C) \in Nat
    BY Finite DEF Busy
  <1>2. Busy(WithoutDownloaders(cur, S)) = B \ C /\ B \cap C = C
    BY DEF Busy, WithoutDownloaders
  <1>3. Cardinality(B \ C) = Cardinality(B) - Cardinality(B \cap C)
    BY <1>1, FS_Difference
  <1>4. /\ Cardinality(Busy(WithoutDownloaders(cur, S))) = Cardinality(B \ C)
        /\ Cardinality(B \cap C) = Cardinality(C)
    BY <1>2, Zenon
  <1>5. Released(cur, S) = Cardinality(C)
    BY DEF Released
  <1>6. free + Cardinality(B) = RamLimit
    BY DEF Balanced
  <1>7. WithoutDownloaders(cur, S) \in [Peer -> Piece \cup {None}]
    BY DEF WithoutDownloaders
  <1> HIDE DEF B, C
  <1>8. QED
    BY <1>1, <1>3, <1>4, <1>5, <1>6, <1>7, LimitAssumption DEF Balanced

(* Closing one downloader gives one piece of RAM back.                     *)
LEMMA ReleasedOne ==
  ASSUME NEW cur, NEW pe, cur[pe] # None
  PROVE  Released(cur, {pe}) = 1
PROOF
  <1>1. {p \in {pe} : cur[p] # None} = {pe}
    OBVIOUS
  <1>2. Cardinality({p \in {pe} : cur[p] # None}) = Cardinality({pe})
    BY <1>1, Zenon
  <1>3. QED
    BY <1>2, FS_Singleton DEF Released

(* startSinglePieceDownloader, with RAM to spare.                          *)
Started(pe, pk, cur, busy) ==
  /\ Engine(picker', pd', ramFree')
  /\ picker'.having = pk.having /\ picker'.choked = pk.choked
  /\ pdFast' \subseteq Peer
  /\ \A p \in Peer : p # pe => pd'[p] = cur[p]
  /\ \/ pd'[pe] = cur[pe]
     \/ cur[pe] = None /\ pd'[pe] \in Piece \ busy /\ pe \in pk.having[pd'[pe]]

(* startSinglePieceDownloader keeps the engine balanced: it takes RAM      *)
(* exactly when it starts a downloader.                                    *)
LEMMA StartSingleKeeps ==
  ASSUME NEW pe \in Peer, NEW pk, NEW cur, NEW curFast \in SUBSET Peer, NEW free, NEW busy,
         Engine(pk, cur, free), free > 0,
         StartSinglePieceDownloader(pe, pk, cur, curFast, free, busy)
  PROVE  Started(pe, pk, cur, busy)
PROOF
  <1> USE DEF Started
  <1>1. pk \in Picker /\ cur \in [Peer -> Piece \cup {None}] /\ free \in Nat
    BY DEF Engine, Balanced
  <1>2. PICK o \in PickFor(pk, pe, cur[pe] # None, pe \in choking', fast[pe], busy) :
           IF o.piece = None
           THEN /\ picker' = o.picker
                /\ pd' = cur /\ pdFast' = curFast /\ ramFree' = free
           ELSE /\ picker' = o.picker
                /\ pd' = [cur EXCEPT ![pe] = o.piece]
                /\ pdFast' = IF o.fast THEN curFast \cup {pe} ELSE curFast
                /\ ramFree' = free - 1
    BY DEF StartSinglePieceDownloader
  <1>3. Picks(pk, pe, cur[pe] # None, busy, o)
    <2> DEFINE downloading == cur[pe] # None
               ch == pe \in choking'
    <2>1. downloading \in BOOLEAN /\ ch \in BOOLEAN
      OBVIOUS
    <2>2. o \in PickFor(pk, pe, downloading, ch, fast[pe], busy)
      OBVIOUS
    <2> HIDE DEF downloading, ch
    <2>3. Picks(pk, pe, downloading, busy, o)
      BY <1>1, <2>1, <2>2, PickForPicks
    <2>4. QED
      BY <2>3 DEF downloading
  <1>4. Counted(o.picker)
    BY <1>3 DEF Picks, Engine, Counted
  <1>5. CASE o.piece = None
    <2>1. o.picker.requested = pk.requested
      BY <1>3, <1>5, NoneAssumption DEF Picks
    <2>2. Engine(o.picker, cur, free)
      BY <1>3, <1>4, <2>1 DEF Picks, Engine, Agree
    <2>3. QED
      BY <1>2, <1>3, <1>5, <2>2 DEF Picks
  <1>6. CASE o.piece # None
    <2>1. /\ cur[pe] = None /\ o.piece \in Piece \ busy /\ pe \in pk.having[o.piece]
          /\ o.picker.requested = [pk.requested EXCEPT ![o.piece] = @ \cup {pe}]
      BY <1>3, <1>6 DEF Picks
    <2>2. Balanced([cur EXCEPT ![pe] = o.piece], free - 1)
      BY <1>1, <2>1, BusyMore DEF Engine
    <2>3. Agree(o.picker, [cur EXCEPT ![pe] = o.piece])
      BY <1>1, <2>1, PickerParts, NoneAssumption DEF Engine, Agree
    <2>4. Engine(o.picker, [cur EXCEPT ![pe] = o.piece], free - 1)
      BY <1>1, <1>3, <1>4, <2>1, <2>2, <2>3 DEF Picks, Engine
    <2>5. QED
      BY <1>1, <1>2, <1>3, <1>6, <2>1, <2>4 DEF Picks
  <1>7. QED
    BY <1>5, <1>6

(* startPieceDownloaderFor.                                                *)
LEMMA StartForKeeps ==
  ASSUME NEW pe \in Peer, NEW pk, NEW cur, NEW curFast \in SUBSET Peer, NEW free, NEW busy,
         Engine(pk, cur, free), ramWait \in [Peer -> Nat],
         StartPieceDownloaderFor(pe, pk, cur, curFast, free, busy)
  PROVE  /\ Started(pe, pk, cur, busy)
         /\ ramWait' \in [Peer -> Nat] /\ \A p \in Peer : p # pe => ramWait'[p] = ramWait[p]
         /\ completed => picker' = pk /\ pd' = cur
PROOF
  <1>1. CASE ~completed /\ free > 0 /\ StartSinglePieceDownloader(pe, pk, cur, curFast, free, busy)
             /\ UNCHANGED ramWait
    BY <1>1, StartSingleKeeps
  <1>2. CASE /\ ~completed /\ ramWait' = [ramWait EXCEPT ![pe] = @ + 1]
             /\ picker' = pk /\ pd' = cur /\ pdFast' = curFast /\ ramFree' = free
    BY <1>2 DEF Started
  <1>3. CASE /\ picker' = pk /\ pd' = cur /\ pdFast' = curFast /\ ramFree' = free
             /\ UNCHANGED ramWait
    BY <1>3 DEF Started
  <1>4. QED
    BY <1>1, <1>2, <1>3 DEF StartPieceDownloaderFor

(* HandleHave: Available() goes up by the pieces that nobody had.          *)
LEMMA HaveKeeps ==
  ASSUME NEW pk, NEW cur, NEW free, Engine(pk, cur, free), NEW pe \in Peer, NEW S \in SUBSET Piece
  PROVE  /\ Engine(HandleHave(pk, pe, S), cur, free)
         /\ HandleHave(pk, pe, S).choked = pk.choked
         /\ \A i \in Piece : HandleHave(pk, pe, S).having[i] \subseteq pk.having[i] \cup {pe}
PROOF
  <1> DEFINE new == HandleHave(pk, pe, S)
             had == {i \in Piece : pk.having[i] # {}}
             first == {i \in S : pk.having[i] = {}}
             has == {i \in Piece : new.having[i] # {}}
  <1>1. pk \in Picker /\ pk.available \in Int
    BY PickerParts DEF Engine
  <1>2. IsFiniteSet(had) /\ IsFiniteSet(first) /\ Cardinality(had) \in Nat /\ Cardinality(first) \in Nat
    BY Finite
  <1>3. /\ new \in Picker /\ new.requested = pk.requested /\ new.choked = pk.choked
        /\ new.having = [i \in Piece |-> IF i \in S THEN pk.having[i] \cup {pe} ELSE pk.having[i]]
        /\ new.available = pk.available + Cardinality(first)
    <2> DEFINE h == [i \in Piece |-> IF i \in S THEN pk.having[i] \cup {pe} ELSE pk.having[i]]
               a == pk.available + Cardinality(first)
    <2>1. new = [pk EXCEPT !.having = h, !.available = a]
      BY DEF HandleHave
    <2>2. h \in [Piece -> SUBSET Peer] /\ a \in Int
      BY <1>1, <1>2, PickerParts
    <2> HIDE DEF h, a, new, first
    <2>3. QED
      BY <1>1, <2>1, <2>2 DEF Picker, h, a
  <1> HIDE DEF new
  <1>4. has = had \cup first /\ had \cap first = {}
    BY <1>3
  <1>5. Cardinality(had \cup first)
          = Cardinality(had) + Cardinality(first) - Cardinality(had \cap first)
    BY <1>2, FS_Union
  <1>6. Cardinality(had \cap first) = 0 /\ Cardinality(has) = Cardinality(had \cup first)
    BY <1>4, FS_EmptySet, Zenon
  <1>7. pk.available = Cardinality(had)
    BY DEF Engine, Counted
  <1>8. new.available = Cardinality(has)
    <2> HIDE DEF had, first, has
    <2> QED
      BY <1>2, <1>3, <1>5, <1>6, <1>7
  <1>9. Engine(new, cur, free)
    BY <1>3, <1>8 DEF Engine, Agree, Counted
  <1>10. QED
    BY <1>3, <1>9 DEF new

(* HandleChoke and HandleUnchoke do not touch what was requested.          *)
LEMMA ChokeKeeps ==
  ASSUME NEW pk, NEW cur, NEW free, Engine(pk, cur, free), NEW pe \in Peer, NEW i \in Piece,
         NEW new \in {HandleChoke(pk, pe, i), HandleUnchoke(pk, pe, i)}
  PROVE  /\ Engine(new, cur, free) /\ new.having = pk.having
         /\ \A j \in Piece : new.choked[j] \subseteq pk.choked[j] \cup {pe}
PROOF
  <1>1. pk \in Picker
    BY DEF Engine
  <1>2. /\ new \in Picker /\ new.requested = pk.requested /\ new.having = pk.having
        /\ new.available = pk.available
        /\ \A j \in Piece : new.choked[j] \subseteq pk.choked[j] \cup {pe}
    BY <1>1 DEF HandleChoke, HandleUnchoke, Picker
  <1>3. QED
    BY <1>2 DEF Engine, Agree, Counted

(* closePieceDownloader of one peer.                                       *)
LEMMA CancelKeeps ==
  ASSUME NEW pk, NEW cur, NEW free, Engine(pk, cur, free), NEW pe \in Peer, cur[pe] # None
  PROVE  LET new == HandleCancelDownload(pk, pe, cur[pe])
         IN /\ Engine(new, WithoutDownloaders(cur, {pe}), free + 1)
            /\ new.having = pk.having /\ new.choked = pk.choked
PROOF
  <1> DEFINE new == HandleCancelDownload(pk, pe, cur[pe])
  <1>1. /\ pk \in Picker /\ cur \in [Peer -> Piece \cup {None}] /\ cur[pe] \in Piece
        /\ free \in Nat /\ Balanced(cur, free)
    BY DEF Engine, Balanced
  <1>2. /\ new \in Picker /\ new.having = pk.having /\ new.choked = pk.choked
        /\ new.available = pk.available
        /\ new.requested = [pk.requested EXCEPT ![cur[pe]] = @ \ {pe}]
    BY <1>1 DEF HandleCancelDownload, Picker
  <1> HIDE DEF new
  <1>3. /\ WithoutDownloaders(cur, {pe}) \in [Peer -> Piece \cup {None}]
        /\ Balanced(WithoutDownloaders(cur, {pe}), free + 1)
    BY <1>1, BusyLess, ReleasedOne
  <1>4. Agree(new, WithoutDownloaders(cur, {pe}))
    BY <1>1, <1>2, PickerParts, NoneAssumption DEF Engine, Agree, WithoutDownloaders
  <1>5. Counted(new)
    BY <1>2 DEF Engine, Counted
  <1>6. QED
    BY <1>2, <1>3, <1>4, <1>5 DEF Engine, new

(* HandleDisconnect: Available() goes down by what only this peer had.     *)
LEMMA DisconnectKeeps ==
  ASSUME NEW pk, NEW cur, NEW free, Engine(pk, cur, free), NEW pe \in Peer
  PROVE  LET new == HandleDisconnect(pk, pe)
         IN /\ Engine(new, WithoutDownloaders(cur, {pe}), free + Released(cur, {pe}))
            /\ \A i \in Piece : /\ new.having[i] = pk.having[i] \ {pe}
                                /\ new.choked[i] = pk.choked[i] \ {pe}
PROOF
  <1> DEFINE new == HandleDisconnect(pk, pe)
             had == {i \in Piece : pk.having[i] # {}}
             last == {i \in Piece : pk.having[i] = {pe}}
             has == {i \in Piece : new.having[i] # {}}
  <1>1. /\ pk \in Picker /\ cur \in [Peer -> Piece \cup {None}]
        /\ free \in Nat /\ Balanced(cur, free) /\ pk.available \in Int
    BY PickerParts DEF Engine, Balanced
  <1>2. IsFiniteSet(had) /\ Cardinality(had) \in Nat /\ Cardinality(last) \in Nat
    BY Finite
  <1>3. /\ new \in Picker
        /\ new.requested = [i \in Piece |-> pk.requested[i] \ {pe}]
        /\ new.having = [i \in Piece |-> pk.having[i] \ {pe}]
        /\ new.choked = [i \in Piece |-> pk.choked[i] \ {pe}]
        /\ new.available = pk.available - Cardinality(last)
    <2> DEFINE r == [i \in Piece |-> pk.requested[i] \ {pe}]
               h == [i \in Piece |-> pk.having[i] \ {pe}]
               c == [i \in Piece |-> pk.choked[i] \ {pe}]
               g == [i \in Piece |-> IF pe \in pk.choked[i] THEN pk.gone[i] + 1 ELSE pk.gone[i]]
               a == pk.available - Cardinality(last)
    <2>1. new = [pk EXCEPT !.requested = r, !.having = h, !.available = a, !.choked = c, !.gone = g]
      BY DEF HandleDisconnect
    <2>2. /\ r \in [Piece -> SUBSET Peer] /\ h \in [Piece -> SUBSET Peer]
          /\ c \in [Piece -> SUBSET Peer] /\ g \in [Piece -> Nat] /\ a \in Int
      BY <1>1, <1>2, PickerParts
    <2> HIDE DEF r, h, c, g, a, new, last
    <2>3. QED
      BY <1>1, <2>1, <2>2 DEF Picker, r, h, c, a
  <1> HIDE DEF new
  <1>4. has = had \ last /\ had \cap last = last
    BY <1>3
  <1>5. Cardinality(had \ last) = Cardinality(had) - Cardinality(had \cap last)
    BY <1>2, FS_Difference
  <1>6. Cardinality(had \cap last) = Cardinality(last) /\ Cardinality(has) = Cardinality(had \ last)
    BY <1>4, Zenon
  <1>7. pk.available = Cardinality(had)
    BY DEF Engine, Counted
  <1>8. new.available = Cardinality(has)
    <2> HIDE DEF had, last, has
    <2> QED
      BY <1>2, <1>3, <1>5, <1>6, <1>7
  <1>9. /\ WithoutDownloaders(cur, {pe}) \in [Peer -> Piece \cup {None}]
        /\ Balanced(WithoutDownloaders(cur, {pe}), free + Released(cur, {pe}))
    BY <1>1, BusyLess
  <1>10. Agree(new, WithoutDownloaders(cur, {pe}))
    BY <1>3, NoneAssumption DEF Engine, Agree, WithoutDownloaders
  <1>11. QED
    BY <1>3, <1>8, <1>9, <1>10 DEF Engine, Counted, new

(* A new picker, and no downloaders.                                       *)
LEMMA NewKeeps ==
  ASSUME NEW pk, NEW cur, NEW free, Engine(pk, cur, free)
  PROVE  Engine(NewPicker, WithoutDownloaders(cur, Peer), free + Released(cur, Peer))
PROOF
  <1>1. cur \in [Peer -> Piece \cup {None}] /\ free \in Nat /\ Balanced(cur, free)
    BY DEF Engine, Balanced
  <1>2. /\ WithoutDownloaders(cur, Peer) \in [Peer -> Piece \cup {None}]
        /\ Balanced(WithoutDownloaders(cur, Peer), free + Released(cur, Peer))
    BY <1>1, BusyLess
  <1>3. Agree(NewPicker, WithoutDownloaders(cur, Peer))
    BY NoneAssumption DEF Agree, NewPicker, WithoutDownloaders
  <1>4. {i \in Piece : NewPicker.having[i] # {}} = {}
    BY DEF NewPicker
  <1>5. NewPicker \in Picker /\ NewPicker.available = 0
    BY DEF NewPicker, Picker
  <1>6. Counted(NewPicker)
    <2>1. Cardinality({i \in Piece : NewPicker.having[i] # {}}) = 0
      BY <1>4, FS_EmptySet, Zenon
    <2>2. QED
      BY <1>5, <2>1 DEF Counted
  <1>7. QED
    BY <1>2, <1>3, <1>5, <1>6 DEF Engine
-----------------------------------------------------------------------------
(* The steps keep the invariant.                                           *)

(* Nothing is downloaded once the torrent is completed and its picker gone.*)
LEMMA NothingAfterCompletion ==
  ASSUME IInv, completed, pc # "closing"
  PROVE  picker = NewPicker /\ ~HasPicker /\ \A p \in Peer : pd[p] = None
PROOF
  <1>1. picker = NewPicker /\ ~HasPicker
    BY DEF IInv, Ended, HasPicker
  <1>2. \A p \in Peer : pd[p] \in Piece \cup {None} /\ \A i \in Piece : p \notin picker.requested[i]
    BY <1>1 DEF IInv, Engine, NewPicker
  <1>3. QED
    BY <1>1, <1>2 DEF IInv, Engine, Agree

(* The initial state.                                                      *)
LEMMA InitOK == Init => IInv
PROOF
  <1> SUFFICES ASSUME Init PROVE IInv
    OBVIOUS
  <1>1. Type /\ suspended \in BOOLEAN /\ completed \in BOOLEAN
    BY DEF Init, Type
  <1>2. Engine(picker, pd, ramFree)
    <2>1. {i \in Piece : NewPicker.having[i] # {}} = {} /\ Busy(pd) = {}
      BY DEF NewPicker, Busy, Init
    <2>2. Cardinality({i \in Piece : NewPicker.having[i] # {}}) = 0 /\ Cardinality(Busy(pd)) = 0
      BY <2>1, FS_EmptySet, Zenon
    <2>3. NewPicker \in Picker /\ NewPicker.available = 0
      BY DEF NewPicker, Picker
    <2>4. Counted(NewPicker)
      BY <2>2, <2>3 DEF Counted
    <2>5. Balanced(pd, ramFree)
      BY <2>2, LimitAssumption DEF Balanced, Init
    <2>6. Agree(NewPicker, pd)
      BY NoneAssumption DEF Agree, NewPicker, Init
    <2>7. pd \in [Peer -> Piece \cup {None}] /\ picker = NewPicker
      BY DEF Init
    <2>8. QED
      BY <2>3, <2>4, <2>5, <2>6, <2>7 DEF Engine
  <1>3. \A p \in Peer \ connected : Left(p)
    BY DEF Init, Left, NewPicker
  <1>4. Visits
    BY NoneAssumption DEF Init, Visits
  <1>5. Writes
    BY DEF Init, Writes
  <1>6. Ended
    BY DEF Init, Ended
  <1>7. QED
    BY <1>1, <1>2, <1>3, <1>4, <1>5, <1>6 DEF IInv, Init

(* closePeer: nothing of the peer stays behind, the other peers and the    *)
(* pieces being written are left alone.                                    *)
Closed(pe, ws) ==
  /\ Engine(picker', pd', ramFree')
  /\ connected' \subseteq Peer /\ connected \ {pe} \subseteq connected'
  /\ choking' \subseteq Peer /\ fast' \in [Peer -> SUBSET Piece] /\ pdFast' \subseteq Peer
  /\ ramWait' \in [Peer -> Nat] /\ ramStale' \in Nat
  /\ \A p \in Peer \ connected' : Left(p)'
  /\ \A p \in Peer : pd'[p] = IF p = pe THEN None ELSE pd[p]
  /\ completed /\ pc # "closing" => picker' = picker
  /\ writers' \subseteq Writer
  /\ \A w \in writers' : \E v \in ws : w.piece = v.piece /\ (w.open => w = v /\ v.src # pe)
  /\ \A v \in ws : \E w \in writers' : w.piece = v.piece
  /\ \A v, w \in writers' : v = w

(* Closing a peer marks the writers of its pieces and forgets none.        *)
LEMMA CloseWriters ==
  ASSUME NEW pe \in Peer, NEW ws \in SUBSET Writer, \A v, w \in ws : v = w,
         writers' = {IF w.src = pe THEN [w EXCEPT !.open = FALSE] ELSE w : w \in ws}
  PROVE  /\ writers' \subseteq Writer
         /\ \A w \in writers' : \E v \in ws : w.piece = v.piece /\ (w.open => w = v /\ v.src # pe)
         /\ \A v \in ws : \E w \in writers' : w.piece = v.piece
         /\ \A v, w \in writers' : v = w
PROOF
  <1> DEFINE img(w) == IF w.src = pe THEN [w EXCEPT !.open = FALSE] ELSE w
  <1>1. \A w \in ws : /\ img(w) \in Writer /\ img(w).piece = w.piece
                      /\ img(w).open => img(w) = w /\ w.src # pe
    BY DEF Writer
  <1>2. writers' = {img(w) : w \in ws}
    OBVIOUS
  <1> HIDE DEF img
  <1>3. QED
    BY <1>1, <1>2

(* closePeer keeps the engine balanced and removes the peer from every     *)
(* piece of the picker.                                                    *)
LEMMA CloseKeeps ==
  ASSUME IInv, NEW pe \in connected, NEW ws \in SUBSET writers, ClosePeer(pe, ws)
  PROVE  Closed(pe, ws)
PROOF
  <1>1. /\ pe \in Peer /\ connected \subseteq Peer /\ choking \subseteq Peer
        /\ fast \in [Peer -> SUBSET Piece] /\ pdFast \subseteq Peer /\ writers \subseteq Writer
        /\ ramWait \in [Peer -> Nat] /\ ramStale \in Nat
        /\ pd \in [Peer -> Piece \cup {None}] /\ ramFree \in Nat
    BY DEF IInv, Type, Engine, Balanced
  <1>2. connected' \subseteq Peer /\ connected \ {pe} \subseteq connected'
    BY <1>1 DEF ClosePeer, DialAddresses
  <1>3. /\ choking' \subseteq Peer /\ fast' \in [Peer -> SUBSET Piece] /\ pdFast' \subseteq Peer
        /\ ramWait' \in [Peer -> Nat] /\ ramStale' \in Nat
    BY <1>1 DEF ClosePeer
  <1>4. /\ writers' \subseteq Writer
        /\ \A w \in writers' : \E v \in ws : w.piece = v.piece /\ (w.open => w = v /\ v.src # pe)
        /\ \A v \in ws : \E w \in writers' : w.piece = v.piece
        /\ \A v, w \in writers' : v = w
    <2>1. \A v, w \in ws : v = w
      BY DEF IInv, Writes
    <2>2. ws \in SUBSET Writer
      BY <1>1
    <2>3. writers' = {IF w.src = pe THEN [w EXCEPT !.open = FALSE] ELSE w : w \in ws}
      BY DEF ClosePeer
    <2>4. QED
      BY <1>1, <2>1, <2>2, <2>3, CloseWriters
  <1>5. \A p \in Peer : pd'[p] = IF p = pe THEN None ELSE pd[p]
    BY <1>1 DEF ClosePeer, WithoutDownloaders
  <1>6. /\ Engine(picker', pd', ramFree')
        /\ \A i \in Piece : /\ picker'.having[i] = picker.having[i] \ {pe}
                            /\ picker'.choked[i] = picker.choked[i] \ {pe}
    <2>1. CASE HasPicker
      <3>1. picker' = HandleDisconnect(picker, pe)
        BY <2>1 DEF ClosePeer
      <3>2. pd' = WithoutDownloaders(pd, {pe}) /\ ramFree' = ramFree + Released(pd, {pe})
        BY DEF ClosePeer
      <3>3. Engine(picker, pd, ramFree)
        BY DEF IInv
      <3>4. QED
        BY <1>1, <3>1, <3>2, <3>3, DisconnectKeeps
    <2>2. CASE ~HasPicker
      <3>1. picker = NewPicker /\ \A p \in Peer : pd[p] = None
        BY <2>2, NothingAfterCompletion DEF HasPicker, IInv
      <3>2. /\ picker' = picker /\ pd' = WithoutDownloaders(pd, {pe})
            /\ ramFree' = ramFree + Released(pd, {pe})
        BY <2>2 DEF ClosePeer
      <3>3. pd' \in [Peer -> Piece \cup {None}] /\ Balanced(pd', ramFree')
        BY <1>1, <3>2, BusyLess DEF IInv, Engine
      <3>4. \A p \in Peer : pd'[p] = pd[p]
        BY <1>5, <3>1
      <3>5. Engine(picker', pd', ramFree')
        BY <3>2, <3>3, <3>4 DEF IInv, Engine, Agree
      <3>6. QED
        BY <3>1, <3>2, <3>5 DEF NewPicker
    <2>3. QED
      BY <2>1, <2>2
  <1>7. \A p \in Peer \ connected' : Left(p)'
    <2> SUFFICES ASSUME NEW p \in Peer \ connected' PROVE Left(p)'
      OBVIOUS
    <2>1. CASE p = pe
      <3>1. choking' = choking \ {pe} /\ fast'[pe] = {} /\ ramWait'[pe] = 0
        BY <1>1 DEF ClosePeer
      <3>2. QED
        BY <1>1, <1>5, <1>6, <2>1, <3>1 DEF Left
    <2>2. CASE p # pe
      <3>1. Left(p)
        BY <1>2, <2>2 DEF IInv
      <3>2. QED
        BY <1>1, <1>5, <1>6, <2>2, <3>1 DEF Left, ClosePeer
    <2>3. QED
      BY <2>1, <2>2
  <1>8. completed /\ pc # "closing" => picker' = picker
    BY DEF ClosePeer, HasPicker
  <1>9. QED
    BY <1>2, <1>3, <1>4, <1>5, <1>6, <1>7, <1>8 DEF Closed

(* A peer that gets a download is connected, so nobody else is concerned.  *)
LEMMA StartedLeft ==
  ASSUME IInv, NEW pe \in connected, NEW pk, NEW cur, NEW busy, Started(pe, pk, cur, busy),
         connected' = connected, choking' \subseteq choking \cup {pe}, fast' = fast,
         \A p \in Peer : p # pe => ramWait'[p] = ramWait[p] /\ cur[p] = pd[p],
         \A i \in Piece : /\ pk.having[i] \subseteq picker.having[i] \cup {pe}
                          /\ pk.choked[i] \subseteq picker.choked[i] \cup {pe}
  PROVE  \A p \in Peer \ connected' : Left(p)'
PROOF
  <1> SUFFICES ASSUME NEW p \in Peer \ connected PROVE Left(p)'
    OBVIOUS
  <1>1. Left(p) /\ p # pe
    BY DEF IInv
  <1>2. QED
    BY <1>1 DEF Left, Started

(* The pieces and the writers are left alone.                              *)
LEMMA SameWrites ==
  ASSUME IInv, UNCHANGED pieceVars, connected \subseteq connected'
  PROVE  Writes' /\ suspended' \in BOOLEAN /\ completed' \in BOOLEAN
PROOF
  <1>1. suspended' = suspended /\ completed' = completed /\ done' = done /\ writers' = writers
    BY DEF pieceVars
  <1>2. (suspended <=> writers # {})'
    BY <1>1, Zenon DEF IInv, Writes
  <1>3. \A v, w \in writers' : v = w
    BY <1>1 DEF IInv, Writes
  <1>4. \A w \in writers' : w.piece \notin done' /\ (w.open => w.src \in connected')
    BY <1>1 DEF IInv, Writes
  <1>5. QED
    BY <1>1, <1>2, <1>3, <1>4, Zenon DEF IInv, Writes

(* handleNewIncomingStream.                                                *)
LEMMA ConnectKeeps ==
  ASSUME IInv, NEW pe \in Peer, Connect(pe)
  PROVE  IInv'
PROOF
  <1> USE DEF Connect, peerVars, dlVars, ramVars, loopVars
  <1>1. Writes' /\ suspended' \in BOOLEAN /\ completed' \in BOOLEAN
    BY SameWrites
  <1>2. Type'
    BY DEF IInv, Type, pieceVars
  <1>3. Engine(picker', pd', ramFree')
    BY DEF IInv
  <1>4. \A p \in Peer \ connected' : Left(p)'
    BY DEF IInv, Left
  <1>5. Visits'
    BY DEF IInv, Visits, pieceVars
  <1>6. Ended'
    BY DEF IInv, Ended, pieceVars
  <1>7. QED
    BY <1>1, <1>2, <1>3, <1>4, <1>5, <1>6 DEF IInv

(* handlePeerDisconnected and the handlers that close the sender.          *)
LEMMA DisconnectedKeeps ==
  ASSUME IInv, NEW pe \in Peer, PeerDisconnected(pe)
  PROVE  IInv'
PROOF
  <1>1. /\ pe \in connected /\ ClosePeer(pe, writers) /\ done' = done /\ suspended' = suspended
        /\ completed' = completed /\ pc' = pc /\ visit' = visit /\ panic' = panic /\ pc = "idle"
    BY DEF PeerDisconnected, Idle, loopVars
  <1>2. Closed(pe, writers)
    BY <1>1, CloseKeeps
  <1>3. Type'
    BY <1>1, <1>2 DEF IInv, Type, Closed
  <1>4. Visits'
    BY <1>1, <1>2, NoneAssumption DEF IInv, Type, Visits, Closed
  <1>5. writers' # {} <=> writers # {}
    BY <1>2 DEF Closed
  <1>6. (suspended <=> writers # {})'
    BY <1>1, <1>5, Zenon DEF IInv, Writes
  <1>7. Writes'
    <2>1. \A v, w \in writers' : v = w
      BY <1>2 DEF Closed
    <2>2. \A w \in writers' : w.piece \notin done' /\ (w.open => w.src \in connected')
      BY <1>1, <1>2 DEF IInv, Writes, Closed
    <2>3. QED
      BY <1>6, <2>1, <2>2 DEF Writes
  <1>8. Ended'
    BY <1>1, <1>2 DEF IInv, Ended, Closed
  <1>9. suspended' \in BOOLEAN /\ completed' \in BOOLEAN
    BY <1>1 DEF IInv
  <1>10. QED
    BY <1>1, <1>2, <1>3, <1>4, <1>7, <1>8, <1>9 DEF IInv, Closed

(* "have", "bitfield" and "have all" messages.                             *)
LEMMA HaveStep ==
  ASSUME IInv, NEW pe \in Peer, NEW S \in SUBSET Piece, Have(pe, S)
  PROVE  IInv'
PROOF
  <1> DEFINE pk == IF HasPicker THEN HandleHave(picker, pe, S) ELSE picker
  <1>1. /\ pe \in connected /\ choking' = choking /\ connected' = connected /\ fast' = fast
        /\ ramStale' = ramStale /\ pc' = pc /\ visit' = visit /\ panic' = panic /\ pc = "idle"
        /\ UNCHANGED pieceVars
        /\ StartPieceDownloaderFor(pe, pk, pd, pdFast, ramFree, done \cup Writing)
    BY DEF Have, Idle, loopVars
  <1>2. /\ Engine(pk, pd, ramFree)
        /\ \A i \in Piece : /\ pk.having[i] \subseteq picker.having[i] \cup {pe}
                            /\ pk.choked[i] \subseteq picker.choked[i] \cup {pe}
    <2>1. Engine(picker, pd, ramFree)
      BY DEF IInv
    <2>2. CASE HasPicker
      BY <2>1, <2>2, HaveKeeps
    <2>3. CASE ~HasPicker
      BY <2>1, <2>3
    <2>4. QED
      BY <2>2, <2>3
  <1>3. completed => pk = picker
    BY <1>1 DEF HasPicker
  <1> HIDE DEF pk
  <1>4. /\ Started(pe, pk, pd, done \cup Writing)
        /\ ramWait' \in [Peer -> Nat] /\ \A p \in Peer : p # pe => ramWait'[p] = ramWait[p]
        /\ completed => picker' = pk /\ pd' = pd
    BY <1>1, <1>2, StartForKeeps DEF IInv, Type
  <1>5. \A p \in Peer \ connected' : Left(p)'
    BY <1>1, <1>2, <1>4, StartedLeft
  <1>6. Writes' /\ suspended' \in BOOLEAN /\ completed' \in BOOLEAN
    BY <1>1, SameWrites
  <1>7. Type'
    BY <1>1, <1>4 DEF IInv, Type, Started, pieceVars
  <1>8. Visits'
    BY <1>1, <1>4 DEF IInv, Visits, Started, pieceVars
  <1>9. Ended'
    BY <1>1, <1>3, <1>4 DEF IInv, Ended, pieceVars
  <1>10. QED
    BY <1>1, <1>4, <1>5, <1>6, <1>7, <1>8, <1>9 DEF IInv, Started

(* "allowed fast" messages.                                                *)
LEMMA AllowedFastStep ==
  ASSUME IInv, NEW pe \in Peer, NEW i \in Piece, AllowedFast(pe, i)
  PROVE  IInv'
PROOF
  <1> USE DEF AllowedFast, dlVars, ramVars, loopVars
  <1>1. Writes' /\ suspended' \in BOOLEAN /\ completed' \in BOOLEAN
    BY SameWrites
  <1>2. Type'
    BY DEF IInv, Type, pieceVars
  <1>3. \A p \in Peer \ connected' : Left(p)'
    BY DEF IInv, Left, Type
  <1>4. Visits'
    BY DEF IInv, Visits, pieceVars
  <1>5. Ended'
    BY DEF IInv, Ended, pieceVars
  <1>6. QED
    BY <1>1, <1>2, <1>3, <1>4, <1>5 DEF IInv

(* "choke" messages.                                                       *)
LEMMA ChokeStep ==
  ASSUME IInv, NEW pe \in Peer, Choke(pe)
  PROVE  IInv'
PROOF
  <1>1. /\ pe \in connected /\ choking' = choking \cup {pe} /\ connected' = connected
        /\ fast' = fast /\ pd' = pd /\ pdFast' = pdFast /\ ramFree' = ramFree
        /\ ramWait' = ramWait /\ ramStale' = ramStale /\ panic' = panic /\ pc = "idle"
        /\ UNCHANGED pieceVars
    BY DEF Choke, Idle, ramVars
  <1>2. /\ Engine(picker', pd', ramFree') /\ (completed => picker' = picker)
        /\ \A i \in Piece : /\ picker'.having[i] = picker.having[i]
                            /\ picker'.choked[i] \subseteq picker.choked[i] \cup {pe}
        /\ \/ pc' = "idle" /\ visit' \in {visit, {}}
           \/ pc' = "starting" /\ visit' = connected
    <2>1. CASE pd[pe] = None \/ pe \in pdFast
      BY <1>1, <2>1 DEF Choke, IInv
    <2>2. CASE ~(pd[pe] = None \/ pe \in pdFast)
      <3>1. picker' = HandleChoke(picker, pe, pd[pe]) /\ StartPieceDownloaders(connected)
        BY <2>2 DEF Choke
      <3>2. pd[pe] \in Piece /\ Engine(picker, pd, ramFree)
        BY <2>2 DEF IInv, Engine
      <3>3. ~completed
        BY <1>1, <2>2, NothingAfterCompletion
      <3>4. /\ Engine(picker', pd, ramFree) /\ picker'.having = picker.having
            /\ \A i \in Piece : picker'.choked[i] \subseteq picker.choked[i] \cup {pe}
        BY <3>1, <3>2, ChokeKeeps
      <3>5. QED
        BY <1>1, <3>1, <3>3, <3>4 DEF StartPieceDownloaders
    <2>3. QED
      BY <2>1, <2>2
  <1>3. \A p \in Peer \ connected' : Left(p)'
    BY <1>1, <1>2 DEF IInv, Left
  <1>4. Writes' /\ suspended' \in BOOLEAN /\ completed' \in BOOLEAN
    BY <1>1, SameWrites
  <1>5. Type'
    BY <1>1, <1>2 DEF IInv, Type, pieceVars
  <1>6. Visits'
    BY <1>1, <1>2 DEF IInv, Visits, pieceVars
  <1>7. Ended'
    BY <1>1, <1>2 DEF IInv, Ended, pieceVars
  <1>8. QED
    BY <1>1, <1>2, <1>3, <1>4, <1>5, <1>6, <1>7 DEF IInv

(* A step that starts one download, for a loop that is idle or visiting    *)
(* peers, after closing a download of that peer or without.                *)
LEMMA StartStep ==
  ASSUME IInv, NEW pe \in connected, NEW pk, NEW cur, NEW curFast \in SUBSET Peer, NEW free,
         NEW busy, done \subseteq busy, Engine(pk, cur, free),
         \A p \in Peer : p # pe => cur[p] = pd[p], cur[pe] \in {pd[pe], None},
         \A i \in Piece : /\ pk.having[i] = picker.having[i] /\ pk.choked[i] = picker.choked[i],
         completed => pk = picker,
         StartPieceDownloaderFor(pe, pk, cur, curFast, free, busy),
         choking' \subseteq choking \cup {pe}, connected' = connected, fast' = fast,
         done' = done, completed' = completed, ramStale' = ramStale, pc' = pc,
         visit' \in {visit, visit \ {pe}},
         pc = "cancelling" => visit' = visit \ {pe} /\ cur[pe] = None
  PROVE  /\ Engine(picker', pd', ramFree') /\ Visits' /\ Ended'
         /\ \A p \in Peer \ connected' : Left(p)'
         /\ writers' \subseteq Writer => Type'
PROOF
  <1>1. /\ Started(pe, pk, cur, busy)
        /\ ramWait' \in [Peer -> Nat] /\ \A p \in Peer : p # pe => ramWait'[p] = ramWait[p]
        /\ completed => picker' = pk /\ pd' = cur
    BY StartForKeeps DEF IInv, Type
  <1>2. \A p \in Peer \ connected' : Left(p)'
    BY <1>1, StartedLeft
  <1>3. writers' \subseteq Writer => Type'
    BY <1>1 DEF IInv, Type, Started
  <1>4. Visits'
    <2>1. \A p \in Peer : pd'[p] \in done => pc = "cancelling" /\ p \in visit'
      <3> SUFFICES ASSUME NEW p \in Peer, pd'[p] \in done
                   PROVE  pc = "cancelling" /\ p \in visit'
        OBVIOUS
      <3>1. None \notin done
        BY NoneAssumption DEF IInv, Type
      <3>2. pd[pe] \in done => pc = "cancelling"
        BY DEF IInv, Visits, Type
      <3>3. p # pe
        BY <1>1, <3>1, <3>2 DEF Started
      <3>4. QED
        BY <1>1, <3>3 DEF IInv, Visits, Started
    <2>2. pc = "cancelling" => \A p \in visit' : pd'[p] # None
      BY <1>1 DEF IInv, Visits, Started, Type
    <2>3. QED
      BY <2>1, <2>2 DEF Visits, IInv
  <1>5. Ended'
    BY <1>1 DEF IInv, Ended
  <1>6. QED
    BY <1>1, <1>2, <1>3, <1>4, <1>5 DEF Started

(* "unchoke" messages.                                                     *)
LEMMA UnchokeStep ==
  ASSUME IInv, NEW pe \in Peer, Unchoke(pe)
  PROVE  IInv'
PROOF
  <1>1. /\ pe \in connected /\ choking' = choking \ {pe} /\ connected' = connected
        /\ fast' = fast /\ ramStale' = ramStale /\ panic' = panic /\ pc = "idle" /\ pc' = pc
        /\ visit' = visit /\ UNCHANGED pieceVars
    BY DEF Unchoke, Idle, loopVars
  <1>2. Writes' /\ suspended' \in BOOLEAN /\ completed' \in BOOLEAN
    BY <1>1, SameWrites
  <1>3. done' = done /\ completed' = completed /\ writers' = writers
    BY <1>1 DEF pieceVars
  <1>4. /\ Engine(picker, pd, ramFree) /\ pdFast \in SUBSET Peer /\ writers \subseteq Writer
        /\ choking \subseteq Peer
    BY DEF IInv, Type
  <1>5. CASE pd[pe] = None
    <2>1. StartPieceDownloaderFor(pe, picker, pd, pdFast, ramFree, done \cup Writing)
      BY <1>5 DEF Unchoke
    <2>2. /\ Engine(picker', pd', ramFree') /\ Visits' /\ Ended'
          /\ \A p \in Peer \ connected' : Left(p)'
          /\ writers' \subseteq Writer => Type'
      <3> DEFINE busy == done \cup Writing
      <3>1. done \subseteq busy /\ choking' \subseteq choking \cup {pe} /\ visit' \in {visit, visit \ {pe}}
        BY <1>1
      <3> HIDE DEF busy
      <3>2. QED
        BY <1>1, <1>3, <1>4, <2>1, <3>1, StartStep DEF busy
    <2>3. QED
      BY <1>1, <1>2, <1>3, <1>4, <2>2 DEF IInv
  <1>6. CASE pd[pe] # None
    <2>1. /\ picker' = IF pe \in pdFast THEN picker ELSE HandleUnchoke(picker, pe, pd[pe])
          /\ pd' = pd /\ pdFast' = pdFast /\ ramFree' = ramFree /\ ramWait' = ramWait
      BY <1>6 DEF Unchoke
    <2>2. pd[pe] \in Piece
      BY <1>4, <1>6 DEF Engine
    <2>3. ~completed
      BY <1>1, <1>6, NothingAfterCompletion
    <2>4. /\ Engine(picker', pd, ramFree) /\ picker'.having = picker.having
          /\ \A i \in Piece : picker'.choked[i] \subseteq picker.choked[i] \cup {pe}
      BY <1>4, <2>1, <2>2, ChokeKeeps
    <2>5. \A p \in Peer \ connected' : Left(p)'
      BY <1>1, <2>1, <2>4 DEF IInv, Left
    <2>6. Type'
      BY <1>1, <1>3, <2>1 DEF IInv, Type
    <2>7. Visits'
      BY <1>1, <1>3, <2>1 DEF IInv, Visits
    <2>8. Ended'
      BY <1>1, <1>3, <2>3 DEF IInv, Ended
    <2>9. QED
      BY <1>1, <1>2, <2>1, <2>4, <2>5, <2>6, <2>7, <2>8 DEF IInv
  <1>7. QED
    BY <1>5, <1>6

(* An iteration of startPieceDownloaders.                                  *)
LEMMA StartNextStep ==
  ASSUME IInv, NEW pe \in Peer, StartNext(pe)
  PROVE  IInv'
PROOF
  <1>1. /\ choking' = choking /\ connected' = connected /\ pe \in visit
        /\ fast' = fast /\ ramStale' = ramStale /\ panic' = panic /\ pc = "starting" /\ pc' = pc
        /\ visit' = visit \ {pe} /\ UNCHANGED pieceVars
    BY DEF StartNext
  <1>2. Writes' /\ suspended' \in BOOLEAN /\ completed' \in BOOLEAN
    BY <1>1, SameWrites
  <1>3. done' = done /\ completed' = completed /\ writers' = writers
    BY <1>1 DEF pieceVars
  <1>4. /\ Engine(picker, pd, ramFree) /\ pdFast \in SUBSET Peer /\ writers \subseteq Writer
        /\ pe \in connected
    BY <1>1 DEF IInv, Type, Visits
  <1>5. CASE pd[pe] = None
    <2>1. StartPieceDownloaderFor(pe, picker, pd, pdFast, ramFree, done \cup Writing)
      BY <1>5 DEF StartNext
    <2>2. /\ Engine(picker', pd', ramFree') /\ Visits' /\ Ended'
          /\ \A p \in Peer \ connected' : Left(p)'
          /\ writers' \subseteq Writer => Type'
      <3> DEFINE busy == done \cup Writing
      <3>1. done \subseteq busy /\ choking' \subseteq choking \cup {pe} /\ visit' \in {visit, visit \ {pe}}
        BY <1>1
      <3> HIDE DEF busy
      <3>2. QED
        BY <1>1, <1>3, <1>4, <2>1, <3>1, StartStep DEF busy
    <2>3. QED
      BY <1>1, <1>2, <1>3, <1>4, <2>2 DEF IInv
  <1>6. CASE pd[pe] # None
    <2>1. /\ picker' = picker /\ pd' = pd /\ pdFast' = pdFast /\ ramFree' = ramFree
          /\ ramWait' = ramWait
      BY <1>6 DEF StartNext, dlVars
    <2>2. \A p \in Peer \ connected' : Left(p)'
      BY <1>1, <2>1 DEF IInv, Left
    <2>3. Type'
      BY <1>1, <1>3, <2>1 DEF IInv, Type
    <2>4. Visits'
      BY <1>1, <1>3, <2>1 DEF IInv, Visits
    <2>5. Ended'
      BY <1>1, <1>3, <2>1 DEF IInv, Ended
    <2>6. QED
      BY <1>1, <1>2, <1>4, <2>1, <2>2, <2>3, <2>4, <2>5 DEF IInv
  <1>7. QED
    BY <1>5, <1>6

(* An iteration of the loop that cancels the other downloads of a piece.   *)
LEMMA CancelNextStep ==
  ASSUME IInv, NEW pe \in Peer, CancelNext(pe)
  PROVE  IInv'
PROOF
  <1>1. /\ choking' = choking /\ connected' = connected /\ pe \in visit
        /\ fast' = fast /\ ramStale' = ramStale /\ pc = "cancelling" /\ pc' = pc
        /\ visit' = visit \ {pe} /\ UNCHANGED pieceVars
    BY DEF CancelNext
  <1>2. Writes' /\ suspended' \in BOOLEAN /\ completed' \in BOOLEAN
    BY <1>1, SameWrites
  <1>3. done' = done /\ completed' = completed /\ writers' = writers
    BY <1>1 DEF pieceVars
  <1>4. /\ Engine(picker, pd, ramFree) /\ pdFast \ {pe} \in SUBSET Peer /\ writers \subseteq Writer
        /\ pd[pe] # None /\ ~completed /\ pd \in [Peer -> Piece \cup {None}]
    BY <1>1 DEF IInv, Type, Visits, Ended, Engine
  <1>5. pe \in connected
    BY <1>4 DEF IInv, Left
  <1> DEFINE busy == done \cup Writing
             pk == HandleCancelDownload(picker, pe, pd[pe])
             cur == WithoutDownloaders(pd, {pe})
             curFast == pdFast \ {pe}
             free == ramFree + 1
  <1>6. StartPieceDownloaderFor(pe, pk, cur, curFast, free, busy) /\ panic' = panic
    BY <1>4 DEF CancelNext
  <1>7. Engine(pk, cur, free) /\ pk.having = picker.having /\ pk.choked = picker.choked
    BY <1>4, CancelKeeps
  <1>8. cur[pe] = None /\ \A p \in Peer : p # pe => cur[p] = pd[p]
    BY <1>4 DEF WithoutDownloaders
  <1>9. /\ done \subseteq busy /\ choking' \subseteq choking \cup {pe} /\ curFast \in SUBSET Peer
        /\ visit' \in {visit, visit \ {pe}}
    BY <1>1, <1>4
  <1>10. /\ Engine(picker', pd', ramFree') /\ Visits' /\ Ended'
         /\ \A p \in Peer \ connected' : Left(p)'
         /\ writers' \subseteq Writer => Type'
    <2> HIDE DEF busy, pk, cur, curFast, free
    <2>1. QED
      BY <1>1, <1>3, <1>4, <1>5, <1>6, <1>7, <1>8, <1>9, StartStep
  <1>11. QED
    BY <1>2, <1>3, <1>4, <1>6, <1>10 DEF IInv

(* The last block of a piece arrives: nothing is being written, so the     *)
(* piece is not either, and it is not done since it was being downloaded.  *)
LEMMA PieceDownloadedStep ==
  ASSUME IInv, NEW pe \in Peer, PieceDownloaded(pe)
  PROVE  /\ IInv' /\ ~completed /\ writers = {} /\ pd[pe] \in Piece \ done
         /\ writers' = {[piece |-> pd[pe], src |-> pe, open |-> TRUE]}
PROOF
  <1>1. /\ connected' = connected /\ pe \in connected /\ pd[pe] # None
        /\ fast' = fast /\ ramStale' = ramStale /\ pc = "idle" /\ pc' = pc
        /\ visit' = visit /\ done' = done /\ completed' = completed
    BY DEF PieceDownloaded, Idle
  <1>2. writers = {}
    BY Zenon DEF PieceDownloaded, IInv, Writes
  <1>3. /\ Engine(picker, pd, ramFree) /\ pdFast \ {pe} \in SUBSET Peer
        /\ pd \in [Peer -> Piece \cup {None}] /\ pd[pe] \in Piece \ done
    BY <1>1 DEF IInv, Type, Engine, Visits
  <1>4. ~completed
    BY <1>1, NothingAfterCompletion
  <1> DEFINE busy == done \cup Writing \cup {pd[pe]}
             pk == HandleCancelDownload(picker, pe, pd[pe])
             cur == WithoutDownloaders(pd, {pe})
             curFast == pdFast \ {pe}
             free == ramFree + 1
  <1>5. pd[pe] \notin Writing
    BY <1>2 DEF Writing
  <1>6. /\ StartPieceDownloaderFor(pe, pk, cur, curFast, free, busy) /\ panic' = panic
        /\ choking' = choking
        /\ writers' = {[piece |-> pd[pe], src |-> pe, open |-> TRUE]}
    BY <1>2, <1>5 DEF PieceDownloaded
  <1>7. suspended' = TRUE
    BY <1>5 DEF PieceDownloaded
  <1>8. Engine(pk, cur, free) /\ pk.having = picker.having /\ pk.choked = picker.choked
    BY <1>1, <1>3, CancelKeeps
  <1>9. cur[pe] = None /\ \A p \in Peer : p # pe => cur[p] = pd[p]
    BY <1>3 DEF WithoutDownloaders
  <1>10. /\ done \subseteq busy /\ choking' \subseteq choking \cup {pe} /\ curFast \in SUBSET Peer
         /\ visit' \in {visit, visit \ {pe}}
    BY <1>1, <1>3, <1>6
  <1>11. /\ Engine(picker', pd', ramFree') /\ Visits' /\ Ended'
         /\ \A p \in Peer \ connected' : Left(p)'
         /\ writers' \subseteq Writer => Type'
    <2> HIDE DEF busy, pk, cur, curFast, free
    <2>1. /\ \A i \in Piece : pk.having[i] = picker.having[i] /\ pk.choked[i] = picker.choked[i]
          /\ cur[pe] \in {pd[pe], None} /\ pc # "cancelling"
      BY <1>1, <1>8, <1>9
    <2>2. \A p \in Peer : p # pe => cur[p] = pd[p]
      BY <1>9
    <2>3. completed => pk = picker
      BY <1>4
    <2>4. pc = "cancelling" => visit' = visit \ {pe} /\ cur[pe] = None
      BY <2>1
    <2>5. StartPieceDownloaderFor(pe, pk, cur, curFast, free, busy)
      BY <1>6
    <2>6. QED
      BY <1>1, <1>8, <1>10, <2>1, <2>2, <2>3, <2>4, <2>5, StartStep, SMTT(30)
  <1>12. writers' \subseteq Writer /\ writers' # {}
    BY <1>3, <1>6 DEF Writer
  <1>13. (suspended <=> writers # {})'
    BY <1>7, <1>12, Zenon
  <1>14. Writes'
    BY <1>1, <1>3, <1>6, <1>13 DEF Writes
  <1>15. suspended' \in BOOLEAN /\ completed' \in BOOLEAN
    BY <1>1, <1>7 DEF IInv
  <1>16. QED
    BY <1>2, <1>3, <1>4, <1>6, <1>11, <1>12, <1>14, <1>15 DEF IInv

(* A write ends: the writers are gone, the loop receives pieces again.     *)
LEMMA WriteEnds ==
  ASSUME IInv, NEW w \in writers
  PROVE  w.piece \in Piece \ done /\ writers \ {w} = {} /\ ~completed /\ writers = {w}
PROOF
  <1>1. w.piece \in Piece \ done /\ writers \ {w} = {} /\ writers = {w}
    BY DEF IInv, Type, Writer, Writes
  <1>2. QED
    BY <1>1 DEF IInv, Ended

(* Without a writer and with piece messages resumed, nothing is owed.      *)
LEMMA NothingWritten ==
  ASSUME suspended' = FALSE, writers' = {}
  PROVE  Writes' /\ suspended' \in BOOLEAN
PROOF
  <1>1. (suspended <=> writers # {})'
    BY Zenon
  <1>2. QED
    BY <1>1 DEF Writes

(* The hash check failed: the source is closed, if it still is open.       *)
LEMMA WriteCorruptStep ==
  ASSUME IInv, NEW w \in writers, WriteCorrupt(w)
  PROVE  IInv' /\ writers' = {} /\ done' = done /\ completed' = completed
PROOF
  <1>1. /\ suspended' = FALSE /\ done' = done /\ completed' = completed /\ pc = "idle"
    BY DEF WriteCorrupt, Idle
  <1>2. /\ writers \ {w} = {} /\ ~completed /\ writers \ {w} \in SUBSET writers
    BY WriteEnds
  <1>3. CASE w.open
    <2>1. /\ ClosePeer(w.src, writers \ {w}) /\ StartPieceDownloaders(connected') /\ panic' = panic
          /\ w.src \in connected
      BY <1>3 DEF WriteCorrupt, IInv, Writes
    <2>2. Closed(w.src, writers \ {w})
      BY <1>2, <2>1, CloseKeeps
    <2>3. writers' = {}
      BY <1>2, <2>2 DEF Closed
    <2>4. pc' = "starting" /\ visit' = connected'
      BY <1>2, <2>1 DEF StartPieceDownloaders
    <2>5. Type'
      BY <1>1, <2>2, <2>4 DEF IInv, Type, Closed
    <2>6. Visits'
      BY <1>1, <2>2, <2>4, NoneAssumption DEF IInv, Type, Visits, Closed
    <2>7. Writes' /\ suspended' \in BOOLEAN
      BY <1>1, <2>3, NothingWritten
    <2>8. Ended'
      BY <1>1, <1>2, <2>4 DEF Ended
    <2>9. QED
      BY <1>1, <2>1, <2>2, <2>3, <2>5, <2>6, <2>7, <2>8 DEF IInv, Closed
  <1>4. CASE ~w.open
    <2>1. /\ panic' = "close of closed channel" /\ writers' = {} /\ connected' = connected
          /\ choking' = choking /\ fast' = fast /\ picker' = picker /\ pd' = pd
          /\ pdFast' = pdFast /\ ramFree' = ramFree /\ ramWait' = ramWait /\ ramStale' = ramStale
          /\ pc' = pc /\ visit' = visit
      BY <1>2, <1>4 DEF WriteCorrupt, peerVars, dlVars, ramVars
    <2>2. Type'
      BY <1>1, <2>1 DEF IInv, Type
    <2>3. Visits'
      BY <1>1, <2>1 DEF IInv, Visits
    <2>4. Writes' /\ suspended' \in BOOLEAN
      BY <1>1, <2>1, NothingWritten
    <2>5. Ended'
      BY <1>1, <1>2, <2>1 DEF IInv, Ended
    <2>6. \A p \in Peer \ connected' : Left(p)'
      BY <2>1 DEF IInv, Left
    <2>7. QED
      BY <1>1, <2>1, <2>2, <2>3, <2>4, <2>5, <2>6 DEF IInv
  <1>5. QED
    BY <1>3, <1>4

(* The write failed: the torrent stops.                                    *)
LEMMA WriteErrorStep ==
  ASSUME IInv, NEW w \in writers, WriteError(w)
  PROVE  IInv' /\ writers' = {} /\ done' = done /\ completed' = completed
PROOF
  <1>1. /\ suspended' = FALSE /\ writers' = {} /\ done' = done /\ completed' = completed
        /\ pc = "idle" /\ pc' = "stopping" /\ visit' = connected /\ connected' = connected
        /\ choking' = choking /\ fast' = fast /\ picker' = picker /\ pd' = pd
        /\ pdFast' = pdFast /\ ramFree' = ramFree /\ ramWait' = ramWait /\ ramStale' = ramStale
        /\ panic' = panic /\ ~completed
    BY WriteEnds DEF WriteError, Idle, peerVars, dlVars, ramVars
  <1>2. Type'
    BY <1>1 DEF IInv, Type
  <1>3. Visits'
    BY <1>1 DEF IInv, Visits
  <1>4. Writes' /\ suspended' \in BOOLEAN
    BY <1>1, NothingWritten
  <1>5. Ended'
    BY <1>1 DEF Ended
  <1>6. \A p \in Peer \ connected' : Left(p)'
    BY <1>1 DEF IInv, Left
  <1>7. QED
    BY <1>1, <1>2, <1>3, <1>4, <1>5, <1>6 DEF IInv

(* The write succeeded: those who still download the piece are visited.    *)
LEMMA WriteOkStep ==
  ASSUME IInv, NEW w \in writers, WriteOk(w)
  PROVE  IInv' /\ writers' = {} /\ done' = done \cup {w.piece} /\ completed' = completed
PROOF
  <1>1. /\ w.piece \in Piece \ done /\ writers \ {w} = {} /\ ~completed
    BY WriteEnds
  <1>2. /\ suspended' = FALSE /\ writers' = {} /\ done' = done \cup {w.piece}
        /\ completed' = completed /\ pc = "idle" /\ pc' = "cancelling"
        /\ visit' = picker.requested[w.piece] /\ connected' = connected
        /\ choking' = choking /\ fast' = fast /\ picker' = picker /\ pd' = pd
        /\ pdFast' = pdFast /\ ramFree' = ramFree /\ ramWait' = ramWait /\ ramStale' = ramStale
        /\ panic' = panic
    BY <1>1 DEF WriteOk, HasPicker, Idle, peerVars, dlVars, ramVars
  <1>3. visit' \subseteq Peer
    BY <1>1, <1>2, PickerParts DEF IInv, Engine
  <1>4. \A p \in Peer : p \in visit' <=> pd[p] = w.piece
    BY <1>1, <1>2 DEF IInv, Engine, Agree
  <1>5. Type'
    BY <1>1, <1>2, <1>3 DEF IInv, Type
  <1>6. Visits'
    BY <1>1, <1>2, <1>3, <1>4, NoneAssumption DEF IInv, Visits
  <1>7. Writes' /\ suspended' \in BOOLEAN
    BY <1>2, NothingWritten
  <1>8. Ended'
    BY <1>1, <1>2 DEF Ended
  <1>9. \A p \in Peer \ connected' : Left(p)'
    BY <1>2 DEF IInv, Left
  <1>10. QED
    BY <1>2, <1>5, <1>6, <1>7, <1>8, <1>9 DEF IInv

(* checkCompletion, with no download left to cancel.                       *)
LEMMA CheckCompletionStep ==
  ASSUME IInv, CheckCompletion
  PROVE  IInv' /\ ~completed /\ (completed' # completed => completed' = TRUE /\ done = Piece)
PROOF
  <1>1. /\ connected' = connected /\ choking' = choking /\ fast' = fast /\ picker' = picker
        /\ pd' = pd /\ pdFast' = pdFast /\ ramFree' = ramFree /\ ramWait' = ramWait
        /\ ramStale' = ramStale /\ panic' = panic /\ done' = done /\ writers' = writers
        /\ suspended' = suspended /\ pc = "cancelling" /\ visit = {}
    BY DEF CheckCompletion, peerVars, dlVars, ramVars
  <1>2. ~completed
    BY <1>1 DEF IInv, Ended
  <1>3. \/ done = Piece /\ completed' = TRUE /\ pc' = "closing" /\ visit' = connected
        \/ completed' = completed /\ pc' = "idle" /\ visit' = visit
    BY DEF CheckCompletion
  <1>4. Type'
    BY <1>1, <1>3 DEF IInv, Type
  <1>5. Visits'
    BY <1>1, <1>3 DEF IInv, Visits
  <1>6. (suspended <=> writers # {})' /\ suspended' \in BOOLEAN
    BY <1>1, Zenon DEF IInv, Writes
  <1>7. Writes'
    BY <1>1, <1>6 DEF IInv, Writes
  <1>8. completed' \in BOOLEAN
    BY <1>3, Zenon DEF IInv
  <1>9. Ended'
    <2>1. CASE done = Piece /\ completed' = TRUE /\ pc' = "closing"
      BY <1>1, <2>1 DEF Ended
    <2>2. CASE completed' = completed /\ pc' = "idle"
      BY <1>2, <2>2 DEF Ended
    <2>3. QED
      BY <1>3, <2>1, <2>2
  <1>10. \A p \in Peer \ connected' : Left(p)'
    BY <1>1 DEF IInv, Left
  <1>11. Engine(picker', pd', ramFree')
    BY <1>1 DEF IInv
  <1>12. completed' # completed => completed' = TRUE /\ done = Piece
    BY <1>3, Zenon
  <1>13. QED
    BY <1>1, <1>2, <1>4, <1>5, <1>6, <1>7, <1>8, <1>9, <1>10, <1>11, <1>12 DEF IInv

(* An iteration of a loop that closes peers, which may dial others.        *)
LEMMA CloseStep ==
  ASSUME IInv, NEW pe \in connected, ClosePeer(pe, writers),
         pc \in {"closing", "stopping"}, pc' = pc, panic' = panic,
         visit' \subseteq (visit \ {pe}) \cup (connected' \ (connected \ {pe})),
         done' = done, suspended' = suspended, completed' = completed
  PROVE  IInv'
PROOF
  <1>1. Closed(pe, writers)
    BY CloseKeeps
  <1>2. Type'
    BY <1>1 DEF IInv, Type, Closed
  <1>3. Visits'
    <2>1. \A p \in Peer : pd[p] \notin done
      BY DEF IInv, Visits
    <2>2. \A p \in Peer : pd'[p] \notin done'
      <3>1. done \subseteq Piece /\ \A p \in Peer : pd'[p] = IF p = pe THEN None ELSE pd[p]
        BY <1>1 DEF IInv, Type, Closed
      <3>2. QED
        BY <2>1, <3>1, NoneAssumption
    <2>3. visit' \subseteq connected'
      <3>1. visit \subseteq connected /\ connected \ {pe} \subseteq connected'
        BY <1>1 DEF IInv, Visits, Closed
      <3>2. QED
        BY <3>1
    <2>4. QED
      BY <2>2, <2>3 DEF Visits
  <1>4. writers' # {} <=> writers # {}
    BY <1>1 DEF Closed
  <1>5. (suspended <=> writers # {})'
    BY <1>4, Zenon DEF IInv, Writes
  <1>6. \A w \in writers' : w.piece \notin done' /\ (w.open => w.src \in connected')
    <2> SUFFICES ASSUME NEW w \in writers'
                 PROVE  w.piece \notin done /\ (w.open => w.src \in connected')
      OBVIOUS
    <2>1. PICK v \in writers : w.piece = v.piece /\ (w.open => w = v /\ v.src # pe)
      BY <1>1 DEF Closed
    <2>2. v.piece \notin done /\ (v.open => v.src \in connected)
      BY DEF IInv, Writes
    <2>3. connected \ {pe} \subseteq connected'
      BY <1>1 DEF Closed
    <2>4. QED
      BY <2>1, <2>2, <2>3
  <1>7. Writes'
    BY <1>1, <1>5, <1>6 DEF Writes, Closed
  <1>8. Ended'
    BY <1>1 DEF IInv, Ended, Closed
  <1>9. suspended' \in BOOLEAN /\ completed' \in BOOLEAN
    BY Zenon DEF IInv
  <1>10. QED
    BY <1>1, <1>2, <1>3, <1>7, <1>8, <1>9 DEF IInv, Closed

(* A step that changes only where the loop is, with the peers to visit     *)
(* among the connected ones.                                               *)
LEMMA LoopOnly ==
  ASSUME IInv, UNCHANGED <<peerVars, dlVars, pieceVars, ramVars>>, panic' = panic,
         pc # "cancelling", pc' \in {"idle", "stopping", "stopped", "closing"},
         pc' = "closing" => pc = "closing",
         pc = "closing" => pc' = "closing", visit' \subseteq connected
  PROVE  IInv'
PROOF
  <1> USE DEF peerVars, dlVars, ramVars
  <1>1. Writes' /\ suspended' \in BOOLEAN /\ completed' \in BOOLEAN
    BY SameWrites
  <1>2. Type'
    BY DEF IInv, Type, pieceVars
  <1>3. \A p \in Peer \ connected' : Left(p)'
    BY DEF IInv, Left
  <1>4. Visits'
    BY DEF IInv, Visits, pieceVars
  <1>5. Ended'
    BY DEF IInv, Ended, pieceVars
  <1>6. QED
    BY <1>1, <1>2, <1>3, <1>4, <1>5 DEF IInv

(* The picker and every downloader are dropped.                            *)
LEMMA DropStep ==
  ASSUME IInv, picker' = NewPicker, pd' = WithoutDownloaders(pd, Peer), pdFast' = {},
         ramFree' = ramFree + Released(pd, Peer), UNCHANGED <<peerVars, pieceVars>>,
         ramWait' = ramWait, ramStale' = ramStale, panic' = panic,
         pc' \in {"idle", "stopping", "stopped"}, visit' \subseteq connected
  PROVE  IInv'
PROOF
  <1>1. connected' = connected /\ choking' = choking /\ fast' = fast
    BY DEF peerVars
  <1>2. Writes' /\ suspended' \in BOOLEAN /\ completed' \in BOOLEAN
    BY <1>1, SameWrites
  <1>3. done' = done /\ completed' = completed /\ writers' = writers
    BY DEF pieceVars
  <1>4. Type'
    BY <1>1, <1>3 DEF IInv, Type
  <1>5. \A p \in Peer : pd'[p] = None
    BY DEF WithoutDownloaders
  <1>6. Engine(picker', pd', ramFree')
    BY NewKeeps DEF IInv
  <1>7. \A p \in Peer \ connected' : Left(p)'
    BY <1>1, <1>5 DEF IInv, Left, NewPicker
  <1>8. Visits'
    BY <1>1, <1>3, <1>5, NoneAssumption DEF IInv, Type, Visits
  <1>9. Ended'
    BY <1>3 DEF IInv, Ended
  <1>10. QED
    BY <1>2, <1>4, <1>6, <1>7, <1>8, <1>9 DEF IInv

(* The RAM grants a waiting request, or drops one.                         *)
LEMMA RamNotifyStep ==
  ASSUME IInv, NEW pe \in Peer, RamNotify(pe)
  PROVE  IInv'
PROOF
  <1>1. /\ connected' = connected /\ choking' = choking /\ fast' = fast /\ ramStale' = ramStale
        /\ pc' = pc /\ visit' = visit /\ panic' = panic /\ pc = "idle" /\ UNCHANGED pieceVars
        /\ ramWait' = [ramWait EXCEPT ![pe] = @ - 1] /\ ramWait[pe] > 0 /\ ramFree > 0
    BY DEF RamNotify, Idle, loopVars
  <1>2. ramWait \in [Peer -> Nat] /\ ramWait' \in [Peer -> Nat] /\ pe \in connected
        /\ \A p \in Peer : p # pe => ramWait'[p] = ramWait[p]
    <2>1. ramWait \in [Peer -> Nat]
      BY DEF IInv, Type
    <2>2. pe \in connected
      <3>1. ramWait[pe] # 0
        BY <1>1, <2>1
      <3>2. QED
        BY <3>1 DEF IInv, Left
    <2>3. QED
      BY <1>1, <2>1, <2>2
  <1>3. Writes' /\ suspended' \in BOOLEAN /\ completed' \in BOOLEAN
    BY <1>1, SameWrites
  <1>4. done' = done /\ completed' = completed /\ writers' = writers
    BY <1>1 DEF pieceVars
  <1>5. CASE completed
    <2>1. picker' = picker /\ pd' = pd /\ pdFast' = pdFast /\ ramFree' = ramFree
      BY <1>5 DEF RamNotify, dlVars
    <2>2. Type'
      BY <1>1, <1>2, <1>4, <2>1 DEF IInv, Type
    <2>3. \A p \in Peer \ connected' : Left(p)'
      BY <1>1, <1>2, <2>1 DEF IInv, Left
    <2>4. Visits'
      BY <1>1, <1>4, <2>1 DEF IInv, Visits
    <2>5. Ended'
      BY <1>1, <1>4, <2>1 DEF IInv, Ended
    <2>6. Engine(picker', pd', ramFree')
      BY <2>1 DEF IInv
    <2>7. QED
      BY <1>1, <1>3, <2>2, <2>3, <2>4, <2>5, <2>6 DEF IInv
  <1>6. CASE ~completed
    <2> DEFINE busy == done \cup Writing
    <2>1. StartSinglePieceDownloader(pe, picker, pd, pdFast, ramFree, busy)
      BY <1>6 DEF RamNotify
    <2>2. Engine(picker, pd, ramFree) /\ pdFast \in SUBSET Peer /\ done \subseteq busy
      BY DEF IInv, Type
    <2> HIDE DEF busy
    <2>3. Started(pe, picker, pd, busy)
      BY <1>1, <2>1, <2>2, StartSingleKeeps
    <2>4. \A p \in Peer \ connected' : Left(p)'
      BY <1>1, <1>2, <2>3, StartedLeft
    <2>5. Type'
      BY <1>1, <1>2, <1>4, <2>3 DEF IInv, Type, Started
    <2>6. Visits'
      BY <1>1, <1>4, <2>2, <2>3 DEF IInv, Visits, Started
    <2>7. Ended'
      BY <1>1, <1>4, <1>6 DEF Ended
    <2>8. QED
      BY <1>1, <1>3, <2>3, <2>4, <2>5, <2>6, <2>7 DEF IInv, Started
  <1>7. QED
    BY <1>5, <1>6

(* A RAM grant that comes too late, and a request that is cancelled,       *)
(* change no piece.                                                        *)
LEMMA RamDropStep ==
  ASSUME IInv, RamNotifyStale \/ RamCancel
  PROVE  IInv' /\ UNCHANGED pieceVars
PROOF
  <1>1. /\ connected' = connected /\ choking' = choking /\ fast' = fast
        /\ pd' = pd /\ pdFast' = pdFast /\ ramFree' = ramFree /\ ramWait' = ramWait
        /\ ramStale' = ramStale - 1 /\ ramStale > 0
        /\ pc' = pc /\ visit' = visit /\ panic' = panic /\ UNCHANGED pieceVars
        /\ picker' = picker \/ (~completed /\ picker' = [picker EXCEPT !.endgame = TRUE])
    BY DEF RamNotifyStale, RamCancel, peerVars, dlVars, ramVars, loopVars
  <1>2. /\ picker' \in Picker /\ picker'.requested = picker.requested
        /\ picker'.having = picker.having /\ picker'.choked = picker.choked
        /\ picker'.available = picker.available
    BY <1>1 DEF IInv, Engine, Picker
  <1>3. Engine(picker', pd', ramFree')
    BY <1>1, <1>2 DEF IInv, Engine, Agree, Counted
  <1>4. Writes' /\ suspended' \in BOOLEAN /\ completed' \in BOOLEAN
    BY <1>1, SameWrites
  <1>5. done' = done /\ completed' = completed /\ writers' = writers
    BY <1>1 DEF pieceVars
  <1>6. Type'
    <2>1. ramStale \in Nat
      BY DEF IInv, Type
    <2>2. ramStale' \in Nat
      BY <1>1, <2>1
    <2>3. QED
      BY <1>1, <1>5, <2>2 DEF IInv, Type
  <1>7. \A p \in Peer \ connected' : Left(p)'
    BY <1>1, <1>2 DEF IInv, Left
  <1>8. Visits'
    BY <1>1, <1>5 DEF IInv, Visits
  <1>9. Ended'
    BY <1>1, <1>5 DEF IInv, Ended
  <1>10. QED
    BY <1>1, <1>3, <1>4, <1>6, <1>7, <1>8, <1>9 DEF IInv

(* Every step keeps the invariant.                                         *)
LEMMA Step == IInv /\ [Next]_vars => IInv'
PROOF
  <1> SUFFICES ASSUME IInv, [Next]_vars PROVE IInv'
    OBVIOUS
  <1>1. CASE UNCHANGED vars
    <2> USE <1>1 DEF vars, peerVars, dlVars, ramVars, loopVars
    <2>1. Writes' /\ suspended' \in BOOLEAN /\ completed' \in BOOLEAN
      BY SameWrites
    <2>2. Type'
      BY DEF IInv, Type, pieceVars
    <2>3. \A p \in Peer \ connected' : Left(p)'
      BY DEF IInv, Left
    <2>4. Visits'
      BY DEF IInv, Visits, pieceVars
    <2>5. Ended'
      BY DEF IInv, Ended, pieceVars
    <2>6. QED
      BY <2>1, <2>2, <2>3, <2>4, <2>5 DEF IInv
  <1>2. ASSUME NEW pe \in Peer, PeerMessage(pe) PROVE IInv'
    BY <1>2, HaveStep, AllowedFastStep, ChokeStep, UnchokeStep DEF PeerMessage
  <1>3. ASSUME NEW pe \in Peer, StartNext(pe) \/ CancelNext(pe) PROVE IInv'
    BY <1>3, StartNextStep, CancelNextStep
  <1>4. ASSUME NEW pe \in Peer, CloseNext(pe) PROVE IInv'
    <2>1. /\ pc = "closing" /\ pc' = pc /\ panic' = panic /\ pe \in visit /\ visit' = visit \ {pe}
          /\ done' = done /\ suspended' = suspended /\ completed' = completed
      BY <1>4 DEF CloseNext
    <2>2. visit \subseteq connected
      BY <2>1 DEF IInv, Visits
    <2>3. CASE ClosePeer(pe, writers)
      BY <2>1, <2>2, <2>3, CloseStep
    <2>4. CASE UNCHANGED <<peerVars, dlVars, ramVars, writers>>
      <3>1. UNCHANGED <<peerVars, dlVars, pieceVars, ramVars>>
        BY <2>1, <2>4 DEF pieceVars
      <3>2. QED
        BY <2>1, <2>2, <3>1, LoopOnly
    <2>5. QED
      BY <1>4, <2>3, <2>4 DEF CloseNext
  <1>5. ASSUME NEW pe \in Peer, StopNext(pe) PROVE IInv'
    <2>1. /\ pc = "stopping" /\ pc' = pc /\ panic' = panic /\ pe \in visit
          /\ visit' \subseteq (visit \ {pe}) \cup (connected' \ (connected \ {pe}))
          /\ done' = done /\ suspended' = suspended /\ completed' = completed
          /\ ClosePeer(pe, writers)
      BY <1>5 DEF StopNext
    <2>2. pe \in connected
      BY <2>1 DEF IInv, Visits
    <2>3. QED
      BY <2>1, <2>2, CloseStep
  <1>6. CASE StartEnd
    <2>1. /\ UNCHANGED <<peerVars, dlVars, pieceVars, ramVars>> /\ panic' = panic
          /\ pc = "starting" /\ pc' = "idle" /\ visit' \subseteq connected
      BY <1>6 DEF StartEnd
    <2>2. QED
      BY <2>1, LoopOnly
  <1>7. CASE Stop
    <2>1. /\ UNCHANGED <<peerVars, dlVars, pieceVars, ramVars>> /\ panic' = panic
          /\ pc = "idle" /\ pc' = "stopping" /\ visit' \subseteq connected
      BY <1>7 DEF Stop, Idle
    <2>2. QED
      BY <2>1, LoopOnly
  <1>8. CASE CloseEnd \/ StopEnd
    <2>1. /\ picker' = NewPicker /\ pd' = WithoutDownloaders(pd, Peer) /\ pdFast' = {}
          /\ ramFree' = ramFree + Released(pd, Peer) /\ UNCHANGED <<peerVars, pieceVars>>
          /\ ramWait' = ramWait /\ ramStale' = ramStale /\ panic' = panic
          /\ pc' \in {"idle", "stopping", "stopped"} /\ visit' \subseteq connected
      BY <1>8 DEF CloseEnd, StopEnd
    <2>2. QED
      BY <2>1, DropStep
  <1>9. CASE WriteDone
    BY <1>9, WriteOkStep, WriteCorruptStep, WriteErrorStep DEF WriteDone
  <1>10. CASE LoopStep
    BY <1>3, <1>4, <1>5, <1>6, <1>8, <1>10, CheckCompletionStep DEF LoopStep
  <1>11. CASE RamNotifyStale \/ RamCancel
    BY <1>11, RamDropStep
  <1>12. CASE \E pe \in Peer : Connect(pe) \/ PeerDisconnected(pe) \/ PeerMessage(pe)
                               \/ PieceDownloaded(pe) \/ RamNotify(pe)
    BY <1>2, <1>12, ConnectKeeps, DisconnectedKeeps, PieceDownloadedStep, RamNotifyStep
  <1>13. QED
    BY <1>1, <1>7, <1>9, <1>10, <1>11, <1>12 DEF Next

(* So it holds always.                                                     *)
LEMMA Invariance == Spec => []IInv
PROOF
  BY InitOK, Step, PTL DEF Spec

-----------------------------------------------------------------------------
(* The theorems.                                                           *)

(* The picker and the run loop agree, for any number of peers and pieces:  *)
(* who is asked for a piece is who has a downloader for it, Available()    *)
(* counts what connected peers have, a closed peer leaves nothing behind,  *)
(* and only downloads being cancelled are of pieces that are done.         *)
THEOREM PickerAgreesAlways == Spec => []PickerAgrees
PROOF
  <1>1. IInv => PickerAgrees
    BY DEF IInv, Engine, Agree, Counted, Left, Visits, PickerAgrees
  <1>2. QED
    BY <1>1, Invariance, PTL

(* None of the assertions of the download engine can fail: no piece is     *)
(* written twice or after it is done, and whoever is asked for a piece     *)
(* that is done has a downloader to be cancelled.                          *)
THEOREM AssertionsHold == Spec => []NoAssertionPanic
PROOF
  <1>1. IInv => NoAssertionPanic
    BY DEF IInv, NoAssertionPanic
  <1>2. QED
    BY <1>1, Invariance, PTL

(* Every unit of RAM is free or held by one downloader, whatever the limit *)
(* and the number of peers, and no closed peer waits for one.              *)
THEOREM RamAlwaysAccounted == Spec => []RamAccounted
PROOF
  <1>1. IInv => RamAccounted
    <2> SUFFICES ASSUME IInv PROVE RamAccounted
      OBVIOUS
    <2>1. TypeOK
      BY DEF IInv, Type, Engine, Balanced, TypeOK
    <2>2. Downloading = Busy(pd)
      BY DEF Downloading, Busy
    <2>3. Cardinality(Downloading) = Cardinality(Busy(pd))
      BY <2>2, Zenon
    <2>4. ramFree + Cardinality(Downloading) = RamLimit
      BY <2>3 DEF IInv, Engine, Balanced
    <2>5. \A p \in Peer \ connected : ramWait[p] = 0
      BY DEF IInv, Left
    <2>6. QED
      BY <2>1, <2>4, <2>5 DEF RamAccounted
  <1>2. QED
    BY <1>1, Invariance, PTL

(* Steps that leave the pieces alone are stuttering steps of PieceStore.   *)
LEMMA SamePieces ==
  ASSUME done' = done, Writing' = Writing, completed' = completed
  PROVE  UNCHANGED Store!vars
PROOF
  BY Zenon DEF Store!vars, PieceState

(* closePeer leaves the piece that is being written alone.                 *)
LEMMA CloseKeepsPieces ==
  ASSUME IInv, NEW pe \in connected, ClosePeer(pe, writers)
  PROVE  Writing' = Writing
PROOF
  <1>1. Closed(pe, writers)
    BY CloseKeeps
  <1>2. QED
    BY <1>1 DEF Closed, Writing

(* A write that begins or ends is one of PieceStore.                       *)
LEMMA BeginsWrite ==
  ASSUME IInv, NEW i \in Piece \ done, writers = {}, ~completed,
         done' = done, Writing' = {i}, completed' = completed
  PROVE  Store!Next
PROOF
  <1>1. Writing = {}
    BY DEF Writing
  <1>2. PieceState[i] = "missing" /\ \A j \in Piece : PieceState[j] # "writing"
    BY <1>1 DEF PieceState
  <1>3. PieceState' = [PieceState EXCEPT ![i] = "writing"]
    BY <1>1 DEF PieceState
  <1>4. Store!BeginWrite(i)
    BY <1>2, <1>3 DEF Store!BeginWrite
  <1>5. QED
    BY <1>4 DEF Store!Next

(* The end of a write, good or bad, is a step of the abstract store.       *)
LEMMA EndsWrite ==
  ASSUME NEW i \in Piece \ done, Writing = {i}, Writing' = {},
         done' \in {done, done \cup {i}}, completed' = completed
  PROVE  Store!Next
PROOF
  <1>1. PieceState[i] = "writing"
    BY DEF PieceState
  <1>2. \E s \in {"missing", "have"} : PieceState' = [PieceState EXCEPT ![i] = s]
    BY DEF PieceState
  <1>3. Store!EndWrite(i)
    BY <1>1, <1>2 DEF Store!EndWrite
  <1>4. QED
    BY <1>3 DEF Store!Next

(* Every step of the engine is a step of PieceStore, or stutters.          *)
LEMMA StoreStep == IInv /\ [Next]_vars => [Store!Next]_(Store!vars)
PROOF
  <1> SUFFICES ASSUME IInv, [Next]_vars PROVE Store!Next \/ UNCHANGED Store!vars
    OBVIOUS
  <1>1. CASE UNCHANGED pieceVars
    <2>1. done' = done /\ writers' = writers /\ completed' = completed
      BY <1>1 DEF pieceVars
    <2>2. Writing' = Writing
      BY <2>1 DEF Writing
    <2>3. QED
      BY <2>1, <2>2, SamePieces
  <1>2. ASSUME NEW pe \in connected, ClosePeer(pe, writers), done' = done, completed' = completed
        PROVE  UNCHANGED Store!vars
    BY <1>2, CloseKeepsPieces, SamePieces
  <1>3. ASSUME NEW pe \in Peer, PieceDownloaded(pe) PROVE Store!Next
    <2>1. /\ writers = {} /\ ~completed /\ pd[pe] \in Piece \ done
          /\ writers' = {[piece |-> pd[pe], src |-> pe, open |-> TRUE]}
      BY <1>3, PieceDownloadedStep
    <2>2. done' = done /\ completed' = completed
      BY <1>3 DEF PieceDownloaded
    <2>3. Writing' = {pd[pe]}
      BY <2>1 DEF Writing
    <2>4. QED
      BY <2>1, <2>2, <2>3, BeginsWrite
  <1>4. CASE WriteDone
    <2>1. PICK w \in writers : WriteOk(w) \/ WriteCorrupt(w) \/ WriteError(w)
      BY <1>4 DEF WriteDone
    <2>2. w.piece \in Piece \ done /\ writers = {w}
      BY WriteEnds
    <2>3. /\ writers' = {} /\ done' \in {done, done \cup {w.piece}} /\ completed' = completed
      BY <2>1, WriteOkStep, WriteCorruptStep, WriteErrorStep
    <2>4. Writing = {w.piece} /\ Writing' = {}
      BY <2>2, <2>3 DEF Writing
    <2>5. QED
      BY <2>2, <2>3, <2>4, EndsWrite
  <1>5. CASE CheckCompletion
    <2>1. ~completed /\ (completed' # completed => completed' = TRUE /\ done = Piece)
      BY <1>5, CheckCompletionStep
    <2>2. done' = done /\ writers' = writers
      BY <1>5 DEF CheckCompletion
    <2>3. Writing' = Writing
      BY <2>2 DEF Writing
    <2>4. CASE completed' = completed
      BY <2>2, <2>3, <2>4, SamePieces
    <2>5. CASE completed' # completed
      <3>1. PieceState' = PieceState
        BY <2>2, <2>3, Zenon DEF PieceState
      <3>2. \A i \in Piece : PieceState[i] = "have"
        BY <2>1, <2>5 DEF PieceState
      <3>3. completed' = TRUE
        BY <2>1, <2>5
      <3>4. Store!Complete
        BY <2>1, <3>1, <3>2, <3>3 DEF Store!Complete
      <3>5. QED
        BY <3>4 DEF Store!Next
    <2>6. QED
      BY <2>4, <2>5
  <1>6. ASSUME NEW pe \in Peer, PeerDisconnected(pe) PROVE UNCHANGED Store!vars
    BY <1>2, <1>6 DEF PeerDisconnected
  <1>7. ASSUME NEW pe \in Peer, CloseNext(pe) PROVE UNCHANGED Store!vars \/ UNCHANGED pieceVars
    <2>1. /\ done' = done /\ suspended' = suspended /\ completed' = completed /\ pe \in connected
      BY <1>7 DEF CloseNext, IInv, Visits
    <2>2. CASE ClosePeer(pe, writers)
      BY <1>2, <2>1, <2>2
    <2>3. CASE UNCHANGED <<peerVars, dlVars, ramVars, writers>>
      BY <2>1, <2>3 DEF pieceVars
    <2>4. QED
      BY <1>7, <2>2, <2>3 DEF CloseNext
  <1>8. ASSUME NEW pe \in Peer, StopNext(pe) PROVE UNCHANGED Store!vars
    <2>1. /\ done' = done /\ completed' = completed /\ pe \in connected /\ ClosePeer(pe, writers)
      BY <1>8 DEF StopNext, IInv, Visits
    <2>2. QED
      BY <1>2, <2>1
  <1>9. ASSUME NEW pe \in Peer,
               Connect(pe) \/ PeerMessage(pe) \/ RamNotify(pe) \/ StartNext(pe) \/ CancelNext(pe)
        PROVE  UNCHANGED pieceVars
    BY <1>9 DEF Connect, PeerMessage, Have, AllowedFast, Choke, Unchoke, RamNotify, StartNext,
                CancelNext
  <1>10. CASE StartEnd \/ CloseEnd \/ StopEnd \/ RamNotifyStale \/ RamCancel \/ Stop \/ UNCHANGED vars
    <2>1. UNCHANGED pieceVars
      BY <1>10 DEF StartEnd, CloseEnd, StopEnd, RamNotifyStale, RamCancel, Stop, vars
    <2>2. QED
      BY <1>1, <2>1
  <1>11. CASE LoopStep
    BY <1>1, <1>5, <1>7, <1>8, <1>9, <1>10, <1>11 DEF LoopStep
  <1>12. CASE \E pe \in Peer : Connect(pe) \/ PeerDisconnected(pe) \/ PeerMessage(pe)
                               \/ PieceDownloaded(pe) \/ RamNotify(pe)
    BY <1>1, <1>3, <1>6, <1>9, <1>12
  <1>13. QED
    BY <1>4, <1>10, <1>11, <1>12 DEF Next

(* The engine implements PieceStore: missing pieces are written one at a   *)
(* time, none that we have is lost or written again, and the torrent       *)
(* completes once, when it has them all, and is not written to after that. *)
THEOREM RefinesPieceStore == Spec => ImplementsPieceStore
PROOF
  <1>1. Init => Store!Init
    <2> SUFFICES ASSUME Init PROVE Store!Init
      OBVIOUS
    <2>1. Writing = {} /\ completed = FALSE /\ \E i \in Piece : i \notin done
      BY DEF Init, Writing
    <2>2. PieceState \in [Piece -> {"missing", "have"}]
      BY <2>1 DEF PieceState
    <2>3. \E i \in Piece : PieceState[i] = "missing"
      BY <2>1 DEF PieceState
    <2>4. QED
      BY <2>1, <2>2, <2>3 DEF Store!Init
  <1>2. QED
    BY <1>1, Invariance, StoreStep, PTL DEF Spec, ImplementsPieceStore, Store!Spec
=============================================================================
