------------------------------ MODULE Download ------------------------------
(***************************************************************************)
(* The download engine of one running torrent: the part of the run loop of *)
(* filechain/torrent_run.go that turns peer messages into piece downloads, *)
(* piece writes and, in the end, completion.  A behaviour is one epoch of  *)
(* the torrent, from the moment it has pieces and a bitfield until stop(). *)
(*                                                                         *)
(* The loop handles one event at a time, so a handler is one step unless   *)
(* it ranges over a Go map or slice and decides in each iteration; such a  *)
(* loop is the steps taken at its own pc, one per iteration, in any order. *)
(* Blocks within a piece, our interest in peers and the upload side are    *)
(* left to other modules.                                                  *)
(***************************************************************************)
EXTENDS PiecePicker

CONSTANTS
  RamLimit,      \* config.WriteCacheSize in pieces: downloads at a time
  MaxPeerDial,   \* config.MaxPeerDial
  MaxWait,       \* bound: RAM requests one peer may have waiting
  MaxGone        \* bound: pointers to closed peers kept by picker and RAM

ASSUME LimitAssumption == RamLimit \in Nat /\ MaxPeerDial \in Nat
ASSUME BoundAssumption == MaxWait \in Nat /\ MaxGone \in Nat

VARIABLES
  connected,  \* t.connectedPeers
  picker,     \* t.piecePicker (NewPicker stands for nil when there is none)
  pd,         \* t.pieceDownloaders: the piece each peer downloads, or None
  pdFast,     \* peers whose downloader has AllowedFast set
  choking,    \* peers with PeerChoking set
  fast,       \* pe.ReceivedAllowedFast
  done,       \* pieces with Done set, which are those set in t.bitfield
  writers,    \* running piece writers: [piece, src, open]
  suspended,  \* t.pieceMessagesC.suspended
  completed,  \* t.completed
  ramFree,    \* session.ram.available, in pieces
  ramWait,    \* session.ram.requests of connected peers
  ramStale,   \* session.ram.requests whose peer is closed
  pc,         \* where the run loop is
  visit,      \* peers that the current range loop has not visited
  panic       \* the panic that ended the program, if any

peerVars == <<connected, choking, fast>>
dlVars   == <<picker, pd, pdFast>>
pieceVars == <<done, writers, suspended, completed>>
ramVars  == <<ramFree, ramWait, ramStale>>
loopVars == <<pc, visit, panic>>
vars == <<peerVars, dlVars, pieceVars, ramVars, loopVars>>

Writer == [piece : Piece, src : Peer, open : BOOLEAN]

Init ==
  /\ connected = {} /\ choking = {} /\ fast = [p \in Peer |-> {}]
  /\ picker = NewPicker /\ pd = [p \in Peer |-> None] /\ pdFast = {}
  /\ done \in (SUBSET Piece) \ {Piece}
  /\ writers = {} /\ suspended = FALSE /\ completed = FALSE
  /\ ramFree = RamLimit /\ ramWait = [p \in Peer |-> 0] /\ ramStale = 0
  /\ pc = "idle" /\ visit = {} /\ panic = "none"

Writing == {w.piece : w \in writers}

Running == panic = "none" /\ pc \notin {"stopping", "stopped"}

(* The loop may receive its next event.                                    *)
Idle == pc = "idle" /\ panic = "none"

(* t.piecePicker # nil: checkCompletion drops the picker when it ends.      *)
HasPicker == ~completed \/ pc = "closing"

(* Bound: a handler that may queue a RAM request starts only when every    *)
(* queue has room for one more.                                            *)
RoomToWait == \A p \in Peer : ramWait[p] < MaxWait

(* Bound: connections are made only while few closed peers are remembered. *)
RoomToConnect == ramStale < MaxGone /\ \A i \in Piece : picker.gone[i] < MaxGone

-----------------------------------------------------------------------------
(* startPieceDownloaderFor and what it calls, as the formula of an action  *)
(* that has changed the picker to pk, the downloaders to cur and curFast,  *)
(* the free RAM to free, and made the pieces of busy done or writing.      *)

StartSinglePieceDownloader(pe, pk, cur, curFast, free, busy) ==
  \E o \in PickFor(pk, pe, cur[pe] # None, pe \in choking', fast[pe], busy) :
     IF o.piece = None
     THEN /\ picker' = o.picker
          /\ pd' = cur /\ pdFast' = curFast /\ ramFree' = free
     ELSE /\ picker' = o.picker
          /\ pd' = [cur EXCEPT ![pe] = o.piece]
          /\ pdFast' = IF o.fast THEN curFast \cup {pe} ELSE curFast
          /\ ramFree' = free - 1

StartPieceDownloaderFor(pe, pk, cur, curFast, free, busy) ==
  \/ /\ ~completed /\ free > 0
     /\ StartSinglePieceDownloader(pe, pk, cur, curFast, free, busy)
     /\ UNCHANGED ramWait
  \/ /\ ~completed /\ free = 0
     /\ ramWait' = [ramWait EXCEPT ![pe] = @ + 1]
     /\ picker' = pk /\ pd' = cur /\ pdFast' = curFast /\ ramFree' = free
  \/ /\ completed
     /\ picker' = pk /\ pd' = cur /\ pdFast' = curFast /\ ramFree' = free
     /\ UNCHANGED ramWait

(* closePieceDownloader for the peers of S: its effect on the downloaders  *)
(* and on RAM.  Its effect on the picker is HandleCancelDownload.          *)
WithoutDownloaders(cur, S) == [p \in Peer |-> IF p \in S THEN None ELSE cur[p]]

ReleasedNothing(cur, S) == 0

Released(cur, S) == Cardinality({p \in S : cur[p] # None})

(* dialAddresses may connect any peers the address list names, as long as  *)
(* there are fewer than MaxPeerDial connections.                           *)
DialAddresses(rest) ==
  {rest} \cup
  {rest \cup D : D \in {D \in SUBSET (Peer \ rest) :
                          RoomToConnect /\ Cardinality(rest) + Cardinality(D) <= MaxPeerDial}}

(* closePeer(pe), pe being connected, when the writers are ws.             *)
ClosePeer(pe, ws) ==
  /\ connected' \in (IF completed THEN {connected \ {pe}} ELSE DialAddresses(connected \ {pe}))
  /\ choking' = choking \ {pe}
  /\ fast' = [fast EXCEPT ![pe] = {}]
  /\ picker' = IF HasPicker THEN HandleDisconnect(picker, pe) ELSE picker
  /\ pd' = WithoutDownloaders(pd, {pe})
  /\ pdFast' = pdFast \ {pe}
  /\ ramFree' = ramFree + Released(pd, {pe})
  /\ ramWait' = [ramWait EXCEPT ![pe] = 0]
  /\ ramStale' = ramStale + ramWait[pe]
  /\ writers' = {IF w.src = pe THEN [w EXCEPT !.open = FALSE] ELSE w : w \in ws}

(* startPieceDownloaders: the loop visits S.                               *)
StartPieceDownloaders(S) ==
  IF completed THEN pc' = "idle" /\ visit' = {}
               ELSE pc' = "starting" /\ visit' = S

-----------------------------------------------------------------------------
(* Connections.                                                            *)

(* handleNewIncomingStream, or an address dialled by handleNewPeers.       *)
Connect(pe) ==
  /\ Idle /\ pe \notin connected /\ RoomToConnect
  /\ connected' = connected \cup {pe}
  /\ UNCHANGED <<choking, fast, dlVars, pieceVars, ramVars, loopVars>>

(* The peer went away, or sent a message that is out of range.             *)
PeerDisconnected(pe) ==
  /\ Idle /\ pe \in connected
  /\ ClosePeer(pe, writers)
  /\ UNCHANGED <<done, suspended, completed, loopVars>>

-----------------------------------------------------------------------------
(* handlePeerMessage.                                                      *)

(* HaveMessage, BitfieldMessage and HaveAllMessage: pe has the pieces S.   *)
Have(pe, S) ==
  /\ Idle /\ pe \in connected /\ RoomToWait
  /\ UNCHANGED choking
  /\ StartPieceDownloaderFor(pe, IF HasPicker THEN HandleHave(picker, pe, S) ELSE picker,
                             pd, pdFast, ramFree, done \cup Writing)
  /\ UNCHANGED <<connected, fast, pieceVars, ramStale, loopVars>>

AllowedFast(pe, i) ==
  /\ Idle /\ pe \in connected /\ HasPicker
  /\ fast' = [fast EXCEPT ![pe] = @ \cup {i}]
  /\ UNCHANGED <<connected, choking, dlVars, pieceVars, ramVars, loopVars>>

Choke(pe) ==
  /\ Idle /\ pe \in connected /\ RoomToWait
  /\ choking' = choking \cup {pe}
  /\ IF pd[pe] = None \/ pe \in pdFast
     THEN UNCHANGED <<picker, pc, visit>>
     ELSE /\ picker' = HandleChoke(picker, pe, pd[pe])
          /\ StartPieceDownloaders(connected)
  /\ UNCHANGED <<connected, fast, pd, pdFast, pieceVars, ramVars, panic>>

Unchoke(pe) ==
  /\ Idle /\ pe \in connected /\ RoomToWait
  /\ choking' = choking \ {pe}
  /\ IF pd[pe] = None
     THEN StartPieceDownloaderFor(pe, picker, pd, pdFast, ramFree, done \cup Writing)
     ELSE /\ picker' = IF pe \in pdFast THEN picker ELSE HandleUnchoke(picker, pe, pd[pe])
          /\ UNCHANGED <<pd, pdFast, ramFree, ramWait>>
  /\ UNCHANGED <<connected, fast, pieceVars, ramStale, loopVars>>

(* One iteration of startPieceDownloaders, and its end.                    *)
StartNext(pe) ==
  /\ pc = "starting" /\ panic = "none" /\ pe \in visit
  /\ visit' = visit \ {pe}
  /\ UNCHANGED choking
  /\ IF pd[pe] = None
     THEN StartPieceDownloaderFor(pe, picker, pd, pdFast, ramFree, done \cup Writing)
     ELSE UNCHANGED <<dlVars, ramFree, ramWait>>
  /\ UNCHANGED <<connected, fast, pieceVars, ramStale, pc, panic>>

StartEnd ==
  /\ pc = "starting" /\ panic = "none" /\ visit = {}
  /\ pc' = "idle"
  /\ UNCHANGED <<peerVars, dlVars, pieceVars, ramVars, visit, panic>>

-----------------------------------------------------------------------------
PieceDownloadedUnsuspended(pe) ==
  /\ Idle /\ pe \in connected /\ pd[pe] # None /\ RoomToWait
  /\ pd[pe] \notin Writing
  /\ UNCHANGED <<choking, panic, suspended>>
  /\ StartPieceDownloaderFor(pe, HandleCancelDownload(picker, pe, pd[pe]),
                             WithoutDownloaders(pd, {pe}), pdFast \ {pe},
                             ramFree + 1, done \cup Writing \cup {pd[pe]})
  /\ writers' = writers \cup {[piece |-> pd[pe], src |-> pe, open |-> TRUE]}
  /\ UNCHANGED <<connected, fast, done, completed, ramStale, pc, visit>>

(* handlePieceMessage with the last block of a piece: the piece is closed, *)
(* the next one requested, piece messages suspended and the writer spawned.*)
PieceDownloaded(pe) ==
  /\ Idle /\ pe \in connected /\ pd[pe] # None /\ ~suspended /\ RoomToWait
  /\ IF pd[pe] \in Writing
     THEN /\ panic' = "piece is already writing"
          /\ UNCHANGED <<choking, dlVars, writers, suspended, ramFree, ramWait>>
     ELSE /\ UNCHANGED <<choking, panic>>
          /\ StartPieceDownloaderFor(pe, HandleCancelDownload(picker, pe, pd[pe]),
                                     WithoutDownloaders(pd, {pe}), pdFast \ {pe},
                                     ramFree + 1, done \cup Writing \cup {pd[pe]})
          /\ suspended' = TRUE
          /\ writers' = writers \cup {[piece |-> pd[pe], src |-> pe, open |-> TRUE]}
  /\ UNCHANGED <<connected, fast, done, completed, ramStale, pc, visit>>

(* handlePieceWriteDone, hash check failed: the source is closed.  Closing *)
(* a peer twice closes its closeC twice, which panics.                     *)
WriteCorrupt(w) ==
  /\ Idle /\ w \in writers
  /\ suspended' = FALSE
  /\ IF w.open
     THEN /\ ClosePeer(w.src, writers \ {w})
          /\ StartPieceDownloaders(connected')
          /\ UNCHANGED panic
     ELSE /\ panic' = "close of closed channel"
          /\ writers' = writers \ {w}
          /\ UNCHANGED <<peerVars, dlVars, ramVars, pc, visit>>
  /\ UNCHANGED <<done, completed>>

(* handlePieceWriteDone, the write failed: stop(pw.Error).                 *)
WriteError(w) ==
  /\ Idle /\ w \in writers
  /\ suspended' = FALSE /\ writers' = writers \ {w}
  /\ pc' = "stopping" /\ visit' = connected
  /\ UNCHANGED <<peerVars, dlVars, done, completed, ramVars, panic>>

WriteOkNoResume(w) ==
  /\ Idle /\ w \in writers
  /\ writers' = writers \ {w}
  /\ done' = done \cup {w.piece}
  /\ pc' = "cancelling" /\ visit' = picker.requested[w.piece]
  /\ UNCHANGED <<peerVars, dlVars, suspended, completed, ramVars, panic>>

(* handlePieceWriteDone, success: other downloads of the piece are         *)
(* cancelled one by one.                                                   *)
WriteOk(w) ==
  /\ Idle /\ w \in writers
  /\ suspended' = FALSE /\ writers' = writers \ {w}
  /\ IF w.piece \in done
     THEN panic' = "already have the piece" /\ UNCHANGED <<done, pc, visit>>
     ELSE /\ done' = done \cup {w.piece}
          /\ pc' = "cancelling"
          /\ visit' = IF HasPicker THEN picker.requested[w.piece] ELSE {}
          /\ UNCHANGED panic
  /\ UNCHANGED <<peerVars, dlVars, completed, ramVars>>

CancelNext(pe) ==
  /\ pc = "cancelling" /\ panic = "none" /\ pe \in visit
  /\ visit' = visit \ {pe}
  /\ UNCHANGED choking
  /\ IF pd[pe] = None
     THEN panic' = "nil piece downloader" /\ UNCHANGED <<dlVars, ramFree, ramWait>>
     ELSE /\ StartPieceDownloaderFor(pe, HandleCancelDownload(picker, pe, pd[pe]),
                                     WithoutDownloaders(pd, {pe}), pdFast \ {pe},
                                     ramFree + 1, done \cup Writing)
          /\ UNCHANGED panic
  /\ UNCHANGED <<connected, fast, pieceVars, ramStale, pc>>

(* It ends without looking for completion when nothing was to cancel.      *)
CheckCompletionSkipped ==
  /\ pc = "cancelling" /\ panic = "none" /\ visit = {}
  /\ pc' = "idle"
  /\ UNCHANGED <<peerVars, dlVars, pieceVars, ramVars, visit, panic>>

(* The end of handlePieceWriteDone: checkCompletion.  When every piece is  *)
(* there it visits the connected peers.                                    *)
CheckCompletion ==
  /\ pc = "cancelling" /\ panic = "none" /\ visit = {}
  /\ IF done = Piece /\ ~completed
     THEN completed' = TRUE /\ pc' = "closing" /\ visit' = connected
     ELSE pc' = "idle" /\ UNCHANGED <<completed, visit>>
  /\ UNCHANGED <<peerVars, dlVars, done, writers, suspended, ramVars, panic>>

(* A peer that is interested in our pieces is kept, another one is closed. *)
CloseNext(pe) ==
  /\ pc = "closing" /\ panic = "none" /\ pe \in visit
  /\ visit' = visit \ {pe}
  /\ \/ ClosePeer(pe, writers)
     \/ UNCHANGED <<peerVars, dlVars, ramVars, writers>>
  /\ UNCHANGED <<done, suspended, completed, pc, panic>>

(* The remaining downloaders are closed and the picker dropped.  Then the  *)
(* bitfield is saved, and the torrent stops if that fails or if it has     *)
(* stopAfterDownload set.                                                  *)
CloseEnd ==
  /\ pc = "closing" /\ panic = "none" /\ visit = {}
  /\ picker' = NewPicker /\ pd' = WithoutDownloaders(pd, Peer) /\ pdFast' = {}
  /\ ramFree' = ramFree + Released(pd, Peer)
  /\ \/ pc' = "idle" /\ UNCHANGED visit
     \/ pc' = "stopping" /\ visit' = connected
  /\ UNCHANGED <<peerVars, pieceVars, ramWait, ramStale, panic>>

-----------------------------------------------------------------------------
(* session.ram grants a waiting request: startSinglePieceDownloader.       *)
RamNotify(pe) ==
  /\ Idle /\ ramWait[pe] > 0 /\ ramFree > 0
  /\ ramWait' = [ramWait EXCEPT ![pe] = @ - 1]
  /\ UNCHANGED choking
  /\ IF completed
     THEN UNCHANGED <<dlVars, ramFree>>
     ELSE StartSinglePieceDownloader(pe, picker, pd, pdFast, ramFree, done \cup Writing)
  /\ UNCHANGED <<connected, fast, pieceVars, ramStale, loopVars>>

(* The same for a peer closed in the meantime.  It has no pieces, so the   *)
(* most that PickFor can do is to switch to endgame mode.                  *)
RamNotifyStale ==
  /\ Idle \/ (pc = "stopped" /\ panic = "none")
  /\ ramStale > 0 /\ ramFree > 0
  /\ ramStale' = ramStale - 1
  /\ \/ UNCHANGED picker
     \/ /\ Idle /\ ~completed /\ Unrequested(picker, done \cup Writing) = {}
        /\ picker' = [picker EXCEPT !.endgame = TRUE]
  /\ UNCHANGED <<peerVars, pd, pdFast, pieceVars, ramFree, ramWait, loopVars>>

(* session.ram notices that the peer of a waiting request is closed.       *)
RamCancel ==
  /\ panic = "none" /\ ramStale > 0 /\ ramFree > 0
  /\ ramStale' = ramStale - 1
  /\ UNCHANGED <<peerVars, dlVars, pieceVars, ramFree, ramWait, loopVars>>

-----------------------------------------------------------------------------
(* stop(): stopPeers closes every peer, dialling others meanwhile; a range *)
(* over a map may or may not visit an entry added during the loop.         *)
Stop ==
  /\ Idle
  /\ pc' = "stopping" /\ visit' = connected
  /\ UNCHANGED <<peerVars, dlVars, pieceVars, ramVars, panic>>

StopNext(pe) ==
  /\ pc = "stopping" /\ panic = "none" /\ pe \in visit
  /\ ClosePeer(pe, writers)
  /\ \E N \in SUBSET (connected' \ (connected \ {pe})) : visit' = (visit \ {pe}) \cup N
  /\ UNCHANGED <<done, suspended, completed, pc, panic>>

(* stopPiecedownloaders and closeData.                                     *)
StopEnd ==
  /\ pc = "stopping" /\ panic = "none" /\ visit = {}
  /\ picker' = NewPicker /\ pd' = WithoutDownloaders(pd, Peer) /\ pdFast' = {}
  /\ ramFree' = ramFree + Released(pd, Peer)
  /\ pc' = "stopped"
  /\ UNCHANGED <<peerVars, pieceVars, ramWait, ramStale, visit, panic>>

-----------------------------------------------------------------------------
PeerMessage(pe) ==
  \/ \E S \in SUBSET Piece : Have(pe, S)
  \/ \E i \in Piece : AllowedFast(pe, i)
  \/ Choke(pe) \/ Unchoke(pe)

WriteDone == \E w \in writers : WriteOk(w) \/ WriteCorrupt(w) \/ WriteError(w)

LoopStep ==
  \/ \E pe \in Peer : StartNext(pe) \/ CancelNext(pe) \/ CloseNext(pe) \/ StopNext(pe)
  \/ StartEnd \/ CheckCompletion \/ CloseEnd \/ StopEnd

Next ==
  \/ \E pe \in Peer : Connect(pe) \/ PeerDisconnected(pe) \/ PeerMessage(pe)
                      \/ PieceDownloaded(pe) \/ RamNotify(pe)
  \/ WriteDone
  \/ LoopStep
  \/ RamNotifyStale
  \/ RamCancel
  \/ Stop

Spec == Init /\ [][Next]_vars

(* The loop's own code runs to its end, and its select statement, which    *)
(* chooses at random among the ready channels, receives the result of a    *)
(* writer in the end.  Nothing is assumed of the peers.                    *)
FairSpec == Spec /\ WF_vars(LoopStep) /\ SF_vars(WriteDone)

-----------------------------------------------------------------------------
(* Properties.                                                             *)

(* The type of every variable; RAM is never handed out that is not there   *)
(* ("invalid request call" in resourcemanager.go).                         *)
TypeOK ==
  /\ connected \in SUBSET Peer /\ choking \in SUBSET Peer
  /\ fast \in [Peer -> SUBSET Piece]
  /\ picker \in Picker /\ pd \in [Peer -> Piece \cup {None}] /\ pdFast \in SUBSET Peer
  /\ done \in SUBSET Piece /\ writers \in SUBSET Writer
  /\ suspended \in BOOLEAN /\ completed \in BOOLEAN
  /\ ramFree \in Nat /\ ramWait \in [Peer -> Nat] /\ ramStale \in Nat
  /\ pc \in {"idle", "starting", "cancelling", "closing", "stopping", "stopped"}
  /\ visit \in SUBSET Peer
  /\ panic \in {"none", "piece is already writing", "already have the piece",
                "nil piece downloader", "close of closed channel"}

Downloading == {p \in Peer : pd[p] # None}

(* The picker and the run loop agree: a peer is in the picker's Requested  *)
(* set of a piece exactly when its piece downloader is for that piece,     *)
(* Available() is the number of pieces that some connected peer has, and a *)
(* closed peer leaves nothing behind, whatever closes, cancels, repeated   *)
(* announcements and picks there were.  A piece that is done is downloaded *)
(* by nobody, except by the peers whose downloads the loop is cancelling.  *)
PickerAgrees ==
  /\ \A p \in Peer, i \in Piece : p \in picker.requested[i] <=> pd[p] = i
  /\ picker.available = Cardinality({i \in Piece : picker.having[i] # {}})
  /\ \A p \in Peer \ connected :
       /\ pd[p] = None /\ p \notin choking /\ fast[p] = {}
       /\ \A i \in Piece : p \notin picker.having[i] /\ p \notin picker.choked[i]
  /\ \A p \in Peer : pd[p] \in done => pc = "cancelling" /\ p \in visit

(* Every RAM unit is free or held by one downloader: none is leaked or     *)
(* released twice ("invalid release call"), and no closed peer waits for   *)
(* one, in any order of grants, cancellations, closes and stops.           *)
RamAccounted ==
  /\ TypeOK
  /\ ramFree + Cardinality(Downloading) = RamLimit
  /\ \A p \in Peer \ connected : ramWait[p] = 0

(* The assertions of the code hold: no piece is written twice at a time or *)
(* after it is done, and a requested peer has a downloader to cancel.      *)
NoAssertionPanic == panic \in {"none", "close of closed channel"}

(* The state of the pieces, as the abstract specification sees it.         *)
PieceState ==
  [i \in Piece |-> IF i \in done THEN "have"
                   ELSE IF i \in Writing THEN "writing" ELSE "missing"]

Store == INSTANCE PieceStore WITH state <- PieceState

(* The engine implements PieceStore: whatever peers, endgame duplicates,   *)
(* corrupt data and stops there are, pieces are written one at a time,     *)
(* none that we have is written again or lost, and completion is final.    *)
ImplementsPieceStore == Store!Spec

(* A suspended loop receives piece messages again: a write always comes    *)
(* to an end, unless the torrent stops or the program panics first.        *)
WriteResumes == suspended ~> ~suspended \/ ~Running

(* The last piece completes the torrent.                                   *)
AllDoneCompletes == (done = Piece) ~> completed \/ ~Running
=============================================================================
