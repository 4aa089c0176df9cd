------------------------------ MODULE Torrent -------------------------------
(***************************************************************************)
(* The life of one torrent of filechain/: start, metadata, allocation,     *)
(* verification, download, completion, stop, and a crash of the program    *)
(* anywhere in between, with what the resume database and the disk keep.   *)
(*                                                                         *)
(* The handlers of the run loop are steps; stopPeers, which closes peers   *)
(* and dials others in the same loop, is one step per iteration.  Which    *)
(* pieces are requested from whom is the subject of Download: here a       *)
(* connected peer delivers any piece that is neither done nor writing.     *)
(* Messages queued for want of metadata (processQueuedMessages) are here   *)
(* messages that arrive once there is metadata.                            *)
(* Every piece has a file of its own.  The manual verify command cannot be *)
(* issued (its channel is not received), so doVerify is never set.         *)
(***************************************************************************)
EXTENDS Integers, FiniteSets

CONSTANTS
  Peer,
  Piece,
  MaxPeerDial,        \* config.MaxPeerDial
  StopAfterDownload   \* t.stopAfterDownload

ASSUME TorrentAssumption ==
  /\ IsFiniteSet(Peer) /\ IsFiniteSet(Piece) /\ Piece # {}
  /\ MaxPeerDial \in Nat
  /\ StopAfterDownload \in BOOLEAN

VARIABLES
  started,    \* t.errC # nil
  info,       \* t.info # nil
  alloc,      \* t.allocator # nil
  verif,      \* t.verifier # nil
  pieces,     \* t.pieces # nil
  picker,     \* t.piecePicker # nil
  pdone,      \* indexes of t.pieces whose Done is set
  hasBf, bf,  \* t.bitfield # nil, and its bits
  completed,  \* t.completed
  writers,    \* piece writers whose result the loop has not received
  suspended,  \* t.pieceMessagesC.suspended
  listening,  \* the stream handler is registered with the host
  connected,  \* t.connectedPeers
  addrs,      \* t.addrList
  exist,      \* files on disk
  good,       \* pieces whose data on disk has the right hash
  deleted,    \* history: the user has deleted files of the stopped torrent
  db,         \* the torrent's record in the resume database
  pc, visit,  \* the stopPeers loop, as in Download
  panic

lifeVars == <<started, info, alloc, verif>>
pieceVars == <<pieces, picker, pdone, hasBf, bf, completed>>
writeVars == <<writers, suspended>>
netVars == <<connected, addrs>>
diskVars == <<exist, good, deleted>>
loopVars == <<pc, visit, panic>>
vars == <<lifeVars, pieceVars, writeVars, listening, netVars, diskVars, db, loopVars>>

(* cur: the writer's piece belongs to the current t.pieces, whose files    *)
(* are open; open: its source is still connected.                          *)
Writer == [piece : Piece, src : Peer, open : BOOLEAN, cur : BOOLEAN,
           stage : {"running", "ok", "corrupt", "failed"}]

Record == [info : BOOLEAN, hasBf : BOOLEAN, bf : SUBSET Piece, started : BOOLEAN]

(* newTorrent2: nothing runs.  Info and bitfield come from the caller.     *)
NewTorrent ==
  /\ started = FALSE /\ alloc = FALSE /\ verif = FALSE
  /\ pieces = FALSE /\ picker = FALSE /\ pdone = {} /\ completed = FALSE
  /\ writers = {} /\ suspended = FALSE
  /\ listening = FALSE /\ connected = {} /\ addrs = {}
  /\ pc = "idle" /\ visit = {} /\ panic = "none" /\ deleted = FALSE

(* addFileId: a torrent known by its hash, with any files on the disk.     *)
AddFileId ==
  /\ NewTorrent /\ info = FALSE /\ hasBf = FALSE /\ bf = {}
  /\ exist \in SUBSET Piece /\ good \in SUBSET exist
  /\ db = [info |-> FALSE, hasBf |-> FALSE, bf |-> {}, started |-> FALSE]

(* CreateFile: a torrent made from files that are all there.               *)
CreateFile ==
  /\ NewTorrent /\ info = TRUE /\ hasBf = TRUE /\ bf = Piece
  /\ exist = Piece /\ good = Piece
  /\ db = [info |-> TRUE, hasBf |-> TRUE, bf |-> Piece, started |-> FALSE]

Init == AddFileId \/ CreateFile

Status ==
  CASE ~started -> "Stopped"
    [] started /\ alloc -> "Allocating"
    [] started /\ ~alloc /\ verif -> "Verifying"
    [] started /\ ~alloc /\ ~verif /\ completed -> "Seeding"
    [] started /\ ~alloc /\ ~verif /\ ~completed /\ ~info -> "DownloadingMetadata"
    [] OTHER -> "Downloading"

Idle == pc = "idle" /\ panic = "none"

-----------------------------------------------------------------------------
(* Helpers of the handlers.                                                *)

DialAddressesKeepsList(conn, ad, complete) ==
  {[conn |-> conn \cup D, addrs |-> ad] : D \in SUBSET ad}

(* dialAddresses: addresses are popped, and a popped one connects or not,  *)
(* until the list is empty or there are MaxPeerDial connections.           *)
DialAddresses(conn, ad, complete) ==
  IF complete \/ Cardinality(conn) >= MaxPeerDial
  THEN {[conn |-> conn, addrs |-> ad]}
  ELSE {o \in [conn : {conn \cup D : D \in SUBSET ad}, addrs : SUBSET ad] :
          /\ o.conn \cap o.addrs \subseteq conn
          /\ Cardinality(o.conn) <= MaxPeerDial
          /\ o.addrs # {} => Cardinality(o.conn) = MaxPeerDial}

(* startAnnouncers: providers are looked up and, unless the torrent is     *)
(* stopped or completed, one of them is pushed and dialled (ToAddrs takes  *)
(* the address of its loop variable, so all it returns is the last one).   *)
StartAnnouncers(conn, ad, run, complete) ==
  {[conn |-> conn, addrs |-> ad]} \cup
  (IF run /\ ~complete
   THEN UNION {DialAddresses(conn, ad \cup {p}, complete) : p \in Peer} ELSE {})

(* closePeer, dialling included, when the writers are ws.                  *)
ClosePeer(pe, ws) ==
  /\ \E o \in DialAddresses(connected \ {pe}, addrs, completed) :
        connected' = o.conn /\ addrs' = o.addrs
  /\ writers' = {IF w.src = pe THEN [w EXCEPT !.open = FALSE] ELSE w : w \in ws}

(* checkCompletion with bitfield b: peers that are not interested in our   *)
(* pieces are closed, the address list is emptied and the picker dropped.  *)
(* If the torrent is not complete, startAnnouncers follows when announce.  *)
CheckCompletion(was, b, hadPicker, ws, announce) ==
  IF ~was /\ b = Piece
  THEN \E keep \in SUBSET connected :
         /\ completed' = TRUE /\ picker' = FALSE
         /\ connected' = keep /\ addrs' = {}
         /\ writers' = {IF w.src \in keep THEN w ELSE [w EXCEPT !.open = FALSE] : w \in ws}
  ELSE /\ completed' = was /\ picker' = hadPicker /\ writers' = ws
       /\ \E o \in StartAnnouncers(connected, addrs, announce, was) :
             connected' = o.conn /\ addrs' = o.addrs

(* stop(err) at the end of a handler: it returns at once if already        *)
(* stopped, otherwise stopPeers begins.                                    *)
BeginStop ==
  IF started THEN pc' = "stopping" /\ visit' = connected'
             ELSE UNCHANGED <<pc, visit>>

StartAllocator ==
  IF alloc THEN panic' = "allocator exists" /\ UNCHANGED alloc
           ELSE alloc' = TRUE /\ UNCHANGED panic

-----------------------------------------------------------------------------
StartIgnoresPieces ==
  /\ Idle /\ ~started
  /\ started' = TRUE /\ listening' = TRUE
  /\ db' = [db EXCEPT !.started = TRUE]
  /\ IF info THEN StartAllocator ELSE UNCHANGED <<alloc, panic>>
  /\ UNCHANGED <<info, verif, pieceVars, writeVars, netVars, diskVars, pc, visit>>

(* start()                                                                 *)
Start ==
  /\ Idle /\ ~started
  /\ started' = TRUE /\ listening' = TRUE
  /\ db' = [db EXCEPT !.started = TRUE]
  /\ \/ /\ ~info \/ (pieces /\ hasBf)
        /\ \E o \in StartAnnouncers(connected, addrs, TRUE, completed) :
              connected' = o.conn /\ addrs' = o.addrs
        /\ UNCHANGED <<alloc, verif, panic>>
     \/ /\ info /\ pieces /\ ~hasBf
        /\ IF verif THEN panic' = "verifier exists" /\ UNCHANGED verif
                    ELSE verif' = TRUE /\ UNCHANGED panic
        /\ UNCHANGED <<alloc, netVars>>
     \/ /\ info /\ ~pieces
        /\ StartAllocator
        /\ UNCHANGED <<verif, netVars>>
  /\ UNCHANGED <<info, pieceVars, writeVars, diskVars, pc, visit>>

(* handleMetadataMessage with the last block of the metadata.  Nothing on  *)
(* this path, from the extension handshake on, looks at the status.        *)
ReceiveInfo(pe) ==
  /\ Idle /\ pe \in connected /\ ~info
  /\ UNCHANGED netVars
  /\ \/ /\ info' = TRUE /\ db' = [db EXCEPT !.info = TRUE]
        /\ StartAllocator /\ UNCHANGED <<pc, visit>>
     \/ (* WriteInfo fails *)
        info' = TRUE /\ BeginStop /\ UNCHANGED <<db, alloc, panic>>
     \/ (* the info cannot be parsed, or is private *)
        BeginStop /\ UNCHANGED <<info, db, alloc, panic>>
  /\ UNCHANGED <<listening, started, verif, pieceVars, writeVars, diskVars>>

(* The metadata has the wrong hash, or was rejected; any other message     *)
(* that is answered with closePeer; or the peer went away.                 *)
PeerDisconnected(pe) ==
  /\ Idle /\ pe \in connected
  /\ ClosePeer(pe, writers)
  /\ UNCHANGED <<listening, lifeVars, pieceVars, suspended, diskVars, db, loopVars>>

(* handleNewIncomingStream.  The stream handler that start() registers is  *)
(* never removed, and the status is not looked at.                         *)
IncomingStream(pe) ==
  /\ Idle /\ listening /\ pe \notin connected
  /\ connected' = connected \cup {pe}
  /\ UNCHANGED <<listening, lifeVars, pieceVars, writeVars, addrs, diskVars, db, loopVars>>

(* handleNewPeers, from the periodic lookup                                *)
NewPeers ==
  /\ Idle /\ started /\ ~completed
  /\ \E o \in StartAnnouncers(connected, addrs, TRUE, FALSE) :
        connected' = o.conn /\ addrs' = o.addrs
  /\ UNCHANGED <<listening, lifeVars, pieceVars, writeVars, diskVars, db, loopVars>>

-----------------------------------------------------------------------------
(* Allocator.Run creates the missing files one by one; it may fail or be   *)
(* closed after any number of them.                                        *)
PartlyAllocated == IF alloc THEN {exist \cup S : S \in SUBSET Piece} ELSE {exist}

(* handleAllocationDone: the allocator has created the missing files.      *)

AllocationError ==
  /\ Idle /\ alloc
  /\ alloc' = FALSE
  /\ exist' \in PartlyAllocated
  /\ UNCHANGED netVars /\ BeginStop
  /\ UNCHANGED <<listening, started, info, verif, pieceVars, writeVars, good, deleted, db, panic>>

(* "If we already have bitfield from resume db, skip verification"         *)
AllocationTrusted ==
  /\ Idle /\ alloc /\ hasBf /\ exist = Piece
  /\ alloc' = FALSE /\ pieces' = TRUE /\ pdone' = bf
  /\ CheckCompletion(completed, bf, TRUE, writers, started)
  /\ IF completed' /\ StopAfterDownload THEN BeginStop ELSE UNCHANGED <<pc, visit>>
  /\ UNCHANGED <<listening, started, info, verif, hasBf, bf, suspended, diskVars, db, panic>>

(* "No need to verify files if they didn't exist when we create them"      *)
AllocationFresh ==
  /\ Idle /\ alloc /\ exist = {}
  /\ alloc' = FALSE /\ pieces' = TRUE /\ picker' = TRUE /\ pdone' = {}
  /\ hasBf' = TRUE /\ bf' = {} /\ exist' = Piece
  /\ \E o \in StartAnnouncers(connected, addrs, started, completed) :
        connected' = o.conn /\ addrs' = o.addrs
  /\ UNCHANGED <<listening, started, info, verif, completed, writeVars, good, deleted, db, loopVars>>

(* "Some files exists on the disk, need to verify pieces"                  *)
AllocationVerify ==
  /\ Idle /\ alloc /\ exist # {} /\ ~(hasBf /\ exist = Piece)
  /\ alloc' = FALSE /\ pieces' = TRUE /\ picker' = TRUE /\ pdone' = {}
  /\ exist' = Piece /\ verif' = TRUE
  /\ UNCHANGED <<listening, started, info, hasBf, bf, completed, writeVars, netVars, good, deleted, db,
                 loopVars>>

-----------------------------------------------------------------------------
(* handleVerificationDone                                                  *)

VerificationError ==
  /\ Idle /\ verif
  /\ verif' = FALSE
  /\ UNCHANGED netVars /\ BeginStop
  /\ UNCHANGED <<listening, started, info, alloc, pieceVars, writeVars, diskVars, db, panic>>

VerificationDone ==
  /\ Idle /\ verif
  /\ verif' = FALSE /\ hasBf' = TRUE /\ bf' = good
  /\ pdone' = pdone \cup good
  /\ CheckCompletion(completed /\ good = Piece, good, picker, writers, started)
  /\ IF completed' /\ StopAfterDownload THEN BeginStop ELSE UNCHANGED <<pc, visit>>
  /\ UNCHANGED <<listening, started, info, alloc, pieces, suspended, diskVars, db, panic>>

-----------------------------------------------------------------------------
(* Download.                                                               *)

(* startPieceDownloaderFor, called by most messages, uses the picker       *)
(* whenever the status is Downloading.                                     *)
PickWithoutPicker(pe) ==
  /\ Idle /\ pe \in connected /\ Status = "Downloading" /\ ~picker
  /\ panic' = "nil piece picker"
  /\ UNCHANGED <<listening, lifeVars, pieceVars, writeVars, netVars, diskVars, db, pc, visit>>

(* handlePieceMessage with the last block of piece i.                      *)
PieceDownloaded(pe, i) ==
  /\ Idle /\ pe \in connected /\ Status = "Downloading" /\ picker /\ ~suspended
  /\ i \notin pdone
  /\ IF \E w \in writers : w.cur /\ w.piece = i
     THEN panic' = "piece is already writing" /\ UNCHANGED writeVars
     ELSE /\ suspended' = TRUE
          /\ writers' = writers \cup
               {[piece |-> i, src |-> pe, open |-> TRUE, cur |-> TRUE, stage |-> "running"]}
          /\ UNCHANGED panic
  /\ UNCHANGED <<listening, lifeVars, pieceVars, netVars, diskVars, db, pc, visit>>

(* PieceWriter.Run, a goroutine: hash check, then the write, which fails   *)
(* when closeData has closed the file.                                     *)
WriterRun(w) ==
  /\ panic = "none" /\ w \in writers /\ w.stage = "running"
  /\ \E r \in {"corrupt", "failed"} \cup (IF w.cur THEN {"ok"} ELSE {}) :
       /\ writers' = (writers \ {w}) \cup {[w EXCEPT !.stage = r]}
       /\ good' = IF r = "ok" THEN good \cup {w.piece} ELSE good
  /\ UNCHANGED <<listening, lifeVars, pieceVars, suspended, netVars, exist, deleted, db, loopVars>>

(* handlePieceWriteDone, in whatever state the torrent is by now.          *)
WriteCorrupt(w) ==
  /\ Idle /\ w \in writers /\ w.stage = "corrupt"
  /\ suspended' = FALSE
  /\ IF w.open
     THEN ClosePeer(w.src, writers \ {w}) /\ UNCHANGED panic
     ELSE /\ panic' = "close of closed channel"
          /\ writers' = writers \ {w} /\ UNCHANGED netVars
  /\ UNCHANGED <<listening, lifeVars, pieceVars, diskVars, db, pc, visit>>

WriteFailedIgnored(w) ==
  /\ Idle /\ w \in writers /\ w.stage = "failed"
  /\ suspended' = FALSE /\ writers' = writers \ {w}
  /\ bf' = bf \cup {w.piece}
  /\ UNCHANGED <<listening, lifeVars, pieces, picker, pdone, hasBf, completed, netVars,
                 diskVars, db, loopVars>>

WriteFailed(w) ==
  /\ Idle /\ w \in writers /\ w.stage = "failed"
  /\ suspended' = FALSE /\ writers' = writers \ {w}
  /\ UNCHANGED netVars /\ BeginStop
  /\ UNCHANGED <<listening, lifeVars, pieceVars, diskVars, db, panic>>

(* The bitfield is saved when the torrent is completed; if that fails, or  *)
(* if it has stopAfterDownload set, it stops.                              *)
WriteOk(w) ==
  /\ Idle /\ w \in writers /\ w.stage = "ok" /\ w.piece \notin bf
  /\ suspended' = FALSE
  /\ pdone' = IF w.cur THEN pdone \cup {w.piece} ELSE pdone
  /\ bf' = bf \cup {w.piece}
  /\ CheckCompletion(completed, bf', picker, writers \ {w}, FALSE)
  /\ \/ /\ completed'
        /\ db' = [db EXCEPT !.hasBf = TRUE, !.bf = bf']
        /\ IF StopAfterDownload THEN BeginStop ELSE UNCHANGED <<pc, visit>>
     \/ completed' /\ UNCHANGED db /\ BeginStop
     \/ ~completed' /\ UNCHANGED <<db, pc, visit>>
  /\ UNCHANGED <<listening, lifeVars, pieces, hasBf, diskVars, panic>>

WriteAgain(w) ==
  /\ Idle /\ w \in writers /\ w.stage = "ok" /\ w.piece \in bf
  /\ panic' = "already have the piece"
  /\ UNCHANGED <<listening, lifeVars, pieceVars, writeVars, netVars, diskVars, db, pc, visit>>

-----------------------------------------------------------------------------
(* stop(): a range over a map may or may not visit a peer that was dialled *)
(* while the loop ran.                                                     *)
Stop ==
  /\ Idle /\ started
  /\ UNCHANGED netVars /\ BeginStop
  /\ UNCHANGED <<listening, lifeVars, pieceVars, writeVars, diskVars, db, panic>>

StopPeer(pe) ==
  /\ pc = "stopping" /\ panic = "none" /\ pe \in visit
  /\ ClosePeer(pe, writers)
  /\ \E N \in SUBSET (connected' \ (connected \ {pe})) : visit' = (visit \ {pe}) \cup N
  /\ UNCHANGED <<listening, lifeVars, pieceVars, suspended, diskVars, db, pc, panic>>

StopEndResumes ==
  /\ pc = "stopping" /\ panic = "none" /\ visit = {}
  /\ pieces' = FALSE /\ picker' = FALSE /\ pdone' = {}
  /\ alloc' = FALSE /\ verif' = FALSE /\ started' = FALSE
  /\ writers' = {[w EXCEPT !.cur = FALSE] : w \in writers}
  /\ suspended' = FALSE /\ addrs' = {} /\ pc' = "idle"
  /\ UNCHANGED <<listening, info, hasBf, bf, completed, connected, diskVars, db, visit, panic>>

(* After stopPeers: the bitfield is saved (an error is ignored), the files *)
(* are closed, pieces and picker dropped, allocator and verifier closed.   *)
StopEnd ==
  /\ pc = "stopping" /\ panic = "none" /\ visit = {}
  /\ \/ hasBf /\ db' = [db EXCEPT !.hasBf = TRUE, !.bf = bf]
     \/ UNCHANGED db
  /\ pieces' = FALSE /\ picker' = FALSE /\ pdone' = {}
  /\ alloc' = FALSE /\ verif' = FALSE /\ started' = FALSE
  /\ writers' = {[w EXCEPT !.cur = FALSE] : w \in writers}
  /\ addrs' = {}
  /\ exist' \in PartlyAllocated
  /\ pc' = "idle"
  /\ UNCHANGED <<listening, info, hasBf, bf, completed, suspended, connected, good, deleted, visit,
                 panic>>

-----------------------------------------------------------------------------
(* The program is killed, or has panicked, and starts again: the session   *)
(* loads the torrent from the database.  What is on disk stays.            *)
Crash ==
  /\ started' = FALSE /\ alloc' = FALSE /\ verif' = FALSE
  /\ pieces' = FALSE /\ picker' = FALSE /\ pdone' = {} /\ completed' = FALSE
  /\ writers' = {} /\ suspended' = FALSE
  /\ listening' = FALSE /\ connected' = {} /\ addrs' = {}
  /\ pc' = "idle" /\ visit' = {} /\ panic' = "none"
  /\ info' = db.info /\ hasBf' = (db.info /\ db.hasBf)
  /\ bf' = IF db.info THEN db.bf ELSE {}
  /\ exist' \in PartlyAllocated
  /\ UNCHANGED <<good, deleted, db>>

(* The user deletes files while the torrent is stopped.                    *)
DeleteFiles(S) ==
  /\ Idle /\ ~started /\ ~alloc /\ ~pieces /\ S # {} /\ S \subseteq exist
  /\ exist' = exist \ S /\ good' = good \ S /\ deleted' = TRUE
  /\ UNCHANGED <<listening, lifeVars, pieceVars, writeVars, netVars, db, loopVars>>

-----------------------------------------------------------------------------
LoopStep == StopEnd \/ \E pe \in Peer : StopPeer(pe)

AllocationDone ==
  AllocationError \/ AllocationTrusted \/ AllocationFresh \/ AllocationVerify

WriteDone == \E w \in writers : WriteCorrupt(w) \/ WriteFailed(w) \/ WriteOk(w) \/ WriteAgain(w)

Next ==
  \/ Start \/ Stop \/ LoopStep
  \/ \E pe \in Peer : ReceiveInfo(pe) \/ PeerDisconnected(pe) \/ IncomingStream(pe)
                      \/ PickWithoutPicker(pe)
  \/ NewPeers
  \/ AllocationDone
  \/ VerificationError \/ VerificationDone
  \/ \E pe \in Peer, i \in Piece : PieceDownloaded(pe, i)
  \/ \E w \in writers : WriterRun(w)
  \/ WriteDone
  \/ Crash
  \/ \E S \in SUBSET Piece : DeleteFiles(S)

Spec == Init /\ [][Next]_vars

(* The loop's own code runs to its end.                                    *)
FairSpec == Spec /\ WF_vars(LoopStep)

-----------------------------------------------------------------------------
(* Properties.                                                             *)

FlagsOK ==
  /\ started \in BOOLEAN /\ info \in BOOLEAN /\ alloc \in BOOLEAN /\ verif \in BOOLEAN
  /\ pieces \in BOOLEAN /\ picker \in BOOLEAN /\ hasBf \in BOOLEAN /\ completed \in BOOLEAN
  /\ suspended \in BOOLEAN /\ listening \in BOOLEAN /\ deleted \in BOOLEAN

DataOK ==
  /\ pdone \subseteq Piece /\ bf \subseteq Piece
  /\ writers \subseteq Writer /\ connected \subseteq Peer /\ addrs \subseteq Peer
  /\ exist \subseteq Piece /\ good \subseteq Piece
  /\ db \in Record

LoopOK ==
  /\ pc \in {"idle", "stopping"} /\ visit \subseteq Peer
  /\ panic \in {"none", "allocator exists", "verifier exists", "nil piece picker",
                "piece is already writing", "close of closed channel", "already have the piece"}

(* The type of every variable; a writer always ends with a result.         *)
TypeOK == FlagsOK /\ DataOK /\ LoopOK

(* What the torrent claims to have is on the disk: every piece set in the  *)
(* bitfield or in the saved bitfield, and every piece that is served to    *)
(* peers, whatever stops, crashes and late writes there were, as long as   *)
(* nobody deletes files.                                                   *)
ClaimedIsGood == (bf \cup pdone \cup db.bf) \subseteq good
BitfieldSound == ~deleted => ClaimedIsGood

(* At most one write per torrent, even when a write outlives the stop and  *)
(* the next start: piece messages stay suspended until its result is in.   *)
OneWrite ==
  /\ suspended <=> writers # {}
  /\ \A v, w \in writers : v = w

(* Allocation runs when there are no pieces, verification when there are,  *)
(* so that the results find what the handlers assert ("files exist",       *)
(* "pieces exists", "piece picker exists").                                *)
PhasesExclude ==
  /\ alloc => info /\ ~pieces /\ ~verif
  /\ verif => pieces
  /\ picker => pieces

(* stop() comes to its end although every peer it closes may make it dial  *)
(* another one.                                                            *)
StopCompletes == pc = "stopping" ~> pc = "idle"
=============================================================================
