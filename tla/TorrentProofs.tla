--------------------------- MODULE TorrentProofs ----------------------------
(***************************************************************************)
(* Theorems about Torrent, for every set of peers and pieces and every     *)
(* value of the other parameters.                                          *)
(***************************************************************************)
EXTENDS Torrent, TLAPS

(* Dialling and announcing yield connected peers and addresses that are    *)
(* peers.                                                                  *)
LEMMA DialType ==
  ASSUME NEW conn \in SUBSET Peer, NEW ad \in SUBSET Peer, NEW c,
         NEW o \in DialAddresses(conn, ad, c)
  PROVE  o.conn \subseteq Peer /\ o.addrs \subseteq Peer
BY DEF DialAddresses

(* startAnnouncers leaves sets of peers and of addresses.                  *)
LEMMA AnnounceType ==
  ASSUME NEW conn \in SUBSET Peer, NEW ad \in SUBSET Peer, NEW r, NEW c,
         NEW o \in StartAnnouncers(conn, ad, r, c)
  PROVE  o.conn \subseteq Peer /\ o.addrs \subseteq Peer
<1>1. CASE o = [conn |-> conn, addrs |-> ad]
  BY <1>1
<1>2. ASSUME NEW p \in Peer, o \in DialAddresses(conn, ad \cup {p}, c)
      PROVE  o.conn \subseteq Peer /\ o.addrs \subseteq Peer
  BY <1>2, DialType
<1> QED
  BY <1>1, <1>2 DEF StartAnnouncers

(* The initial state has the right types.                                  *)
LEMMA TypeInit == Init => TypeOK
<1>1. ASSUME AddFileId PROVE TypeOK
  <2>1. db \in Record
    BY <1>1 DEF AddFileId, Record
  <2> QED
    BY <1>1, <2>1 DEF AddFileId, NewTorrent, TypeOK, FlagsOK, DataOK, LoopOK
<1>2. ASSUME CreateFile PROVE TypeOK
  <2>1. db \in Record
    BY <1>2 DEF CreateFile, Record
  <2> QED
    BY <1>2, <2>1 DEF CreateFile, NewTorrent, TypeOK, FlagsOK, DataOK, LoopOK
<1> QED
  BY <1>1, <1>2 DEF Init

(* Closing a peer keeps the types of what it changes.                      *)
LEMMA ClosePeerType ==
  ASSUME DataOK, NEW pe \in Peer, NEW ws \in SUBSET Writer, ClosePeer(pe, ws)
  PROVE  connected' \subseteq Peer /\ addrs' \subseteq Peer /\ writers' \subseteq Writer
<1>1. connected' \subseteq Peer /\ addrs' \subseteq Peer
  BY DialType DEF ClosePeer, DataOK
<1>2. writers' \subseteq Writer
  BY DEF ClosePeer, Writer
<1> QED
  BY <1>1, <1>2

(* So does checkCompletion.                                                *)
LEMMA CheckCompletionFlags ==
  ASSUME NEW was \in BOOLEAN, NEW b, NEW had \in BOOLEAN, NEW ws, NEW a,
         CheckCompletion(was, b, had, ws, a)
  PROVE  completed' \in BOOLEAN /\ picker' \in BOOLEAN
BY DEF CheckCompletion

(* checkCompletion keeps the types of the writers, the peers and the       *)
(* addresses.                                                              *)
LEMMA CheckCompletionData ==
  ASSUME DataOK, NEW was, NEW b, NEW had, NEW ws \in SUBSET Writer, NEW a,
         CheckCompletion(was, b, had, ws, a)
  PROVE  writers' \subseteq Writer /\ connected' \subseteq Peer /\ addrs' \subseteq Peer
<1>1. CASE ~was /\ b = Piece
  <2>1. PICK keep \in SUBSET connected :
           /\ connected' = keep /\ addrs' = {}
           /\ writers' = {IF w.src \in keep THEN w ELSE [w EXCEPT !.open = FALSE] : w \in ws}
    BY <1>1 DEF CheckCompletion
  <2>2. writers' \subseteq Writer
    BY <2>1 DEF Writer
  <2> QED
    BY <2>1, <2>2 DEF DataOK
<1>2. CASE ~(~was /\ b = Piece)
  <2>1. writers' \subseteq Writer
    BY <1>2 DEF CheckCompletion
  <2>2. connected \in SUBSET Peer /\ addrs \in SUBSET Peer
    BY DEF DataOK
  <2>3. PICK o \in StartAnnouncers(connected, addrs, a, was) :
           connected' = o.conn /\ addrs' = o.addrs
    BY <1>2 DEF CheckCompletion
  <2> QED
    BY <2>1, <2>2, <2>3, AnnounceType
<1> QED
  BY <1>1, <1>2

(* Every handler keeps the flags Boolean.                                  *)
LEMMA FlagsStep ==
  ASSUME FlagsOK, DataOK, [Next]_vars
  PROVE  FlagsOK'
<1> USE DEF FlagsOK, lifeVars, pieceVars, writeVars, netVars, diskVars, loopVars
<1>1. CASE UNCHANGED vars
  BY <1>1 DEF vars
<1>2. CASE Start
  BY <1>2 DEF Start, StartAllocator
<1>3. CASE Stop
  BY <1>3 DEF Stop
<1>4. CASE StopEnd
  BY <1>4 DEF StopEnd
<1>5. ASSUME NEW pe \in Peer, StopPeer(pe) PROVE FlagsOK'
  BY <1>5 DEF StopPeer
<1>6. ASSUME NEW pe \in Peer, ReceiveInfo(pe) PROVE FlagsOK'
  <2>1. info' \in BOOLEAN /\ alloc' \in BOOLEAN
    BY <1>6, Zenon DEF ReceiveInfo, StartAllocator
  <2> QED
    BY <1>6, <2>1, Zenon DEF ReceiveInfo
<1>7. ASSUME NEW pe \in Peer, PeerDisconnected(pe) PROVE FlagsOK'
  BY <1>7 DEF PeerDisconnected
<1>8. ASSUME NEW pe \in Peer, IncomingStream(pe) PROVE FlagsOK'
  BY <1>8 DEF IncomingStream
<1>9. ASSUME NEW pe \in Peer, PickWithoutPicker(pe) PROVE FlagsOK'
  BY <1>9 DEF PickWithoutPicker
<1>10. CASE NewPeers
  BY <1>10 DEF NewPeers
<1>11. CASE AllocationError
  BY <1>11 DEF AllocationError
<1>12. CASE AllocationTrusted
  <2>1. completed' \in BOOLEAN /\ picker' \in BOOLEAN
    BY <1>12, CheckCompletionFlags DEF AllocationTrusted
  <2> QED
    BY <1>12, <2>1 DEF AllocationTrusted
<1>13. CASE AllocationFresh
  BY <1>13 DEF AllocationFresh
<1>14. CASE AllocationVerify
  BY <1>14 DEF AllocationVerify
<1>15. CASE VerificationError
  BY <1>15 DEF VerificationError
<1>16. CASE VerificationDone
  <2>1. completed' \in BOOLEAN /\ picker' \in BOOLEAN
    BY <1>16, CheckCompletionFlags DEF VerificationDone
  <2> QED
    BY <1>16, <2>1 DEF VerificationDone
<1>17. ASSUME NEW pe \in Peer, NEW i \in Piece, PieceDownloaded(pe, i) PROVE FlagsOK'
  BY <1>17 DEF PieceDownloaded
<1>18. ASSUME NEW w \in writers, WriterRun(w) PROVE FlagsOK'
  BY <1>18 DEF WriterRun
<1>19. ASSUME NEW w \in writers, WriteCorrupt(w) PROVE FlagsOK'
  BY <1>19 DEF WriteCorrupt
<1>20. ASSUME NEW w \in writers, WriteFailed(w) PROVE FlagsOK'
  BY <1>20 DEF WriteFailed
<1>21. ASSUME NEW w \in writers, WriteOk(w) PROVE FlagsOK'
  <2>1. completed' \in BOOLEAN /\ picker' \in BOOLEAN
    BY <1>21, CheckCompletionFlags DEF WriteOk
  <2> QED
    BY <1>21, <2>1 DEF WriteOk
<1>22. ASSUME NEW w \in writers, WriteAgain(w) PROVE FlagsOK'
  BY <1>22 DEF WriteAgain
<1>23. CASE Crash
  <2>1. db.info \in BOOLEAN /\ db.hasBf \in BOOLEAN
    BY DEF DataOK, Record
  <2> QED
    BY <1>23, <2>1 DEF Crash
<1>24. ASSUME NEW S \in SUBSET Piece, DeleteFiles(S) PROVE FlagsOK'
  BY <1>24 DEF DeleteFiles
<1> QED
  BY <1>1, <1>2, <1>3, <1>4, <1>5, <1>6, <1>7, <1>8, <1>9, <1>10, <1>11, <1>12, <1>13,
     <1>14, <1>15, <1>16, <1>17, <1>18, <1>19, <1>20, <1>21, <1>22, <1>23, <1>24
     DEF Next, LoopStep, AllocationDone, WriteDone

(* Every handler keeps the types of sets, writers and the resume record.   *)
LEMMA DataStep ==
  ASSUME DataOK, [Next]_vars
  PROVE  DataOK'
<1> USE DEF DataOK, lifeVars, pieceVars, writeVars, netVars, diskVars, loopVars
<1>1. CASE UNCHANGED vars
  BY <1>1 DEF vars
<1>2. CASE Start
  <2>1. connected' \subseteq Peer /\ addrs' \subseteq Peer
    BY <1>2, AnnounceType DEF Start
  <2>2. db' \in Record
    BY <1>2 DEF Start, Record
  <2> QED
    BY <1>2, <2>1, <2>2 DEF Start
<1>3. CASE Stop
  BY <1>3 DEF Stop
<1>4. CASE StopEnd
  <2>1. db' \in Record
    BY <1>4 DEF StopEnd, Record
  <2>2. writers' \subseteq Writer
    BY <1>4 DEF StopEnd, Writer
  <2>3. exist' \subseteq Piece
    BY <1>4 DEF StopEnd, PartlyAllocated
  <2> QED
    BY <1>4, <2>1, <2>2, <2>3 DEF StopEnd
<1>5. ASSUME NEW pe \in Peer, StopPeer(pe) PROVE DataOK'
  <2>1. connected' \subseteq Peer /\ addrs' \subseteq Peer /\ writers' \subseteq Writer
    BY <1>5, ClosePeerType DEF StopPeer
  <2> QED
    BY <1>5, <2>1 DEF StopPeer
<1>6. ASSUME NEW pe \in Peer, ReceiveInfo(pe) PROVE DataOK'
  <2>1. db' \in Record
    BY <1>6 DEF ReceiveInfo, Record
  <2> QED
    BY <1>6, <2>1 DEF ReceiveInfo
<1>7. ASSUME NEW pe \in Peer, PeerDisconnected(pe) PROVE DataOK'
  <2>1. connected' \subseteq Peer /\ addrs' \subseteq Peer /\ writers' \subseteq Writer
    BY <1>7, ClosePeerType DEF PeerDisconnected
  <2> QED
    BY <1>7, <2>1 DEF PeerDisconnected
<1>8. ASSUME NEW pe \in Peer, IncomingStream(pe) PROVE DataOK'
  BY <1>8 DEF IncomingStream
<1>9. ASSUME NEW pe \in Peer, PickWithoutPicker(pe) PROVE DataOK'
  BY <1>9 DEF PickWithoutPicker
<1>10. CASE NewPeers
  <2>1. connected' \subseteq Peer /\ addrs' \subseteq Peer
    BY <1>10, AnnounceType DEF NewPeers
  <2> QED
    BY <1>10, <2>1 DEF NewPeers
<1>11. CASE AllocationError
  BY <1>11 DEF AllocationError, PartlyAllocated
<1>12. CASE AllocationTrusted
  <2>1. writers' \subseteq Writer /\ connected' \subseteq Peer /\ addrs' \subseteq Peer
    BY <1>12, CheckCompletionData DEF AllocationTrusted
  <2> QED
    BY <1>12, <2>1 DEF AllocationTrusted
<1>13. CASE AllocationFresh
  <2>1. connected' \subseteq Peer /\ addrs' \subseteq Peer
    BY <1>13, AnnounceType DEF AllocationFresh
  <2> QED
    BY <1>13, <2>1 DEF AllocationFresh
<1>14. CASE AllocationVerify
  BY <1>14 DEF AllocationVerify
<1>15. CASE VerificationError
  BY <1>15 DEF VerificationError
<1>16. CASE VerificationDone
  <2>1. writers' \subseteq Writer /\ connected' \subseteq Peer /\ addrs' \subseteq Peer
    BY <1>16, CheckCompletionData DEF VerificationDone
  <2> QED
    BY <1>16, <2>1 DEF VerificationDone
<1>17. ASSUME NEW pe \in Peer, NEW i \in Piece, PieceDownloaded(pe, i) PROVE DataOK'
  <2>1. [piece |-> i, src |-> pe, open |-> TRUE, cur |-> TRUE, stage |-> "running"] \in Writer
    BY DEF Writer
  <2>2. writers' \subseteq Writer
    BY <1>17, <2>1 DEF PieceDownloaded
  <2> QED
    BY <1>17, <2>2 DEF PieceDownloaded
<1>18. ASSUME NEW w \in writers, WriterRun(w) PROVE DataOK'
  <2>1. writers' \subseteq Writer /\ good' \subseteq Piece
    BY <1>18 DEF WriterRun, Writer
  <2> QED
    BY <1>18, <2>1 DEF WriterRun
<1>19. ASSUME NEW w \in writers, WriteCorrupt(w) PROVE DataOK'
  <2>1. w.src \in Peer /\ writers \ {w} \in SUBSET Writer
    BY DEF Writer
  <2>2. connected' \subseteq Peer /\ addrs' \subseteq Peer /\ writers' \subseteq Writer
    BY <1>19, <2>1, ClosePeerType DEF WriteCorrupt
  <2> QED
    BY <1>19, <2>2 DEF WriteCorrupt
<1>20. ASSUME NEW w \in writers, WriteFailed(w) PROVE DataOK'
  BY <1>20 DEF WriteFailed
<1>21. ASSUME NEW w \in writers, WriteOk(w) PROVE DataOK'
  <2>1. w.piece \in Piece /\ writers \ {w} \in SUBSET Writer
    BY DEF Writer
  <2>2. writers' \subseteq Writer /\ connected' \subseteq Peer /\ addrs' \subseteq Peer
    BY <1>21, <2>1, CheckCompletionData DEF WriteOk
  <2>3. bf' \subseteq Piece /\ pdone' \subseteq Piece
    BY <1>21, <2>1 DEF WriteOk
  <2>4. db' \in Record
    BY <1>21, <2>3 DEF WriteOk, Record
  <2> QED
    BY <1>21, <2>2, <2>3, <2>4 DEF WriteOk
<1>22. ASSUME NEW w \in writers, WriteAgain(w) PROVE DataOK'
  BY <1>22 DEF WriteAgain
<1>23. CASE Crash
  <2>1. db.bf \subseteq Piece
    BY DEF Record
  <2>2. exist' \subseteq Piece
    BY <1>23 DEF Crash, PartlyAllocated
  <2> QED
    BY <1>23, <2>1, <2>2 DEF Crash
<1>24. ASSUME NEW S \in SUBSET Piece, DeleteFiles(S) PROVE DataOK'
  BY <1>24 DEF DeleteFiles
<1> QED
  BY <1>1, <1>2, <1>3, <1>4, <1>5, <1>6, <1>7, <1>8, <1>9, <1>10, <1>11, <1>12, <1>13,
     <1>14, <1>15, <1>16, <1>17, <1>18, <1>19, <1>20, <1>21, <1>22, <1>23, <1>24
     DEF Next, LoopStep, AllocationDone, WriteDone

(* Every handler keeps the loop at a known place, visiting peers.          *)
LEMMA LoopStepType ==
  ASSUME LoopOK, DataOK', [Next]_vars
  PROVE  LoopOK'
<1> USE DEF LoopOK, DataOK, lifeVars, pieceVars, writeVars, netVars, diskVars, loopVars
<1>1. CASE UNCHANGED vars
  BY <1>1 DEF vars
<1>2. CASE Start
  BY <1>2 DEF Start, StartAllocator, BeginStop
<1>3. CASE Stop
  BY <1>3 DEF Stop, BeginStop
<1>4. CASE StopEnd
  BY <1>4 DEF StopEnd
<1>5. ASSUME NEW pe \in Peer, StopPeer(pe) PROVE LoopOK'
  BY <1>5 DEF StopPeer, BeginStop
<1>6. ASSUME NEW pe \in Peer, ReceiveInfo(pe) PROVE LoopOK'
  BY <1>6 DEF ReceiveInfo, StartAllocator, BeginStop
<1>7. ASSUME NEW pe \in Peer, PeerDisconnected(pe) PROVE LoopOK'
  BY <1>7 DEF PeerDisconnected
<1>8. ASSUME NEW pe \in Peer, IncomingStream(pe) PROVE LoopOK'
  BY <1>8 DEF IncomingStream
<1>9. ASSUME NEW pe \in Peer, PickWithoutPicker(pe) PROVE LoopOK'
  BY <1>9 DEF PickWithoutPicker
<1>10. CASE NewPeers
  BY <1>10 DEF NewPeers
<1>11. CASE AllocationError
  BY <1>11 DEF AllocationError, BeginStop
<1>12. CASE AllocationTrusted
  BY <1>12 DEF AllocationTrusted, BeginStop
<1>13. CASE AllocationFresh
  BY <1>13 DEF AllocationFresh
<1>14. CASE AllocationVerify
  BY <1>14 DEF AllocationVerify
<1>15. CASE VerificationError
  BY <1>15 DEF VerificationError, BeginStop
<1>16. CASE VerificationDone
  BY <1>16 DEF VerificationDone, BeginStop
<1>17. ASSUME NEW pe \in Peer, NEW i \in Piece, PieceDownloaded(pe, i) PROVE LoopOK'
  BY <1>17 DEF PieceDownloaded
<1>18. ASSUME NEW w \in writers, WriterRun(w) PROVE LoopOK'
  BY <1>18 DEF WriterRun
<1>19. ASSUME NEW w \in writers, WriteCorrupt(w) PROVE LoopOK'
  BY <1>19 DEF WriteCorrupt, BeginStop
<1>20. ASSUME NEW w \in writers, WriteFailed(w) PROVE LoopOK'
  BY <1>20 DEF WriteFailed, BeginStop
<1>21. ASSUME NEW w \in writers, WriteOk(w) PROVE LoopOK'
  BY <1>21 DEF WriteOk, BeginStop
<1>22. ASSUME NEW w \in writers, WriteAgain(w) PROVE LoopOK'
  BY <1>22 DEF WriteAgain
<1>23. CASE Crash
  BY <1>23 DEF Crash
<1>24. ASSUME NEW S \in SUBSET Piece, DeleteFiles(S) PROVE LoopOK'
  BY <1>24 DEF DeleteFiles
<1> QED
  BY <1>1, <1>2, <1>3, <1>4, <1>5, <1>6, <1>7, <1>8, <1>9, <1>10, <1>11, <1>12, <1>13,
     <1>14, <1>15, <1>16, <1>17, <1>18, <1>19, <1>20, <1>21, <1>22, <1>23, <1>24
     DEF Next, LoopStep, AllocationDone, WriteDone

(* Hence every step keeps all types.                                       *)
LEMMA TypeStep == TypeOK /\ [Next]_vars => TypeOK'
BY FlagsStep, DataStep, LoopStepType DEF TypeOK

(* In every reachable state the variables have their types.                *)
THEOREM TypeCorrect == Spec => []TypeOK
BY TypeInit, TypeStep, PTL DEF Spec

-----------------------------------------------------------------------------
(* What a finished write has put on the disk is there: with BitfieldSound  *)
(* it is inductive, because the bitfield only ever takes over the piece of *)
(* a finished write, the result of a verification, or the saved bitfield.  *)
WrittenIsGood == \A w \in writers : w.stage = "ok" => w.piece \in good

SoundInv == ~deleted => ClaimedIsGood /\ WrittenIsGood

(* Initially the bitfield is empty, or the torrent was made from its files.*)
LEMMA SoundInit == Init => SoundInv
BY DEF Init, AddFileId, CreateFile, NewTorrent, SoundInv, ClaimedIsGood, WrittenIsGood

(* Closing a peer, and checkCompletion, change no writer's piece or result.*)
LEMMA OpenKeeps ==
  ASSUME NEW v \in Writer
  PROVE  [v EXCEPT !.open = FALSE].stage = v.stage /\ [v EXCEPT !.open = FALSE].piece = v.piece
BY DEF Writer

(* A writer whose pieces are gone keeps its stage and its piece.           *)
LEMMA ClosedDataKeeps ==
  ASSUME NEW v \in Writer
  PROVE  [v EXCEPT !.cur = FALSE].stage = v.stage /\ [v EXCEPT !.cur = FALSE].piece = v.piece
BY DEF Writer

(* closePeer makes no writer and changes none's stage or piece.            *)
LEMMA ClosePeerKeeps ==
  ASSUME NEW pe, NEW ws \in SUBSET Writer, ClosePeer(pe, ws)
  PROVE  \A v \in writers' : \E w \in ws : v.stage = w.stage /\ v.piece = w.piece
<1> SUFFICES ASSUME NEW v \in writers'
             PROVE  \E w \in ws : v.stage = w.stage /\ v.piece = w.piece
  OBVIOUS
<1>1. PICK w \in ws : v = w \/ v = [w EXCEPT !.open = FALSE]
  BY DEF ClosePeer
<1>2. v.stage = w.stage /\ v.piece = w.piece
  BY <1>1, OpenKeeps
<1> QED
  BY <1>2

(* checkCompletion makes no writer and changes none's stage or piece.      *)
LEMMA CheckCompletionKeeps ==
  ASSUME NEW was, NEW b, NEW had, NEW ws \in SUBSET Writer, NEW a,
         CheckCompletion(was, b, had, ws, a)
  PROVE  \A v \in writers' : \E w \in ws : v.stage = w.stage /\ v.piece = w.piece
<1>1. CASE ~was /\ b = Piece
  <2>1. PICK keep \in SUBSET connected :
           writers' = {IF w.src \in keep THEN w ELSE [w EXCEPT !.open = FALSE] : w \in ws}
    BY <1>1 DEF CheckCompletion
  <2> SUFFICES ASSUME NEW v \in writers'
               PROVE  \E w \in ws : v.stage = w.stage /\ v.piece = w.piece
    OBVIOUS
  <2>2. PICK w \in ws : v = w \/ v = [w EXCEPT !.open = FALSE]
    BY <2>1
  <2>3. v.stage = w.stage /\ v.piece = w.piece
    BY <2>2, OpenKeeps
  <2> QED
    BY <2>3
<1>2. CASE ~(~was /\ b = Piece)
  BY <1>2 DEF CheckCompletion
<1> QED
  BY <1>1, <1>2

(* Once files were deleted, that is remembered.                            *)
LEMMA DeletedStays ==
  ASSUME [Next]_vars, deleted
  PROVE  deleted'
<1> USE DEF diskVars
<1>1. CASE UNCHANGED vars
  BY <1>1 DEF vars
<1>2. CASE Start
  BY <1>2 DEF Start
<1>3. CASE Stop
  BY <1>3 DEF Stop
<1>4. CASE StopEnd
  BY <1>4 DEF StopEnd
<1>5. ASSUME NEW pe \in Peer, StopPeer(pe) PROVE deleted'
  BY <1>5 DEF StopPeer
<1>6. ASSUME NEW pe \in Peer, ReceiveInfo(pe) PROVE deleted'
  BY <1>6 DEF ReceiveInfo
<1>7. ASSUME NEW pe \in Peer, PeerDisconnected(pe) PROVE deleted'
  BY <1>7 DEF PeerDisconnected
<1>8. ASSUME NEW pe \in Peer, IncomingStream(pe) PROVE deleted'
  BY <1>8 DEF IncomingStream
<1>9. ASSUME NEW pe \in Peer, PickWithoutPicker(pe) PROVE deleted'
  BY <1>9 DEF PickWithoutPicker
<1>10. CASE NewPeers
  BY <1>10 DEF NewPeers
<1>11. CASE AllocationError
  BY <1>11 DEF AllocationError
<1>12. CASE AllocationTrusted
  BY <1>12 DEF AllocationTrusted
<1>13. CASE AllocationFresh
  BY <1>13 DEF AllocationFresh
<1>14. CASE AllocationVerify
  BY <1>14 DEF AllocationVerify
<1>15. CASE VerificationError
  BY <1>15 DEF VerificationError
<1>16. CASE VerificationDone
  BY <1>16 DEF VerificationDone
<1>17. ASSUME NEW pe \in Peer, NEW i \in Piece, PieceDownloaded(pe, i) PROVE deleted'
  BY <1>17 DEF PieceDownloaded
<1>18. ASSUME NEW w \in writers, WriterRun(w) PROVE deleted'
  BY <1>18 DEF WriterRun
<1>19. ASSUME NEW w \in writers, WriteCorrupt(w) PROVE deleted'
  BY <1>19 DEF WriteCorrupt
<1>20. ASSUME NEW w \in writers, WriteFailed(w) PROVE deleted'
  BY <1>20 DEF WriteFailed
<1>21. ASSUME NEW w \in writers, WriteOk(w) PROVE deleted'
  BY <1>21 DEF WriteOk
<1>22. ASSUME NEW w \in writers, WriteAgain(w) PROVE deleted'
  BY <1>22 DEF WriteAgain
<1>23. CASE Crash
  BY <1>23 DEF Crash
<1>24. ASSUME NEW S \in SUBSET Piece, DeleteFiles(S) PROVE deleted'
  BY <1>24 DEF DeleteFiles
<1> QED
  BY <1>1, <1>2, <1>3, <1>4, <1>5, <1>6, <1>7, <1>8, <1>9, <1>10, <1>11, <1>12, <1>13,
     <1>14, <1>15, <1>16, <1>17, <1>18, <1>19, <1>20, <1>21, <1>22, <1>23, <1>24
     DEF Next, LoopStep, AllocationDone, WriteDone

(* No handler sets a bit of a piece that is not on the disk, or removes    *)
(* from the disk a piece whose bit is set.                                 *)
LEMMA BitfieldStep ==
  ASSUME ~deleted', DataOK, ClaimedIsGood, WrittenIsGood, [Next]_vars
  PROVE  ClaimedIsGood'
<1> USE DEF ClaimedIsGood, pieceVars, writeVars, diskVars
<1>1. CASE UNCHANGED vars
  BY <1>1 DEF vars
<1>2. CASE Start
  <2>1. db'.bf = db.bf
    BY <1>2 DEF Start, Record, DataOK
  <2> QED
    BY <1>2, <2>1 DEF Start
<1>3. CASE Stop
  BY <1>3 DEF Stop
<1>4. CASE StopEnd
  <2>1. db'.bf \in {db.bf, bf}
    BY <1>4 DEF StopEnd, Record, DataOK
  <2> QED
    BY <1>4, <2>1 DEF StopEnd
<1>5. ASSUME NEW pe \in Peer, StopPeer(pe) PROVE ClaimedIsGood'
  BY <1>5 DEF StopPeer
<1>6. ASSUME NEW pe \in Peer, ReceiveInfo(pe) PROVE ClaimedIsGood'
  <2>1. db'.bf = db.bf
    BY <1>6 DEF ReceiveInfo, Record, DataOK
  <2> QED
    BY <1>6, <2>1 DEF ReceiveInfo
<1>7. ASSUME NEW pe \in Peer, PeerDisconnected(pe) PROVE ClaimedIsGood'
  BY <1>7 DEF PeerDisconnected
<1>8. ASSUME NEW pe \in Peer, IncomingStream(pe) PROVE ClaimedIsGood'
  BY <1>8 DEF IncomingStream
<1>9. ASSUME NEW pe \in Peer, PickWithoutPicker(pe) PROVE ClaimedIsGood'
  BY <1>9 DEF PickWithoutPicker
<1>10. CASE NewPeers
  BY <1>10 DEF NewPeers
<1>11. CASE AllocationError
  BY <1>11 DEF AllocationError
<1>12. CASE AllocationTrusted
  BY <1>12 DEF AllocationTrusted
<1>13. CASE AllocationFresh
  BY <1>13 DEF AllocationFresh
<1>14. CASE AllocationVerify
  BY <1>14 DEF AllocationVerify
<1>15. CASE VerificationError
  BY <1>15 DEF VerificationError
<1>16. CASE VerificationDone
  BY <1>16 DEF VerificationDone
<1>17. ASSUME NEW pe \in Peer, NEW i \in Piece, PieceDownloaded(pe, i) PROVE ClaimedIsGood'
  BY <1>17 DEF PieceDownloaded
<1>18. ASSUME NEW w \in writers, WriterRun(w) PROVE ClaimedIsGood'
  BY <1>18 DEF WriterRun
<1>19. ASSUME NEW w \in writers, WriteCorrupt(w) PROVE ClaimedIsGood'
  BY <1>19 DEF WriteCorrupt
<1>20. ASSUME NEW w \in writers, WriteFailed(w) PROVE ClaimedIsGood'
  BY <1>20 DEF WriteFailed
<1>21. ASSUME NEW w \in writers, WriteOk(w) PROVE ClaimedIsGood'
  <2>1. w.piece \in good
    BY <1>21 DEF WriteOk, WrittenIsGood
  <2>2. db'.bf \in {db.bf, bf'}
    BY <1>21 DEF WriteOk, Record, DataOK
  <2> QED
    BY <1>21, <2>1, <2>2 DEF WriteOk
<1>22. ASSUME NEW w \in writers, WriteAgain(w) PROVE ClaimedIsGood'
  BY <1>22 DEF WriteAgain
<1>23. CASE Crash
  BY <1>23 DEF Crash
<1>24. ASSUME NEW S \in SUBSET Piece, DeleteFiles(S) PROVE ClaimedIsGood'
  BY <1>24 DEF DeleteFiles
<1> QED
  BY <1>1, <1>2, <1>3, <1>4, <1>5, <1>6, <1>7, <1>8, <1>9, <1>10, <1>11, <1>12, <1>13,
     <1>14, <1>15, <1>16, <1>17, <1>18, <1>19, <1>20, <1>21, <1>22, <1>23, <1>24
     DEF Next, LoopStep, AllocationDone, WriteDone

(* A successful write stays good until its result is handled.              *)
LEMMA WrittenStep ==
  ASSUME ~deleted', DataOK, WrittenIsGood, [Next]_vars
  PROVE  WrittenIsGood'
<1> USE DEF WrittenIsGood, pieceVars, writeVars, diskVars
<1>1. CASE UNCHANGED vars
  BY <1>1 DEF vars
<1>2. CASE Start
  <2>1. UNCHANGED <<writers, good>>
    BY <1>2 DEF Start
  <2> QED
    BY <2>1
<1>3. CASE Stop
  <2>1. UNCHANGED <<writers, good>>
    BY <1>3 DEF Stop
  <2> QED
    BY <2>1
<1>4. CASE StopEnd
  <2>1. UNCHANGED good /\ writers' = {[v EXCEPT !.cur = FALSE] : v \in writers}
    BY <1>4 DEF StopEnd
  <2>2. \A v \in writers' : \E x \in writers : v.stage = x.stage /\ v.piece = x.piece
    <3> SUFFICES ASSUME NEW v \in writers'
                 PROVE  \E x \in writers : v.stage = x.stage /\ v.piece = x.piece
      OBVIOUS
    <3>1. PICK x \in writers : v = [x EXCEPT !.cur = FALSE]
      BY <2>1
    <3>2. x \in Writer
      BY DEF DataOK
    <3> QED
      BY <3>1, <3>2, ClosedDataKeeps
  <2> QED
    BY <2>1, <2>2
<1>5. ASSUME NEW pe \in Peer, StopPeer(pe) PROVE WrittenIsGood'
  <2>1. UNCHANGED good
    BY <1>5 DEF StopPeer
  <2>2. ClosePeer(pe, writers) /\ writers \in SUBSET Writer
    BY <1>5 DEF StopPeer, DataOK
  <2> QED
    BY <2>1, <2>2, ClosePeerKeeps
<1>6. ASSUME NEW pe \in Peer, ReceiveInfo(pe) PROVE WrittenIsGood'
  <2>1. UNCHANGED <<writers, good>>
    BY <1>6 DEF ReceiveInfo
  <2> QED
    BY <2>1
<1>7. ASSUME NEW pe \in Peer, PeerDisconnected(pe) PROVE WrittenIsGood'
  <2>1. UNCHANGED good
    BY <1>7 DEF PeerDisconnected
  <2>2. ClosePeer(pe, writers) /\ writers \in SUBSET Writer
    BY <1>7 DEF PeerDisconnected, DataOK
  <2> QED
    BY <2>1, <2>2, ClosePeerKeeps
<1>8. ASSUME NEW pe \in Peer, IncomingStream(pe) PROVE WrittenIsGood'
  <2>1. UNCHANGED <<writers, good>>
    BY <1>8 DEF IncomingStream
  <2> QED
    BY <2>1
<1>9. ASSUME NEW pe \in Peer, PickWithoutPicker(pe) PROVE WrittenIsGood'
  <2>1. UNCHANGED <<writers, good>>
    BY <1>9 DEF PickWithoutPicker
  <2> QED
    BY <2>1
<1>10. CASE NewPeers
  <2>1. UNCHANGED <<writers, good>>
    BY <1>10 DEF NewPeers
  <2> QED
    BY <2>1
<1>11. CASE AllocationError
  <2>1. UNCHANGED <<writers, good>>
    BY <1>11 DEF AllocationError
  <2> QED
    BY <2>1
<1>12. CASE AllocationTrusted
  <2>1. UNCHANGED good /\ writers \in SUBSET Writer
    BY <1>12 DEF AllocationTrusted, DataOK
  <2>2. \E was, b, had, a : CheckCompletion(was, b, had, writers, a)
    BY <1>12 DEF AllocationTrusted
  <2> QED
    BY <2>1, <2>2, CheckCompletionKeeps
<1>13. CASE AllocationFresh
  <2>1. UNCHANGED <<writers, good>>
    BY <1>13 DEF AllocationFresh
  <2> QED
    BY <2>1
<1>14. CASE AllocationVerify
  <2>1. UNCHANGED <<writers, good>>
    BY <1>14 DEF AllocationVerify
  <2> QED
    BY <2>1
<1>15. CASE VerificationError
  <2>1. UNCHANGED <<writers, good>>
    BY <1>15 DEF VerificationError
  <2> QED
    BY <2>1
<1>16. CASE VerificationDone
  <2>1. UNCHANGED good /\ writers \in SUBSET Writer
    BY <1>16 DEF VerificationDone, DataOK
  <2>2. \E was, b, had, a : CheckCompletion(was, b, had, writers, a)
    BY <1>16 DEF VerificationDone
  <2> QED
    BY <2>1, <2>2, CheckCompletionKeeps
<1>17. ASSUME NEW pe \in Peer, NEW i \in Piece, PieceDownloaded(pe, i) PROVE WrittenIsGood'
  <2>1. UNCHANGED good
    BY <1>17 DEF PieceDownloaded
  <2> DEFINE new == [piece |-> i, src |-> pe, open |-> TRUE, cur |-> TRUE, stage |-> "running"]
  <2>2. writers' \subseteq writers \cup {new}
    BY <1>17 DEF PieceDownloaded
  <2>3. new.stage # "ok"
    OBVIOUS
  <2> QED
    BY <2>1, <2>2, <2>3
<1>18. ASSUME NEW w \in writers, WriterRun(w) PROVE WrittenIsGood'
  <2>1. PICK r : /\ writers' = (writers \ {w}) \cup {[w EXCEPT !.stage = r]}
                 /\ good' = IF r = "ok" THEN good \cup {w.piece} ELSE good
    BY <1>18 DEF WriterRun
  <2>2. w \in Writer
    BY DEF DataOK
  <2>3. [w EXCEPT !.stage = r].stage = r /\ [w EXCEPT !.stage = r].piece = w.piece
    BY <2>2 DEF Writer
  <2> QED
    BY <2>1, <2>3
<1>19. ASSUME NEW w \in writers, WriteCorrupt(w) PROVE WrittenIsGood'
  <2>1. UNCHANGED good /\ writers \ {w} \in SUBSET Writer
    BY <1>19 DEF WriteCorrupt, DataOK
  <2>2. ClosePeer(w.src, writers \ {w}) \/ writers' \subseteq writers
    BY <1>19 DEF WriteCorrupt
  <2> QED
    BY <2>1, <2>2, ClosePeerKeeps
<1>20. ASSUME NEW w \in writers, WriteFailed(w) PROVE WrittenIsGood'
  BY <1>20 DEF WriteFailed
<1>21. ASSUME NEW w \in writers, WriteOk(w) PROVE WrittenIsGood'
  <2>1. UNCHANGED good /\ writers \ {w} \in SUBSET Writer
    BY <1>21 DEF WriteOk, DataOK
  <2>2. \E was, b, had, a : CheckCompletion(was, b, had, writers \ {w}, a)
    BY <1>21 DEF WriteOk
  <2> QED
    BY <2>1, <2>2, CheckCompletionKeeps
<1>22. ASSUME NEW w \in writers, WriteAgain(w) PROVE WrittenIsGood'
  <2>1. UNCHANGED <<writers, good>>
    BY <1>22 DEF WriteAgain
  <2> QED
    BY <2>1
<1>23. CASE Crash
  BY <1>23 DEF Crash
<1>24. ASSUME NEW S \in SUBSET Piece, DeleteFiles(S) PROVE WrittenIsGood'
  BY <1>24 DEF DeleteFiles
<1> QED
  BY <1>1, <1>2, <1>3, <1>4, <1>5, <1>6, <1>7, <1>8, <1>9, <1>10, <1>11, <1>12, <1>13,
     <1>14, <1>15, <1>16, <1>17, <1>18, <1>19, <1>20, <1>21, <1>22, <1>23, <1>24
     DEF Next, LoopStep, AllocationDone, WriteDone

(* Every handler preserves SoundInv as long as nobody deletes files.       *)
LEMMA SoundStep ==
  ASSUME TypeOK, SoundInv, [Next]_vars
  PROVE  SoundInv'
BY BitfieldStep, WrittenStep, DeletedStays DEF SoundInv, TypeOK

(* As long as the files are left alone, what a torrent claims to have, in  *)
(* its bitfield, in its pieces and in the resume database, is on the disk, *)
(* through any sequence of stops, starts, failed and late writes and       *)
(* crashes.                                                                *)
THEOREM BitfieldIsSound == Spec => []BitfieldSound
<1>1. SoundInv => BitfieldSound
  BY DEF SoundInv, BitfieldSound
<1> QED
  BY <1>1, TypeCorrect, SoundInit, SoundStep, PTL DEF Spec

-----------------------------------------------------------------------------
(* One write at a time.  Closing peers maps the set of writers: it leaves  *)
(* an empty set empty and a singleton a singleton.                         *)
LEMMA ClosePeerImage ==
  ASSUME NEW pe, NEW ws, ClosePeer(pe, ws), \A v, w \in ws : v = w
  PROVE  (writers' = {} <=> ws = {}) /\ \A v, w \in writers' : v = w
BY DEF ClosePeer

(* checkCompletion neither starts nor ends a write.                        *)
LEMMA CheckCompletionImage ==
  ASSUME NEW was, NEW b, NEW had, NEW ws, NEW a, CheckCompletion(was, b, had, ws, a),
         \A v, w \in ws : v = w
  PROVE  (writers' = {} <=> ws = {}) /\ \A v, w \in writers' : v = w
BY DEF CheckCompletion

(* OneWrite is inductive: a writer is only started while piece messages    *)
(* are received, which is while there is none.                             *)
LEMMA OneWriteStep ==
  ASSUME OneWrite, [Next]_vars
  PROVE  OneWrite'
<1> USE DEF OneWrite, pieceVars, writeVars, lifeVars
<1>1. CASE UNCHANGED vars
  BY <1>1 DEF vars
<1>2. CASE Start
  <2>1. UNCHANGED <<writers, suspended>>
    BY <1>2 DEF Start
  <2> QED
    BY <2>1
<1>3. CASE Stop
  <2>1. UNCHANGED <<writers, suspended>>
    BY <1>3 DEF Stop
  <2> QED
    BY <2>1
<1>4. CASE StopEnd
  BY <1>4 DEF StopEnd
<1>5. ASSUME NEW pe \in Peer, StopPeer(pe) PROVE OneWrite'
  <2>1. UNCHANGED suspended /\ ClosePeer(pe, writers)
    BY <1>5 DEF StopPeer
  <2> QED
    BY <2>1, ClosePeerImage
<1>6. ASSUME NEW pe \in Peer, ReceiveInfo(pe) PROVE OneWrite'
  <2>1. UNCHANGED <<writers, suspended>>
    BY <1>6 DEF ReceiveInfo
  <2> QED
    BY <2>1
<1>7. ASSUME NEW pe \in Peer, PeerDisconnected(pe) PROVE OneWrite'
  <2>1. UNCHANGED suspended /\ ClosePeer(pe, writers)
    BY <1>7 DEF PeerDisconnected
  <2> QED
    BY <2>1, ClosePeerImage
<1>8. ASSUME NEW pe \in Peer, IncomingStream(pe) PROVE OneWrite'
  <2>1. UNCHANGED <<writers, suspended>>
    BY <1>8 DEF IncomingStream
  <2> QED
    BY <2>1
<1>9. ASSUME NEW pe \in Peer, PickWithoutPicker(pe) PROVE OneWrite'
  <2>1. UNCHANGED <<writers, suspended>>
    BY <1>9 DEF PickWithoutPicker
  <2> QED
    BY <2>1
<1>10. CASE NewPeers
  <2>1. UNCHANGED <<writers, suspended>>
    BY <1>10 DEF NewPeers
  <2> QED
    BY <2>1
<1>11. CASE AllocationError
  <2>1. UNCHANGED <<writers, suspended>>
    BY <1>11 DEF AllocationError
  <2> QED
    BY <2>1
<1>12. CASE AllocationTrusted
  <2>1. UNCHANGED suspended
    BY <1>12 DEF AllocationTrusted
  <2>2. \E was, b, had, a : CheckCompletion(was, b, had, writers, a)
    BY <1>12 DEF AllocationTrusted
  <2> QED
    BY <2>1, <2>2, CheckCompletionImage
<1>13. CASE AllocationFresh
  <2>1. UNCHANGED <<writers, suspended>>
    BY <1>13 DEF AllocationFresh
  <2> QED
    BY <2>1
<1>14. CASE AllocationVerify
  <2>1. UNCHANGED <<writers, suspended>>
    BY <1>14 DEF AllocationVerify
  <2> QED
    BY <2>1
<1>15. CASE VerificationError
  <2>1. UNCHANGED <<writers, suspended>>
    BY <1>15 DEF VerificationError
  <2> QED
    BY <2>1
<1>16. CASE VerificationDone
  <2>1. UNCHANGED suspended
    BY <1>16 DEF VerificationDone
  <2>2. \E was, b, had, a : CheckCompletion(was, b, had, writers, a)
    BY <1>16 DEF VerificationDone
  <2> QED
    BY <2>1, <2>2, CheckCompletionImage
<1>17. ASSUME NEW pe \in Peer, NEW i \in Piece, PieceDownloaded(pe, i) PROVE OneWrite'
  BY <1>17 DEF PieceDownloaded
<1>18. ASSUME NEW w \in writers, WriterRun(w) PROVE OneWrite'
  BY <1>18 DEF WriterRun
<1>19. ASSUME NEW w \in writers, WriteCorrupt(w) PROVE OneWrite'
  <2>1. suspended' = FALSE /\ writers \ {w} = {}
    BY <1>19 DEF WriteCorrupt
  <2>2. ClosePeer(w.src, writers \ {w}) \/ writers' = writers \ {w}
    BY <1>19 DEF WriteCorrupt
  <2> QED
    BY <2>1, <2>2, ClosePeerImage
<1>20. ASSUME NEW w \in writers, WriteFailed(w) PROVE OneWrite'
  BY <1>20 DEF WriteFailed
<1>21. ASSUME NEW w \in writers, WriteOk(w) PROVE OneWrite'
  <2>1. suspended' = FALSE /\ writers \ {w} = {}
    BY <1>21 DEF WriteOk
  <2>2. \E was, b, had, a : CheckCompletion(was, b, had, writers \ {w}, a)
    BY <1>21 DEF WriteOk
  <2> QED
    BY <2>1, <2>2, CheckCompletionImage
<1>22. ASSUME NEW w \in writers, WriteAgain(w) PROVE OneWrite'
  <2>1. UNCHANGED <<writers, suspended>>
    BY <1>22 DEF WriteAgain
  <2> QED
    BY <2>1
<1>23. CASE Crash
  BY <1>23 DEF Crash
<1>24. ASSUME NEW S \in SUBSET Piece, DeleteFiles(S) PROVE OneWrite'
  <2>1. UNCHANGED <<writers, suspended>>
    BY <1>24 DEF DeleteFiles
  <2> QED
    BY <2>1
<1> QED
  BY <1>1, <1>2, <1>3, <1>4, <1>5, <1>6, <1>7, <1>8, <1>9, <1>10, <1>11, <1>12, <1>13,
     <1>14, <1>15, <1>16, <1>17, <1>18, <1>19, <1>20, <1>21, <1>22, <1>23, <1>24
     DEF Next, LoopStep, AllocationDone, WriteDone

(* At most one piece of a torrent is being written, and piece messages are *)
(* suspended exactly then, also when the write outlives stop and start.    *)
THEOREM OneWriteAtATime == Spec => []OneWrite
<1>1. Init => OneWrite
  BY DEF Init, AddFileId, CreateFile, NewTorrent, OneWrite
<1> QED
  BY <1>1, OneWriteStep, PTL DEF Spec

-----------------------------------------------------------------------------
(* PhasesExclude is not inductive by itself: when metadata arrives and     *)
(* starts the allocator there must be no pieces, which is so because       *)
(* pieces are only made from metadata.                                     *)
PhasesInv == PhasesExclude /\ (pieces => info)

(* Every handler keeps the phases apart.                                   *)
LEMMA PhasesStep ==
  ASSUME FlagsOK, PhasesInv, [Next]_vars
  PROVE  PhasesInv'
<1> USE DEF PhasesInv, PhasesExclude, FlagsOK, pieceVars, writeVars, lifeVars
<1>1. CASE UNCHANGED vars
  BY <1>1 DEF vars
<1>2. CASE Start
  <2>1. UNCHANGED <<info, pieces, picker>>
    BY <1>2 DEF Start
  <2>2. \/ UNCHANGED <<alloc, verif>>
        \/ pieces /\ verif' = TRUE /\ UNCHANGED alloc
        \/ info /\ ~pieces /\ alloc' = TRUE /\ UNCHANGED verif
    BY <1>2 DEF Start, StartAllocator
  <2> QED
    BY <2>1, <2>2
<1>3. CASE Stop
  BY <1>3 DEF Stop
<1>4. CASE StopEnd
  BY <1>4 DEF StopEnd
<1>5. ASSUME NEW pe \in Peer, StopPeer(pe) PROVE PhasesInv'
  BY <1>5 DEF StopPeer
<1>6. ASSUME NEW pe \in Peer, ReceiveInfo(pe) PROVE PhasesInv'
  <2>1. UNCHANGED <<verif, pieces, picker>> /\ info' \in {info, TRUE} /\ ~info
    BY <1>6 DEF ReceiveInfo
  <2>2. UNCHANGED alloc \/ (info' = TRUE /\ alloc' = TRUE)
    BY <1>6 DEF ReceiveInfo, StartAllocator
  <2> QED
    BY <2>1, <2>2
<1>7. ASSUME NEW pe \in Peer, PeerDisconnected(pe) PROVE PhasesInv'
  BY <1>7 DEF PeerDisconnected
<1>8. ASSUME NEW pe \in Peer, IncomingStream(pe) PROVE PhasesInv'
  BY <1>8 DEF IncomingStream
<1>9. ASSUME NEW pe \in Peer, PickWithoutPicker(pe) PROVE PhasesInv'
  BY <1>9 DEF PickWithoutPicker
<1>10. CASE NewPeers
  BY <1>10 DEF NewPeers
<1>11. CASE AllocationError
  BY <1>11 DEF AllocationError
<1>12. CASE AllocationTrusted
  BY <1>12 DEF AllocationTrusted
<1>13. CASE AllocationFresh
  BY <1>13 DEF AllocationFresh
<1>14. CASE AllocationVerify
  BY <1>14 DEF AllocationVerify
<1>15. CASE VerificationError
  BY <1>15 DEF VerificationError
<1>16. CASE VerificationDone
  <2>1. picker' => picker
    BY <1>16 DEF VerificationDone, CheckCompletion
  <2> QED
    BY <1>16, <2>1 DEF VerificationDone
<1>17. ASSUME NEW pe \in Peer, NEW i \in Piece, PieceDownloaded(pe, i) PROVE PhasesInv'
  BY <1>17 DEF PieceDownloaded
<1>18. ASSUME NEW w \in writers, WriterRun(w) PROVE PhasesInv'
  BY <1>18 DEF WriterRun
<1>19. ASSUME NEW w \in writers, WriteCorrupt(w) PROVE PhasesInv'
  BY <1>19 DEF WriteCorrupt
<1>20. ASSUME NEW w \in writers, WriteFailed(w) PROVE PhasesInv'
  BY <1>20 DEF WriteFailed
<1>21. ASSUME NEW w \in writers, WriteOk(w) PROVE PhasesInv'
  <2>1. picker' => picker
    BY <1>21 DEF WriteOk, CheckCompletion
  <2>2. UNCHANGED <<info, alloc, verif, pieces>>
    BY <1>21 DEF WriteOk
  <2> QED
    BY <2>1, <2>2
<1>22. ASSUME NEW w \in writers, WriteAgain(w) PROVE PhasesInv'
  BY <1>22 DEF WriteAgain
<1>23. CASE Crash
  BY <1>23 DEF Crash
<1>24. ASSUME NEW S \in SUBSET Piece, DeleteFiles(S) PROVE PhasesInv'
  BY <1>24 DEF DeleteFiles
<1> QED
  BY <1>1, <1>2, <1>3, <1>4, <1>5, <1>6, <1>7, <1>8, <1>9, <1>10, <1>11, <1>12, <1>13,
     <1>14, <1>15, <1>16, <1>17, <1>18, <1>19, <1>20, <1>21, <1>22, <1>23, <1>24
     DEF Next, LoopStep, AllocationDone, WriteDone

(* Allocation, verification and download exclude one another as the        *)
(* assertions of the handlers expect, whatever starts, stops, failures and *)
(* crashes there are.                                                      *)
THEOREM PhasesExclusive == Spec => []PhasesExclude
<1>1. Init => PhasesInv
  BY DEF Init, AddFileId, CreateFile, NewTorrent, PhasesInv, PhasesExclude
<1>2. TypeOK /\ PhasesInv /\ [Next]_vars => PhasesInv'
  BY PhasesStep DEF TypeOK
<1>3. PhasesInv => PhasesExclude
  BY DEF PhasesInv
<1> QED
  BY <1>1, <1>2, <1>3, TypeCorrect, PTL DEF Spec
=============================================================================
