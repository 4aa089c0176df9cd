------------------------------ MODULE Transfer ------------------------------
(***************************************************************************)
(* The blocks of some pieces on their way over one connection between two  *)
(* programs of this repository: a downloading torrent with its             *)
(* PieceDownloader, and a seeding torrent that answers through its         *)
(* PeerWriter.  Request, cancel, piece and reject messages cross on the    *)
(* stream, which keeps their order in each direction.                      *)
(*                                                                         *)
(* The seeder has every piece and never chokes: Peer.New starts unchoked   *)
(* and TickUnchoke, the only caller of Choke, is never called.  Over one   *)
(* connection a piece is picked at most once: it is done afterwards, or    *)
(* the connection is closed.                                               *)
(*                                                                         *)
(* A message may take longer than the snub timeout.  Nobody receives what  *)
(* Peer.Run then sends to peerSnubbedC, so nothing more is received.       *)
(***************************************************************************)
EXTENDS PieceDownloader, PeerWriter

CONSTANTS
  NeededPieces,        \* the pieces the downloader needs
  NumBlocks,           \* blocks of a piece
  MaxRequestsIn,       \* settings of cfg.MaxRequestsIn the seeder may have
  MaxRequestsOut,      \* cfg.MaxRequestsOut of the downloader
  DefaultRequestsOut,  \* cfg.DefaultRequestsOut of the downloader
  Absent

BlockMessage(type, p, b) == [type |-> type, piece |-> p, block |-> b]
BlockMessages(types) ==
  [type : types, piece : NeededPieces, block : 1 .. NumBlocks]
Hello(type) == [type |-> type]

(* What the seeder sends.                                                  *)
Downward == BlockMessages({"piece", "reject"}) \cup {Hello("haveall"), Hello("handshake")}

(* The PieceDownloaders of the downloader.                                 *)
Downloaders ==
  [piece : NeededPieces, remaining : Seq(1 .. NumBlocks),
   pending : SUBSET (1 .. NumBlocks), done : SUBSET (1 .. NumBlocks)]

ASSUME TransferAssumption ==
  /\ NumBlocks \in Nat \ {0} /\ MaxRequestsIn \subseteq Nat \ {0}
  /\ MaxRequestsOut \in Nat \ {0} /\ DefaultRequestsOut \in 1 .. MaxRequestsOut
  /\ Absent \notin Downward /\ Absent \notin Downloaders

VARIABLES
  maxIn,     \* cfg.MaxRequestsIn of this seeder
  reqq,      \* ExtensionHandshake.RequestQueue at the downloader, 0 before it has come
  todo,      \* pieces the downloader has not picked yet
  pd,        \* its PieceDownloader for the seeder, or Absent
  toSeeder,  \* messages queued and sent to the seeder
  writer,    \* the seeder's PeerWriter
  writing,   \* the message its messageWriter holds, or Absent
  toLeech,   \* messages sent to the downloader
  snub       \* the downloader's Peer: its snub timer is off, armed, or has
             \* fired; or Peer.Run has read the timer and is blocked

transferVars == <<maxIn, reqq, todo, pd, toSeeder, writer, writing, toLeech, snub>>

(* The seeder's sendFirstMessage: HaveAll and the extension handshake.     *)
TransferInit ==
  /\ maxIn \in MaxRequestsIn
  /\ reqq = 0 /\ todo = NeededPieces /\ pd = Absent
  /\ toSeeder = <<>> /\ writing = Absent /\ toLeech = <<>> /\ snub = "off"
  /\ writer = [NewWriter EXCEPT !.queue = <<Hello("haveall"), Hello("handshake")>>]

-----------------------------------------------------------------------------
(* The downloader.                                                         *)

MaxAllowedRequests(q) ==
  LET wanted == IF q > 0 THEN q ELSE DefaultRequestsOut
  IN IF wanted > MaxRequestsOut THEN MaxRequestsOut ELSE wanted

SnubTimers == {"off", "armed", "fired", "blocked"}

(* time.Timer: a value that is in the channel stays there.                 *)
ResetSnubTimer(timer) == IF timer = "off" THEN "armed" ELSE timer
StopSnubTimer(timer) == IF timer = "armed" THEN "off" ELSE timer

(* The messages of type about the blocks bs of piece p, in order.          *)
Messages(type, p, bs) == [n \in 1 .. Len(bs) |-> BlockMessage(type, p, bs[n])]

(* startPieceDownloaderFor, after the messages before, with the timer as   *)
(* it is then: the peer picks one of the pieces left and requests its      *)
(* first blocks, or there is none.                                         *)
StartNext(before, timer) ==
  \/ /\ todo = {} /\ pd' = Absent /\ todo' = todo /\ snub' = timer
     /\ toSeeder' = toSeeder \o before
  \/ \E p \in todo :
       LET new == NewDownloader(p, NumBlocks)
           max == MaxAllowedRequests(reqq)
       IN /\ pd' = RequestBlocks(new, max) /\ todo' = todo \ {p}
          /\ snub' = ResetSnubTimer(timer)
          /\ toSeeder' = toSeeder \o before \o Messages("request", p, Requests(new, max))

Receive(types) ==
  /\ snub # "blocked" /\ toLeech # <<>> /\ Head(toLeech).type \in types
  /\ toLeech' = Tail(toLeech)

ReceiveHaveAll ==
  /\ Receive({"haveall"}) /\ StartNext(<<>>, snub)
  /\ UNCHANGED <<maxIn, reqq, writer, writing>>

ReceiveHandshake ==
  /\ Receive({"handshake"})
  /\ reqq' = maxIn
  /\ UNCHANGED <<maxIn, todo, pd, toSeeder, writer, writing, snub>>

IsOurs(msg) == pd # Absent /\ pd.piece = msg.piece

(* handlePieceMessage for the piece being downloaded.  While a piece is    *)
(* written, this waits.                                                    *)
ReceivePiece ==
  LET msg == Head(toLeech)
      got == GotBlock(pd, msg.block)
      max == MaxAllowedRequests(reqq)
  IN /\ Receive({"piece"}) /\ IsOurs(msg)
     /\ \/ /\ Done(got, NumBlocks) /\ StartNext(<<>>, StopSnubTimer(snub))
        \/ /\ ~Done(got, NumBlocks)
           /\ pd' = RequestBlocks(got, max) /\ todo' = todo
           /\ snub' = ResetSnubTimer(snub)
           /\ toSeeder' = toSeeder \o Messages("request", pd.piece, Requests(got, max))
     /\ UNCHANGED <<maxIn, reqq, writer, writing>>

(* handlePeerMessage: RejectMessage.  The block is not requested again     *)
(* before the next piece message.                                          *)
ReceiveReject ==
  /\ Receive({"reject"}) /\ IsOurs(Head(toLeech))
  /\ pd' = Rejected(pd, Head(toLeech).block)
  /\ UNCHANGED <<maxIn, reqq, todo, toSeeder, writer, writing, snub>>

(* A message about a piece that is no longer downloaded is dropped.        *)
ReceiveOther ==
  /\ Receive({"piece", "reject"}) /\ ~IsOurs(Head(toLeech))
  /\ UNCHANGED <<maxIn, reqq, todo, pd, toSeeder, writer, writing, snub>>

(* handlePieceWriteDone: another peer has sent the same piece.             *)
DoneElsewhere ==
  /\ pd # Absent
  /\ \E cancels \in SetToSeqs(pd.pending) :
       StartNext(Messages("cancel", pd.piece, cancels), snub)
  /\ UNCHANGED <<maxIn, reqq, writer, writing, toLeech>>

(* The snub timeout passes since the last request.                         *)
SnubTimerFires ==
  /\ snub = "armed" /\ snub' = "fired"
  /\ UNCHANGED <<maxIn, reqq, todo, pd, toSeeder, writer, writing, toLeech>>

(* Peer.Run reads the timer and sends the peer to peerSnubbedC, which is   *)
(* never received from.                                                    *)
Snubbed ==
  /\ snub = "fired" /\ snub' = "blocked"
  /\ UNCHANGED <<maxIn, reqq, todo, pd, toSeeder, writer, writing, toLeech>>

-----------------------------------------------------------------------------
(* The seeder.                                                             *)

(* handlePeerMessage: RequestMessage, for a piece that is done.            *)
HandleRequest ==
  /\ toSeeder # <<>> /\ Head(toSeeder).type = "request"
  /\ toSeeder' = Tail(toSeeder)
  /\ writer' = QueueMessage(writer, [Head(toSeeder) EXCEPT !.type = "piece"], maxIn)
  /\ UNCHANGED <<maxIn, reqq, todo, pd, writing, toLeech, snub>>

(* handlePeerMessage: CancelMessage.                                       *)
HandleCancel ==
  LET msg == [Head(toSeeder) EXCEPT !.type = "piece"]
  IN /\ toSeeder # <<>> /\ Head(toSeeder).type = "cancel"
     /\ toSeeder' = Tail(toSeeder)
     /\ writer' = QueueMessage(CancelRequest(writer, msg), Reject(msg), maxIn)
     /\ UNCHANGED <<maxIn, reqq, todo, pd, writing, toLeech, snub>>

(* PeerWriter.Run hands a message to its messageWriter, which writes it    *)
(* to the stream.                                                          *)
Take ==
  /\ writing = Absent /\ writer.queue # <<>>
  /\ writing' = Head(writer.queue) /\ writer' = TakeFirst(writer)
  /\ UNCHANGED <<maxIn, reqq, todo, pd, toSeeder, toLeech, snub>>

Write ==
  /\ writing # Absent
  /\ toLeech' = Append(toLeech, ToWrite(writer, writing))
  /\ writing' = Absent /\ writer' = Serve(writer, writing)
  /\ UNCHANGED <<maxIn, reqq, todo, pd, toSeeder, snub>>

-----------------------------------------------------------------------------
Leech ==
  ReceiveHaveAll \/ ReceiveHandshake \/ ReceivePiece \/ ReceiveReject \/ ReceiveOther
Seeder == HandleRequest \/ HandleCancel

TransferNext ==
  \/ Leech \/ DoneElsewhere \/ SnubTimerFires \/ Snubbed
  \/ Seeder \/ Take \/ Write

TransferSpec == TransferInit /\ [][TransferNext]_transferVars

(* Each run loop and each PeerWriter goes on as long as it can.            *)
TransferFairSpec ==
  /\ TransferSpec
  /\ WF_transferVars(Leech) /\ WF_transferVars(Seeder) /\ WF_transferVars(Take \/ Write)

-----------------------------------------------------------------------------
(* Properties.                                                             *)

(* The type of every variable: only blocks of the piece are requested.     *)
TransferTypeOK ==
  /\ maxIn \in MaxRequestsIn /\ reqq \in MaxRequestsIn \cup {0} /\ todo \subseteq NeededPieces
  /\ pd \in Downloaders \cup {Absent}
  /\ toSeeder \in Seq(BlockMessages({"request", "cancel"}))
  /\ writer.queue \in Seq(Downward) /\ toLeech \in Seq(Downward)
  /\ writing \in Downward \cup {Absent}
  /\ writer.served \subseteq BlockMessages({"piece"})
  /\ snub \in SnubTimers

(* All that is under way between the two, what arrives next first.         *)
Pipeline ==
  toLeech \o (IF writing = Absent THEN <<>> ELSE <<writing>>) \o writer.queue \o toSeeder

(* A request for a block of piece p, or an answer to one.                  *)
Concerns(msg, p) == msg.type \in {"request", "piece", "reject"} /\ msg.piece = p

(* Every block that the downloader waits for is under way exactly once, as *)
(* a request, as data or as a reject, and no other is, so that no answer   *)
(* is lost, none is counted twice, and a cancelled piece leaves nothing    *)
(* behind that the next one could mistake.                                 *)
AnsweredOnce ==
  pd # Absent =>
    \A b \in 1 .. NumBlocks :
      Cardinality({i \in 1 .. Len(Pipeline) :
                     Concerns(Pipeline[i], pd.piece) /\ Pipeline[i].block = b})
        = IF b \in pd.pending THEN 1 ELSE 0

(* The blocks of a piece are divided into those to request, those          *)
(* requested and those that have arrived: none is forgotten or requested   *)
(* twice.                                                                  *)
BlocksDivided ==
  /\ TransferTypeOK
  /\ pd # Absent =>
       /\ IsInjective(pd.remaining)
       /\ ToSet(pd.remaining) \cup pd.pending \cup pd.done = 1 .. NumBlocks
       /\ ToSet(pd.remaining) \cap (pd.pending \cup pd.done) = {}
       /\ pd.pending \cap pd.done = {}

(* A seeder that takes as many requests as the downloader sends before it  *)
(* knows the limit rejects nothing that the downloader still wants.        *)
NothingRejected ==
  maxIn >= DefaultRequestsOut /\ pd # Absent =>
    \A i \in 1 .. Len(Pipeline) :
      ~(Pipeline[i].type = "reject" /\ Pipeline[i].piece = pd.piece)

(* All that is left of the download has been rejected: RequestBlocks is    *)
(* called for the next piece message, and none will come.                  *)
Rebuffed == pd # Absent /\ pd.pending = {} /\ pd.remaining # <<>>

(* Every download from the peer ends, unless the peer has rejected all     *)
(* that was left of it, which only a seeder with a short queue does, or    *)
(* the peer was too slow for the snub timer once.                          *)
DownloadEnds ==
  \A p \in NeededPieces :
    pd # Absent /\ pd.piece = p ~>
      \/ pd = Absent \/ pd.piece # p
      \/ Rebuffed /\ maxIn < DefaultRequestsOut
      \/ snub = "blocked"
=============================================================================
