------------------------------ MODULE Metadata ------------------------------
(***************************************************************************)
(* How a torrent that was added by a magnet link gets its info dictionary: *)
(* filechain/torrent_infodownload.go, torrent_metadataextension.go, the    *)
(* extension handshake, and internal/infodownloader.  Several nodes run    *)
(* this code and are connected to each other by streams; faulty nodes send *)
(* any of the messages Lie at any time.  What peers announce before the    *)
(* pieces are known is queued and handled later.  A handler of the run     *)
(* loop is a step, except processQueuedMessages, whose iterations are      *)
(* steps between which the run loop does nothing else.                     *)
(*                                                                         *)
(* Requests for pieces and their answers are Transfer's, the pieces that a *)
(* node downloads later Download's: here it has what it verified.          *)
(***************************************************************************)
EXTENDS Integers, Sequences, FiniteSets, FiniteSetsExt, SequencesExt

CONSTANTS
  Node,
  Seed,      \* the nodes that have the info from the start
  SeedPieces, \* the sets of pieces that they may have
  MayFail,   \* nodes that may not run this code
  Block,     \* number of blocks of the info dictionary
  Piece,     \* the pieces of the torrent
  Queue,     \* maxAllowedRequests
  Parallel,  \* ParallelMetadataDownloads
  Lie,       \* the messages that faulty nodes send
  MaxLies,   \* bound: messages that faulty nodes send
  MaxDials   \* bound: connections

(* Announcements: a Have, Bitfield or HaveAll message; one whose index or  *)
(* bitfield does not fit the torrent is invalid.                           *)
Have(pieces) == [type |-> "have", pieces |-> pieces]
Invalid == [type |-> "invalid", pieces |-> {}]

(* The extension handshake: the size of the info in blocks, and whether    *)
(* the key of the metadata extension is in it.                             *)
Handshake(size, key) == [type |-> "handshake", size |-> size, key |-> key]

(* Messages of the metadata extension.                                     *)
Metadata(type, i, good) == [type |-> type, index |-> i, good |-> good]

AnyMessage ==
  [type : {"have"}, pieces : SUBSET Piece] \cup {Invalid}
    \cup [type : {"handshake"}, size : Nat, key : BOOLEAN]
    \cup [type : {"request", "data", "reject"}, index : Nat, good : BOOLEAN]

ASSUME MetadataAssumption ==
  /\ Seed \subseteq Node /\ MayFail \subseteq Node \ Seed
  /\ {Block, Queue, Parallel} \subseteq Nat \ {0}
  /\ SeedPieces \subseteq SUBSET Piece
  /\ Lie \subseteq AnyMessage /\ {MaxLies, MaxDials} \subseteq Nat

VARIABLES
  phase,    \* metadata, allocating, verifying, processing (the queues),
            \* ready, stopped, lost if it was stopped without an info, or
            \* crashed, per node
  pieces,   \* pieces[n]: t.bitfield; empty while that is nil
  view,     \* view[n][p]: what n keeps about its peer p
  ghosts,   \* ghosts[n]: peers that n closed and put back into the picker
  handling, \* handling[n]: the peer whose queue processQueuedMessages is at,
            \* and the messages left of it
  inFlight, \* inFlight[n][p]: messages from n to p under way
  blamed,   \* history: <<n, p>> if n closed p for what it sent
  dropped,  \* history: nodes that lost a peer they downloaded the info from
            \* and have not looked for another since
  dials,    \* connections made so far
  lies,     \* messages sent by faulty nodes so far
  faulty    \* the nodes that do not run this code

metadataVars == <<phase, pieces, view, ghosts, handling, inFlight, blamed,
                  dropped, dials, lies, faulty>>

(* last: the number of blocks that the peer's handshake named.             *)
NoDownloader == [next |-> 0]
NewDownloader(size) == [next |-> 1, pending |-> 0, good |-> {}, last |-> size]

(* ext: the extension handshake was not received, has no key for metadata  *)
(* ("plain"), or names a size of zero ("none") or more ("has"); bitfield:  *)
(* pe.Bitfield is not nil; snub: its snub timer is off, armed, or has      *)
(* fired, or Peer.Run is blocked on it; told: a history of what it said.   *)
Closed == [up |-> FALSE, ext |-> "nil", size |-> 0, bitfield |-> FALSE, queue |-> <<>>,
           having |-> {}, told |-> {}, dl |-> NoDownloader, snub |-> "off"]

HasInfo(n) == phase[n] \notin {"metadata", "lost"}
Running(n) == phase[n] \notin {"stopped", "lost", "crashed"} /\ n \notin faulty

(* What a node that runs this code has of the torrent when it connects.    *)
MetadataInit ==
  /\ phase = [n \in Node |-> IF n \in Seed THEN "ready" ELSE "metadata"]
  /\ pieces \in {f \in [Node -> SeedPieces \cup {{}}] :
                  \A n \in Node : IF n \in Seed THEN f[n] \in SeedPieces ELSE f[n] = {}}
  /\ view = [n \in Node |-> [p \in Node |-> Closed]]
  /\ ghosts = [n \in Node |-> {}]
  /\ handling = [n \in Node |-> [peer |-> n, msgs |-> <<>>]]
  /\ inFlight = [n \in Node |-> [p \in Node |-> <<>>]]
  /\ blamed = {} /\ dropped = {} /\ dials = 0 /\ lies = 0 /\ faulty \in SUBSET MayFail

(* sendFirstMessage: HaveAll or a bitfield, or HaveNone, which the         *)
(* receiver ignores; and the extension handshake.                          *)
FirstMessages(n) ==
  IF n \in faulty THEN <<>>
  ELSE (IF pieces[n] = {} THEN <<>> ELSE <<Have(pieces[n])>>)
         \o <<Handshake(IF HasInfo(n) THEN Block ELSE 0, TRUE)>>

-----------------------------------------------------------------------------
(* The state of one node while a handler changes it: its views, what it    *)
(* has to send, whom it closed, its phase, the closed peers in its picker, *)
(* and whether it lost a peer and has not looked for another.              *)
State(n) == [me |-> n, view |-> view[n], out |-> [p \in Node |-> <<>>], blamed |-> {},
             phase |-> phase[n], ghosts |-> ghosts[n], dropped |-> n \in dropped]

Commit(s, n, received) ==
  /\ view' = [view EXCEPT ![n] = s.view]
  /\ inFlight' = [x \in Node |-> [y \in Node |->
       IF y \in faulty THEN <<>>
       ELSE IF x = n THEN IF s.view[y].up THEN inFlight[n][y] \o s.out[y] ELSE inFlight[n][y]
       ELSE IF y = n /\ ~s.view[x].up THEN <<>>
       ELSE IF y = n /\ x = received THEN Tail(inFlight[x][n]) ELSE inFlight[x][y]]]
  /\ blamed' = blamed \cup {<<n, p>> : p \in s.blamed}
  /\ phase' = [phase EXCEPT ![n] = s.phase]
  /\ ghosts' = [ghosts EXCEPT ![n] = s.ghosts]
  /\ dropped' = IF s.dropped THEN dropped \cup {n} ELSE dropped \ {n}
  /\ UNCHANGED <<dials, lies, faulty>>

Downloading(s) == {p \in Node : s.view[p].dl # NoDownloader}

(* The peers of which nextInfoDownload returns one.                        *)
Offering(s) ==
  {p \in Node : s.view[p].up /\ s.view[p].dl = NoDownloader /\ s.view[p].ext = "has"}

(* The snub timer; a timer that has fired stays so for who reads it.       *)
ResetSnubTimer(timer) == IF timer = "off" THEN "armed" ELSE timer
StopSnubTimer(timer) == IF timer = "armed" THEN "off" ELSE timer

(* RequestBlocks: how many blocks downloader d requests, d afterwards, and *)
(* the messages.                                                           *)
Wanted(d) == Min({d.last + 1 - d.next, Max({Queue - d.pending, 0})})
Requested(d) == [d EXCEPT !.next = @ + Wanted(d), !.pending = @ + Wanted(d)]
Requests(d) == [i \in 1 .. Wanted(d) |-> Metadata("request", d.next + i - 1, TRUE)]

RequestBlocks(s, p) ==
  [s EXCEPT !.view[p].dl = Requested(@), !.view[p].snub = ResetSnubTimer(@),
            !.out[p] = @ \o Requests(s.view[p].dl)]

(* startInfoDownloaders: as many as there are slots; nobody ever enters    *)
(* infoDownloadersSnubbed.                                                 *)
Slots(s) == Min({Cardinality(Offering(s)), Max({Parallel - Cardinality(Downloading(s)), 0})})

Started(v) == [v EXCEPT !.dl = Requested(NewDownloader(v.size)), !.snub = ResetSnubTimer(@)]

StartInfoDownloaders(s) ==
  IF s.phase # "metadata" THEN {s}
  ELSE {[s EXCEPT
           !.view = [p \in Node |-> IF p \in P THEN Started(s.view[p]) ELSE s.view[p]],
           !.out = [p \in Node |->
                      IF p \in P THEN Requests(NewDownloader(s.view[p].size)) ELSE s.out[p]],
           !.dropped = FALSE] :
        P \in kSubset(Slots(s), Offering(s))}

(* closePeer for something the peer sent.                                  *)
Blame(s, p) == [s EXCEPT !.view[p] = Closed, !.blamed = @ \cup {p}]

(* The timers keep running.                                                *)
StopInfoDownloaders(s) ==
  [s EXCEPT !.view = [p \in Node |-> [s.view[p] EXCEPT !.dl = NoDownloader]]]

(* stop: every peer is closed.                                             *)
Stopped(s, phaseThen) ==
  [s EXCEPT !.view = [p \in Node |-> Closed], !.phase = phaseThen, !.ghosts = {}]

-----------------------------------------------------------------------------
(* closePeer for an announcement that does not fit.  Peer.Close of a       *)
(* closed peer closes closeC again, and the process ends.                  *)
HandleInvalid(s, p) == IF s.view[p].up THEN Blame(s, p) ELSE Stopped(s, "crashed")

(* A valid announcement goes to the piece picker, if there is one, from    *)
(* whatever peer it is.                                                    *)
Announce(s, p, msg) ==
  IF pieces[s.me] = Piece THEN s
  ELSE IF s.view[p].up THEN [s EXCEPT !.view[p].having = @ \cup msg.pieces]
  ELSE [s EXCEPT !.ghosts = @ \cup {p}]

(* Messages are kept only until the info is there.                         *)
HandleHaveWithInfo(s, p, msg) ==
  IF s.phase = "metadata"
  THEN [s EXCEPT !.view[p].queue = Append(@, msg)]
  ELSE IF msg.type = "invalid" THEN HandleInvalid(s, p) ELSE Announce(s, p, msg)

(* handlePeerMessage: HaveMessage, BitfieldMessage, HaveAllMessage.        *)
HandleHave(s, p, msg) ==
  IF s.phase \in {"metadata", "allocating", "verifying"}
  THEN [s EXCEPT !.view[p].queue = Append(@, msg)]
  ELSE IF msg.type = "invalid" THEN HandleInvalid(s, p) ELSE Announce(s, p, msg)

(* The history of what p said on this connection.                          *)
Heard(s, p, msg) ==
  IF s.view[p].up THEN [s EXCEPT !.view[p].told = @ \cup msg.pieces] ELSE s

HandleHandshake(s, p, msg) ==
  LET t == [s EXCEPT !.view[p].size = msg.size,
              !.view[p].ext = IF ~msg.key THEN "plain" ELSE IF msg.size = 0 THEN "none" ELSE "has"]
  IN  IF s.view[p].ext # "nil" THEN {s}
      ELSE IF msg.key THEN StartInfoDownloaders(t) ELSE {t}

(* The last block, which is shorter, is taken to end beyond the info.      *)
HandleRequestNotLast(s, p, msg) ==
  IF s.view[p].ext \in {"nil", "plain"} THEN {s}
  ELSE {[s EXCEPT !.out[p] = Append(@,
          IF s.phase = "metadata" \/ msg.index >= Block
          THEN Metadata("reject", msg.index, TRUE) ELSE Metadata("data", msg.index, TRUE))]}

(* handleMetadataMessage: a request.                                       *)
HandleRequest(s, p, msg) ==
  IF s.view[p].ext \in {"nil", "plain"} THEN {s}
  ELSE {[s EXCEPT !.out[p] = Append(@,
          IF s.phase = "metadata" \/ msg.index > Block
          THEN Metadata("reject", msg.index, TRUE) ELSE Metadata("data", msg.index, TRUE))]}

(* GotBlock; a block that was received may be received again.              *)
Received(d, msg) ==
  [d EXCEPT !.pending = @ - 1,
            !.good = IF msg.good THEN @ \cup {msg.index} ELSE @ \ {msg.index}]

GotBlock(s, p, msg) == [s EXCEPT !.view[p].dl = Received(@, msg)]

(* A peer is closed and nobody is asked in its place.                      *)
BlameAndRestartNot(s, p) == {Blame(s, p)}

BlameAndRestart(s, p) == StartInfoDownloaders(Blame(s, p))

(* The info is complete: it may turn out to be unusable (private, or not   *)
(* to be parsed), and saving it may fail.                                  *)
Completed(s) ==
  {Stopped(s, "lost"), Stopped(s, "stopped"), [s EXCEPT !.phase = "allocating"]}

(* handleMetadataMessage: data.  What was not requested or has a wrong     *)
(* size is refused; the blocks make the info if all are good and their     *)
(* number is right.                                                        *)
HandleData(s, p, msg) ==
  LET d == s.view[p].dl
      t == GotBlock(s, p, msg)
      e == t.view[p].dl
      u == [t EXCEPT !.view[p].snub = StopSnubTimer(@)]
  IN
  IF d = NoDownloader THEN {s}
  ELSE IF msg.index \notin 1 .. d.next - 1 THEN BlameAndRestart(s, p)
  ELSE IF ~(e.next = e.last + 1 /\ e.pending = 0) THEN {RequestBlocks(t, p)}
  ELSE IF e.good # 1 .. Block THEN BlameAndRestart(u, p)
  ELSE Completed(StopInfoDownloaders(u))

HandleReject(s, p) == IF s.view[p].dl = NoDownloader THEN {s} ELSE BlameAndRestart(s, p)

(* The run loop handles the next message of p.                             *)
Receive(n, p) ==
  LET s == State(n)
      msg == Head(inFlight[p][n])
      Becomes(states) == \E after \in states : Commit(after, n, p)
  IN
  /\ Running(n) /\ phase[n] # "processing"
  /\ view[n][p].up /\ view[n][p].snub # "blocked" /\ inFlight[p][n] # <<>>
  /\ \/ msg.type \in {"have", "invalid"} /\ Becomes({HandleHave(Heard(s, p, msg), p, msg)})
     \/ msg.type = "handshake" /\ Becomes(HandleHandshake(s, p, msg))
     \/ msg.type = "request" /\ Becomes(HandleRequest(s, p, msg))
     \/ msg.type = "data" /\ Becomes(HandleData(s, p, msg))
     \/ msg.type = "reject" /\ Becomes(HandleReject(s, p))
  /\ UNCHANGED <<pieces, handling>>

-----------------------------------------------------------------------------
(* handleAllocationDone fails, or the peers get their bitfields.  If files *)
(* existed, they are verified first; otherwise nothing is there.           *)
AllocationDone(n) ==
  /\ Running(n) /\ phase[n] = "allocating"
  /\ \/ Commit(Stopped(State(n), "stopped"), n, n)
     \/ \E next \in {"verifying", "processing"} :
          Commit([State(n) EXCEPT !.phase = next,
                    !.view = [p \in Node |-> [view[n][p] EXCEPT !.bitfield = view[n][p].up]]],
                 n, n)
  /\ UNCHANGED <<pieces, handling>>

(* checkCompletion: with all pieces, peers that are not interested (see    *)
(* Download) are closed, and there is no picker any more.                  *)
WithoutPeers(s, P) == [s EXCEPT !.view = [p \in Node |-> IF p \in P THEN Closed ELSE s.view[p]]]

(* handleVerificationDone fails, or finds some of the pieces and announces *)
(* them; with all of them it may stop.                                     *)
VerificationDone(n) ==
  /\ Running(n) /\ phase[n] = "verifying"
  /\ \E found \in SUBSET Piece, P \in SUBSET Node :
       LET s == [State(n) EXCEPT !.phase = "processing",
                   !.out = [p \in Node |-> IF found = {} THEN <<>> ELSE <<Have(found)>>]]
       IN
       /\ found # Piece => P = {}
       /\ \/ Commit(Stopped(s, "stopped"), n, n) \/ Commit(WithoutPeers(s, P), n, n)
       /\ pieces' = [pieces EXCEPT ![n] = found]
  /\ UNCHANGED handling

-----------------------------------------------------------------------------
(* processQueuedMessages: the queue of a peer is taken.                    *)
NextQueue(n) ==
  /\ Running(n) /\ phase[n] = "processing" /\ handling[n].msgs = <<>>
  /\ \E p \in Node :
       /\ view[n][p].queue # <<>>
       /\ handling' = [handling EXCEPT ![n] = [peer |-> p, msgs |-> view[n][p].queue]]
       /\ Commit([State(n) EXCEPT !.view[p].queue = <<>>], n, n)
  /\ UNCHANGED pieces

(* Its next message is handled, also if the peer has been closed for the   *)
(* one before.                                                             *)
HandleQueued(n) ==
  LET h == handling[n] IN
  /\ Running(n) /\ phase[n] = "processing" /\ h.msgs # <<>>
  /\ Commit(HandleHave(State(n), h.peer, Head(h.msgs)), n, n)
  /\ handling' = [handling EXCEPT ![n].msgs = Tail(@)]
  /\ UNCHANGED pieces

(* No queue is left.                                                       *)
QueuesDone(n) ==
  /\ handling[n].msgs = <<>> /\ \A p \in Node : view[n][p].queue = <<>>

ProcessingDone(n) ==
  /\ Running(n) /\ phase[n] = "processing" /\ QueuesDone(n)
  /\ Commit([State(n) EXCEPT !.phase = "ready"], n, n)
  /\ UNCHANGED <<pieces, handling>>

-----------------------------------------------------------------------------
(* peerDisconnectedC: closePeer, and nothing else.                         *)
ClosePeer(n, p) ==
  /\ phase[n] # "processing" /\ view[n][p].snub # "blocked"
  /\ Commit([State(n) EXCEPT !.view[p] = Closed,
               !.dropped = @ \/ view[n][p].dl # NoDownloader], n, n)
  /\ UNCHANGED <<pieces, handling>>

(* The stream was closed by the other end.                                 *)
Disconnected(n, p) == view[n][p].up /\ ~view[p][n].up /\ ClosePeer(n, p)

(* The stream breaks, and n notices it first.                              *)
Break(n, p) == view[n][p].up /\ view[p][n].up /\ ClosePeer(n, p)

(* The snub timeout passes, and Peer.Run reads the timer and sends the     *)
(* peer to peerSnubbedC, which is never received: nothing more comes from  *)
(* this peer, not even that it has gone.                                   *)
SetSnub(n, p, from, to) ==
  /\ n \notin faulty /\ view[n][p].snub = from
  /\ view' = [view EXCEPT ![n][p].snub = to]
  /\ UNCHANGED <<phase, pieces, ghosts, handling, inFlight, blamed, dropped, dials, lies, faulty>>

SnubTimerFires(n, p) == SetSnub(n, p, "armed", "fired")
Snubbed(n, p) == SetSnub(n, p, "fired", "blocked")

(* A stream between two nodes, startPeer on both sides.                    *)
Connect(n, p) ==
  /\ n # p /\ dials < MaxDials /\ dials' = dials + 1
  /\ {phase[n], phase[p]} \cap {"stopped", "lost", "crashed", "processing"} = {}
  /\ ~view[n][p].up /\ ~view[p][n].up
  /\ view' = [view EXCEPT
       ![n][p] = [Closed EXCEPT !.up = TRUE, !.bitfield = HasInfo(n)],
       ![p][n] = [Closed EXCEPT !.up = TRUE, !.bitfield = HasInfo(p)]]
  /\ inFlight' = [inFlight EXCEPT
       ![n][p] = IF p \in faulty THEN <<>> ELSE FirstMessages(n),
       ![p][n] = IF n \in faulty THEN <<>> ELSE FirstMessages(p)]
  /\ UNCHANGED <<phase, pieces, ghosts, handling, blamed, dropped, lies, faulty>>

(* A faulty node sends what it likes.                                      *)
FaultySends(f, p) ==
  /\ f \in faulty /\ p \notin faulty /\ view[f][p].up /\ lies < MaxLies /\ lies' = lies + 1
  /\ \E msg \in Lie : inFlight' = [inFlight EXCEPT ![f][p] = Append(@, msg)]
  /\ UNCHANGED <<phase, pieces, view, ghosts, handling, blamed, dropped, dials, faulty>>

-----------------------------------------------------------------------------
RunLoop(n) ==
  \/ AllocationDone(n) \/ VerificationDone(n)
  \/ NextQueue(n) \/ HandleQueued(n) \/ ProcessingDone(n)
  \/ \E p \in Node : Receive(n, p) \/ Disconnected(n, p)

SnubTimers(n) == \E p \in Node : SnubTimerFires(n, p) \/ Snubbed(n, p)

MetadataNext ==
  \/ \E n \in Node : RunLoop(n) \/ SnubTimers(n)
  \/ \E n, p \in Node : Connect(n, p) \/ Break(n, p) \/ FaultySends(n, p)

(* Streams deliver, run loops run, allocation and verification end, and    *)
(* timers fire: as long as any of this can happen, some of it does.        *)
MetadataSpec ==
  /\ MetadataInit /\ [][MetadataNext]_metadataVars
  /\ WF_metadataVars(\E n \in Node : RunLoop(n) \/ SnubTimers(n))

-----------------------------------------------------------------------------
(* Properties.                                                             *)
Correct == Node \ faulty

MetadataTypeOK ==
  /\ phase \in [Node -> {"metadata", "allocating", "verifying", "processing", "ready",
                         "stopped", "lost", "crashed"}]
  /\ pieces \in [Node -> SUBSET Piece] /\ ghosts \in [Node -> SUBSET Node]
  /\ dials \in 0 .. MaxDials /\ lies \in 0 .. MaxLies /\ blamed \subseteq Node \X Node

Announced(queue) == UNION {m.pieces : m \in ToSet(queue)}

(* What waits of p's announcements while the queues are processed.         *)
Waiting(n, p) ==
  Announced(view[n][p].queue) \cup
    IF handling[n].peer = p THEN Announced(handling[n].msgs) ELSE {}

(* Nothing that a peer announces is lost: before the pieces are known it   *)
(* is kept, whatever happens between the info, the allocation and the      *)
(* verification, and while the queues are processed what is not yet known  *)
(* still waits; afterwards the peer is known to have exactly what it said  *)
(* on this connection.  Its bitfield, which the handlers use without a     *)
(* check, then exists.  A complete node needs nothing.                     *)
AnnouncementsKept ==
  /\ MetadataTypeOK
  /\ \A n \in Correct, p \in Node :
       LET v == view[n][p] IN
       v.up =>
         /\ v.having \subseteq v.told
         /\ phase[n] \in {"metadata", "allocating", "verifying"} =>
              v.having = {} /\ Announced(v.queue) = v.told
         /\ phase[n] = "processing" /\ pieces[n] # Piece => v.having \cup Waiting(n, p) = v.told
         /\ phase[n] = "ready" /\ pieces[n] # Piece => v.having = v.told
         /\ phase[n] \in {"processing", "ready"} => v.bitfield
         /\ phase[n] = "ready" => v.queue = <<>>

(* Nodes that run this code never close each other for what they send,     *)
(* never put each other back into the picker after closing, and believe of *)
(* each other only pieces that are there; a node crashes only after it     *)
(* closed another for what that sent.  What an info downloader counts as   *)
(* pending is under way: its requests or their answers.                    *)
Count(s, type) == Cardinality({i \in 1 .. Len(s) : s[i].type = type})

HonestKept ==
  /\ blamed \cap (Correct \X Correct) = {}
  /\ \A n \in Correct : phase[n] = "crashed" => \E f \in faulty : <<n, f>> \in blamed
  /\ \A n, p \in Correct :
       LET v == view[n][p] IN
       /\ p \notin ghosts[n]
       /\ v.up /\ view[p][n].up => v.having \subseteq pieces[p]
       /\ v.up /\ v.dl # NoDownloader =>
            /\ phase[n] = "metadata" /\ v.dl.pending \in 0 .. Queue
            /\ view[p][n].up =>
                 v.dl.pending = Count(inFlight[n][p], "request") + Count(inFlight[p][n], "data")

(* The downloads of n are all from peers whose Peer.Run is blocked by the  *)
(* snub timer, and p is not asked: because it is blocked itself, because   *)
(* they hold all slots, or because a peer has gone and n looks for another *)
(* one only when the next handshake comes.                                 *)
Stuck(n, p) ==
  LET downloads == Downloading(State(n)) IN
  /\ \A q \in downloads : view[n][q].snub = "blocked"
  /\ \/ view[n][p].snub = "blocked"
     \/ Cardinality(downloads) >= Parallel
     \/ n \in dropped

(* A node that stays connected to a peer with metadata gets the info in    *)
(* the end, whatever faulty peers send, unless it gets stuck for good in   *)
(* one of these ways.                                                      *)
InfoArrives ==
  \A n \in Node \ Seed : \A p \in Node \ {n} :
    <>[](/\ n \in Correct /\ p \in Correct /\ phase[n] = "metadata"
         /\ view[n][p].up /\ view[n][p].ext = "has") => <>[]Stuck(n, p)
=============================================================================
