------------------------------ MODULE PeerConn ------------------------------
(***************************************************************************)
(* One connection to a remote peer: the goroutines that carry its messages *)
(* to the torrent's run loop, and how they end.                            *)
(*                                                                         *)
(*   stream -> PeerReader.Run -> Conn.Run -> Peer.Run -> run loop          *)
(*                                                                         *)
(* PeerWriter's messageWriter reports uploaded blocks on the same way.     *)
(* Every channel is unbuffered, so sending and receiving are one step of   *)
(* two goroutines.  Conn.Close is never called, so Conn's own closeC stays *)
(* open; PeerWriter.Run ends only after Conn.Run has stopped it.           *)
(***************************************************************************)
EXTENDS Integers, Sequences

CONSTANTS
  MaxSent,     \* bound: messages sent by the remote peer
  MaxUploads   \* bound: blocks uploaded to it

ASSUME BoundAssumption == MaxSent \in Nat /\ MaxUploads \in Nat

VARIABLES
  wire,       \* messages on the stream
  sent,       \* how many messages the remote peer has sent
  stream,     \* "open", or "broken" once either side has closed it
  reader,     \* PeerReader.Run: "reading", "sending" or "done"
  readerMsg,  \* the message it has parsed
  conn,       \* Conn.Run: "select", "forward", "ending" or "done"
  connMsg,    \* the message it forwards
  writer,     \* messageWriter: "idle", "report" or "done"
  writeLoop,  \* PeerWriter.Run: "running" or "done"
  writerStop, \* PeerWriter.stopC is closed
  uploads,    \* blocks uploaded
  peer,       \* Peer.Run: "select", "deliver", "snubbed", "disconnect" or "done"
  peerMsg,    \* the message it delivers
  armed,      \* the snub timer is running
  fired,      \* the snub timer's channel holds a tick
  closed,     \* Peer.closeC is closed
  loop,       \* the torrent's run loop: "idle", or "closing" in Peer.Close
  suspended,  \* t.pieceMessagesC.suspended
  received    \* messages of the remote peer that the loop has received

streamVars == <<wire, sent, stream>>
readerVars == <<reader, readerMsg>>
connVars == <<conn, connMsg>>
writerVars == <<writer, writeLoop, writerStop, uploads>>
peerVars == <<peer, peerMsg>>
timerVars == <<armed, fired>>
loopVars == <<closed, loop, suspended, received>>
vars == <<streamVars, readerVars, connVars, writerVars, peerVars, timerVars, loopVars>>

(* A message of the remote peer, or the report of an uploaded block.       *)
Message == [id : 1 .. MaxSent, piece : BOOLEAN]
Uploaded == [id |-> 0, piece |-> FALSE]
Nothing == <<>>

Init ==
  /\ wire = <<>> /\ sent = 0 /\ stream = "open"
  /\ reader = "reading" /\ readerMsg = Nothing
  /\ conn = "select" /\ connMsg = Nothing
  /\ writer = "idle" /\ writeLoop = "running" /\ writerStop = FALSE /\ uploads = 0
  /\ peer = "select" /\ peerMsg = Nothing
  /\ armed = FALSE /\ fired = FALSE
  /\ closed = FALSE /\ loop = "idle" /\ suspended = FALSE /\ received = <<>>

-----------------------------------------------------------------------------
(* The remote peer.                                                        *)

RemoteSend(piece) ==
  /\ stream = "open" /\ sent < MaxSent
  /\ sent' = sent + 1
  /\ wire' = Append(wire, [id |-> sent + 1, piece |-> piece])
  /\ UNCHANGED <<stream, readerVars, connVars, writerVars, peerVars, timerVars, loopVars>>

(* It goes away, or the network does.                                      *)
RemoteClose ==
  /\ stream = "open"
  /\ stream' = "broken"
  /\ UNCHANGED <<wire, sent, readerVars, connVars, writerVars, peerVars, timerVars, loopVars>>

-----------------------------------------------------------------------------
(* PeerReader.Run.  Keep-alive and unknown messages are skipped there.     *)

(* A message is read; what is in the read buffer survives a broken stream. *)
ReaderRead ==
  /\ reader = "reading" /\ wire # <<>>
  /\ reader' = "sending" /\ readerMsg' = <<Head(wire)>>
  /\ wire' = Tail(wire)
  /\ UNCHANGED <<sent, stream, connVars, writerVars, peerVars, timerVars, loopVars>>

(* The read fails: the stream is broken, the deadline has passed or the    *)
(* message cannot be parsed.                                               *)
ReaderFail ==
  /\ reader = "reading"
  /\ reader' = "done"
  /\ UNCHANGED <<readerMsg, streamVars, connVars, writerVars, peerVars, timerVars, loopVars>>

ReaderSendTwice ==
  /\ reader = "sending" /\ conn = "select"
  /\ reader' \in {"reading", "sending"} /\ UNCHANGED readerMsg
  /\ conn' = "forward" /\ connMsg' = readerMsg
  /\ UNCHANGED <<streamVars, writerVars, peerVars, timerVars, loopVars>>

ReaderSend ==
  /\ reader = "sending" /\ conn = "select"
  /\ reader' = "reading" /\ readerMsg' = Nothing
  /\ conn' = "forward" /\ connMsg' = readerMsg
  /\ UNCHANGED <<streamVars, writerVars, peerVars, timerVars, loopVars>>

-----------------------------------------------------------------------------
(* PeerWriter.                                                             *)

(* messageWriter has written a block and reports it.                       *)
Upload ==
  /\ writer = "idle" /\ stream = "open" /\ uploads < MaxUploads
  /\ writer' = "report" /\ uploads' = uploads + 1
  /\ UNCHANGED <<writeLoop, writerStop, streamVars, readerVars, connVars, peerVars, timerVars,
                 loopVars>>

Report ==
  /\ writer = "report" /\ conn = "select"
  /\ writer' = "idle"
  /\ conn' = "forward" /\ connMsg' = <<Uploaded>>
  /\ UNCHANGED <<writeLoop, writerStop, uploads, streamVars, readerVars, peerVars, timerVars,
                 loopVars>>

(* messageWriter ends, closing the stream: a write has failed (a keep-     *)
(* alive, at the latest), or it is stopped.                                *)
WriterEnd ==
  /\ writer = "idle" \/ (writer = "report" /\ writerStop)
  /\ writer' = "done" /\ stream' = "broken"
  /\ UNCHANGED <<writeLoop, writerStop, uploads, wire, sent, readerVars, connVars, peerVars,
                 timerVars, loopVars>>

WriteLoopEnd ==
  /\ writeLoop = "running" /\ writerStop
  /\ writeLoop' = "done"
  /\ UNCHANGED <<writer, writerStop, uploads, streamVars, readerVars, connVars, peerVars,
                 timerVars, loopVars>>

-----------------------------------------------------------------------------
(* Conn.Run.                                                               *)

Forward ==
  /\ conn = "forward" /\ peer = "select"
  /\ conn' = "select" /\ connMsg' = Nothing
  /\ peer' = "deliver" /\ peerMsg' = connMsg
  /\ UNCHANGED <<streamVars, readerVars, writerVars, timerVars, loopVars>>

ReaderDoneForgetsWriter ==
  /\ conn = "select" /\ reader = "done"
  /\ conn' = "ending" /\ stream' = "broken"
  /\ UNCHANGED <<connMsg, writerVars, wire, sent, readerVars, peerVars, timerVars, loopVars>>

(* The reader is done: the writer is stopped, and the stream closed.       *)
ReaderDone ==
  /\ conn = "select" /\ reader = "done"
  /\ conn' = "ending" /\ writerStop' = TRUE /\ stream' = "broken"
  /\ UNCHANGED <<connMsg, writer, writeLoop, uploads, wire, sent, readerVars, peerVars,
                 timerVars, loopVars>>

(* Both are done: the messages channel is closed.                          *)
ConnEnd ==
  /\ conn = "ending" /\ reader = "done" /\ writeLoop = "done"
  /\ conn' = "done"
  /\ UNCHANGED <<connMsg, streamVars, readerVars, writerVars, peerVars, timerVars, loopVars>>

-----------------------------------------------------------------------------
(* Peer.Run.                                                               *)

TimerFires ==
  /\ armed
  /\ armed' = FALSE /\ fired' = TRUE
  /\ UNCHANGED <<streamVars, readerVars, connVars, writerVars, peerVars, loopVars>>

(* The tick is received; nobody receives from peerSnubbedC.                *)
Snub ==
  /\ peer = "select" /\ fired
  /\ peer' = "snubbed" /\ fired' = FALSE
  /\ UNCHANGED <<peerMsg, armed, streamVars, readerVars, connVars, writerVars, loopVars>>

ConnClosedUnreported ==
  /\ peer = "select" /\ conn = "done"
  /\ peer' = "done"
  /\ UNCHANGED <<peerMsg, streamVars, readerVars, connVars, writerVars, timerVars, loopVars>>

ConnClosed ==
  /\ peer = "select" /\ conn = "done"
  /\ peer' = "disconnect"
  /\ UNCHANGED <<peerMsg, streamVars, readerVars, connVars, writerVars, timerVars, loopVars>>

(* closeC is closed; every select of Peer.Run watches it.                  *)
PeerExit ==
  /\ closed /\ peer # "done"
  /\ peer' = "done" /\ peerMsg' = Nothing
  /\ UNCHANGED <<streamVars, readerVars, connVars, writerVars, timerVars, loopVars>>

-----------------------------------------------------------------------------
(* The torrent's run loop.                                                 *)

(* It receives a message, a piece message only while that channel is not   *)
(* suspended.  The handler may start or stop the snub timer, and one that  *)
(* completes a piece suspends the channel.                                 *)
Deliver ==
  /\ peer = "deliver" /\ loop = "idle"
  /\ Head(peerMsg).piece => ~suspended
  /\ peer' = "select" /\ peerMsg' = Nothing
  /\ received' = IF peerMsg = <<Uploaded>> THEN received ELSE received \o peerMsg
  /\ armed' \in BOOLEAN
  /\ suspended' \in (IF Head(peerMsg).piece THEN BOOLEAN ELSE {suspended})
  /\ UNCHANGED <<fired, closed, loop, streamVars, readerVars, connVars, writerVars>>

(* Handlers of other peers' events start a download from this one, and     *)
(* suspend and resume piece messages.                                      *)
OtherEvent ==
  /\ loop = "idle" /\ ~closed
  /\ \/ armed' = TRUE /\ UNCHANGED suspended
     \/ suspended' = ~suspended /\ UNCHANGED armed
  /\ UNCHANGED <<fired, closed, loop, received, streamVars, readerVars, connVars, writerVars,
                 peerVars>>

PeerCloseNoWait ==
  /\ closed' = TRUE /\ stream' = "broken" /\ armed' = FALSE
  /\ loop' = "idle"
  /\ UNCHANGED <<wire, sent, fired, suspended, received>>

(* Peer.Close, in which the loop waits for the end of Peer.Run.            *)
PeerClose ==
  /\ closed' = TRUE /\ stream' = "broken" /\ armed' = FALSE
  /\ loop' = "closing"
  /\ UNCHANGED <<wire, sent, fired, suspended, received>>

(* The loop receives the peer from peerDisconnectedC and closes it.        *)
Disconnect ==
  /\ peer = "disconnect" /\ loop = "idle"
  /\ peer' = "done" /\ PeerClose
  /\ UNCHANGED <<peerMsg, readerVars, connVars, writerVars>>

(* The loop closes the peer for a reason of its own.                       *)
Close ==
  /\ loop = "idle" /\ ~closed
  /\ PeerClose
  /\ UNCHANGED <<readerVars, connVars, writerVars, peerVars>>

CloseReturn ==
  /\ loop = "closing" /\ peer = "done"
  /\ loop' = "idle"
  /\ UNCHANGED <<closed, suspended, received, streamVars, readerVars, connVars, writerVars,
                 peerVars, timerVars>>

-----------------------------------------------------------------------------
Remote == RemoteClose \/ \E piece \in BOOLEAN : RemoteSend(piece)

Next ==
  \/ Remote
  \/ ReaderRead \/ ReaderFail \/ ReaderSend
  \/ Upload \/ Report \/ WriterEnd \/ WriteLoopEnd
  \/ Forward \/ ReaderDone \/ ConnEnd
  \/ TimerFires \/ Snub \/ ConnClosed \/ PeerExit
  \/ Deliver \/ OtherEvent \/ Disconnect \/ Close \/ CloseReturn

Spec == Init /\ [][Next]_vars

(* A goroutine that can run does: each has weak fairness.  A select        *)
(* chooses at random among its ready channels, so one that is ready again  *)
(* and again is chosen in the end: strong fairness for receiving from the  *)
(* reader, for noticing its end and for receiving from a peer.  That the   *)
(* loop resumes piece messages is what Download shows.                     *)
FairSpec ==
  /\ Spec
  /\ WF_vars(ReaderRead \/ (stream = "broken" /\ ReaderFail))
  /\ WF_vars(WriteLoopEnd)
  /\ WF_vars(Report \/ Forward \/ ConnEnd) /\ SF_vars(ReaderSend) /\ SF_vars(ReaderDone)
  /\ WF_vars(ConnClosed \/ PeerExit)
  /\ WF_vars(Disconnect \/ CloseReturn) /\ SF_vars(Deliver)
  /\ WF_vars(suspended /\ OtherEvent /\ ~suspended')

-----------------------------------------------------------------------------
(* Properties.                                                             *)

(* The type of every variable; a goroutine holds at most one message, as   *)
(* the channels between them are unbuffered.                               *)
TypeOK ==
  /\ wire \in Seq(Message) /\ sent \in 0 .. MaxSent /\ stream \in {"open", "broken"}
  /\ reader \in {"reading", "sending", "done"}
  /\ conn \in {"select", "forward", "ending", "done"}
  /\ writer \in {"idle", "report", "done"} /\ writeLoop \in {"running", "done"}
  /\ writerStop \in BOOLEAN /\ uploads \in 0 .. MaxUploads
  /\ peer \in {"select", "deliver", "snubbed", "disconnect", "done"}
  /\ \A m \in {readerMsg, connMsg, peerMsg} : m \in Seq(Message \cup {Uploaded}) /\ Len(m) <= 1
  /\ armed \in BOOLEAN /\ fired \in BOOLEAN
  /\ closed \in BOOLEAN /\ loop \in {"idle", "closing"} /\ suspended \in BOOLEAN
  /\ received \in Seq(Message)

(* What a goroutine holds of the remote peer's messages.                   *)
Messages(held) == IF held = <<Uploaded>> THEN <<>> ELSE held

(* The messages on their way, the oldest first.                            *)
OnTheWay == received \o (Messages(peerMsg) \o (Messages(connMsg) \o (readerMsg \o wire)))

(* Until the peer is closed no message is lost, duplicated or overtaken on *)
(* its way through three goroutines, uploads reported or not: what the     *)
(* loop has received, what each goroutine holds and what is on the stream  *)
(* are, in this order, the messages sent.                                  *)
InOrder ==
  /\ TypeOK
  /\ ~closed => Len(OnTheWay) = sent /\ \A n \in 1 .. sent : OnTheWay[n].id = n

(* Once Peer.Close has returned, no message of the peer reaches the loop,  *)
(* so that no handler sees a closed peer.                                  *)
SilentAfterClose == [][closed => UNCHANGED received]_vars

(* A broken connection is reported to the loop, which closes the peer,     *)
(* unless the peer snubbed us before.                                      *)
BrokenReported == stream = "broken" ~> closed \/ peer = "snubbed"

(* Peer.Close, called by the loop that the peer's goroutines send to, does *)
(* not wait for ever, and after it every goroutine of the connection ends, *)
(* except where Conn.Run holds a message that nobody will receive.         *)
EndsUnlessHolding ==
  /\ loop = "closing" ~> loop = "idle"
  /\ [](closed => <>[](conn = "done" \/ conn = "forward"))
=============================================================================
