----------------------------- MODULE PeerWriter -----------------------------
(***************************************************************************)
(* The queue of a PeerWriter as a value: messages that wait for the        *)
(* messageWriter goroutine, and how many of them are blocks.  A message is *)
(* a record with a field type; blocks of data are of type "piece".         *)
(***************************************************************************)
EXTENDS Integers, Sequences, SequencesExt

NewWriter == [queue |-> <<>>, queuedRequests |-> 0, served |-> {}]

Reject(msg) == [msg EXCEPT !.type = "reject"]

(* queueMessage: a block too many is turned into a reject message, since   *)
(* the fast extension is always enabled.                                   *)
QueueMessage(w, msg, maxQueuedRequests) ==
  IF msg.type # "piece" THEN [w EXCEPT !.queue = Append(@, msg)]
  ELSE IF w.queuedRequests >= maxQueuedRequests
       THEN [w EXCEPT !.queue = Append(@, Reject(msg))]
       ELSE [w EXCEPT !.queue = Append(@, msg), !.queuedRequests = @ + 1]

CancelRequestUncounted(w, msg) == [w EXCEPT !.queue = SelectSeq(@, LAMBDA m : m # msg)]

(* cancelRequest removes the first queued block that matches.              *)
CancelRequest(w, msg) ==
  IF Contains(w.queue, msg)
  THEN [w EXCEPT !.queue = RemoveFirst(@, msg), !.queuedRequests = @ - 1]
  ELSE w

(* PeerWriter.Run hands the first message to the messageWriter.            *)
TakeFirst(w) ==
  [w EXCEPT !.queue = Tail(@),
            !.queuedRequests = IF Head(w.queue).type = "piece" THEN @ - 1 ELSE @]

(* messageWriter rejects a block that it has served before.                *)
ToWrite(w, msg) == IF msg.type = "piece" /\ msg \in w.served THEN Reject(msg) ELSE msg
Serve(w, msg) == IF msg.type = "piece" THEN [w EXCEPT !.served = @ \cup {msg}] ELSE w
=============================================================================
