-------------------------- MODULE ResourceManager ---------------------------
(***************************************************************************)
(* internal/resourcemanager: the goroutine that shares the write cache of  *)
(* a session among its torrents, and the run loops that ask it             *)
(* (filechain/torrent_start.go, torrent_close.go).  All channels are       *)
(* unbuffered: a send and its receive are one step, and what the two sides *)
(* do before and after it are steps of their own.                          *)
(***************************************************************************)
EXTENDS Integers, FiniteSets, Functions

CONSTANTS
  Torrent,   \* the keys of the requests, one run loop each
  Peer,      \* the data of the requests
  OwnerOf,   \* the torrent of each peer
  Size,      \* info.PieceLength of each torrent
  Limit,     \* config.WriteCacheSize
  MaxWait,   \* bound: requests one peer may have waiting
  None

ASSUME ResourceAssumption ==
  /\ IsFiniteSet(Torrent) /\ OwnerOf \in [Peer -> Torrent] /\ Size \in [Torrent -> Nat \ {0}]
  /\ Limit \in Nat /\ MaxWait \in Nat /\ None \notin Peer

VARIABLES
  available, objects,  \* of the manager
  requests,  \* m.requests: how many of each peer
  at,        \* where the manager is: top, select, handle, done
  cur,       \* the request it offers, or has received
  loop,      \* where each run loop is, and the peer it asks for
  held,      \* history: how often each torrent holds its piece length
  gone,      \* peers whose Done() channel is closed
  closing    \* m.closeC is closed

managerVars == <<available, objects, requests, at, cur>>
vars == <<managerVars, loop, held, gone, closing>>

At(step, p) == [at |-> step, peer |-> p]

Init ==
  /\ available = Limit /\ objects = 0
  /\ requests = [p \in Peer |-> 0]
  /\ at = "top" /\ cur = None
  /\ loop = [t \in Torrent |-> At("idle", None)]
  /\ held = [t \in Torrent |-> 0]
  /\ gone = {} /\ closing = FALSE

SizeOf(p) == Size[OwnerOf[p]]

Waiting == {p \in Peer : requests[p] > 0}

Move(t, step, p) == loop' = [loop EXCEPT ![t] = At(step, p)]

-----------------------------------------------------------------------------
(* The run loops.                                                          *)

(* startPieceDownloaderFor: Request is called for a peer, which a queued   *)
(* message may make even after the peer was closed (torrent_peer.go:133).  *)
Ask(t, p) ==
  /\ loop[t].at = "idle" /\ OwnerOf[p] = t /\ requests[p] < MaxWait
  /\ Move(t, "asking", p)
  /\ UNCHANGED <<managerVars, held, gone, closing>>

(* The send on requestC went through; now the answer is received.          *)
AwaitAnswer(t) ==
  /\ loop[t].at = "asked"
  /\ Move(t, "waiting", loop[t].peer)
  /\ UNCHANGED <<managerVars, held, gone, closing>>

(* Either select of Request, or that of Release, sees the manager close.   *)
GiveUp(t) ==
  /\ closing /\ loop[t].at \in {"asking", "waiting", "releasing"}
  /\ Move(t, "idle", None)
  /\ UNCHANGED <<managerVars, held, gone, closing>>

(* startSinglePieceDownloader: with what was granted a download starts, or *)
(* it is given back.                                                       *)
StartDownloader(t) ==
  /\ loop[t].at = "granted"
  /\ Move(t, "idle", None) \/ Move(t, "releasing", None)
  /\ UNCHANGED <<managerVars, held, gone, closing>>

(* closePieceDownloader.                                                   *)
CloseDownloader(t) ==
  /\ loop[t].at = "idle" /\ held[t] > 0
  /\ Move(t, "releasing", None)
  /\ UNCHANGED <<managerVars, held, gone, closing>>

(* closePeer, which waits for the end of Peer.Run; the same peer may come  *)
(* back when nothing of it is left.                                        *)
PeerClosed(p) ==
  /\ loop[OwnerOf[p]].at = "idle" /\ p \notin gone
  /\ gone' = gone \cup {p}
  /\ UNCHANGED <<managerVars, loop, held, closing>>

PeerConnected(p) ==
  /\ loop[OwnerOf[p]].at = "idle" /\ p \in gone /\ requests[p] = 0
  /\ gone' = gone \ {p}
  /\ UNCHANGED <<managerVars, loop, held, closing>>

-----------------------------------------------------------------------------
(* The manager.                                                            *)

RandomRequestAnySize ==
  /\ at = "top"
  /\ at' = "select"
  /\ IF Waiting = {} THEN cur' = None ELSE cur' \in Waiting
  /\ UNCHANGED <<available, objects, requests, loop, held, gone, closing>>

(* randomRequest: any request of any key, if what is available allows it;  *)
(* otherwise nothing is offered.                                           *)
RandomRequest ==
  /\ at = "top"
  /\ at' = "select"
  /\ IF Waiting = {} THEN cur' = None
     ELSE \E p \in Waiting : cur' = IF SizeOf(p) > available THEN None ELSE p
  /\ UNCHANGED <<available, objects, requests, loop, held, gone, closing>>

ReceiveRequest(t) ==
  /\ at = "select" /\ loop[t].at = "asking"
  /\ at' = "handle" /\ cur' = loop[t].peer
  /\ Move(t, "asked", loop[t].peer)
  /\ UNCHANGED <<available, objects, requests, held, gone, closing>>

HandleRequestUnchecked ==
  /\ at = "handle" /\ loop[OwnerOf[cur]] = At("waiting", cur)
  /\ at' = "top" /\ cur' = None
  /\ available' = available - SizeOf(cur) /\ objects' = objects + 1
  /\ held' = [held EXCEPT ![OwnerOf[cur]] = @ + 1]
  /\ Move(OwnerOf[cur], "granted", cur)
  /\ UNCHANGED <<requests, gone, closing>>

HandleRequestGrantOnly ==
  /\ at = "handle" /\ loop[OwnerOf[cur]] = At("waiting", cur)
  /\ SizeOf(cur) <= available
  /\ at' = "top" /\ cur' = None
  /\ available' = available - SizeOf(cur) /\ objects' = objects + 1
  /\ held' = [held EXCEPT ![OwnerOf[cur]] = @ + 1]
  /\ Move(OwnerOf[cur], "granted", cur)
  /\ UNCHANGED <<requests, gone, closing>>

(* handleRequest answers the loop that waits for it.                       *)
HandleRequest ==
  /\ at = "handle" /\ loop[OwnerOf[cur]] = At("waiting", cur)
  /\ at' = "top" /\ cur' = None
  /\ IF SizeOf(cur) <= available
     THEN /\ available' = available - SizeOf(cur) /\ objects' = objects + 1
          /\ held' = [held EXCEPT ![OwnerOf[cur]] = @ + 1]
          /\ Move(OwnerOf[cur], "granted", cur)
          /\ UNCHANGED requests
     ELSE /\ requests' = [requests EXCEPT ![cur] = @ + 1]
          /\ Move(OwnerOf[cur], "idle", None)
          /\ UNCHANGED <<available, objects, held>>
  /\ UNCHANGED <<gone, closing>>

(* handleRequest takes the other branch: the peer is done.  Nobody answers *)
(* the loop, which stays in Request until the manager closes.              *)
HandleCancelled ==
  /\ at = "handle" /\ cur \in gone
  /\ at' = "top" /\ cur' = None
  /\ UNCHANGED <<available, objects, requests, loop, held, gone, closing>>

(* The offered request is taken by its run loop.                           *)
Notify(p) ==
  /\ at = "select" /\ cur = p /\ loop[OwnerOf[p]].at = "idle"
  /\ at' = "top" /\ cur' = None
  /\ available' = available - SizeOf(p) /\ objects' = objects + 1
  /\ requests' = [requests EXCEPT ![p] = @ - 1]
  /\ held' = [held EXCEPT ![OwnerOf[p]] = @ + 1]
  /\ Move(OwnerOf[p], "granted", p)
  /\ UNCHANGED <<gone, closing>>

CancelRequest(p) ==
  /\ at = "select" /\ cur = p /\ p \in gone
  /\ at' = "top" /\ cur' = None
  /\ requests' = [requests EXCEPT ![p] = @ - 1]
  /\ UNCHANGED <<available, objects, loop, held, gone, closing>>

ReceiveReleaseStale(t) ==
  /\ at = "select" /\ loop[t].at = "releasing"
  /\ at' = "select" /\ UNCHANGED cur
  /\ available' = available + Size[t] /\ objects' = objects - 1
  /\ held' = [held EXCEPT ![t] = @ - 1]
  /\ Move(t, "idle", None)
  /\ UNCHANGED <<requests, gone, closing>>

ReceiveRelease(t) ==
  /\ at = "select" /\ loop[t].at = "releasing"
  /\ at' = "top" /\ cur' = None
  /\ available' = available + Size[t] /\ objects' = objects - 1
  /\ held' = [held EXCEPT ![t] = @ - 1]
  /\ Move(t, "idle", None)
  /\ UNCHANGED <<requests, gone, closing>>

(* Somebody reads the statistics; the loop goes round.                     *)
ReceiveStats ==
  /\ at = "select" /\ at' = "top" /\ cur' = None
  /\ UNCHANGED <<available, objects, requests, loop, held, gone, closing>>

(* Close: no caller in filechain, which leaves the manager running.        *)
Close ==
  /\ ~closing /\ closing' = TRUE
  /\ UNCHANGED <<managerVars, loop, held, gone>>

ManagerEnds ==
  /\ at = "select" /\ closing
  /\ at' = "done" /\ cur' = None
  /\ UNCHANGED <<available, objects, requests, loop, held, gone, closing>>

-----------------------------------------------------------------------------
ManagerStep ==
  \/ RandomRequest \/ HandleRequest \/ HandleCancelled \/ ManagerEnds
  \/ \E t \in Torrent : ReceiveRequest(t) \/ ReceiveRelease(t)

LoopStep(t) == AwaitAnswer(t) \/ GiveUp(t) \/ StartDownloader(t)

Next ==
  \/ ManagerStep
  \/ \E t \in Torrent : LoopStep(t) \/ CloseDownloader(t)
  \/ \E p \in Peer : \/ Ask(OwnerOf[p], p) \/ PeerClosed(p) \/ PeerConnected(p)
                     \/ Notify(p) \/ CancelRequest(p)
  \/ ReceiveStats
  \/ Close

Spec == Init /\ [][Next]_vars

(* The goroutines run, a select takes a case that is ready again and again *)
(* and a random choice falls on every request in the end.  Nobody has to   *)
(* ask for anything, end a download or read statistics.                    *)
FairSpec ==
  /\ Spec
  /\ WF_vars(RandomRequest \/ HandleRequest \/ HandleCancelled \/ ManagerEnds)
  /\ \A t \in Torrent : WF_vars(LoopStep(t)) /\ SF_vars(ReceiveRequest(t))
                        /\ SF_vars(ReceiveRelease(t))
  /\ \A p \in Peer : SF_vars(RandomRequest /\ cur' = p) /\ SF_vars(Notify(p))

-----------------------------------------------------------------------------
(* Properties.                                                             *)

TypeOK ==
  /\ available \in 0 .. Limit /\ objects \in Nat
  /\ requests \in [Peer -> 0 .. MaxWait + 1]
  /\ at \in {"top", "select", "handle", "done"} /\ cur \in Peer \cup {None}
  /\ loop \in [Torrent -> [at : {"idle", "asking", "asked", "waiting", "granted", "releasing"},
                           peer : Peer \cup {None}]]
  /\ held \in [Torrent -> Nat] /\ gone \subseteq Peer /\ closing \in BOOLEAN

(* Until it closes, the manager and the torrents agree on what is handed   *)
(* out, in bytes and in objects, so that none of its three panics          *)
(* ("invalid request call 1", "... 2", "invalid release call") can happen, *)
(* whatever is granted, withdrawn and released in between.                 *)
Accounted ==
  /\ TypeOK
  /\ available + SumFunction([t \in Torrent |-> held[t] * Size[t]]) = Limit
  /\ objects = SumFunction(held)
  /\ cur # None /\ at = "select" => requests[cur] > 0 /\ SizeOf(cur) <= available

Budget == INSTANCE RamBudget WITH free <- available, waiting <- requests

(* The manager's channels implement the budget that Download relies on.    *)
ImplementsBudget == Budget!Spec

(* A torrent that asks for a peer that is still there has its answer, in   *)
(* the end, whether or not the budget allows it.                           *)
RequestReturns ==
  \A t \in Torrent :
     (loop[t].at \in {"asking", "asked", "waiting"} /\ loop[t].peer \notin gone)
        ~> loop[t].at \in {"idle", "granted"}

(* The torrent is in Request and will not be answered.                     *)
Stuck(t) == loop[t].at = "waiting" /\ ~(at = "handle" /\ cur = loop[t].peer)

(* A request does not wait for ever while its run loop could take it and   *)
(* what is available suffices for every one that waits.  A larger one      *)
(* among them may hide it, and so may one whose torrent is stuck and does  *)
(* not take what it is offered.                                            *)
FittingServed ==
  \A p \in Peer :
     []<>(\/ requests[p] = 0 \/ p \in gone \/ closing
          \/ loop[OwnerOf[p]].at # "idle"
          \/ \E q \in Waiting : SizeOf(q) > available \/ Stuck(OwnerOf[q]))
=============================================================================
