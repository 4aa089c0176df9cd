---------------------------- MODULE UdpTransport ----------------------------
(***************************************************************************)
(* internal/tracker: Tracker.Announce(ctx, req) as its callers see it, for *)
(* UDP trackers that share one Transport (a socket, a read loop, a         *)
(* connection id per tracker and a table of transactions) and for HTTP     *)
(* trackers.  Datagrams may be lost, duplicated and reordered, trackers    *)
(* may be silent, connection ids expire and contexts end at any time.      *)
(* Transaction ids are taken as distinct while a datagram mentions them    *)
(* (the code draws them from 31 random bits).                              *)
(***************************************************************************)
EXTENDS Integers, FiniteSets, FiniteSetsExt

CONSTANTS
  Caller,   \* goroutines that call Announce
  Tracker,
  Http,     \* the trackers that talk HTTP
  MaxTrx,   \* bound: transaction ids
  MaxNet,   \* bound: datagrams in flight
  None

ASSUME TransportAssumption ==
  Http \subseteq Tracker /\ None \notin Caller \cup Tracker /\ MaxNet \in Nat /\ MaxTrx \in Nat

VARIABLES
  call,     \* where each caller is in Announce
  conn,     \* t.connections, per tracker
  table,    \* t.transactions
  net,      \* datagrams in flight
  silent,   \* trackers whose answers are never heard
  ended     \* callers whose context is done

transportVars == <<call, conn, table, net, silent, ended>>

Idle == [pc |-> "idle", tracker |-> None, trx |-> 0, reply |-> "none"]

(* holder: who has locked conn.m; known: an id was received; fresh: less   *)
(* than connectionIDInterval ago.                                          *)
NewConnection == [holder |-> None, known |-> FALSE, fresh |-> FALSE]

TransportInit ==
  /\ call = [c \in Caller |-> Idle]
  /\ conn = [k \in Tracker |-> NewConnection]
  /\ table = {} /\ net = {}
  /\ silent \in SUBSET (Tracker \ Http) /\ ended = {}

Datagram(x, k, type) == [trx |-> x, tracker |-> k, type |-> type]

Trx == 1 .. MaxTrx

Unused == Trx \ ({d.trx : d \in net} \cup {call[c].trx : c \in Caller})

Returned == {"ok", "error", "canceled"}

(* Announce is called for tracker k.                                       *)
Called(k) ==
  [Idle EXCEPT !.pc = IF k \in Http THEN "http" ELSE "resolving", !.tracker = k]

To(c, pc) == call' = [call EXCEPT ![c].pc = pc, ![c].trx = 0, ![c].reply = "none"]

(* retryTransaction: the transaction is entered into the table.            *)
Begin(c, pc) ==
  /\ Unused # {}
  /\ call' = [call EXCEPT ![c].pc = pc, ![c].trx = Min(Unused), ![c].reply = "none"]
  /\ table' = table \cup {Min(Unused)}

Unlocked(c) ==
  conn' = [k \in Tracker |-> IF conn[k].holder = c THEN [conn[k] EXCEPT !.holder = None]
                                                   ELSE conn[k]]

-----------------------------------------------------------------------------
(* HTTPTracker.Announce: the client has a timeout, so it always returns.   *)
HttpAnnounce(c) ==
  /\ call[c].pc = "http"
  /\ \E r \in {"ok", "error"} \cup (IF c \in ended THEN {"canceled"} ELSE {}) : To(c, r)
  /\ UNCHANGED <<conn, table, net, silent, ended>>

(* Transport.Do: listen, unless somebody did, and resolve the host.  Both  *)
(* may fail, and the blocklist may refuse the address.                     *)
Resolve(c) ==
  /\ call[c].pc = "resolving"
  /\ To(c, "locking") \/ To(c, "error")
  /\ UNCHANGED <<conn, table, net, silent, ended>>

(* connectConnection: the lock is kept while connecting, whoever waits.    *)
(* With a fresh id the announcement follows at once (SetConnectionID reads *)
(* the id without the lock, so it may also get a newer one).               *)
LockConnection(c) ==
  LET k == call[c].tracker IN
  /\ call[c].pc = "locking" /\ conn[k].holder = None
  /\ IF conn[k].fresh
     THEN Begin(c, "announcing") /\ UNCHANGED conn
     ELSE Begin(c, "connecting") /\ conn' = [conn EXCEPT ![k].holder = c]
  /\ UNCHANGED <<net, silent, ended>>

Waiting(c) == call[c].pc \in {"connecting", "announcing"}

(* The ticker of retryTransaction: writeTrx.                               *)
Send(c) ==
  LET d == Datagram(call[c].trx, call[c].tracker, "request") IN
  /\ Waiting(c) /\ d \notin net /\ Cardinality(net) < MaxNet
  /\ net' = net \cup {d}
  /\ UNCHANGED <<call, conn, table, silent, ended>>

(* retryTransaction returns.  A connection id is stored, and the           *)
(* announcement follows.  An answer that is an error, or that cannot be    *)
(* decoded or has the wrong action, is an error.                           *)
TrxDone(c) ==
  LET k == call[c].tracker IN
  /\ Waiting(c) /\ call[c].reply # "none"
  /\ IF call[c].pc = "connecting" /\ call[c].reply = "ok"
     THEN /\ conn' = [conn EXCEPT ![k] = [holder |-> None, known |-> TRUE, fresh |-> TRUE]]
          /\ Begin(c, "announcing")
     ELSE Unlocked(c) /\ To(c, call[c].reply) /\ UNCHANGED table
  /\ UNCHANGED <<net, silent, ended>>

(* Its context is done: the transaction is removed, the lock released.     *)
TrxCanceled(c) ==
  /\ Waiting(c) /\ c \in ended
  /\ table' = table \ {call[c].trx}
  /\ Unlocked(c) /\ To(c, "canceled")
  /\ UNCHANGED <<net, silent, ended>>

(* readLoop: the transaction is taken out of the table and told; an answer *)
(* nobody waits for is dropped.  The network may keep a duplicate.         *)
ReadLoopLeavesEntry(d) ==
  /\ d \in net /\ d.type # "request"
  /\ net' \in {net, net \ {d}}
  /\ call' = [c \in Caller |-> IF call[c].trx = d.trx THEN [call[c] EXCEPT !.reply = d.type]
                                                      ELSE call[c]]
  /\ UNCHANGED <<table, conn, silent, ended>>

ReadLoop(d) ==
  /\ d \in net /\ d.type # "request"
  /\ net' \in {net, net \ {d}}
  /\ table' = table \ {d.trx}
  /\ call' = [c \in Caller |-> IF call[c].trx = d.trx /\ d.trx \in table
                               THEN [call[c] EXCEPT !.reply = d.type] ELSE call[c]]
  /\ UNCHANGED <<conn, silent, ended>>

(* Reading fails, or the transport is closed: the loop ends and nobody     *)
(* starts it again, so that no UDP tracker is heard any more.              *)
ReadLoopEnds ==
  /\ silent # Tracker \ Http /\ silent' = Tracker \ Http
  /\ net' = {d \in net : d.type = "request"}
  /\ UNCHANGED <<call, conn, table, ended>>

-----------------------------------------------------------------------------
(* The world: a tracker answers, a datagram is lost, a minute passes.      *)
Answer(d) ==
  /\ d \in net /\ d.type = "request" /\ d.tracker \notin silent
  /\ \E r \in {"ok", "error"} : net' = (net \ {d}) \cup {[d EXCEPT !.type = r]}
  /\ UNCHANGED <<call, conn, table, silent, ended>>

Lose(d) ==
  /\ d \in net /\ net' = net \ {d}
  /\ UNCHANGED <<call, conn, table, silent, ended>>

Expire(k) ==
  /\ conn[k].fresh /\ conn' = [conn EXCEPT ![k].fresh = FALSE]
  /\ UNCHANGED <<call, table, net, silent, ended>>

CallStep(c) ==
  \/ HttpAnnounce(c) \/ Resolve(c) \/ LockConnection(c)
  \/ TrxDone(c) \/ TrxCanceled(c)

WorldStep ==
  \/ \E d \in net : ReadLoop(d) \/ Answer(d) \/ Lose(d)
  \/ ReadLoopEnds
  \/ \E k \in Tracker : Expire(k)

-----------------------------------------------------------------------------
TransportOK ==
  /\ call \in [Caller -> [pc : {"idle", "http", "resolving", "locking", "connecting",
                                "announcing"} \cup Returned,
                          tracker : Tracker \cup {None}, trx : Trx \cup {0},
                          reply : {"none", "ok", "error"}]]
  /\ conn \in [Tracker -> [holder : Caller \cup {None}, known : BOOLEAN, fresh : BOOLEAN]]
  /\ table \subseteq Trx /\ Cardinality(net) <= MaxNet
  /\ silent \subseteq Tracker /\ ended \subseteq Caller

(* The table holds exactly the transactions somebody still waits for, so   *)
(* that no transaction is told twice (its channel would be closed twice)   *)
(* or left behind by a cancelled caller; a connection is locked exactly by *)
(* the caller that connects it; and no announcement is sent without a      *)
(* connection id of the tracker.                                           *)
TransactionsTracked ==
  /\ TransportOK
  /\ table = {call[c].trx : c \in {e \in Caller : Waiting(e) /\ call[e].reply = "none"}}
  /\ \A c, e \in Caller : call[c].trx = call[e].trx => c = e \/ call[c].trx = 0
  /\ \A k \in Tracker, c \in Caller :
        conn[k].holder = c <=> call[c].pc = "connecting" /\ call[c].tracker = k
  /\ \A c \in Caller :
        call[c].pc = "announcing" => conn[call[c].tracker].known
=============================================================================
