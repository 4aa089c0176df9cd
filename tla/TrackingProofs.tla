--------------------------- MODULE TrackingProofs ---------------------------
(***************************************************************************)
(* Proofs about the announcers and the UDP transport they share, for any   *)
(* number of callers, trackers and transactions: the table of transactions *)
(* and the locks of connections stay true to what the callers do, and      *)
(* something will always wake the announcer.                               *)
(***************************************************************************)
EXTENDS Tracking, WellFoundedInduction, FiniteSetTheorems, TLAPS

CallRecord ==
  [pc : {"idle", "http", "resolving", "locking", "connecting", "announcing"} \cup Returned,
   tracker : Tracker \cup {None}, trx : Trx \cup {0}, reply : {"none", "ok", "error"}]

ConnRecord == [holder : Caller \cup {None}, known : BOOLEAN, fresh : BOOLEAN]

DatagramRecord == [trx : Trx, tracker : Tracker, type : {"request", "ok", "error"}]

(* A call that waits for an answer.                                        *)
InTrx(r) == r.pc \in {"connecting", "announcing"}
Pending(r) == InTrx(r) /\ r.reply = "none"

(* A call has a transaction, and perhaps its answer, exactly as long as it *)
(* waits for one, and a tracker as long as it lasts.                       *)
CallOK(r) ==
  /\ r.pc # "idle" => r.tracker \in Tracker
  /\ InTrx(r) <=> r.trx # 0
  /\ ~InTrx(r) => r.reply = "none"

Types ==
  /\ call \in [Caller -> CallRecord] /\ conn \in [Tracker -> ConnRecord]
  /\ table \subseteq Trx /\ silent \subseteq Tracker /\ ended \subseteq Caller

Calls == \A c \in Caller : CallOK(call[c])

(* The table has the transactions that wait, each of one caller.           *)
Table ==
  /\ \A x \in Trx : x \in table <=> \E c \in Caller : Pending(call[c]) /\ call[c].trx = x
  /\ \A c, e \in Caller : call[c].trx = call[e].trx => c = e \/ call[c].trx = 0

(* A connection is locked by whoever connects it, and an id that is fresh  *)
(* or used is known.                                                       *)
Locks ==
  /\ \A k \in Tracker, c \in Caller :
        conn[k].holder = c <=> call[c].pc = "connecting" /\ call[c].tracker = k
  /\ \A k \in Tracker : conn[k].fresh => conn[k].known
  /\ \A c \in Caller : call[c].pc = "announcing" => conn[call[c].tracker].known

Net == net \subseteq DatagramRecord /\ IsFiniteSet(net) /\ Cardinality(net) <= MaxNet

(* Only what runs is cancelled, and only what is cancelled says so.        *)
Contexts ==
  \A c \in Caller : /\ c \in ended => call[c].pc # "idle"
                    /\ call[c].pc = "canceled" => c \in ended

(* The tier has a current tracker, and the stop announcer starts afresh.   *)
Loops ==
  /\ index \in 1 .. Len(Tier)
  /\ stop = "off" => \A c \in Stopper : call[c].pc = "idle"

(* The inductive invariant.                                                *)
IInv == Types /\ Calls /\ Table /\ Locks /\ Net /\ Contexts /\ Loops /\ NeverIdle
-----------------------------------------------------------------------------
(* Operators.                                                              *)

(* The transaction id that is drawn is one that nobody uses.               *)
LEMMA DrawnUnused ==
  ASSUME Unused # {}
  PROVE  Min(Unused) \in Unused /\ Min(Unused) \in Trx
PROOF
  <1>1. Unused \subseteq Trx /\ Trx \subseteq Nat
    BY TransportAssumption DEF Unused, Trx
  <1>2. \E x \in Unused : \A y \in Unused : <<y, x>> \notin OpToRel(<, Nat)
    BY <1>1, WFMin, NatLessThanWellFounded, IsWellFoundedOnSubset
  <1>3. \E x \in Unused : \A y \in Unused : x <= y
    <2>1. PICK x \in Unused : \A y \in Unused : <<y, x>> \notin OpToRel(<, Nat)
      BY <1>2
    <2>2. \A y \in Unused : ~(y < x)
      BY <1>1, <2>1 DEF OpToRel
    <2>3. \A y \in Unused : x <= y
      BY <1>1, <2>2
    <2>4. QED
      BY <2>3
  <1>4. Min(Unused) \in Unused
    BY <1>3 DEF Min
  <1>5. QED
    BY <1>1, <1>4

(* Where a call goes: into another state, without a transaction,           *)
LEMMA ToMoves ==
  ASSUME Types, NEW c \in Caller, NEW pc, To(c, pc),
         pc \in {"idle", "http", "resolving", "locking", "connecting", "announcing"} \cup Returned
  PROVE  LET new == [call[c] EXCEPT !.pc = pc, !.trx = 0, !.reply = "none"]
         IN /\ new \in CallRecord /\ call' = [call EXCEPT ![c] = new]
            /\ new.pc = pc /\ new.trx = 0 /\ new.reply = "none" /\ new.tracker = call[c].tracker
PROOF
  <1>1. call[c] \in CallRecord
    BY DEF Types
  <1>2. call' = [call EXCEPT ![c] = [call[c] EXCEPT !.pc = pc, !.trx = 0, !.reply = "none"]]
    BY DEF Types, To, CallRecord
  <1>3. QED
    BY <1>1, <1>2 DEF CallRecord

(* or into a new transaction.                                              *)
LEMMA BeginMoves ==
  ASSUME Types, NEW c \in Caller, NEW pc \in {"connecting", "announcing"}, Begin(c, pc)
  PROVE  LET x == Min(Unused)
             new == [call[c] EXCEPT !.pc = pc, !.trx = x, !.reply = "none"]
         IN /\ x \in Unused /\ x \in Trx /\ table' = table \cup {x}
            /\ new \in CallRecord /\ call' = [call EXCEPT ![c] = new]
            /\ new.pc = pc /\ new.trx = x /\ new.reply = "none" /\ new.tracker = call[c].tracker
PROOF
  <1> DEFINE x == Min(Unused)
  <1>1. call[c] \in CallRecord
    BY DEF Types
  <1>2. x \in Unused /\ x \in Trx
    BY DrawnUnused DEF Begin
  <1>3. /\ call' = [call EXCEPT ![c].pc = pc, ![c].trx = x, ![c].reply = "none"]
        /\ table' = table \cup {x}
    BY DEF Begin
  <1> HIDE DEF x
  <1>4. call' = [call EXCEPT ![c] = [call[c] EXCEPT !.pc = pc, !.trx = x, !.reply = "none"]]
    BY <1>3 DEF Types, CallRecord
  <1>5. [call[c] EXCEPT !.pc = pc, !.trx = x, !.reply = "none"] \in CallRecord
    BY <1>1, <1>2 DEF CallRecord
  <1>6. QED
    BY <1>1, <1>2, <1>3, <1>4, <1>5 DEF CallRecord, x

-----------------------------------------------------------------------------
(* Steps of one caller.                                                    *)

(* The caller c goes from a call to another one, out of the old            *)
(* transaction, if it had one, and into a new one, if it has one.          *)
Moves(c, new) ==
  /\ new \in CallRecord /\ call' = [call EXCEPT ![c] = new]
  /\ CallOK(new)
  /\ new.trx # 0 => new.reply = "none" /\ new.trx \in Unused
  /\ table' = (table \ {call[c].trx}) \cup (IF new.trx = 0 THEN {} ELSE {new.trx})

(* A call that moves on registers or deletes its own transaction and       *)
(* touches no other.                                                       *)
LEMMA MoveKeeps ==
  ASSUME IInv, NEW c \in Caller, NEW new, Moves(c, new)
  PROVE  /\ call' \in [Caller -> CallRecord] /\ table' \subseteq Trx
         /\ Calls' /\ Table'
         /\ call'[c] = new /\ \A e \in Caller : e # c => call'[e] = call[e]
PROOF
  <1>1. /\ call \in [Caller -> CallRecord] /\ new \in CallRecord /\ CallOK(new)
        /\ call' = [call EXCEPT ![c] = new] /\ table \subseteq Trx /\ Calls
        /\ new.trx \in Trx \cup {0} /\ 0 \notin Trx
    BY TransportAssumption DEF IInv, Types, Moves, CallRecord, Trx
  <1>2. call'[c] = new /\ \A e \in Caller : e # c => call'[e] = call[e]
    BY <1>1
  <1>3. call' \in [Caller -> CallRecord] /\ table' \subseteq Trx
    BY <1>1 DEF Moves
  <1>4. Calls'
    BY <1>1, <1>2 DEF Calls
  <1>5. \A e \in Caller : e # c /\ new.trx # 0 => call[e].trx # new.trx
    BY DEF Moves, Unused
  <1>6. \A d, e \in Caller : call'[d].trx = call'[e].trx => d = e \/ call'[d].trx = 0
    BY <1>2, <1>5 DEF IInv, Table
  <1>7. \A x \in Trx : x \in table' <=> \E e \in Caller : Pending(call'[e]) /\ call'[e].trx = x
    <2> SUFFICES ASSUME NEW x \in Trx
                 PROVE  x \in table' <=> \E e \in Caller : Pending(call'[e]) /\ call'[e].trx = x
      OBVIOUS
    <2>1. x \in table' <=> (x \in table /\ x # call[c].trx) \/ x = new.trx
      BY <1>1 DEF Moves
    <2>2. x \in table <=> \E e \in Caller : Pending(call[e]) /\ call[e].trx = x
      BY DEF IInv, Table
    <2>3. x = new.trx => Pending(new)
      BY <1>1 DEF Moves, CallOK, Pending
    <2>4. \A e \in Caller : e # c /\ call[e].trx = x => x # call[c].trx
      BY <1>1 DEF IInv, Table
    <2>5. QED
      BY <1>2, <2>1, <2>2, <2>3, <2>4
  <1>8. QED
    BY <1>2, <1>3, <1>4, <1>6, <1>7 DEF Table

(* A call without a transaction takes nothing out of the table.            *)
LEMMA NotInTable ==
  ASSUME IInv, NEW c \in Caller, ~Pending(call[c])
  PROVE  table \ {call[c].trx} = table
PROOF
  <1>1. table \subseteq Trx /\ 0 \notin Trx
    BY TransportAssumption DEF IInv, Types, Trx
  <1>2. call[c].trx \notin table
    BY <1>1 DEF IInv, Table
  <1>3. QED
    BY <1>2

(* The locks, if the caller neither connects nor announces before or after.*)
LEMMA LocksApart ==
  ASSUME IInv, NEW c \in Caller, \A e \in Caller : e # c => call'[e] = call[e],
         ~InTrx(call[c]), ~InTrx(call'[c]), conn' = conn
  PROVE  Locks'
PROOF
  BY DEF IInv, Locks, InTrx

(* The locks, if it gives up whatever it locked.                           *)
LEMMA LocksReleased ==
  ASSUME IInv, NEW c \in Caller, \A e \in Caller : e # c => call'[e] = call[e],
         ~InTrx(call'[c]), Unlocked(c)
  PROVE  Locks' /\ conn' \in [Tracker -> ConnRecord]
PROOF
  <1>1. conn \in [Tracker -> ConnRecord] /\ None \notin Caller
    BY TransportAssumption DEF IInv, Types
  <1>2. \A k \in Tracker : /\ conn'[k] \in ConnRecord
                           /\ conn'[k].holder = (IF conn[k].holder = c THEN None ELSE conn[k].holder)
                           /\ conn'[k].known = conn[k].known /\ conn'[k].fresh = conn[k].fresh
    BY <1>1 DEF Unlocked, ConnRecord
  <1>3. conn' \in [Tracker -> ConnRecord]
    BY <1>2 DEF Unlocked
  <1>4. \A k \in Tracker, e \in Caller :
          conn'[k].holder = e <=> call'[e].pc = "connecting" /\ call'[e].tracker = k
    BY <1>1, <1>2 DEF IInv, Locks, InTrx
  <1>5. \A k \in Tracker : conn'[k].fresh => conn'[k].known
    BY <1>2 DEF IInv, Locks
  <1>6. \A e \in Caller : call'[e].pc = "announcing" => conn'[call'[e].tracker].known
    <2> SUFFICES ASSUME NEW e \in Caller, call'[e].pc = "announcing"
                 PROVE  conn'[call'[e].tracker].known
      OBVIOUS
    <2>1. e # c /\ call'[e] = call[e]
      BY DEF InTrx
    <2>2. call[e].tracker \in Tracker
      BY <2>1 DEF IInv, Calls, CallOK
    <2>3. QED
      BY <1>2, <2>1, <2>2 DEF IInv, Locks
  <1>7. QED
    BY <1>3, <1>4, <1>5, <1>6 DEF Locks

(* A step within Announce concerns neither the loop nor the contexts.      *)
LEMMA LoopApart ==
  ASSUME IInv, NEW c \in Caller, \A e \in Caller : e # c => call'[e] = call[e],
         call[c].pc # "idle", call'[c].pc # "idle", call'[c].pc = "canceled" => c \in ended,
         ended' = ended, run' = run, status' = status, armed' = armed, stop' = stop,
         index' \in 1 .. Len(Tier)
  PROVE  Contexts' /\ Loops' /\ NeverIdle'
PROOF
  <1>1. Contexts'
    BY DEF IInv, Contexts
  <1>2. Loops'
    BY TrackingAssumption DEF IInv, Loops
  <1>3. Live(Periodic)' = Live(Periodic)
    BY TrackingAssumption DEF Live
  <1>4. NeverIdle'
    BY <1>3, Zenon DEF IInv, NeverIdle
  <1>5. QED
    BY <1>1, <1>2, <1>4

(* HTTPTracker.Announce, and Transport.Do up to the lock.                  *)
LEMMA PlainStep ==
  ASSUME IInv, NEW c \in Caller, HttpAnnounce(c) \/ Resolve(c)
  PROVE  /\ \E new : Moves(c, new) /\ new.pc # "idle" /\ (new.pc = "canceled" => c \in ended)
         /\ Locks' /\ conn' \in [Tracker -> ConnRecord]
PROOF
  <1>1. /\ call[c].pc \in {"http", "resolving"} /\ conn' = conn /\ table' = table /\ Types
    BY DEF HttpAnnounce, Resolve, IInv
  <1>2. PICK pc \in {"ok", "error", "canceled", "locking"} : To(c, pc) /\ (pc = "canceled" => c \in ended)
    BY DEF HttpAnnounce, Resolve
  <1> DEFINE new == [call[c] EXCEPT !.pc = pc, !.trx = 0, !.reply = "none"]
  <1>3. /\ new \in CallRecord /\ call' = [call EXCEPT ![c] = new]
        /\ new.pc = pc /\ new.trx = 0 /\ new.reply = "none" /\ new.tracker = call[c].tracker
    BY <1>1, <1>2, ToMoves DEF Returned
  <1> HIDE DEF new
  <1>4. CallOK(new) /\ ~InTrx(new) /\ ~InTrx(call[c]) /\ ~Pending(call[c])
    BY <1>1, <1>3 DEF CallOK, InTrx, Pending, IInv, Calls
  <1>5. table \ {call[c].trx} = table
    BY <1>4, NotInTable
  <1>6. Moves(c, new)
    BY <1>1, <1>3, <1>4, <1>5 DEF Moves
  <1>7. call'[c] = new /\ \A e \in Caller : e # c => call'[e] = call[e]
    BY <1>6, MoveKeeps
  <1>8. Locks'
    BY <1>1, <1>4, <1>7, LocksApart
  <1>9. QED
    BY <1>1, <1>2, <1>3, <1>6, <1>8 DEF IInv, Types

(* The connection is locked, or its id is fresh.                           *)
LEMMA LockStep ==
  ASSUME IInv, NEW c \in Caller, LockConnection(c)
  PROVE  /\ \E new : Moves(c, new) /\ new.pc \notin {"idle", "canceled"}
         /\ Locks' /\ conn' \in [Tracker -> ConnRecord]
PROOF
  <1> DEFINE k == call[c].tracker
  <1>1. /\ call[c].pc = "locking" /\ k \in Tracker /\ conn[k].holder = None /\ Types
        /\ conn \in [Tracker -> ConnRecord] /\ None \notin Caller /\ 0 \notin Trx
    BY TransportAssumption DEF LockConnection, IInv, Calls, CallOK, Types, Trx
  <1>2. PICK pc \in {"connecting", "announcing"} :
          /\ Begin(c, pc)
          /\ \/ pc = "announcing" /\ conn[k].fresh /\ conn' = conn
             \/ pc = "connecting" /\ conn' = [conn EXCEPT ![k].holder = c]
    BY DEF LockConnection
  <1> DEFINE x == Min(Unused)
             new == [call[c] EXCEPT !.pc = pc, !.trx = x, !.reply = "none"]
  <1>3. /\ x \in Unused /\ x \in Trx /\ table' = table \cup {x}
        /\ new \in CallRecord /\ call' = [call EXCEPT ![c] = new]
        /\ new.pc = pc /\ new.trx = x /\ new.reply = "none" /\ new.tracker = k
    BY <1>1, <1>2, BeginMoves
  <1> HIDE DEF new, x
  <1>4. CallOK(new) /\ ~Pending(call[c])
    BY <1>1, <1>2, <1>3 DEF CallOK, InTrx, Pending
  <1>5. table \ {call[c].trx} = table
    BY <1>4, NotInTable
  <1>6. Moves(c, new)
    BY <1>1, <1>3, <1>4, <1>5 DEF Moves
  <1>7. call'[c] = new /\ \A e \in Caller : e # c => call'[e] = call[e]
    BY <1>6, MoveKeeps
  <1>8. conn' \in [Tracker -> ConnRecord]
    BY <1>1, <1>2 DEF ConnRecord
  <1>9. /\ \A j \in Tracker : conn'[j].known = conn[j].known /\ conn'[j].fresh = conn[j].fresh
        /\ \A j \in Tracker : conn'[j].holder =
             IF j = k /\ pc = "connecting" THEN c ELSE conn[j].holder
    BY <1>1, <1>2 DEF ConnRecord
  <1>10. Locks'
    <2>1. \A j \in Tracker, e \in Caller :
            conn'[j].holder = e <=> call'[e].pc = "connecting" /\ call'[e].tracker = j
      BY <1>1, <1>3, <1>7, <1>9 DEF IInv, Locks
    <2>2. \A j \in Tracker : conn'[j].fresh => conn'[j].known
      BY <1>9 DEF IInv, Locks
    <2>3. \A e \in Caller : call'[e].pc = "announcing" => conn'[call'[e].tracker].known
      <3> SUFFICES ASSUME NEW e \in Caller, call'[e].pc = "announcing"
                   PROVE  conn'[call'[e].tracker].known
        OBVIOUS
      <3>1. CASE e = c
        BY <1>1, <1>2, <1>3, <1>7, <1>9, <3>1 DEF IInv, Locks
      <3>2. CASE e # c
        <4>1. call'[e] = call[e] /\ call[e].tracker \in Tracker
          BY <1>7, <3>2 DEF IInv, Calls, CallOK
        <4>2. QED
          BY <1>9, <4>1 DEF IInv, Locks
      <3>3. QED
        BY <3>1, <3>2
    <2>4. QED
      BY <2>1, <2>2, <2>3 DEF Locks
  <1>11. QED
    BY <1>2, <1>3, <1>6, <1>8, <1>10

(* The answer has come: the announcement follows the connection id, or the *)
(* call returns.                                                           *)
LEMMA DoneStep ==
  ASSUME IInv, NEW c \in Caller, TrxDone(c)
  PROVE  /\ \E new : Moves(c, new) /\ new.pc \notin {"idle", "canceled"}
         /\ Locks' /\ conn' \in [Tracker -> ConnRecord]
PROOF
  <1> DEFINE k == call[c].tracker
  <1>1. /\ InTrx(call[c]) /\ k \in Tracker /\ call[c].reply \in {"ok", "error"} /\ Types
        /\ conn \in [Tracker -> ConnRecord] /\ None \notin Caller /\ 0 \notin Trx
    BY TransportAssumption
       DEF TrxDone, IInv, Calls, CallOK, Types, Waiting, InTrx, Trx, CallRecord
  <1>2. ~Pending(call[c])
    BY <1>1 DEF Pending
  <1>3. table \ {call[c].trx} = table
    BY <1>2, NotInTable
  <1>4. CASE call[c].pc = "connecting" /\ call[c].reply = "ok"
    <2> DEFINE x == Min(Unused)
               new == [call[c] EXCEPT !.pc = "announcing", !.trx = x, !.reply = "none"]
    <2>1. /\ conn' = [conn EXCEPT ![k] = [holder |-> None, known |-> TRUE, fresh |-> TRUE]]
          /\ Begin(c, "announcing")
      BY <1>4 DEF TrxDone
    <2>2. /\ x \in Unused /\ x \in Trx /\ table' = table \cup {x}
          /\ new \in CallRecord /\ call' = [call EXCEPT ![c] = new]
          /\ new.pc = "announcing" /\ new.trx = x /\ new.reply = "none" /\ new.tracker = k
      BY <1>1, <2>1, BeginMoves
    <2> HIDE DEF new, x
    <2>3. CallOK(new)
      BY <1>1, <2>2 DEF CallOK, InTrx
    <2>4. Moves(c, new)
      BY <1>1, <1>3, <2>2, <2>3 DEF Moves
    <2>5. call'[c] = new /\ \A e \in Caller : e # c => call'[e] = call[e]
      BY <2>4, MoveKeeps
    <2>6. conn' \in [Tracker -> ConnRecord]
      BY <1>1, <2>1 DEF ConnRecord
    <2>7. /\ conn'[k].holder = None /\ conn'[k].known /\ conn'[k].fresh
          /\ \A j \in Tracker : j # k => conn'[j] = conn[j]
      BY <1>1, <2>1
    <2>8. conn[k].holder = c
      BY <1>1, <1>4 DEF IInv, Locks
    <2>9. \A j \in Tracker, e \in Caller :
            conn'[j].holder = e <=> call'[e].pc = "connecting" /\ call'[e].tracker = j
      <3> SUFFICES ASSUME NEW j \in Tracker, NEW e \in Caller
                   PROVE  conn'[j].holder = e <=> call'[e].pc = "connecting" /\ call'[e].tracker = j
        OBVIOUS
      <3>1. conn[j].holder = e <=> call[e].pc = "connecting" /\ call[e].tracker = j
        BY DEF IInv, Locks
      <3>2. CASE e = c
        BY <1>1, <2>2, <2>5, <2>7, <3>1, <3>2
      <3>3. CASE e # c
        BY <1>1, <2>5, <2>7, <2>8, <3>1, <3>3
      <3>4. QED
        BY <3>2, <3>3
    <2>10. \A j \in Tracker : conn'[j].fresh => conn'[j].known
      BY <2>7 DEF IInv, Locks
    <2>11. \A e \in Caller : call'[e].pc = "announcing" => conn'[call'[e].tracker].known
      <3> SUFFICES ASSUME NEW e \in Caller, call'[e].pc = "announcing"
                   PROVE  conn'[call'[e].tracker].known
        OBVIOUS
      <3>1. CASE e = c
        BY <2>2, <2>5, <2>7, <3>1
      <3>2. CASE e # c
        <4>1. call'[e] = call[e] /\ call[e].tracker \in Tracker
          BY <2>5, <3>2 DEF IInv, Calls, CallOK
        <4>2. conn[call[e].tracker].known
          BY <4>1 DEF IInv, Locks
        <4>3. QED
          BY <2>7, <4>1, <4>2
      <3>3. QED
        BY <3>1, <3>2
    <2>12. QED
      BY <2>2, <2>4, <2>6, <2>9, <2>10, <2>11 DEF Locks
  <1>5. CASE ~(call[c].pc = "connecting" /\ call[c].reply = "ok")
    <2> DEFINE new == [call[c] EXCEPT !.pc = call[c].reply, !.trx = 0, !.reply = "none"]
    <2>1. Unlocked(c) /\ To(c, call[c].reply) /\ table' = table
      BY <1>5 DEF TrxDone
    <2>2. /\ new \in CallRecord /\ call' = [call EXCEPT ![c] = new]
          /\ new.pc = call[c].reply /\ new.trx = 0 /\ new.reply = "none" /\ new.tracker = k
      <3>1. call[c].reply \in {"idle", "http", "resolving", "locking", "connecting", "announcing"}
                               \cup Returned
        BY <1>1 DEF Returned
      <3>2. QED
        BY <1>1, <2>1, <3>1, ToMoves
    <2> HIDE DEF new
    <2>3. CallOK(new) /\ ~InTrx(new)
      BY <1>1, <2>2 DEF CallOK, InTrx
    <2>4. Moves(c, new)
      BY <1>3, <2>1, <2>2, <2>3 DEF Moves
    <2>5. call'[c] = new /\ \A e \in Caller : e # c => call'[e] = call[e]
      BY <2>4, MoveKeeps
    <2>6. Locks' /\ conn' \in [Tracker -> ConnRecord]
      BY <2>1, <2>3, <2>5, LocksReleased
    <2>7. QED
      BY <1>1, <2>2, <2>4, <2>6
  <1>6. QED
    BY <1>4, <1>5

(* The context is done: the transaction and the lock are given up.         *)
LEMMA CanceledStep ==
  ASSUME IInv, NEW c \in Caller, TrxCanceled(c)
  PROVE  /\ \E new : Moves(c, new) /\ new.pc = "canceled"
         /\ c \in ended /\ Locks' /\ conn' \in [Tracker -> ConnRecord]
PROOF
  <1>1. /\ InTrx(call[c]) /\ call[c].tracker \in Tracker /\ Types /\ c \in ended
        /\ table' = table \ {call[c].trx} /\ Unlocked(c) /\ To(c, "canceled")
    BY DEF TrxCanceled, IInv, Calls, CallOK, Waiting, InTrx
  <1> DEFINE new == [call[c] EXCEPT !.pc = "canceled", !.trx = 0, !.reply = "none"]
  <1>2. /\ new \in CallRecord /\ call' = [call EXCEPT ![c] = new] /\ new.pc = "canceled"
        /\ new.trx = 0 /\ new.reply = "none" /\ new.tracker = call[c].tracker
    <2>1. PICK pc : pc = "canceled"
      OBVIOUS
    <2>2. pc \in {"idle", "http", "resolving", "locking", "connecting", "announcing"}
                          \cup Returned
      BY <2>1 DEF Returned
    <2>3. To(c, pc)
      BY <1>1, <2>1
    <2>4. QED
      <3> DEFINE go == [call[c] EXCEPT !.pc = pc, !.trx = 0, !.reply = "none"]
      <3>1. /\ go \in CallRecord /\ call' = [call EXCEPT ![c] = go]
            /\ go.pc = pc /\ go.trx = 0 /\ go.reply = "none" /\ go.tracker = call[c].tracker
        BY <1>1, <2>2, <2>3, ToMoves
      <3>2. new = go
        BY <2>1
      <3> HIDE DEF go, new
      <3>3. QED
        BY <3>1, <3>2, <2>1, Zenon
  <1> HIDE DEF new
  <1>3. CallOK(new) /\ ~InTrx(new)
    BY <1>1, <1>2 DEF CallOK, InTrx
  <1>4. Moves(c, new)
    BY <1>1, <1>2, <1>3 DEF Moves
  <1>5. call'[c] = new /\ \A e \in Caller : e # c => call'[e] = call[e]
    BY <1>4, MoveKeeps
  <1>6. Locks' /\ conn' \in [Tracker -> ConnRecord]
    BY <1>1, <1>3, <1>5, LocksReleased
  <1>7. QED
    BY <1>1, <1>2, <1>4, <1>6

(* A step of a caller within Tier.Announce.                                *)
LEMMA TierKeeps ==
  ASSUME IInv, NEW c \in Caller, TierStep(c)
  PROVE  IInv'
PROOF
  <1>1. /\ CallStep(c) /\ run' = run /\ status' = status /\ armed' = armed /\ stop' = stop
    BY DEF TierStep, loopVars
  <1>2. index' \in 1 .. Len(Tier)
    <2>1. index \in 1 .. Len(Tier) /\ Len(Tier) \in Nat \ {0}
      BY TrackingAssumption DEF IInv, Loops
    <2>2. (index % Len(Tier)) + 1 \in 1 .. Len(Tier)
      BY <2>1
    <2>3. index' \in {index, (index % Len(Tier)) + 1}
      BY DEF TierStep
    <2>4. QED
      BY <2>1, <2>2, <2>3
  <1>3. net' = net /\ silent' = silent /\ ended' = ended /\ call[c].pc # "idle"
    BY <1>1 DEF CallStep, HttpAnnounce, Resolve, LockConnection, TrxDone, TrxCanceled, Waiting
  <1>4. /\ \E new : Moves(c, new) /\ new.pc # "idle" /\ (new.pc = "canceled" => c \in ended)
        /\ Locks' /\ conn' \in [Tracker -> ConnRecord]
    BY <1>1, PlainStep, LockStep, DoneStep, CanceledStep DEF CallStep
  <1>5. PICK new : Moves(c, new) /\ new.pc # "idle" /\ (new.pc = "canceled" => c \in ended)
    BY <1>4
  <1>6. /\ call' \in [Caller -> CallRecord] /\ table' \subseteq Trx /\ Calls' /\ Table'
        /\ call'[c] = new /\ \A e \in Caller : e # c => call'[e] = call[e]
    BY <1>5, MoveKeeps
  <1>7. Contexts' /\ Loops' /\ NeverIdle'
    BY <1>1, <1>2, <1>3, <1>5, <1>6, LoopApart
  <1>8. Net' /\ Types'
    BY <1>3, <1>4, <1>6 DEF IInv, Net, Types
  <1>9. QED
    BY <1>4, <1>6, <1>7, <1>8 DEF IInv

(* The call of c ends: whoever made it takes the result or gives it up.    *)
LEMMA CallEnds ==
  ASSUME IInv, NEW c \in Caller, call[c].pc \in Returned, call' = [call EXCEPT ![c] = Idle],
         ended' = ended \ {c}, UNCHANGED <<conn, table, net, silent, index, stop>>
  PROVE  /\ Types' /\ Calls' /\ Table' /\ Locks' /\ Net' /\ Contexts' /\ Loops'
         /\ call'[c] = Idle /\ \A e \in Caller : e # c => call'[e] = call[e]
PROOF
  <1>1. /\ conn' = conn /\ table' = table /\ net' = net /\ silent' = silent /\ index' = index
        /\ stop' = stop
    OBVIOUS
  <1>2. /\ Idle \in CallRecord /\ Idle.pc = "idle" /\ Idle.trx = 0 /\ Idle.reply = "none"
        /\ CallOK(Idle) /\ ~InTrx(Idle) /\ ~InTrx(call[c]) /\ ~Pending(call[c])
    BY DEF Idle, CallRecord, CallOK, InTrx, Returned, Pending
  <1>3. table \ {call[c].trx} = table
    BY <1>2, NotInTable
  <1>4. Moves(c, Idle)
    BY <1>1, <1>2, <1>3 DEF Moves
  <1>5. /\ call' \in [Caller -> CallRecord] /\ table' \subseteq Trx /\ Calls' /\ Table'
        /\ call'[c] = Idle /\ \A e \in Caller : e # c => call'[e] = call[e]
    BY <1>4, MoveKeeps
  <1>6. Locks'
    BY <1>1, <1>2, <1>5, LocksApart
  <1>7. Types' /\ Net'
    BY <1>1, <1>5 DEF IInv, Types, Net
  <1>8. Contexts'
    BY <1>2, <1>5 DEF IInv, Contexts
  <1>9. Loops'
    BY <1>1, <1>2, <1>5, TrackingAssumption DEF IInv, Loops
  <1>10. QED
    BY <1>5, <1>6, <1>7, <1>8, <1>9

(* The announcer's loop receives a result.                                 *)
LEMMA ResultKeeps ==
  ASSUME IInv, NEW c \in Periodic, HandleResult(c)
  PROVE  IInv'
PROOF
  <1>1. /\ c \in Caller /\ call[c].pc \in Returned /\ call' = [call EXCEPT ![c] = Idle]
        /\ ended' = ended \ {c} /\ UNCHANGED <<conn, table, net, silent, index, stop>>
    BY TrackingAssumption DEF HandleResult, Returned
  <1>2. Types' /\ Calls' /\ Table' /\ Locks' /\ Net' /\ Contexts' /\ Loops'
    BY <1>1, CallEnds
  <1>3. status' # "Contacting" /\ armed'
    BY DEF HandleResult
  <1>4. NeverIdle'
    BY <1>3 DEF NeverIdle
  <1>5. QED
    BY <1>2, <1>4 DEF IInv

(* A goroutine of the announcer gives up: its context was done.            *)
LEMMA GiveUpKeeps ==
  ASSUME IInv, NEW c \in Caller, GiveUp(c)
  PROVE  IInv'
PROOF
  <1>1. /\ call[c].pc \in Returned /\ call' = [call EXCEPT ![c] = Idle] /\ c \in ended
        /\ ended' = ended \ {c} /\ UNCHANGED <<conn, table, net, silent, index, stop>>
        /\ run' = run /\ status' = status /\ armed' = armed
    BY DEF GiveUp, Returned, loopVars, IInv, Contexts
  <1>2. /\ Types' /\ Calls' /\ Table' /\ Locks' /\ Net' /\ Contexts' /\ Loops'
        /\ call'[c] = Idle /\ \A e \in Caller : e # c => call'[e] = call[e]
    BY <1>1, CallEnds
  <1>3. (Live(Periodic) \ ended)' = Live(Periodic) \ ended
    BY <1>1, <1>2, TrackingAssumption DEF Live, Idle
  <1>4. NeverIdle'
    BY <1>1, <1>3, Zenon DEF IInv, NeverIdle
  <1>5. QED
    BY <1>2, <1>4 DEF IInv

(* A call of the stop announcer ends.                                      *)
LEMMA StopCallKeeps ==
  ASSUME IInv, NEW c \in Caller, StopCallEnds(c)
  PROVE  IInv'
PROOF
  <1>1. /\ call[c].pc \in Returned /\ call' = [call EXCEPT ![c] = Idle] /\ c \notin Periodic
        /\ ended' = ended \ {c} /\ UNCHANGED <<conn, table, net, silent, index, stop>>
        /\ run' = run /\ status' = status /\ armed' = armed
    BY TrackingAssumption DEF StopCallEnds, loopVars
  <1>2. /\ Types' /\ Calls' /\ Table' /\ Locks' /\ Net' /\ Contexts' /\ Loops'
        /\ call'[c] = Idle /\ \A e \in Caller : e # c => call'[e] = call[e]
    BY <1>1, CallEnds
  <1>3. (Live(Periodic) \ ended)' = Live(Periodic) \ ended
    BY <1>1, <1>2, TrackingAssumption DEF Live
  <1>4. NeverIdle'
    BY <1>1, <1>3, Zenon DEF IInv, NeverIdle
  <1>5. QED
    BY <1>2, <1>4 DEF IInv

(* doAnnounce: a goroutine starts whose context is not done, whatever      *)
(* contexts end at the same time.                                          *)
LEMMA AnnounceKeeps ==
  ASSUME IInv, DoAnnounce, UNCHANGED <<conn, table, net, silent, index, stop>>,
         ended' \in {ended, ended \cup Live(Periodic)}
  PROVE  IInv'
PROOF
  <1> DEFINE c == CHOOSE c \in Periodic \ Live(Periodic) : TRUE
             new == Called(Tier[index])
  <1>1. /\ conn' = conn /\ table' = table /\ net' = net /\ silent' = silent /\ index' = index
        /\ stop' = stop /\ status' = "Contacting" /\ call' = [call EXCEPT ![c] = new]
    BY DEF DoAnnounce
  <1>2. c \in Periodic /\ call[c].pc = "idle" /\ c \in Caller
    BY TrackingAssumption DEF DoAnnounce, Live
  <1>3. Tier[index] \in Tracker
    BY TrackingAssumption DEF IInv, Loops
  <1> HIDE DEF c
  <1>4. /\ new \in CallRecord /\ new.pc \in {"http", "resolving"} /\ new.trx = 0
        /\ new.reply = "none" /\ new.tracker \in Tracker
    BY <1>3 DEF Called, Idle, CallRecord
  <1> HIDE DEF new
  <1>5. CallOK(new) /\ ~InTrx(new) /\ ~InTrx(call[c]) /\ ~Pending(call[c])
    BY <1>2, <1>4 DEF CallOK, InTrx, Pending
  <1>6. table \ {call[c].trx} = table
    BY <1>2, <1>5, NotInTable
  <1>7. Moves(c, new)
    BY <1>1, <1>4, <1>5, <1>6 DEF Moves
  <1>8. /\ call' \in [Caller -> CallRecord] /\ table' \subseteq Trx /\ Calls' /\ Table'
        /\ call'[c] = new /\ \A e \in Caller : e # c => call'[e] = call[e]
    BY <1>2, <1>7, MoveKeeps
  <1>9. Locks'
    BY <1>1, <1>2, <1>5, <1>8, LocksApart
  <1>10. Types' /\ Net'
    BY <1>1, <1>8, TrackingAssumption DEF IInv, Types, Net, Live
  <1>11. c \notin ended'
    BY <1>2 DEF IInv, Contexts, Live
  <1>12. Contexts'
    BY <1>4, <1>8, <1>11 DEF IInv, Contexts, Live
  <1>13. Loops'
    BY <1>1, <1>2, <1>8, TrackingAssumption DEF IInv, Loops
  <1>14. c \in (Live(Periodic) \ ended)'
    BY <1>2, <1>4, <1>8, <1>11 DEF Live
  <1>15. NeverIdle'
    BY <1>1, <1>14 DEF NeverIdle
  <1>16. QED
    BY <1>8, <1>9, <1>10, <1>12, <1>13, <1>15 DEF IInv

(* StopAnnouncer.Run starts its calls, which were idle.                    *)
LEMMA StopStartKeeps ==
  ASSUME IInv, StopStart
  PROVE  IInv'
PROOF
  <1>1. /\ conn' = conn /\ table' = table /\ net' = net /\ silent' = silent /\ index' = index
        /\ ended' = ended /\ run' = run /\ status' = status /\ armed' = armed
        /\ stop' = "waiting" /\ stop = "off"
        /\ call' = [c \in Caller |-> IF c \in Stopper THEN Called(StopTracker[c]) ELSE call[c]]
    BY DEF StopStart, loopVars
  <1>2. ASSUME NEW c \in Stopper
        PROVE  /\ call'[c] \in CallRecord /\ call'[c].pc \in {"http", "resolving"}
               /\ call'[c].trx = 0 /\ call'[c].reply = "none" /\ call'[c].tracker \in Tracker
    <2>1. StopTracker[c] \in Tracker /\ c \in Caller
      BY TrackingAssumption
    <2>2. call'[c] = Called(StopTracker[c])
      BY <1>1, <2>1
    <2>3. QED
      BY <2>1, <2>2 DEF Called, Idle, CallRecord
  <1>3. ASSUME NEW c \in Stopper
        PROVE  call[c].pc = "idle" /\ call[c].trx = 0 /\ ~InTrx(call[c]) /\ c \in Caller
    <2>1. call[c].pc = "idle" /\ c \in Caller
      BY <1>1, TrackingAssumption DEF IInv, Loops
    <2>2. QED
      BY <2>1 DEF IInv, Calls, CallOK, InTrx
  <1>4. \A c \in Caller \ Stopper : call'[c] = call[c]
    BY <1>1
  <1>5. \A c \in Caller : /\ call'[c] \in CallRecord /\ CallOK(call'[c])
                          /\ call'[c].trx = call[c].trx
                          /\ Pending(call'[c]) <=> Pending(call[c])
                          /\ InTrx(call'[c]) <=> InTrx(call[c])
                          /\ InTrx(call[c]) => call'[c] = call[c]
    <2> SUFFICES ASSUME NEW c \in Caller
                 PROVE  /\ call'[c] \in CallRecord /\ CallOK(call'[c])
                        /\ call'[c].trx = call[c].trx
                        /\ Pending(call'[c]) <=> Pending(call[c])
                        /\ InTrx(call'[c]) <=> InTrx(call[c])
                        /\ InTrx(call[c]) => call'[c] = call[c]
      OBVIOUS
    <2>1. CASE c \in Stopper
      BY <1>2, <1>3, <2>1 DEF CallOK, InTrx, Pending
    <2>2. CASE c \notin Stopper
      BY <1>4, <2>2 DEF IInv, Types, Calls
    <2>3. QED
      BY <2>1, <2>2
  <1>6. Types' /\ Calls' /\ Net'
    BY <1>1, <1>5 DEF IInv, Types, Calls, Net
  <1>7. Table'
    BY <1>1, <1>5 DEF IInv, Table
  <1>8. Locks'
    BY <1>1, <1>5 DEF IInv, Locks, InTrx
  <1>9. Contexts'
    BY <1>1, <1>2, <1>3, <1>4 DEF IInv, Contexts
  <1>10. Loops'
    BY <1>1 DEF IInv, Loops
  <1>11. Live(Periodic)' = Live(Periodic)
    BY <1>4, TrackingAssumption DEF Live
  <1>12. NeverIdle'
    BY <1>1, <1>11, Zenon DEF IInv, NeverIdle
  <1>13. QED
    BY <1>6, <1>7, <1>8, <1>9, <1>10, <1>12 DEF IInv

(* readLoop: who waits for the transaction is told, and it leaves the      *)
(* table; nobody else has it.                                              *)
LEMMA ReadLoopKeeps ==
  ASSUME IInv, NEW d \in net, ReadLoop(d)
  PROVE  /\ call' \in [Caller -> CallRecord] /\ table' \subseteq Trx /\ Calls' /\ Table' /\ Locks'
         /\ Net' /\ \A c \in Caller : call'[c].pc = call[c].pc
PROOF
  <1>1. /\ net' \subseteq net /\ table' = table \ {d.trx} /\ conn' = conn
        /\ call' = [c \in Caller |-> IF call[c].trx = d.trx /\ d.trx \in table
                                     THEN [call[c] EXCEPT !.reply = d.type] ELSE call[c]]
    BY DEF ReadLoop
  <1>2. d.type \in {"ok", "error"} /\ net \subseteq DatagramRecord /\ IsFiniteSet(net)
    BY DEF ReadLoop, IInv, Net, DatagramRecord
  <1>3. call \in [Caller -> CallRecord] /\ table \subseteq Trx /\ 0 \notin Trx
    BY TransportAssumption DEF IInv, Types, Trx
  <1>4. ASSUME NEW c \in Caller
        PROVE  /\ call'[c] \in CallRecord /\ call'[c].pc = call[c].pc
               /\ call'[c].trx = call[c].trx /\ call'[c].tracker = call[c].tracker
               /\ call'[c].reply = IF call[c].trx = d.trx /\ d.trx \in table
                                   THEN d.type ELSE call[c].reply
    <2>1. call[c] \in CallRecord
      BY <1>3
    <2>2. CASE call[c].trx = d.trx /\ d.trx \in table
      <3>1. call'[c] = [call[c] EXCEPT !.reply = d.type]
        BY <1>1, <2>2
      <3>2. QED
        BY <1>2, <2>1, <2>2, <3>1 DEF CallRecord
    <2>3. CASE ~(call[c].trx = d.trx /\ d.trx \in table)
      <3>1. call'[c] = call[c]
        BY <1>1, <2>3
      <3>2. QED
        BY <2>1, <2>3, <3>1
    <2>4. QED
      BY <2>2, <2>3
  <1>5. call' \in [Caller -> CallRecord] /\ table' \subseteq Trx
    BY <1>1, <1>3, <1>4
  <1>6. Calls'
    <2> SUFFICES ASSUME NEW c \in Caller PROVE CallOK(call'[c])
      BY DEF Calls
    <2>1. CallOK(call[c])
      BY DEF IInv, Calls
    <2>2. QED
      BY <1>3, <1>4, <2>1 DEF CallOK, InTrx
  <1>7. Table'
    <2>1. \A c, e \in Caller : call'[c].trx = call'[e].trx => c = e \/ call'[c].trx = 0
      BY <1>4 DEF IInv, Table
    <2>2. ASSUME NEW x \in Trx
          PROVE  x \in table' <=> \E c \in Caller : Pending(call'[c]) /\ call'[c].trx = x
      <3>1. x \in table <=> \E c \in Caller : Pending(call[c]) /\ call[c].trx = x
        BY DEF IInv, Table
      <3>2. CASE x = d.trx
        <4>1. x \notin table'
          BY <1>1, <3>2
        <4>2. ASSUME NEW c \in Caller, Pending(call'[c]), call'[c].trx = x PROVE FALSE
          <5>1. call[c].trx = d.trx /\ d.trx \notin table
            BY <1>2, <1>4, <3>2, <4>2 DEF Pending
          <5>2. call[c].reply = "none" /\ InTrx(call[c])
            BY <1>4, <4>2, <5>1 DEF Pending, InTrx
          <5>3. QED
            BY <3>1, <3>2, <5>1, <5>2 DEF Pending
        <4>3. QED
          BY <4>1, <4>2
      <3>3. CASE x # d.trx
        <4>1. x \in table' <=> x \in table
          BY <1>1, <3>3
        <4>2. \A c \in Caller : call'[c].trx = x => (Pending(call'[c]) <=> Pending(call[c]))
          BY <1>4, <3>3 DEF Pending, InTrx
        <4>3. QED
          BY <1>4, <3>1, <4>1, <4>2
      <3>4. QED
        BY <3>2, <3>3
    <2>3. QED
      BY <2>1, <2>2 DEF Table
  <1>8. Locks'
    BY <1>1, <1>4 DEF IInv, Locks
  <1>9. Net'
    <2>1. IsFiniteSet(net') /\ Cardinality(net') <= Cardinality(net)
      BY <1>1, <1>2, FS_Subset
    <2>2. Cardinality(net) \in Nat /\ Cardinality(net') \in Nat /\ Cardinality(net) <= MaxNet
      BY <1>2, <2>1, FS_CardinalityType DEF IInv, Net
    <2>3. QED
      BY <1>1, <1>2, <2>1, <2>2, TransportAssumption DEF Net
  <1>10. QED
    BY <1>4, <1>5, <1>6, <1>7, <1>8, <1>9

(* The announcer and the contexts, if calls stay where they are.           *)
LEMMA LoopSame ==
  ASSUME IInv, \A c \in Caller : call'[c].pc = call[c].pc,
         ended' = ended, run' = run, status' = status, armed' = armed, stop' = stop, index' = index
  PROVE  Contexts' /\ Loops' /\ NeverIdle'
PROOF
  <1>1. Contexts'
    BY DEF IInv, Contexts
  <1>2. Loops'
    BY TrackingAssumption DEF IInv, Loops
  <1>3. Live(Periodic)' = Live(Periodic)
    BY TrackingAssumption DEF Live
  <1>4. NeverIdle'
    BY <1>3, Zenon DEF IInv, NeverIdle
  <1>5. QED
    BY <1>1, <1>2, <1>4

(* Datagrams come and go within the bound.                                 *)
LEMMA NetLess ==
  ASSUME IInv, NEW s, s \subseteq net
  PROVE  s \subseteq DatagramRecord /\ IsFiniteSet(s) /\ Cardinality(s) <= MaxNet
PROOF
  <1>1. IsFiniteSet(net) /\ net \subseteq DatagramRecord /\ Cardinality(net) <= MaxNet
    BY DEF IInv, Net
  <1>2. IsFiniteSet(s) /\ Cardinality(s) <= Cardinality(net)
    BY <1>1, FS_Subset
  <1>3. Cardinality(net) \in Nat /\ Cardinality(s) \in Nat
    BY <1>1, <1>2, FS_CardinalityType
  <1>4. QED
    BY <1>1, <1>2, <1>3, TransportAssumption

(* A request that is sent keeps the network's datagrams well formed, and   *)
(* within the bound.                                                       *)
LEMMA SendKeeps ==
  ASSUME IInv, NEW c \in Caller, Send(c)
  PROVE  Net'
PROOF
  <1> DEFINE d == Datagram(call[c].trx, call[c].tracker, "request")
  <1>1. net' = net \cup {d} /\ d \notin net /\ Cardinality(net) < MaxNet /\ InTrx(call[c])
    BY DEF Send, Waiting, InTrx
  <1>2. IsFiniteSet(net) /\ net \subseteq DatagramRecord
    BY DEF IInv, Net
  <1>3. call[c].trx \in Trx /\ call[c].tracker \in Tracker
    BY <1>1 DEF IInv, Types, Calls, CallOK, CallRecord, InTrx
  <1>4. d \in DatagramRecord
    BY <1>3 DEF Datagram, DatagramRecord
  <1> HIDE DEF d
  <1>5. IsFiniteSet(net \cup {d}) /\ Cardinality(net \cup {d}) = Cardinality(net) + 1
    BY <1>1, <1>2, FS_AddElement
  <1>6. IsFiniteSet(net') /\ Cardinality(net') = Cardinality(net) + 1
    BY <1>1, <1>5, Zenon
  <1>7. Cardinality(net) \in Nat
    BY <1>2, FS_CardinalityType
  <1>8. Cardinality(net') <= MaxNet
    BY <1>1, <1>6, <1>7, TransportAssumption
  <1>9. QED
    BY <1>1, <1>2, <1>4, <1>6, <1>8 DEF Net

(* So does an answer, which takes the place of its request.                *)
LEMMA AnswerKeeps ==
  ASSUME IInv, NEW d \in net, Answer(d)
  PROVE  Net'
PROOF
  <1>1. PICK r \in {"ok", "error"} : net' = (net \ {d}) \cup {[d EXCEPT !.type = r]}
    BY DEF Answer
  <1> DEFINE s == net \ {d}
             e == [d EXCEPT !.type = r]
  <1>2. IsFiniteSet(net) /\ net \subseteq DatagramRecord /\ Cardinality(net) <= MaxNet
    BY DEF IInv, Net
  <1>3. e \in DatagramRecord
    BY <1>2 DEF DatagramRecord
  <1>4. IsFiniteSet(s) /\ Cardinality(s) = Cardinality(net) - 1
    BY <1>2, FS_RemoveElement
  <1> HIDE DEF s, e
  <1>5. IsFiniteSet(s \cup {e}) /\ Cardinality(s \cup {e}) <= Cardinality(s) + 1
    <2>1. CASE e \in s
      <3>1. s \cup {e} = s
        BY <2>1
      <3>2. IsFiniteSet(s \cup {e}) /\ Cardinality(s \cup {e}) = Cardinality(s)
        BY <1>4, <3>1, Zenon
      <3>3. Cardinality(s) \in Nat
        BY <1>4, FS_CardinalityType
      <3>4. QED
        BY <3>2, <3>3
    <2>2. CASE e \notin s
      <3>1. IsFiniteSet(s \cup {e}) /\ Cardinality(s \cup {e}) = Cardinality(s) + 1
        BY <1>4, <2>2, FS_AddElement
      <3>2. Cardinality(s) \in Nat
        BY <1>4, FS_CardinalityType
      <3>3. QED
        BY <3>1, <3>2
    <2>3. QED
      BY <2>1, <2>2
  <1>6. net' = s \cup {e}
    BY <1>1 DEF s, e
  <1>7. IsFiniteSet(net') /\ Cardinality(net') <= Cardinality(s) + 1
    BY <1>5, <1>6, Zenon
  <1>8. Cardinality(net) \in Nat /\ Cardinality(net') \in Nat
    BY <1>2, <1>7, FS_CardinalityType
  <1>9. Cardinality(net') <= MaxNet
    BY <1>2, <1>4, <1>7, <1>8, TransportAssumption
  <1>10. QED
    BY <1>2, <1>3, <1>6, <1>7, <1>9 DEF Net, s

(* What neither calls nor unlocks keeps the transport.                     *)
LEMMA TransportSame ==
  ASSUME IInv, call' = call, table' = table, silent' \subseteq Tracker, ended' \subseteq Caller,
         conn' = conn
  PROVE  Types' /\ Calls' /\ Table' /\ Locks'
PROOF
  <1>1. Types' /\ Calls'
    BY DEF IInv, Types, Calls
  <1>2. Table'
    BY DEF IInv, Table
  <1>3. Locks'
    BY DEF IInv, Locks
  <1>4. QED
    BY <1>1, <1>2, <1>3

(* A connection id expires: it is not fresh, but still known.              *)
LEMMA ExpireKeeps ==
  ASSUME IInv, NEW k \in Tracker, Expire(k)
  PROVE  Types' /\ Calls' /\ Table' /\ Locks' /\ Net'
PROOF
  <1>1. /\ conn' = [conn EXCEPT ![k].fresh = FALSE] /\ call' = call /\ table' = table
        /\ net' = net /\ silent' = silent /\ ended' = ended
    BY DEF Expire
  <1>2. conn \in [Tracker -> ConnRecord] /\ \A c \in Caller : CallOK(call[c])
    BY DEF IInv, Types, Calls
  <1>3. /\ conn' \in [Tracker -> ConnRecord]
        /\ \A j \in Tracker : /\ conn'[j].holder = conn[j].holder /\ conn'[j].known = conn[j].known
                              /\ conn'[j].fresh => conn[j].fresh
    BY <1>1, <1>2 DEF ConnRecord
  <1>4. Types' /\ Calls' /\ Net'
    BY <1>1, <1>3 DEF IInv, Types, Calls, Net
  <1>5. Table'
    BY <1>1 DEF IInv, Table
  <1>6. \A c \in Caller : call[c].pc = "announcing" => call[c].tracker \in Tracker
    BY <1>2 DEF CallOK
  <1>7. Locks'
    BY <1>1, <1>3, <1>6 DEF IInv, Locks
  <1>8. QED
    BY <1>4, <1>5, <1>7

(* The network and the trackers.                                           *)
LEMMA WorldKeeps ==
  ASSUME IInv, WorldStep, UNCHANGED <<loopVars, index, stop>>
  PROVE  IInv'
PROOF
  <1>1. /\ run' = run /\ status' = status /\ armed' = armed /\ index' = index /\ stop' = stop
    BY DEF loopVars
  <1>2. ASSUME NEW d \in net, ReadLoop(d) PROVE IInv'
    <2>1. conn' = conn /\ silent' = silent /\ ended' = ended
      BY <1>2 DEF ReadLoop
    <2>2. /\ call' \in [Caller -> CallRecord] /\ table' \subseteq Trx /\ Calls' /\ Table' /\ Locks'
          /\ Net' /\ \A c \in Caller : call'[c].pc = call[c].pc
      BY <1>2, ReadLoopKeeps
    <2>3. Contexts' /\ Loops' /\ NeverIdle'
      BY <1>1, <2>1, <2>2, LoopSame
    <2>4. QED
      BY <2>1, <2>2, <2>3 DEF IInv, Types
  <1>3. ASSUME NEW d \in net, Answer(d) \/ Lose(d) PROVE IInv'
    <2>1. call' = call /\ conn' = conn /\ table' = table /\ silent' = silent /\ ended' = ended
      BY <1>3 DEF Answer, Lose
    <2>2. Net'
      BY <1>3, AnswerKeeps, NetLess DEF Lose, Net
    <2>3. Types' /\ Calls' /\ Table' /\ Locks'
      BY <2>1, TransportSame DEF IInv, Types
    <2>4. Contexts' /\ Loops' /\ NeverIdle'
      BY <1>1, <2>1, LoopSame
    <2>5. QED
      BY <2>2, <2>3, <2>4 DEF IInv
  <1>4. CASE ReadLoopEnds
    <2>1. /\ call' = call /\ conn' = conn /\ table' = table /\ silent' \subseteq Tracker
          /\ ended' = ended /\ net' \subseteq net
      BY <1>4 DEF ReadLoopEnds
    <2>2. Net'
      BY <2>1, NetLess DEF Net
    <2>3. Types' /\ Calls' /\ Table' /\ Locks'
      BY <2>1, TransportSame DEF IInv, Types
    <2>4. Contexts' /\ Loops' /\ NeverIdle'
      BY <1>1, <2>1, LoopSame
    <2>5. QED
      BY <2>2, <2>3, <2>4 DEF IInv
  <1>5. ASSUME NEW k \in Tracker, Expire(k) PROVE IInv'
    <2>1. Types' /\ Calls' /\ Table' /\ Locks' /\ Net'
      BY <1>5, ExpireKeeps
    <2>2. call' = call /\ ended' = ended
      BY <1>5 DEF Expire
    <2>3. Contexts' /\ Loops' /\ NeverIdle'
      BY <1>1, <2>2, LoopSame
    <2>4. QED
      BY <2>1, <2>3 DEF IInv
  <1>6. QED
    BY <1>2, <1>3, <1>4, <1>5 DEF WorldStep

(* The ticker of retryTransaction.                                         *)
LEMMA RetryKeeps ==
  ASSUME IInv, NEW c \in Caller, Retry(c)
  PROVE  IInv'
PROOF
  <1>1. /\ call' = call /\ conn' = conn /\ table' = table /\ silent' = silent /\ ended' = ended
        /\ run' = run /\ status' = status /\ armed' = armed /\ index' = index /\ stop' = stop
        /\ Send(c)
    BY DEF Retry, Send, loopVars
  <1>2. Net'
    BY <1>1, SendKeeps
  <1>3. Types' /\ Calls' /\ Table' /\ Locks'
    BY <1>1, TransportSame DEF IInv, Types
  <1>4. Contexts' /\ Loops' /\ NeverIdle'
    BY <1>1, LoopSame
  <1>5. QED
    BY <1>2, <1>3, <1>4 DEF IInv

(* Steps of the loops that leave the calls alone: contexts may end, but    *)
(* not those of an announcer that goes on.                                 *)
LEMMA LoopKeeps ==
  ASSUME IInv, UNCHANGED <<call, conn, table, net, silent, index>>,
         NeverIdle', stop' # "off" \/ stop' = stop,
         ended' \subseteq ended \cup Live(Caller), ended \subseteq ended'
  PROVE  IInv'
PROOF
  <1>1. /\ call' = call /\ conn' = conn /\ table' = table /\ net' = net /\ silent' = silent
        /\ index' = index
    OBVIOUS
  <1>2. Types' /\ Calls' /\ Table' /\ Locks'
    <2>1. silent' \subseteq Tracker /\ ended' \subseteq Caller
      BY <1>1 DEF IInv, Types, Live
    <2>2. QED
      BY <1>1, <2>1, TransportSame
  <1>3. Net'
    BY <1>1 DEF IInv, Net
  <1>4. Contexts'
    BY <1>1 DEF IInv, Contexts, Live
  <1>5. Loops'
    BY <1>1 DEF IInv, Loops
  <1>6. QED
    BY <1>2, <1>3, <1>4, <1>5 DEF IInv

(* A new transport has no transactions, and a new announcer is about to    *)
(* announce.                                                               *)
LEMMA InitOK == Init => IInv
PROOF
  <1> SUFFICES ASSUME Init PROVE IInv
    OBVIOUS
  <1>1. /\ call = [c \in Caller |-> Idle] /\ conn = [k \in Tracker |-> NewConnection]
        /\ table = {} /\ net = {} /\ silent \subseteq Tracker /\ ended = {} /\ run = "new"
        /\ index = 1
    BY DEF Init, TransportInit
  <1>2. /\ Idle \in CallRecord /\ Idle.pc = "idle" /\ Idle.trx = 0 /\ Idle.reply = "none"
        /\ NewConnection \in ConnRecord /\ NewConnection.holder = None
        /\ NewConnection.fresh = FALSE /\ None \notin Caller
    BY TransportAssumption DEF Idle, CallRecord, NewConnection, ConnRecord
  <1>3. Types
    BY <1>1, <1>2 DEF Types
  <1>4. Calls
    BY <1>1, <1>2 DEF Calls, CallOK, InTrx
  <1>5. Table
    BY <1>1, <1>2 DEF Table, Pending, InTrx
  <1>6. Locks
    BY <1>1, <1>2 DEF Locks
  <1>7. Net
    BY <1>1, FS_EmptySet, TransportAssumption DEF Net
  <1>8. Contexts
    BY <1>1, <1>2 DEF Contexts
  <1>9. Loops
    BY <1>1, <1>2, TrackingAssumption DEF Loops
  <1>10. NeverIdle
    BY <1>1 DEF NeverIdle
  <1>11. QED
    BY <1>3, <1>4, <1>5, <1>6, <1>7, <1>8, <1>9, <1>10 DEF IInv

(* The announcer's own steps.                                              *)
LEMMA AnnouncerKeeps ==
  ASSUME IInv, Start \/ HandleTimer \/ HandleCompleted \/ NeedMorePeers \/ Close \/ Completed
  PROVE  IInv'
PROOF
  <1>1. CASE DoAnnounce /\ UNCHANGED <<conn, table, net, silent, index, stop>>
             /\ ended' \in {ended, ended \cup Live(Periodic)}
    BY <1>1, AnnounceKeeps
  <1>2. CASE HandleTimer /\ status = "Contacting"
    <2>1. /\ UNCHANGED <<call, conn, table, net, silent, index>> /\ stop' = stop /\ ended' = ended
          /\ run' = run /\ status' = status /\ status = "Contacting" /\ run = "select"
      BY <1>2 DEF HandleTimer
    <2>2. Live(Periodic)' = Live(Periodic)
      BY <2>1 DEF Live
    <2>3. NeverIdle'
      BY <2>1, <2>2 DEF IInv, NeverIdle
    <2>4. QED
      BY <2>1, <2>3, LoopKeeps
  <1>3. CASE NeedMorePeers
    <2>1. /\ UNCHANGED <<call, conn, table, net, silent, index>> /\ stop' = stop /\ ended' = ended
          /\ armed' = TRUE /\ status' = status /\ status # "Contacting"
      BY <1>3 DEF NeedMorePeers, transportVars
    <2>2. NeverIdle'
      BY <2>1 DEF NeverIdle
    <2>3. QED
      BY <2>1, <2>2, LoopKeeps
  <1>4. CASE Close
    <2>1. /\ UNCHANGED <<call, conn, table, net, silent, index>> /\ stop' = stop /\ run' = "done"
          /\ ended' = ended \cup Live(Periodic)
      BY <1>4 DEF Close
    <2>2. NeverIdle'
      BY <2>1 DEF NeverIdle
    <2>3. Live(Periodic) \subseteq Live(Caller)
      BY TrackingAssumption DEF Live
    <2>4. QED
      BY <2>1, <2>2, <2>3, LoopKeeps
  <1>5. CASE Completed
    <2>1. /\ UNCHANGED <<call, conn, table, net, silent, index>> /\ stop' = stop /\ ended' = ended
          /\ run' = run /\ status' = status /\ armed' = armed
      BY <1>5 DEF Completed, transportVars
    <2>2. NeverIdle'
      BY <2>1, LoopSame
    <2>3. QED
      BY <2>1, <2>2, LoopKeeps
  <1>6. CASE Start \/ HandleCompleted
    BY <1>1, <1>6 DEF Start, HandleCompleted
  <1>7. CASE HandleTimer /\ status # "Contacting"
    BY <1>1, <1>7 DEF HandleTimer
  <1>8. QED
    BY <1>2, <1>3, <1>4, <1>5, <1>6, <1>7

(* The stop announcer's own steps do not concern the periodical one.       *)
LEMMA StopperKeeps ==
  ASSUME IInv, StopTimeout \/ StopEnds
  PROVE  IInv'
PROOF
  <1>1. /\ UNCHANGED <<call, conn, table, net, silent, index>> /\ run' = run /\ status' = status
        /\ armed' = armed /\ (stop' = stop \/ stop' = "done")
        /\ ended' \subseteq ended \cup Live(Stopper) /\ ended \subseteq ended'
    BY DEF StopTimeout, StopEnds, loopVars, transportVars
  <1>2. (Live(Periodic) \ ended)' = Live(Periodic) \ ended
    BY <1>1, TrackingAssumption DEF Live
  <1>3. NeverIdle'
    BY <1>1, <1>2, Zenon DEF IInv, NeverIdle
  <1>4. ended' \subseteq ended \cup Live(Caller)
    BY <1>1, TrackingAssumption DEF Live
  <1>5. QED
    BY <1>1, <1>3, <1>4, LoopKeeps

(* Every step keeps the invariant.                                         *)
LEMMA Step == IInv /\ [Next]_vars => IInv'
PROOF
  <1> SUFFICES ASSUME IInv, [Next]_vars PROVE IInv'
    OBVIOUS
  <1>1. CASE UNCHANGED vars
    <2>1. /\ UNCHANGED <<call, conn, table, net, silent, index>> /\ stop' = stop /\ ended' = ended
          /\ run' = run /\ status' = status /\ armed' = armed
      BY <1>1 DEF vars, transportVars, loopVars
    <2>2. NeverIdle'
      BY <2>1, LoopSame
    <2>3. QED
      BY <2>1, <2>2, LoopKeeps
  <1>2. CASE AnnouncerStep \/ Completed \/ NeedMorePeers \/ Close
    BY <1>2, AnnouncerKeeps DEF AnnouncerStep
  <1>3. CASE \E c \in Periodic : HandleResult(c)
    BY <1>3, ResultKeeps
  <1>4. CASE \E c \in Caller : Goroutine(c) \/ Retry(c)
    BY <1>4, TierKeeps, GiveUpKeeps, StopCallKeeps, RetryKeeps DEF Goroutine
  <1>5. CASE WorldStep /\ UNCHANGED <<loopVars, index, stop>>
    BY <1>5, WorldKeeps
  <1>6. CASE StopStart \/ StopTimeout \/ StopEnds
    BY <1>6, StopStartKeeps, StopperKeeps
  <1>7. QED
    BY <1>1, <1>2, <1>3, <1>4, <1>5, <1>6 DEF Next

(* So it holds always.                                                     *)
LEMMA Invariance == Spec => []IInv
PROOF
  BY InitOK, Step, PTL DEF Spec

-----------------------------------------------------------------------------
(* The theorems.                                                           *)

(* The table of transactions is exactly what the callers wait for, nobody  *)
(* shares a transaction, a connection is locked exactly by who connects    *)
(* it, and nothing is announced without a connection id, for any number of *)
(* callers and trackers and whatever the network does.                     *)
THEOREM TableStaysTrue == Spec => []TransactionsTracked
PROOF
  <1>1. IInv => TransactionsTracked
    <2> SUFFICES ASSUME IInv PROVE TransactionsTracked
      OBVIOUS
    <2>1. TransportOK
      BY DEF IInv, Types, Net, TransportOK, CallRecord, ConnRecord
    <2>2. table = {call[c].trx : c \in {e \in Caller : Waiting(e) /\ call[e].reply = "none"}}
      <3>1. \A c \in Caller : Waiting(c) /\ call[c].reply = "none" <=> Pending(call[c])
        BY DEF Waiting, Pending, InTrx
      <3>2. \A c \in Caller : Pending(call[c]) => call[c].trx \in Trx
        BY DEF IInv, Types, Calls, CallOK, CallRecord, Pending
      <3>3. table \subseteq Trx
        BY DEF IInv, Types
      <3>4. QED
        BY <3>1, <3>2, <3>3 DEF IInv, Table
    <2>3. QED
      BY <2>1, <2>2 DEF IInv, Table, Locks, TransactionsTracked
  <1>2. QED
    BY <1>1, Invariance, PTL

(* Something always wakes the announcer: an announcement whose context is  *)
(* not done is under way while it is contacting, and otherwise its timer   *)
(* runs.                                                                   *)
THEOREM AlwaysWoken == Spec => []NeverIdle
PROOF
  <1>1. IInv => NeverIdle
    BY DEF IInv
  <1>2. QED
    BY <1>1, Invariance, PTL
=============================================================================
