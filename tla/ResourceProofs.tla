--------------------------- MODULE ResourceProofs ---------------------------
(***************************************************************************)
(* What holds of the things that peers and torrents compete for: the RAM   *)
(* of the ResourceManager and the slots of the Unchoker.                   *)
(***************************************************************************)
EXTENDS ResourceManager, Unchoker, SumProofs

-----------------------------------------------------------------------------
(***************************************************************************)
(* ResourceManager.  For every set of torrents and peers, every budget and *)
(* every piece length.                                                     *)
(***************************************************************************)
(* What each torrent holds, in bytes.                                      *)
Bytes(h) == [t \in Torrent |-> h[t] * Size[t]]

Type ==
  /\ available \in Int /\ objects \in Int
  /\ requests \in [Peer -> Nat]
  /\ at \in {"top", "select", "handle", "done"} /\ cur \in Peer \cup {None}
  /\ loop \in [Torrent -> [at : {"idle", "asking", "asked", "waiting", "granted", "releasing"},
                           peer : Peer \cup {None}]]
  /\ held \in [Torrent -> Nat] /\ gone \subseteq Peer

(* A run loop that asks does so for a peer of its own, and asks only while *)
(* fewer than MaxWait requests of it wait; one that was granted a piece or *)
(* gives it back holds one.                                                *)
LoopOK(t) ==
  /\ loop[t].at \in {"asking", "asked", "waiting"} =>
       loop[t].peer \in Peer /\ OwnerOf[loop[t].peer] = t /\ requests[loop[t].peer] < MaxWait
  /\ loop[t].at \in {"granted", "releasing"} => held[t] > 0

(* A request that is offered still waits and still fits: the manager made  *)
(* sure of both before its select, and whatever else the select may do     *)
(* sends it round the loop.                                                *)
Offered == cur # None /\ at = "select" => requests[cur] > 0 /\ SizeOf(cur) <= available

Balanced ==
  /\ 0 <= available
  /\ available + SumFunctionOnSet(Bytes(held), Torrent) = Limit
  /\ objects = SumFunctionOnSet(held, Torrent)

(* The inductive invariant.                                                *)
IInv ==
  /\ Type /\ closing \in BOOLEAN
  /\ \A p \in Peer : requests[p] <= MaxWait
  /\ \A t \in Torrent : LoopOK(t)
  /\ at = "handle" => cur \in Peer
  /\ Offered
  /\ Balanced

-----------------------------------------------------------------------------
(* One more piece in a torrent's hands is one more piece length in bytes.  *)
LEMMA ProductOfNaturals ==
  ASSUME NEW a \in Nat, NEW b \in Nat
  PROVE  a * b \in Nat /\ (a + 1) * b = a * b + b
PROOF
  OBVIOUS

(* A piece length more: the accounts of bytes and of objects go up by one  *)
(* piece length of the torrent and by one.                                 *)
LEMMA GrantSums ==
  ASSUME NEW h \in [Torrent -> Nat], NEW g \in [Torrent -> Nat], NEW t \in Torrent,
         g[t] = h[t] + 1, \A x \in Torrent : x # t => g[x] = h[x]
  PROVE  /\ SumFunctionOnSet(Bytes(g), Torrent) = SumFunctionOnSet(Bytes(h), Torrent) + Size[t]
         /\ SumFunctionOnSet(g, Torrent) = SumFunctionOnSet(h, Torrent) + 1
         /\ SumFunctionOnSet(Bytes(h), Torrent) \in Nat
         /\ SumFunctionOnSet(h, Torrent) \in Nat
PROOF
  <1>1. IsFiniteSet(Torrent) /\ \A x \in Torrent : Size[x] \in Nat
    BY ResourceAssumption
  <1>2. \A x \in Torrent : h[x] \in Nat /\ g[x] \in Nat
    OBVIOUS
  <1>3. \A x \in Torrent : Bytes(h)[x] \in Nat /\ Bytes(g)[x] \in Nat
    BY <1>1, <1>2, ProductOfNaturals DEF Bytes
  <1>4. \A x \in Torrent : x # t => Bytes(g)[x] = Bytes(h)[x]
    BY DEF Bytes
  <1>5. g[t] = h[t] + 1 /\ Bytes(g)[t] = Bytes(h)[t] + Size[t]
    BY <1>1, <1>2, ProductOfNaturals DEF Bytes
  <1> HIDE DEF Bytes
  <1>6. SumFunctionOnSet(Bytes(g), Torrent)
          = SumFunctionOnSet(Bytes(h), Torrent) - Bytes(h)[t] + Bytes(g)[t]
    BY <1>1, <1>3, <1>4, SumStep
  <1>7. SumFunctionOnSet(g, Torrent) = SumFunctionOnSet(h, Torrent) - h[t] + g[t]
    BY <1>1, <1>2, <1>4, SumStep
  <1>8. SumFunctionOnSet(h, Torrent) \in Nat /\ SumFunctionOnSet(Bytes(h), Torrent) \in Nat
    BY <1>1, <1>2, <1>3, SumType
  <1>9. h[t] \in Nat /\ Bytes(h)[t] \in Nat /\ Size[t] \in Nat
    BY <1>1, <1>2, <1>3
  <1>10. QED
    BY <1>5, <1>6, <1>7, <1>8, <1>9

(* A piece length less: a grant undone.                                    *)
LEMMA ReleaseSums ==
  ASSUME NEW h \in [Torrent -> Nat], NEW g \in [Torrent -> Nat], NEW t \in Torrent,
         g[t] = h[t] - 1, \A x \in Torrent : x # t => g[x] = h[x]
  PROVE  /\ SumFunctionOnSet(Bytes(h), Torrent) = SumFunctionOnSet(Bytes(g), Torrent) + Size[t]
         /\ SumFunctionOnSet(h, Torrent) = SumFunctionOnSet(g, Torrent) + 1
         /\ SumFunctionOnSet(Bytes(g), Torrent) \in Nat
         /\ SumFunctionOnSet(g, Torrent) \in Nat
PROOF
  <1>1. h[t] = g[t] + 1 /\ \A x \in Torrent : x # t => h[x] = g[x]
    OBVIOUS
  <1>2. QED
    BY <1>1, GrantSums

(* A step that grants and takes nothing leaves the accounts as they are.   *)
LEMMA BalancedUnchanged ==
  ASSUME Balanced, UNCHANGED <<available, objects, held>>
  PROVE  Balanced'
PROOF
  BY DEF Balanced, Bytes

(* A new manager has the whole budget and nothing is asked for.            *)
LEMMA InitOK == Init => IInv
PROOF
  <1> SUFFICES ASSUME Init PROVE IInv
    OBVIOUS
  <1> USE ResourceAssumption
  <1>1. Type
    <2>1. loop \in [Torrent -> [at : {"idle", "asking", "asked", "waiting", "granted", "releasing"},
                               peer : Peer \cup {None}]]
      BY DEF Init, At
    <2>2. QED
      BY <2>1 DEF Init, Type
  <1>2. Balanced
    <2>1. /\ \A t \in Torrent : held[t] = 0 /\ Size[t] \in Nat
          /\ IsFiniteSet(Torrent)
      BY DEF Init
    <2>2. \A t \in Torrent : Bytes(held)[t] = 0
      BY <2>1 DEF Bytes
    <2>3. SumFunctionOnSet(held, Torrent) = 0 /\ SumFunctionOnSet(Bytes(held), Torrent) = 0
      BY <2>1, <2>2, SumZero
    <2>4. QED
      BY <2>3 DEF Init, Balanced
  <1>3. closing \in BOOLEAN
    BY Zenon DEF Init
  <1>4. QED
    BY <1>1, <1>2, <1>3 DEF Init, IInv, LoopOK, At, Offered

(* The steps of a run loop neither grant nor give back.                    *)
LEMMA LoopSteps ==
  ASSUME IInv, NEW t \in Torrent, LoopStep(t) \/ CloseDownloader(t)
  PROVE  IInv'
PROOF
  <1> USE ResourceAssumption DEF IInv
  <1>1. Balanced' /\ (closing \in BOOLEAN)'
    BY BalancedUnchanged
       DEF LoopStep, CloseDownloader, AwaitAnswer, GiveUp, StartDownloader, managerVars
  <1> USE <1>1 DEF Type, LoopOK, Offered, Move, At, SizeOf, managerVars
  <1>2. CASE AwaitAnswer(t)
    BY <1>2 DEF AwaitAnswer
  <1>3. CASE GiveUp(t)
    BY <1>3 DEF GiveUp
  <1>4. CASE StartDownloader(t)
    BY <1>4 DEF StartDownloader
  <1>5. CASE CloseDownloader(t)
    BY <1>5 DEF CloseDownloader
  <1>6. QED
    BY <1>2, <1>3, <1>4, <1>5 DEF LoopStep

(* Nor do the steps of a peer.                                             *)
LEMMA PeerSteps ==
  ASSUME IInv, NEW p \in Peer, Ask(OwnerOf[p], p) \/ PeerClosed(p) \/ PeerConnected(p)
  PROVE  IInv'
PROOF
  <1> USE ResourceAssumption DEF IInv
  <1>1. Balanced' /\ (closing \in BOOLEAN)'
    BY BalancedUnchanged DEF Ask, PeerClosed, PeerConnected, managerVars
  <1> USE <1>1 DEF Type, LoopOK, Offered, Move, At, SizeOf, managerVars
  <1>2. CASE Ask(OwnerOf[p], p)
    BY <1>2 DEF Ask
  <1>3. CASE PeerClosed(p) \/ PeerConnected(p)
    BY <1>3 DEF PeerClosed, PeerConnected
  <1>4. QED
    BY <1>2, <1>3

(* The manager looks, listens and turns away without granting anything.    *)
LEMMA ManagerSteps ==
  ASSUME IInv,
         \/ RandomRequest \/ HandleCancelled \/ ManagerEnds \/ ReceiveStats \/ Close
         \/ \E t \in Torrent : ReceiveRequest(t)
         \/ \E p \in Peer : CancelRequest(p)
  PROVE  IInv'
PROOF
  <1> USE ResourceAssumption DEF IInv
  <1>1. Balanced'
    BY BalancedUnchanged DEF RandomRequest, HandleCancelled, ManagerEnds, ReceiveStats, Close,
                             ReceiveRequest, CancelRequest, managerVars
  <1>2. (closing \in BOOLEAN)'
    BY DEF RandomRequest, HandleCancelled, ManagerEnds, ReceiveStats, Close,
           ReceiveRequest, CancelRequest, managerVars
  <1> USE <1>1, <1>2 DEF Type, LoopOK, Offered, Move, At, SizeOf, managerVars
  <1>3. CASE RandomRequest
    BY <1>3 DEF RandomRequest, Waiting
  <1>4. CASE HandleCancelled \/ ManagerEnds \/ ReceiveStats \/ Close
    BY <1>4 DEF HandleCancelled, ManagerEnds, ReceiveStats, Close
  <1>5. ASSUME NEW t \in Torrent, ReceiveRequest(t)  PROVE IInv'
    BY <1>5 DEF ReceiveRequest
  <1>6. ASSUME NEW p \in Peer, CancelRequest(p)  PROVE IInv'
    BY <1>6 DEF CancelRequest
  <1>7. QED
    BY <1>3, <1>4, <1>5, <1>6

(* What a grant to p changes in the accounts.                              *)
Taken(p) ==
  /\ SizeOf(p) <= available
  /\ available' = available - SizeOf(p) /\ objects' = objects + 1
  /\ held' = [held EXCEPT ![OwnerOf[p]] = @ + 1]

(* A request of p is granted: what is taken from the budget is added to    *)
(* what the owner of p holds.                                              *)
LEMMA GrantBalances ==
  ASSUME IInv, NEW p \in Peer, Taken(p)
  PROVE  Balanced'
PROOF
  <1>1. OwnerOf[p] \in Torrent /\ Size[OwnerOf[p]] \in Nat /\ Limit \in Nat
    BY ResourceAssumption
  <1>2. held \in [Torrent -> Nat] /\ available \in Int /\ objects \in Int
    BY DEF IInv, Type
  <1>3. /\ held' \in [Torrent -> Nat] /\ held'[OwnerOf[p]] = held[OwnerOf[p]] + 1
        /\ \A x \in Torrent : x # OwnerOf[p] => held'[x] = held[x]
    BY <1>1, <1>2 DEF Taken
  <1>4. /\ SumFunctionOnSet(Bytes(held'), Torrent)
             = SumFunctionOnSet(Bytes(held), Torrent) + Size[OwnerOf[p]]
        /\ SumFunctionOnSet(held', Torrent) = SumFunctionOnSet(held, Torrent) + 1
        /\ SumFunctionOnSet(Bytes(held), Torrent) \in Nat
        /\ SumFunctionOnSet(held, Torrent) \in Nat
    BY <1>1, <1>2, <1>3, GrantSums
  <1>5. QED
    BY <1>1, <1>2, <1>4 DEF IInv, Balanced, SizeOf, Taken

(* handleRequest answers: it takes the bytes for the torrent if they are   *)
(* there, and otherwise queues the request.                                *)
LEMMA HandleStep ==
  ASSUME IInv, HandleRequest
  PROVE  IInv'
PROOF
  <1> USE ResourceAssumption DEF IInv
  <1>1. cur \in Peer /\ OwnerOf[cur] \in Torrent /\ loop[OwnerOf[cur]] = At("waiting", cur)
    BY DEF HandleRequest
  <1>2. (closing \in BOOLEAN)'
    BY DEF HandleRequest
  <1>3. CASE SizeOf(cur) <= available
    <2>1. Balanced'
      BY <1>1, <1>3, GrantBalances DEF HandleRequest, Taken
    <2>2. /\ at' = "top" /\ cur' = None /\ requests' = requests /\ gone' = gone
          /\ available' = available - SizeOf(cur) /\ objects' = objects + 1
          /\ held' = [held EXCEPT ![OwnerOf[cur]] = @ + 1]
          /\ loop' = [loop EXCEPT ![OwnerOf[cur]] = At("granted", cur)]
      BY <1>3 DEF HandleRequest, Move
    <2>3. Type'
      BY <1>1, <2>2 DEF Type, At, SizeOf
    <2>4. \A t \in Torrent : LoopOK(t)'
      BY <1>1, <2>2 DEF Type, LoopOK, At
    <2>5. QED
      BY <1>2, <2>1, <2>2, <2>3, <2>4 DEF Offered
  <1>4. CASE ~(SizeOf(cur) <= available)
    <2>1. Balanced'
      BY <1>4, BalancedUnchanged DEF HandleRequest
    <2>2. requests[cur] < MaxWait
      BY <1>1 DEF LoopOK, At
    <2>3. /\ at' = "top" /\ cur' = None /\ gone' = gone
          /\ requests' = [requests EXCEPT ![cur] = @ + 1]
          /\ available' = available /\ objects' = objects /\ held' = held
          /\ loop' = [loop EXCEPT ![OwnerOf[cur]] = At("idle", None)]
      BY <1>4 DEF HandleRequest, Move
    <2>4. Type' /\ \A p \in Peer : requests'[p] <= MaxWait
      BY <1>1, <2>2, <2>3 DEF Type, At
    <2>5. \A t \in Torrent : LoopOK(t)'
      BY <1>1, <2>3 DEF Type, LoopOK, At
    <2>6. QED
      BY <1>2, <2>1, <2>3, <2>4, <2>5 DEF Offered
  <1>5. QED
    BY <1>3, <1>4

(* A run loop receives its grant: the bytes go from the manager to the     *)
(* torrent.                                                                *)
LEMMA NotifyStep ==
  ASSUME IInv, NEW p \in Peer, Notify(p)
  PROVE  IInv'
PROOF
  <1> USE ResourceAssumption DEF IInv
  <1>1. requests[p] > 0 /\ SizeOf(p) <= available
    BY DEF Notify, Offered
  <1>2. (closing \in BOOLEAN)' /\ OwnerOf[p] \in Torrent
    BY DEF Notify
  <1>3. Balanced'
    BY <1>1, GrantBalances DEF Notify, Taken
  <1>4. QED
    BY <1>1, <1>2, <1>3 DEF Notify, Type, LoopOK, Offered, Move, At, SizeOf

(* A run loop gives a piece back: the bytes return to the manager.         *)
LEMMA ReleaseStep ==
  ASSUME IInv, NEW t \in Torrent, ReceiveRelease(t)
  PROVE  IInv'
PROOF
  <1>1. Size[t] \in Nat /\ Limit \in Nat
    BY ResourceAssumption
  <1>2. held \in [Torrent -> Nat] /\ available \in Int /\ objects \in Int /\ held[t] > 0
    BY DEF IInv, Type, ReceiveRelease, LoopOK
  <1>3. /\ held' \in [Torrent -> Nat] /\ held'[t] = held[t] - 1
        /\ \A x \in Torrent : x # t => held'[x] = held[x]
    BY <1>2 DEF ReceiveRelease
  <1>4. /\ SumFunctionOnSet(Bytes(held), Torrent)
             = SumFunctionOnSet(Bytes(held'), Torrent) + Size[t]
        /\ SumFunctionOnSet(held, Torrent) = SumFunctionOnSet(held', Torrent) + 1
        /\ SumFunctionOnSet(Bytes(held'), Torrent) \in Nat
        /\ SumFunctionOnSet(held', Torrent) \in Nat
    BY <1>2, <1>3, ReleaseSums
  <1>5. Balanced'
    BY <1>1, <1>2, <1>4 DEF IInv, Balanced, ReceiveRelease
  <1>6. (closing \in BOOLEAN)'
    BY DEF IInv, ReceiveRelease
  <1>7. QED
    BY <1>2, <1>3, <1>5, <1>6, ResourceAssumption
       DEF IInv, ReceiveRelease, Type, LoopOK, Offered, Move, At, SizeOf

(* Every step keeps the invariant.                                         *)
LEMMA IndStep == IInv /\ [Next]_vars => IInv'
PROOF
  <1> SUFFICES ASSUME IInv, [Next]_vars  PROVE IInv'
    OBVIOUS
  <1>1. CASE UNCHANGED vars
    <2>1. UNCHANGED <<available, objects, held, requests, at, cur, loop, gone, closing>>
      BY <1>1 DEF vars, managerVars
    <2>2. Balanced'
      BY <2>1, BalancedUnchanged DEF IInv
    <2>3. QED
      BY <2>1, <2>2 DEF IInv, Type, LoopOK, Offered, SizeOf
  <1>2. CASE Next
    BY <1>2, LoopSteps, PeerSteps, ManagerSteps, HandleStep, NotifyStep, ReleaseStep
       DEF Next, ManagerStep
  <1>3. QED
    BY <1>1, <1>2

(* The invariant holds of every behaviour of the manager and its run       *)
(* loops.                                                                  *)
LEMMA Invariance == Spec => []IInv
PROOF
  BY InitOK, IndStep, PTL DEF Spec

-----------------------------------------------------------------------------
(* The invariant implies what the run checks.                              *)
LEMMA InvariantAccounts == IInv => Accounted
PROOF
  <1> SUFFICES ASSUME IInv  PROVE Accounted
    OBVIOUS
  <1>1. /\ IsFiniteSet(Torrent) /\ Limit \in Nat /\ MaxWait \in Nat
        /\ \A x \in Torrent : Size[x] \in Nat
    BY ResourceAssumption
  <1>2. \A x \in Torrent : held[x] \in Nat
    BY DEF IInv, Type
  <1>3. \A x \in Torrent : Bytes(held)[x] \in Nat
    BY <1>1, <1>2, ProductOfNaturals DEF Bytes
  <1>4. SumFunctionOnSet(held, Torrent) \in Nat /\ SumFunctionOnSet(Bytes(held), Torrent) \in Nat
    BY <1>1, <1>2, <1>3, SumType
  <1>5. available \in 0 .. Limit /\ objects \in Nat
    BY <1>1, <1>4 DEF IInv, Type, Balanced
  <1>6. requests \in [Peer -> 0 .. MaxWait + 1]
    BY <1>1 DEF IInv, Type
  <1>7. TypeOK
    BY <1>5, <1>6 DEF IInv, Type, TypeOK
  <1>8. DOMAIN held = Torrent /\ DOMAIN Bytes(held) = Torrent
    BY DEF IInv, Type, Bytes
  <1>9. SumFunction(held) = SumFunctionOnSet(held, Torrent)
    BY <1>8 DEF SumFunction
  <1>10. SumFunction(Bytes(held)) = SumFunctionOnSet(Bytes(held), Torrent)
    BY <1>8 DEF SumFunction
  <1>11. Bytes(held) = [t \in Torrent |-> held[t] * Size[t]]
    BY DEF Bytes
  <1>12. available + SumFunction([t \in Torrent |-> held[t] * Size[t]]) = Limit
    BY <1>10, <1>11 DEF IInv, Balanced
  <1>13. QED
    BY <1>7, <1>9, <1>12 DEF IInv, Balanced, Offered, Accounted

(* The manager and the torrents agree on what is handed out, in bytes and  *)
(* in objects, and a request is offered only while it waits and fits: none *)
(* of the panics of resourcemanager.go can happen, for any number of       *)
(* torrents, any piece lengths and any budget.                             *)
THEOREM AccountsBalance == Spec => []Accounted
PROOF
  BY Invariance, InvariantAccounts, PTL

-----------------------------------------------------------------------------
(* Every step of the manager and the loops is a step of the budget, or     *)
(* leaves what is free, what waits and what is held as they are.           *)
LEMMA BudgetStep == IInv /\ [Next]_vars => [Budget!Next]_(Budget!budgetVars)
PROOF
  <1> SUFFICES ASSUME IInv, [Next]_vars  PROVE [Budget!Next]_(Budget!budgetVars)
    OBVIOUS
  <1> USE DEF Budget!budgetVars
  <1>1. CASE HandleRequest
    <2>1. cur \in Peer
      BY <1>1 DEF IInv, HandleRequest
    <2>2. CASE SizeOf(cur) <= available
      <3>1. Budget!Grant(cur)
        BY <1>1, <2>2 DEF HandleRequest, SizeOf, Budget!Grant, Budget!Take
      <3>2. QED
        BY <2>1, <3>1 DEF Budget!Next
    <2>3. CASE ~(SizeOf(cur) <= available)
      <3>1. Size[OwnerOf[cur]] \in Nat /\ available \in Int
        BY <2>1, ResourceAssumption DEF IInv, Type
      <3>2. Budget!Queue(cur)
        BY <1>1, <2>3, <3>1 DEF HandleRequest, SizeOf, Budget!Queue
      <3>3. QED
        BY <2>1, <3>2 DEF Budget!Next
    <2>4. QED
      BY <2>2, <2>3
  <1>2. ASSUME NEW p \in Peer, Notify(p)  PROVE Budget!Next
    <2>1. Budget!GrantWaiting(p)
      BY <1>2, ResourceAssumption
         DEF IInv, Offered, Notify, SizeOf, Budget!GrantWaiting, Budget!Take
    <2>2. QED
      BY <2>1 DEF Budget!Next
  <1>3. ASSUME NEW p \in Peer, CancelRequest(p)  PROVE Budget!Next
    <2>1. Budget!Withdraw(p)
      BY <1>3, ResourceAssumption DEF IInv, Offered, CancelRequest, Budget!Withdraw
    <2>2. QED
      BY <2>1 DEF Budget!Next
  <1>4. ASSUME NEW t \in Torrent, ReceiveRelease(t)  PROVE Budget!Next
    <2>1. Budget!Release(t)
      BY <1>4 DEF IInv, LoopOK, ReceiveRelease, Budget!Release
    <2>2. QED
      BY <2>1 DEF Budget!Next
  <1>5. CASE RandomRequest \/ HandleCancelled \/ ManagerEnds \/ ReceiveStats \/ Close
    BY <1>5 DEF RandomRequest, HandleCancelled, ManagerEnds, ReceiveStats, Close, managerVars
  <1>6. ASSUME NEW t \in Torrent, ReceiveRequest(t) \/ LoopStep(t) \/ CloseDownloader(t)
        PROVE  UNCHANGED Budget!budgetVars
    BY <1>6 DEF ReceiveRequest, LoopStep, AwaitAnswer, GiveUp, StartDownloader, CloseDownloader,
                managerVars
  <1>7. ASSUME NEW p \in Peer, Ask(OwnerOf[p], p) \/ PeerClosed(p) \/ PeerConnected(p)
        PROVE  UNCHANGED Budget!budgetVars
    BY <1>7 DEF Ask, PeerClosed, PeerConnected, managerVars
  <1>8. CASE UNCHANGED vars
    BY <1>8 DEF vars, managerVars
  <1>9. QED
    BY <1>1, <1>2, <1>3, <1>4, <1>5, <1>6, <1>7, <1>8 DEF Next, ManagerStep

(* The channels of the resource manager implement the budget that the      *)
(* download engine relies on: requests are granted at once or queued       *)
(* because they would overdraw it, and nothing is given back twice.        *)
THEOREM RefinesBudget == Spec => ImplementsBudget
PROOF
  <1>1. Init => Budget!Init
    BY DEF Init, Budget!Init
  <1>2. QED
    BY <1>1, Invariance, BudgetStep, PTL DEF Spec, ImplementsBudget, Budget!Spec

-----------------------------------------------------------------------------
(***************************************************************************)
(* Unchoker.  For every set of peers and all limits.                       *)
(***************************************************************************)
(* What SlotsAccounted says of slots s of the peers that are up, without   *)
(* the limits.                                                             *)
FlagsMatch(s, up, all) ==
  /\ s.optUnchoked = (up \ s.choked) \cap s.optimistic
  /\ s.unchoked \subseteq (up \ s.choked) \ s.optimistic
  /\ s.optimistic \subseteq up \ s.choked
  /\ all => s.unchoked = (up \ s.choked) \ s.optimistic

(* The limits, for peers that start choked and without ticks.              *)
WithinLimits(s) ==
  /\ IsFiniteSet(s.unchoked) /\ IsFiniteSet(s.optUnchoked)
  /\ Cardinality(s.unchoked) <= NumUnchoked
  /\ Cardinality(s.optUnchoked) <= NumOptimisticUnchoked

(* The inductive invariant.                                                *)
SlotsInv ==
  /\ online \subseteq Peers
  /\ FlagsMatch(Slots, online, startsChoked)
  /\ startsChoked /\ ~ticking => WithinLimits(Slots)

(* Choking, unchoking and unchoking at random keep the sets in agreement   *)
(* with the flags, whichever peers they are about.                         *)
LEMMA ChokeMatches ==
  ASSUME NEW s, NEW up, NEW all \in BOOLEAN, FlagsMatch(s, up, all), NEW P \in SUBSET up
  PROVE  FlagsMatch(chokePeer(s, P), up, all)
<1> DEFINE Q == P \ s.choked
           t == chokePeer(s, P)
<1>1. /\ t.choked = s.choked \cup Q /\ t.optimistic = s.optimistic \ Q
      /\ t.unchoked = s.unchoked \ Q /\ t.optUnchoked = s.optUnchoked \ Q
  BY DEF chokePeer
<1> HIDE DEF t
<1>2. t.optUnchoked = (up \ t.choked) \cap t.optimistic
  BY <1>1 DEF FlagsMatch
<1>3. t.unchoked \subseteq (up \ t.choked) \ t.optimistic /\ t.optimistic \subseteq up \ t.choked
  BY <1>1 DEF FlagsMatch
<1>4. all => t.unchoked = (up \ t.choked) \ t.optimistic
  BY <1>1 DEF FlagsMatch
<1>5. FlagsMatch(t, up, all)
  BY <1>2, <1>3, <1>4 DEF FlagsMatch
<1> QED
  BY <1>5 DEF t

LEMMA UnchokeMatches ==
  ASSUME NEW s, NEW up, NEW all \in BOOLEAN, FlagsMatch(s, up, all), NEW P \in SUBSET up
  PROVE  FlagsMatch(unchokePeer(s, P), up, all)
<1> DEFINE wasChoked == P \cap s.choked
           promoted == (P \ s.choked) \cap s.optimistic
           t == unchokePeer(s, P)
<1>1. /\ t.choked = s.choked \ P /\ t.optimistic = s.optimistic \ P
      /\ t.unchoked = s.unchoked \cup wasChoked \cup promoted
      /\ t.optUnchoked = s.optUnchoked \ promoted
  BY DEF unchokePeer
<1> HIDE DEF t
<1>2. t.optUnchoked = (up \ t.choked) \cap t.optimistic
  BY <1>1 DEF FlagsMatch
<1>3. t.unchoked \subseteq (up \ t.choked) \ t.optimistic /\ t.optimistic \subseteq up \ t.choked
  BY <1>1 DEF FlagsMatch
<1>4. all => t.unchoked = (up \ t.choked) \ t.optimistic
  BY <1>1 DEF FlagsMatch
<1>5. FlagsMatch(t, up, all)
  BY <1>2, <1>3, <1>4 DEF FlagsMatch
<1> QED
  BY <1>5 DEF t

LEMMA OptimisticMatches ==
  ASSUME NEW s, NEW up, NEW all \in BOOLEAN, FlagsMatch(s, up, all), NEW P \in SUBSET up
  PROVE  FlagsMatch(optimisticUnchokePeer(s, P), up, all)
<1> DEFINE wasChoked == P \cap s.choked
           demoted == (P \ s.choked) \ s.optimistic
           t == optimisticUnchokePeer(s, P)
<1>1. /\ t.choked = s.choked \ P /\ t.optimistic = s.optimistic \cup P
      /\ t.unchoked = s.unchoked \ demoted
      /\ t.optUnchoked = s.optUnchoked \cup wasChoked \cup demoted
  BY DEF optimisticUnchokePeer
<1> HIDE DEF t
<1>2. t.optUnchoked = (up \ t.choked) \cap t.optimistic
  BY <1>1 DEF FlagsMatch
<1>3. t.unchoked \subseteq (up \ t.choked) \ t.optimistic /\ t.optimistic \subseteq up \ t.choked
  BY <1>1 DEF FlagsMatch
<1>4. all => t.unchoked = (up \ t.choked) \ t.optimistic
  BY <1>1 DEF FlagsMatch
<1>5. FlagsMatch(t, up, all)
  BY <1>2, <1>3, <1>4 DEF FlagsMatch
<1> QED
  BY <1>5 DEF t

(* One more element does not exceed a limit that was not reached.          *)
LEMMA OneMore ==
  ASSUME NEW S, IsFiniteSet(S), NEW x, NEW n \in Nat, Cardinality(S) < n
  PROVE  IsFiniteSet(S \cup {x}) /\ Cardinality(S \cup {x}) <= n
<1>1. Cardinality(S) \in Nat
  BY FS_CardinalityType
<1>2. IsFiniteSet(S \cup {x}) /\ (Cardinality(S \cup {x}) = Cardinality(S)
        \/ Cardinality(S \cup {x}) = Cardinality(S) + 1)
  BY FS_AddElement
<1> QED
  BY <1>1, <1>2

(* FastUnchoke takes a slot only if one is free.                           *)
LEMMA FastUnchokeKeeps ==
  ASSUME NEW s, NEW up, NEW all \in BOOLEAN, FlagsMatch(s, up, all), NEW p \in up, NEW wants
  PROVE  /\ FlagsMatch(FastUnchoke(s, wants, p), up, all)
         /\ WithinLimits(s) => WithinLimits(FastUnchoke(s, wants, p))
<1> DEFINE t == IF p \in s.choked /\ p \in wants /\ Cardinality(s.unchoked) < NumUnchoked
                THEN unchokePeer(s, {p}) ELSE s
           u == IF p \in t.choked /\ p \in wants
                     /\ Cardinality(t.optUnchoked) < NumOptimisticUnchoked
                THEN optimisticUnchokePeer(t, {p}) ELSE t
<1>1. FastUnchoke(s, wants, p) = u
  BY DEF FastUnchoke
<1>2. {p} \in SUBSET up
  OBVIOUS
<1>3. FlagsMatch(t, up, all)
  BY <1>2, UnchokeMatches
<1>4. WithinLimits(s) => WithinLimits(t)
  <2> SUFFICES ASSUME WithinLimits(s) PROVE WithinLimits(t)
    OBVIOUS
  <2>1. CASE p \in s.choked /\ p \in wants /\ Cardinality(s.unchoked) < NumUnchoked
    <3>1. t = unchokePeer(s, {p})
      BY <2>1
    <3>2. t.unchoked = s.unchoked \cup {p} /\ t.optUnchoked = s.optUnchoked
      <4>1. {p} \cap s.choked = {p} /\ ({p} \ s.choked) \cap s.optimistic = {}
        BY <2>1
      <4>2. /\ t.unchoked = s.unchoked \cup ({p} \cap s.choked)
                              \cup (({p} \ s.choked) \cap s.optimistic)
            /\ t.optUnchoked = s.optUnchoked \ (({p} \ s.choked) \cap s.optimistic)
        BY <3>1 DEF unchokePeer
      <4> HIDE DEF t
      <4> QED
        BY <4>1, <4>2
    <3> HIDE DEF t
    <3>3. IsFiniteSet(s.unchoked \cup {p}) /\ Cardinality(s.unchoked \cup {p}) <= NumUnchoked
      BY <2>1, OneMore, UnchokerAssumption DEF WithinLimits
    <3> QED
      BY <3>2, <3>3 DEF WithinLimits
  <2>2. CASE ~(p \in s.choked /\ p \in wants /\ Cardinality(s.unchoked) < NumUnchoked)
    BY <2>2
  <2> QED
    BY <2>1, <2>2
<1> HIDE DEF t
<1>5. FlagsMatch(u, up, all)
  BY <1>2, <1>3, OptimisticMatches
<1>6. WithinLimits(t) => WithinLimits(u)
  <2> SUFFICES ASSUME WithinLimits(t) PROVE WithinLimits(u)
    OBVIOUS
  <2>1. CASE p \in t.choked /\ p \in wants /\ Cardinality(t.optUnchoked) < NumOptimisticUnchoked
    <3>1. u = optimisticUnchokePeer(t, {p})
      BY <2>1
    <3>2. u.unchoked = t.unchoked /\ u.optUnchoked = t.optUnchoked \cup {p}
      <4>1. {p} \cap t.choked = {p} /\ ({p} \ t.choked) \ t.optimistic = {}
        BY <2>1
      <4>2. /\ u.optUnchoked = t.optUnchoked \cup ({p} \cap t.choked)
                                 \cup (({p} \ t.choked) \ t.optimistic)
            /\ u.unchoked = t.unchoked \ (({p} \ t.choked) \ t.optimistic)
        BY <3>1 DEF optimisticUnchokePeer
      <4> HIDE DEF u
      <4> QED
        BY <4>1, <4>2
    <3> HIDE DEF u
    <3>3. /\ IsFiniteSet(t.optUnchoked \cup {p})
          /\ Cardinality(t.optUnchoked \cup {p}) <= NumOptimisticUnchoked
      BY <2>1, OneMore, UnchokerAssumption DEF WithinLimits
    <3> QED
      BY <3>2, <3>3 DEF WithinLimits
  <2>2. CASE ~(p \in t.choked /\ p \in wants /\ Cardinality(t.optUnchoked) < NumOptimisticUnchoked)
    BY <2>2
  <2> QED
    BY <2>1, <2>2
<1> HIDE DEF u
<1> QED
  BY <1>1, <1>4, <1>5, <1>6

-----------------------------------------------------------------------------
(* The actions.                                                            *)

LEMMA UnchokerInitial == UnchokerInit => SlotsInv
<1> SUFFICES ASSUME UnchokerInit PROVE SlotsInv
  OBVIOUS
<1>1. /\ online = {} /\ startsChoked \in BOOLEAN
      /\ Slots.choked = {} /\ Slots.optimistic = {} /\ Slots.unchoked = {} /\ Slots.optUnchoked = {}
  BY DEF UnchokerInit, Slots
<1>2. FlagsMatch(Slots, online, startsChoked)
  BY <1>1 DEF FlagsMatch
<1>3. WithinLimits(Slots)
  BY <1>1, FS_EmptySet, UnchokerAssumption DEF WithinLimits
<1> QED
  BY <1>1, <1>2, <1>3 DEF SlotsInv

(* Slots with the same fields are as good.                                 *)
LEMMA SameSlots ==
  ASSUME NEW s, NEW t, NEW up, NEW all, t.choked = s.choked, t.optimistic = s.optimistic,
         t.unchoked = s.unchoked, t.optUnchoked = s.optUnchoked
  PROVE  /\ FlagsMatch(s, up, all) => FlagsMatch(t, up, all)
         /\ WithinLimits(s) => WithinLimits(t)
  BY DEF FlagsMatch, WithinLimits

LEMMA UnchokerInductive ==
  ASSUME SlotsInv, startsChoked \in BOOLEAN, [UnchokerNext]_unchokerVars
  PROVE  SlotsInv' /\ startsChoked' \in BOOLEAN
<1>i. /\ online \subseteq Peers /\ FlagsMatch(Slots, online, startsChoked)
      /\ startsChoked /\ ~ticking => WithinLimits(Slots)
  BY DEF SlotsInv
<1>s. /\ Slots.choked = choked /\ Slots.optimistic = optimistic
      /\ Slots.unchoked = peersUnchoked /\ Slots.optUnchoked = peersUnchokedOptimistic
  BY DEF Slots
<1>t. /\ Slots'.choked = choked' /\ Slots'.optimistic = optimistic'
      /\ Slots'.unchoked = peersUnchoked' /\ Slots'.optUnchoked = peersUnchokedOptimistic'
  BY DEF Slots
<1>1. ASSUME NEW p \in Peers, Connect(p)
      PROVE  SlotsInv' /\ startsChoked' \in BOOLEAN
  <2>1. /\ p \notin online /\ online' = online \cup {p} /\ startsChoked' = startsChoked
        /\ ticking' = ticking /\ optimistic' = optimistic /\ peersUnchoked' = peersUnchoked
        /\ peersUnchokedOptimistic' = peersUnchokedOptimistic
        /\ choked' = IF startsChoked THEN choked \cup {p} ELSE choked
    BY <1>1 DEF Connect
  <2>2. /\ peersUnchokedOptimistic = (online \ choked) \cap optimistic
        /\ peersUnchoked \subseteq (online \ choked) \ optimistic
        /\ optimistic \subseteq online \ choked
        /\ startsChoked => peersUnchoked = (online \ choked) \ optimistic
    BY <1>i, <1>s DEF FlagsMatch
  <2>3. FlagsMatch(Slots', online', startsChoked')
    <3>1. peersUnchokedOptimistic' = (online' \ choked') \cap optimistic'
      BY <2>1, <2>2
    <3>2. /\ peersUnchoked' \subseteq (online' \ choked') \ optimistic'
          /\ optimistic' \subseteq online' \ choked'
      BY <2>1, <2>2
    <3>3. startsChoked' => peersUnchoked' = (online' \ choked') \ optimistic'
      BY <2>1, <2>2
    <3> QED
      BY <1>t, <3>1, <3>2, <3>3 DEF FlagsMatch
  <2>4. startsChoked' /\ ~ticking' => WithinLimits(Slots')
    BY <1>i, <1>s, <1>t, <2>1 DEF WithinLimits
  <2> QED
    BY <1>i, <2>1, <2>3, <2>4 DEF SlotsInv
<1>2. ASSUME NEW p \in Peers, InterestedMessage(p)
      PROVE  SlotsInv' /\ startsChoked' \in BOOLEAN
  <2> DEFINE s == FastUnchoke(Slots, interested', p)
  <2>1. /\ p \in online /\ SetSlots(s) /\ online' = online /\ startsChoked' = startsChoked
        /\ ticking' = ticking
    BY <1>2 DEF InterestedMessage
  <2>2. FlagsMatch(s, online, startsChoked) /\ (WithinLimits(Slots) => WithinLimits(s))
    BY <1>i, <2>1, FastUnchokeKeeps
  <2> HIDE DEF s
  <2>3. /\ Slots'.choked = s.choked /\ Slots'.optimistic = s.optimistic
        /\ Slots'.unchoked = s.unchoked /\ Slots'.optUnchoked = s.optUnchoked
    BY <1>t, <2>1 DEF SetSlots
  <2>4. FlagsMatch(Slots', online', startsChoked') /\ (WithinLimits(s) => WithinLimits(Slots'))
    BY <2>1, <2>2, <2>3, SameSlots
  <2> QED
    BY <1>i, <2>1, <2>2, <2>4 DEF SlotsInv
<1>3. ASSUME NEW p \in Peers, HandleDisconnect(p)
      PROVE  SlotsInv' /\ startsChoked' \in BOOLEAN
  <2>1. /\ online' = online \ {p} /\ startsChoked' = startsChoked /\ ticking' = ticking
        /\ choked' = choked \ {p} /\ optimistic' = optimistic \ {p}
        /\ peersUnchoked' = peersUnchoked \ {p}
        /\ peersUnchokedOptimistic' = peersUnchokedOptimistic \ {p}
    BY <1>3 DEF HandleDisconnect
  <2>2. /\ peersUnchokedOptimistic = (online \ choked) \cap optimistic
        /\ peersUnchoked \subseteq (online \ choked) \ optimistic
        /\ optimistic \subseteq online \ choked
        /\ startsChoked => peersUnchoked = (online \ choked) \ optimistic
    BY <1>i, <1>s DEF FlagsMatch
  <2>3. FlagsMatch(Slots', online', startsChoked')
    <3>1. peersUnchokedOptimistic' = (online' \ choked') \cap optimistic'
      BY <2>1, <2>2
    <3>2. /\ peersUnchoked' \subseteq (online' \ choked') \ optimistic'
          /\ optimistic' \subseteq online' \ choked'
      BY <2>1, <2>2
    <3>3. startsChoked' => peersUnchoked' = (online' \ choked') \ optimistic'
      BY <2>1, <2>2
    <3> QED
      BY <1>t, <3>1, <3>2, <3>3 DEF FlagsMatch
  <2>4. ASSUME WithinLimits(Slots) PROVE WithinLimits(Slots')
    <3>1. /\ IsFiniteSet(peersUnchoked) /\ IsFiniteSet(peersUnchokedOptimistic)
          /\ Cardinality(peersUnchoked) <= NumUnchoked
          /\ Cardinality(peersUnchokedOptimistic) <= NumOptimisticUnchoked
      BY <1>s, <2>4 DEF WithinLimits
    <3>2. /\ IsFiniteSet(peersUnchoked')
          /\ Cardinality(peersUnchoked') <= Cardinality(peersUnchoked)
          /\ Cardinality(peersUnchoked') \in Nat /\ Cardinality(peersUnchoked) \in Nat
      <4>1. peersUnchoked' \subseteq peersUnchoked
        BY <2>1
      <4> QED
        BY <3>1, <4>1, FS_Subset, FS_CardinalityType
    <3>3. /\ IsFiniteSet(peersUnchokedOptimistic')
          /\ Cardinality(peersUnchokedOptimistic') <= Cardinality(peersUnchokedOptimistic)
          /\ Cardinality(peersUnchokedOptimistic') \in Nat
          /\ Cardinality(peersUnchokedOptimistic) \in Nat
      <4>1. peersUnchokedOptimistic' \subseteq peersUnchokedOptimistic
        BY <2>1
      <4> QED
        BY <3>1, <4>1, FS_Subset, FS_CardinalityType
    <3> QED
      BY <1>t, <3>1, <3>2, <3>3, UnchokerAssumption DEF WithinLimits
  <2> QED
    BY <1>i, <2>1, <2>3, <2>4 DEF SlotsInv
<1>4. ASSUME NEW fastest \in SUBSET Candidates, NEW passed \in SUBSET PassedOver,
             NEW lucky \in SUBSET Candidates, TickUnchoke(fastest, passed, lucky)
      PROVE  SlotsInv' /\ startsChoked' \in BOOLEAN
  <2> DEFINE others == Candidates \ (fastest \cup passed)
             t == unchokePeer(Slots, fastest)
             u == optimisticUnchokePeer(t, lucky)
             w == chokePeer(u, others \ lucky)
  <2>1. /\ ticking /\ SetSlots(w) /\ online' = online /\ startsChoked' = startsChoked
        /\ ticking' = ticking
    BY <1>4 DEF TickUnchoke
  <2>2. Candidates \subseteq online
    BY DEF Candidates
  <2>3. FlagsMatch(t, online, startsChoked)
    BY <1>i, <2>2, UnchokeMatches
  <2> HIDE DEF t
  <2>4. FlagsMatch(u, online, startsChoked)
    BY <2>2, <2>3, OptimisticMatches
  <2> HIDE DEF u
  <2>5. FlagsMatch(w, online, startsChoked)
    BY <2>2, <2>4, ChokeMatches
  <2> HIDE DEF w
  <2>6. /\ Slots'.choked = w.choked /\ Slots'.optimistic = w.optimistic
        /\ Slots'.unchoked = w.unchoked /\ Slots'.optUnchoked = w.optUnchoked
    BY <1>t, <2>1 DEF SetSlots
  <2>7. FlagsMatch(Slots', online', startsChoked')
    BY <2>1, <2>5, <2>6, SameSlots
  <2> QED
    BY <1>i, <2>1, <2>7 DEF SlotsInv
<1>5. ASSUME NEW p \in Peers, NotInterestedMessage(p)
      PROVE  SlotsInv' /\ startsChoked' \in BOOLEAN
  <2>1. /\ online' = online /\ startsChoked' = startsChoked /\ ticking' = ticking /\ slots' = slots
    BY <1>5 DEF NotInterestedMessage
  <2> QED
    BY <1>i, <2>1 DEF SlotsInv, Slots, slots
<1>6. ASSUME UNCHANGED unchokerVars
      PROVE  SlotsInv' /\ startsChoked' \in BOOLEAN
  BY <1>i, <1>6 DEF SlotsInv, Slots, unchokerVars, slots
<1> QED
  BY <1>1, <1>2, <1>3, <1>4, <1>5, <1>6 DEF UnchokerNext

(* For any set of peers and any limits, through any order of messages,     *)
(* disconnects and ticks: the unchoker's two sets are the unchoked peers,  *)
(* by their flags, so nobody that is choked or gone occupies a slot and    *)
(* nobody two; peers that start choked are all counted, and FastUnchoke    *)
(* alone never exceeds the limits.                                         *)
THEOREM SlotsStayAccounted == UnchokerSpec => []SlotsAccounted
<1>1. UnchokerInit => SlotsInv /\ startsChoked \in BOOLEAN
  BY UnchokerInitial DEF UnchokerInit
<1>2. (SlotsInv /\ startsChoked \in BOOLEAN) /\ [UnchokerNext]_unchokerVars
        => (SlotsInv /\ startsChoked \in BOOLEAN)'
  BY UnchokerInductive
<1>3. SlotsInv => SlotsAccounted
  BY DEF SlotsInv, SlotsAccounted, FlagsMatch, WithinLimits, Slots
<1> QED
  BY <1>1, <1>2, <1>3, PTL DEF UnchokerSpec
=============================================================================
