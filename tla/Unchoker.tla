------------------------------ MODULE Unchoker ------------------------------
(***************************************************************************)
(* unchoker.Unchoker and the flags of the peers it works on.  The run loop *)
(* calls FastUnchoke when a peer is interested and HandleDisconnect when   *)
(* it is closed; its call of TickUnchoke is commented out.  The peers of   *)
(* internal/peer start choked, those of external/peer, which the torrent   *)
(* uses, start unchoked.  Init picks who calls and which peers there are.  *)
(* The speeds change between ticks, so a tick sorts the peers in any order.*)
(***************************************************************************)
EXTENDS Integers, FiniteSets

CONSTANTS Peers,                 \* the peers that may connect
          NumUnchoked,           \* numUnchoked
          NumOptimisticUnchoked  \* numOptimisticUnchoked

ASSUME UnchokerAssumption ==
  NumUnchoked \in Nat /\ NumOptimisticUnchoked \in Nat /\ IsFiniteSet(Peers)

VARIABLES startsChoked, \* ClientChoking of a new peer
          ticking,      \* TickUnchoke is called
          online,       \* the connected peers
          interested,   \* PeerInterested
          choked,       \* ClientChoking
          optimistic,   \* OptimisticUnchoked
          round,
          peersUnchoked, peersUnchokedOptimistic

slots == <<choked, optimistic, peersUnchoked, peersUnchokedOptimistic>>
unchokerVars == <<startsChoked, ticking, online, interested, round, slots>>

(* What the operations change, as a value.                                 *)
Slots == [choked |-> choked, optimistic |-> optimistic,
          unchoked |-> peersUnchoked, optUnchoked |-> peersUnchokedOptimistic]

SetSlots(s) ==
  /\ choked' = s.choked /\ optimistic' = s.optimistic
  /\ peersUnchoked' = s.unchoked /\ peersUnchokedOptimistic' = s.optUnchoked

(* The operations on the flags and slots of every peer in P, one after the *)
(* other: a peer's flags and slots are its own, so the order is no matter. *)
chokePeer(s, P) ==
  LET Q == P \ s.choked
  IN [choked |-> s.choked \cup Q, optimistic |-> s.optimistic \ Q,
      unchoked |-> s.unchoked \ Q, optUnchoked |-> s.optUnchoked \ Q]

(* The bug that an optimistic peer that is promoted keeps its slot.        *)
unchokePeerKeepsSlot(s, P) ==
  [s EXCEPT !.choked = @ \ P, !.optimistic = @ \ P,
            !.unchoked = @ \cup (P \cap (s.choked \cup s.optimistic))]

(* Unchoke the peers, or move them into the regular unchoked peers.        *)
unchokePeer(s, P) ==
  LET wasChoked == P \cap s.choked
      promoted == (P \ s.choked) \cap s.optimistic
  IN [choked |-> s.choked \ P, optimistic |-> s.optimistic \ P,
      unchoked |-> s.unchoked \cup wasChoked \cup promoted,
      optUnchoked |-> s.optUnchoked \ promoted]

optimisticUnchokePeer(s, P) ==
  LET wasChoked == P \cap s.choked
      demoted == (P \ s.choked) \ s.optimistic
  IN [choked |-> s.choked \ P, optimistic |-> s.optimistic \cup P,
      unchoked |-> s.unchoked \ demoted,
      optUnchoked |-> s.optUnchoked \cup wasChoked \cup demoted]

FastUnchoke(s, wants, p) ==
  LET t == IF p \in s.choked /\ p \in wants /\ Cardinality(s.unchoked) < NumUnchoked
           THEN unchokePeer(s, {p}) ELSE s
  IN IF p \in t.choked /\ p \in wants /\ Cardinality(t.optUnchoked) < NumOptimisticUnchoked
     THEN optimisticUnchokePeer(t, {p}) ELSE t

-----------------------------------------------------------------------------
UnchokerInit ==
  /\ startsChoked \in BOOLEAN /\ ticking \in BOOLEAN
  /\ online = {} /\ interested = {} /\ choked = {} /\ optimistic = {} /\ round = 0
  /\ peersUnchoked = {} /\ peersUnchokedOptimistic = {}

Connect(p) ==
  /\ p \notin online
  /\ online' = online \cup {p}
  /\ choked' = IF startsChoked THEN choked \cup {p} ELSE choked
  /\ UNCHANGED <<startsChoked, ticking, interested, optimistic, round,
                 peersUnchoked, peersUnchokedOptimistic>>

InterestedMessage(p) ==
  /\ p \in online
  /\ interested' = interested \cup {p}
  /\ SetSlots(FastUnchoke(Slots, interested', p))
  /\ UNCHANGED <<startsChoked, ticking, online, round>>

NotInterestedMessage(p) ==
  /\ p \in interested
  /\ interested' = interested \ {p}
  /\ UNCHANGED <<startsChoked, ticking, online, round, slots>>

(* closePeer: the peer and its flags are gone.                             *)
HandleDisconnect(p) ==
  /\ p \in online
  /\ online' = online \ {p} /\ interested' = interested \ {p}
  /\ choked' = choked \ {p} /\ optimistic' = optimistic \ {p}
  /\ peersUnchoked' = peersUnchoked \ {p}
  /\ peersUnchokedOptimistic' = peersUnchokedOptimistic \ {p}
  /\ UNCHANGED <<startsChoked, ticking, round>>

(* candidatesUnchoke, and those of them that the regular round passes over *)
Candidates == online \cap interested
PassedOver == IF round = 0 THEN {} ELSE Candidates \cap optimistic

(* The regular round, in the order of any speeds: the fastest peers that   *)
(* it does not pass over are unchoked until there are enough of them, and  *)
(* the ones passed over on the way are left as they are.                   *)
RegularRound(fastest, passed) ==
  /\ fastest \subseteq Candidates \ PassedOver /\ passed \subseteq PassedOver
  /\ Cardinality(fastest) <= NumUnchoked
  /\ Cardinality(fastest) < NumUnchoked => fastest \cup passed = Candidates
  /\ NumUnchoked = 0 => passed = {}

(* Every third round some of the others are unchoked at random; all that   *)
(* are left are choked.                                                    *)
TickUnchoke(fastest, passed, lucky) ==
  LET others == Candidates \ (fastest \cup passed)
      unchoked == optimisticUnchokePeer(unchokePeer(Slots, fastest), lucky)
  IN /\ ticking
     /\ RegularRound(fastest, passed)
     /\ lucky \subseteq others
     /\ IF round # 0 THEN lucky = {}
        ELSE /\ Cardinality(lucky) <= NumOptimisticUnchoked
             /\ Cardinality(lucky) < NumOptimisticUnchoked => lucky = others
     /\ SetSlots(chokePeer(unchoked, others \ lucky))
     /\ round' = (round + 1) % 3
     /\ UNCHANGED <<startsChoked, ticking, online, interested>>

UnchokerNext ==
  \/ \E p \in Peers : \/ Connect(p) \/ InterestedMessage(p)
                      \/ NotInterestedMessage(p) \/ HandleDisconnect(p)
  \/ \E fastest \in SUBSET Candidates, passed \in SUBSET PassedOver,
        lucky \in SUBSET Candidates : TickUnchoke(fastest, passed, lucky)

UnchokerSpec == UnchokerInit /\ [][UnchokerNext]_unchokerVars

-----------------------------------------------------------------------------
(* The two sets of the unchoker are the unchoked peers, by their flag:     *)
(* nobody that is choked or gone occupies a slot and nobody occupies two,  *)
(* through any order of messages, disconnects and ticks.  Peers that start *)
(* choked are all counted, and without ticks never exceed the limits.      *)
SlotsAccounted ==
  LET unchoked == online \ choked
  IN /\ peersUnchokedOptimistic = unchoked \cap optimistic
     /\ peersUnchoked \subseteq unchoked \ optimistic
     /\ optimistic \subseteq unchoked
     /\ startsChoked => peersUnchoked = unchoked \ optimistic
     /\ startsChoked /\ ~ticking =>
          /\ Cardinality(peersUnchoked) <= NumUnchoked
          /\ Cardinality(peersUnchokedOptimistic) <= NumOptimisticUnchoked
=============================================================================
