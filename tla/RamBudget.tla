----------------------------- MODULE RamBudget ------------------------------
(***************************************************************************)
(* What the resource manager of a session promises its torrents: a budget  *)
(* that is taken at once or waited for, never overdrawn, and given back.   *)
(* Download uses it in this form, one unit being one piece.                *)
(***************************************************************************)
EXTENDS Integers

CONSTANTS Torrent, Peer, OwnerOf, Size, Limit

VARIABLES
  free,     \* what is left of the budget
  waiting,  \* the requests of each peer that wait
  held      \* how often each torrent holds its piece length

budgetVars == <<free, waiting, held>>

Init ==
  /\ free = Limit
  /\ waiting = [p \in Peer |-> 0]
  /\ held = [t \in Torrent |-> 0]

Take(t) ==
  /\ Size[t] <= free
  /\ free' = free - Size[t]
  /\ held' = [held EXCEPT ![t] = @ + 1]

(* A request is granted on the spot, or it is queued because it would      *)
(* overdraw the budget.                                                    *)
Grant(p) == Take(OwnerOf[p]) /\ UNCHANGED waiting

Queue(p) ==
  /\ Size[OwnerOf[p]] > free
  /\ waiting' = [waiting EXCEPT ![p] = @ + 1]
  /\ UNCHANGED <<free, held>>

GrantWaiting(p) ==
  /\ waiting[p] > 0
  /\ waiting' = [waiting EXCEPT ![p] = @ - 1]
  /\ Take(OwnerOf[p])

Withdraw(p) ==
  /\ waiting[p] > 0
  /\ waiting' = [waiting EXCEPT ![p] = @ - 1]
  /\ UNCHANGED <<free, held>>

Release(t) ==
  /\ held[t] > 0
  /\ free' = free + Size[t]
  /\ held' = [held EXCEPT ![t] = @ - 1]
  /\ UNCHANGED waiting

Next ==
  \/ \E p \in Peer : Grant(p) \/ Queue(p) \/ GrantWaiting(p) \/ Withdraw(p)
  \/ \E t \in Torrent : Release(t)

Spec == Init /\ [][Next]_budgetVars
=============================================================================
