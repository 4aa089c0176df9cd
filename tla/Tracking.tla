------------------------------ MODULE Tracking ------------------------------
(***************************************************************************)
(* internal/announcer over internal/tracker: the PeriodicalAnnouncer of a  *)
(* torrent with a tier of trackers, and the StopAnnouncer of another       *)
(* torrent that shares the transport.  Every doAnnounce starts a goroutine *)
(* that calls Tier.Announce and offers the result to the announcer's loop; *)
(* the loop's handlers are steps.  Intervals and back-offs are the moments *)
(* at which an armed timer fires and its tick is received (a tick that     *)
(* Reset leaves in the channel is one that comes early).  The goroutine    *)
(* that hands the peers of a response to the torrent and the statistics    *)
(* are left out.  Either the announcer's torrent is complete from the      *)
(* start, or the stop announcer has already ended: that keeps the          *)
(* instances small.                                                        *)
(***************************************************************************)
EXTENDS UdpTransport, Sequences

CONSTANTS
  Periodic,    \* goroutines of the periodical announcer (a bound)
  Stopper,     \* goroutines of the stop announcer, one for each tracker
  Tier,        \* Tier.Trackers
  StopTracker  \* the tracker of each goroutine of the stop announcer

ASSUME TrackingAssumption ==
  /\ Caller = Periodic \cup Stopper /\ Periodic \cap Stopper = {}
  /\ Tier \in Seq(Tracker) /\ Len(Tier) > 0 /\ StopTracker \in [Stopper -> Tracker]

VARIABLES
  run,        \* of the announcer: new, select, done
  status,
  armed,      \* its timer runs, or its channel holds a tick
  completedC, \* open, closed or nil
  index,      \* of the tier
  stop        \* of the stop announcer: off, waiting, done

loopVars == <<run, status, armed, completedC>>
vars == <<transportVars, loopVars, index, stop>>

Init ==
  /\ TransportInit
  /\ run = "new" /\ status = "NotContactedYet" /\ armed = FALSE
  /\ index = 1
  /\ \/ completedC = "open" /\ stop = "done"
     \/ completedC = "closed" /\ stop = "off"

Live(C) == {c \in C : call[c].pc # "idle"}

(* doAnnounce: a goroutine with the context that is current.               *)
DoAnnounce ==
  /\ Live(Periodic) # Periodic
  /\ call' = [call EXCEPT ![CHOOSE c \in Periodic \ Live(Periodic) : TRUE] = Called(Tier[index])]
  /\ status' = "Contacting"

-----------------------------------------------------------------------------
(* Run, up to its loop.                                                    *)
Start ==
  /\ run = "new" /\ run' = "select"
  /\ completedC' = IF completedC = "closed" THEN "nil" ELSE completedC
  /\ DoAnnounce
  /\ UNCHANGED <<armed, conn, table, net, silent, ended, index, stop>>

HandleTimer ==
  /\ run = "select" /\ armed /\ armed' = FALSE
  /\ IF status = "Contacting" THEN UNCHANGED <<call, status>> ELSE DoAnnounce
  /\ UNCHANGED <<run, completedC, conn, table, net, silent, ended, index, stop>>

(* A result is received from the goroutine c, which ends.                  *)
HandleResult(c) ==
  /\ run = "select" /\ call[c].pc \in {"ok", "error"} /\ c \in Periodic
  /\ status' = IF call[c].pc = "ok" THEN "Working" ELSE "NotWorking"
  /\ armed' = TRUE
  /\ call' = [call EXCEPT ![c] = Idle] /\ ended' = ended \ {c}
  /\ UNCHANGED <<run, completedC, conn, table, net, silent, index, stop>>

(* NeedMorePeers leaves a token, which the loop ignores while contacting   *)
(* or not working; otherwise the timer is set anew.                        *)
NeedMorePeers ==
  /\ run = "select" /\ status \notin {"Contacting", "NotWorking"}
  /\ armed' = TRUE
  /\ UNCHANGED <<run, status, completedC, transportVars, index, stop>>

(* The new announcement gets the context that was just cancelled.          *)
HandleCompletedOldContext ==
  /\ run = "select" /\ completedC = "closed" /\ completedC' = "nil"
  /\ DoAnnounce
  /\ ended' = IF status = "Contacting"
              THEN {c \in Periodic : call'[c].pc # "idle"} ELSE ended
  /\ UNCHANGED <<run, armed, conn, table, net, silent, index, stop>>

(* The announcement under way is cancelled and "completed" announced.      *)
HandleCompleted ==
  /\ run = "select" /\ completedC = "closed" /\ completedC' = "nil"
  /\ ended' = IF status = "Contacting" THEN ended \cup Live(Periodic) ELSE ended
  /\ DoAnnounce
  /\ UNCHANGED <<run, armed, conn, table, net, silent, index, stop>>

(* The announcement under way is left alone.                               *)
CloseKeepsContext ==
  /\ run = "select" /\ run' = "done" /\ armed' = FALSE
  /\ UNCHANGED <<status, completedC, transportVars, index, stop>>

(* Close, as the loop notices it: the timer is stopped and the context     *)
(* cancelled.                                                              *)
Close ==
  /\ run = "select" /\ run' = "done" /\ armed' = FALSE
  /\ ended' = ended \cup Live(Periodic)
  /\ UNCHANGED <<status, completedC, call, conn, table, net, silent, index, stop>>

Completed ==
  /\ run # "done" /\ completedC = "open" /\ completedC' = "closed"
  /\ UNCHANGED <<run, status, armed, transportVars, index, stop>>

-----------------------------------------------------------------------------
(* Tier.Announce: the next tracker is tried after an error, and also after *)
(* a cancellation.                                                         *)
TierStep(c) ==
  /\ CallStep(c)
  /\ index' = IF c \in Periodic /\ call[c].pc \notin Returned
                 /\ call'[c].pc \in {"error", "canceled"}
              THEN (index % Len(Tier)) + 1 ELSE index
  /\ UNCHANGED <<loopVars, stop>>

(* announce: a cancelled goroutine ends; one that has a result may find    *)
(* its context done before, or after, the loop takes it.                   *)
GiveUp(c) ==
  /\ c \in Periodic
  /\ call[c].pc = "canceled" \/ (call[c].pc \in Returned /\ c \in ended)
  /\ call' = [call EXCEPT ![c] = Idle] /\ ended' = ended \ {c}
  /\ UNCHANGED <<loopVars, conn, table, net, silent, index, stop>>

(* StopAnnouncer.Run                                                       *)
StopStart ==
  /\ stop = "off" /\ stop' = "waiting"
  /\ call' = [c \in Caller |-> IF c \in Stopper THEN Called(StopTracker[c]) ELSE call[c]]
  /\ UNCHANGED <<loopVars, conn, table, net, silent, ended, index>>

(* Its deadline passes, or it is closed.                                   *)
StopTimeout ==
  /\ stop = "waiting" /\ ended' = ended \cup Live(Stopper) /\ ended' # ended
  /\ UNCHANGED <<loopVars, call, conn, table, net, silent, index, stop>>

StopCallEnds(c) ==
  /\ c \in Stopper /\ call[c].pc \in Returned
  /\ call' = [call EXCEPT ![c] = Idle] /\ ended' = ended \ {c}
  /\ UNCHANGED <<loopVars, conn, table, net, silent, index, stop>>

StopEnds ==
  /\ stop = "waiting" /\ Live(Stopper) = {} /\ stop' = "done"
  /\ UNCHANGED <<loopVars, transportVars, index>>

-----------------------------------------------------------------------------
AnnouncerStep ==
  Start \/ HandleTimer \/ HandleCompleted

Retry(c) == Send(c) /\ UNCHANGED <<loopVars, index, stop>>

Goroutine(c) == TierStep(c) \/ GiveUp(c) \/ StopCallEnds(c)

Next ==
  \/ AnnouncerStep \/ \E c \in Periodic : HandleResult(c)
  \/ Completed \/ NeedMorePeers \/ Close
  \/ \E c \in Caller : Goroutine(c) \/ Retry(c)
  \/ WorldStep /\ UNCHANGED <<loopVars, index, stop>>
  \/ StopStart \/ StopTimeout \/ StopEnds

Spec == Init /\ [][Next]_vars

(* Goroutines and timers run, and a mutex is handed to everyone who waits  *)
(* for it in the end.  Nothing is assumed of the network and the trackers. *)
FairSpec ==
  /\ Spec /\ WF_vars(StopTimeout) /\ WF_vars(StopEnds)
  /\ \A c \in Caller :
       WF_vars(Goroutine(c)) /\ SF_vars(LockConnection(c) /\ TierStep(c))

-----------------------------------------------------------------------------
(* Properties.                                                             *)

(* Something will wake the announcer: while it is contacting a tracker, an *)
(* announcement whose context is not done is under way, and otherwise its  *)
(* timer runs or has fired, whatever completions, cancellations and        *)
(* results of cancelled announcements cross.                               *)
NeverIdle ==
  run = "select" =>
    IF status = "Contacting" THEN Live(Periodic) \ ended # {} ELSE armed

(* A caller waits for a connection that a caller with a live context keeps *)
(* locked while it connects.                                               *)
Blocked(c) ==
  LET h == conn[call[c].tracker].holder IN
  call[c].pc = "locking" /\ h # None /\ h \notin ended

(* After Close the goroutines of the announcer end, and the stop announcer *)
(* ends after its timeout, with trackers that never answer too, except for *)
(* those that wait for a connection that somebody else keeps locked.       *)
CallsEnd ==
  /\ \A c \in Periodic : run = "done" ~> (call[c].pc = "idle" \/ Blocked(c))
  /\ stop = "waiting" ~> (stop = "done" \/ \E c \in Stopper : Blocked(c))
=============================================================================
