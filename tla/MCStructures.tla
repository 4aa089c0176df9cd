---------------------------- MODULE MCStructures ----------------------------
(***************************************************************************)
(* The three data structures that share no state with each other: the      *)
(* files of a torrent, the blocklist and the unchoker.  A behaviour is one *)
(* of the three; the other two stay as they start.                         *)
(***************************************************************************)
EXTENDS Storage, Blocklist, Unchoker

VARIABLE subject

vars == <<subject, storageVars, blocklistVars, unchokerVars>>

(* The ranges of the instance: everything, a half, nested and adjacent     *)
(* ranges, and single addresses at both ends.                              *)
MCLines == {<<0, 0>>, <<4, 1>>, <<2, 2>>, <<0, 3>>, <<3, 3>>, <<7, 3>>,
            Comment, Invalid}

StorageIdle ==
  /\ info = Nil /\ disk = Nil /\ saved = Nil /\ done = Nil /\ stale = {} /\ Stopped

UnchokerIdle == UnchokerInit /\ ~startsChoked /\ ~ticking

Init ==
  \/ subject = "storage" /\ StorageInit /\ BlocklistInit /\ UnchokerIdle
  \/ subject = "blocklist" /\ StorageIdle /\ BlocklistInit /\ UnchokerIdle
  \/ subject = "unchoker" /\ StorageIdle /\ BlocklistInit /\ UnchokerInit

Next ==
  /\ UNCHANGED subject
  /\ \/ subject = "storage" /\ StorageNext /\ UNCHANGED <<blocklistVars, unchokerVars>>
     \/ subject = "blocklist" /\ BlocklistNext /\ UNCHANGED <<storageVars, unchokerVars>>
     \/ subject = "unchoker" /\ UnchokerNext /\ UNCHANGED <<storageVars, blocklistVars>>

Spec == Init /\ [][Next]_vars
=============================================================================
