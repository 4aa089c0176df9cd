----------------------------- MODULE MCTracking -----------------------------
(* A small instance of Tracking for TLC: a tier of a UDP and an HTTP       *)
(* tracker, and a stop announcer that uses the same UDP tracker.           *)
EXTENDS Tracking

CONSTANTS k1, k2, s1

TierOfTwo == <<k1, k2>>
StopAtFirst == [s \in {s1} |-> k1]
=============================================================================
