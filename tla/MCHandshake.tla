---------------------------- MODULE MCHandshake ----------------------------
(* All settings of the two ends, with paddings of up to two bytes.         *)
EXTENDS Handshake
=============================================================================
