----------------------------- MODULE MCTransfer -----------------------------
(* An instance of Transfer for TLC; the constants are given in the cfg.    *)
EXTENDS Transfer
=============================================================================
