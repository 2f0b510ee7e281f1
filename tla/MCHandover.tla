----------------------------- MODULE MCHandover -----------------------------
(***************************************************************************)
(* What TLC needs to check Handover: its constants are all in the cfg.     *)
(***************************************************************************)
EXTENDS HandoverInv
=============================================================================
