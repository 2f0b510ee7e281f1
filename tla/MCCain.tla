------------------------------- MODULE MCCain -------------------------------
(***************************************************************************)
(* What TLC needs to check Cain: its constants are all in the cfg.         *)
(***************************************************************************)
EXTENDS Cain
=============================================================================
