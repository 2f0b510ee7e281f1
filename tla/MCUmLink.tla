------------------------------ MODULE MCUmLink ------------------------------
(***************************************************************************)
(* What TLC needs to check UmLink: its constants are all in the cfg.       *)
(***************************************************************************)
EXTENDS UmLink
=============================================================================
