---------------------------- MODULE MCHarqUplink ----------------------------
(***************************************************************************)
(* What TLC needs to check HarqUplink: the scopes a mode switch can have   *)
(* and the symmetry of the PDU identities.                                 *)
(***************************************************************************)
EXTENDS HarqRefinement, TLC

BothEnds == {{}, {"ue", "enb"}}
UeAlone == {{}, {"ue"}}
NoSwitch == {{}}

PduSymmetry == Permutations(Pdus)
=============================================================================
