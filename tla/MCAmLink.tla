------------------------------ MODULE MCAmLink ------------------------------
(***************************************************************************)
(* What TLC needs to check AmLink: SDUs of one fragment, or of two.        *)
(***************************************************************************)
EXTENDS AmRefinement

Whole == [k \in 0 .. NumSdus |-> k]
Halves == [k \in 0 .. NumSdus |-> 2 * k]
=============================================================================
