----------------------------- MODULE UmService ------------------------------
(***************************************************************************)
(* What RLC UM promises, without PDUs, windows or a timer: SDUs may be     *)
(* lost, but those passed up are some that were sent, in their order and   *)
(* none twice.                                                             *)
(***************************************************************************)
EXTENDS Naturals, Sequences, SequencesExt

CONSTANT NumSdus       \* SDUs, numbered from 0

VARIABLES
  sent,                \* SDUs taken from the upper layer
  passed               \* SDUs passed up, in order

vars == <<sent, passed>>

Init == sent = 0 /\ passed = <<>>

Send ==
  /\ sent < NumSdus
  /\ sent' = sent + 1
  /\ UNCHANGED passed

\* What one PDU, or the end of waiting for one, makes complete: some more of
\* those sent, each after all that were passed before it.
Pass ==
  /\ IsPrefix(passed, passed')
  /\ \A i \in Len(passed) + 1 .. Len(passed') :
       /\ passed'[i] \in 0 .. sent - 1
       /\ \A j \in 1 .. i - 1 : passed'[j] < passed'[i]
  /\ UNCHANGED sent

Next == Send \/ Pass

Spec == Init /\ [][Next]_vars
=============================================================================
