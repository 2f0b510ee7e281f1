----------------------------- MODULE HarqCommon -----------------------------
(***************************************************************************)
(* What the two ends of a hybrid-ARQ link share: the processes and units   *)
(* they number alike, the identities of MAC PDUs, and the way an end stops *)
(* the simulation when a check of the code fails (throw cRuntimeError).    *)
(***************************************************************************)
EXTENDS Integers, FiniteSets

CONSTANTS
  NumProc,       \* H-ARQ processes of a buffer (UE_TX_HARQ_PROCESSES, 8 in the code)
  Codewords,     \* units of a process: 0 .. MAX_CODEWORDS - 1
  MaxHarqRtx,    \* the parameter maxHarqRtx of both ends
  Pdus,          \* identities a MAC PDU can have (its OMNeT++ message id)
  NoPdu          \* pduId_ = -1, or a NULL pointer to a PDU

ASSUME HarqAssumption ==
  /\ NumProc \in Nat /\ NumProc >= 2
  /\ Codewords \subseteq Nat /\ Codewords # {} /\ IsFiniteSet(Codewords)
  /\ MaxHarqRtx \in 0 .. 254          \* transmissions_ is an unsigned char
  /\ NoPdu \notin Pdus

Acid == 0 .. NumProc - 1

\* A unit is addressed by its process and its codeword.
Unit == Acid \X Codewords
UnitsOf(a) == {a} \X Codewords

\* What a check of the code can report before it ends the simulation.
Errors == {"processNotEmpty", "unitNotEmpty", "allSelected", "noneSelected",
           "feedbackForOtherPdu", "feedbackNotAwaited",
           "newDataInBusyUnit", "rtxInNonEmptyUnit"}

VARIABLE thrown      \* "none", or the error the simulation ended with
=============================================================================
