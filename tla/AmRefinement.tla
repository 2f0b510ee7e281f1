---------------------------- MODULE AmRefinement ----------------------------
(***************************************************************************)
(* RLC AM implements the service of AmService, for SDUs that fit a PDU and *)
(* a load of at most half a receive window.                                *)
(***************************************************************************)
EXTENDS AmLinkInv

Service == INSTANCE AmService WITH
  taken <- arrived,
  retried <- txNumber,
  givenUp <- txDiscarded,
  passed <- {k \in Sdus : passedUp[k] > 0},
  done <- txFirst

\* Whatever is lost, reordered or repeated, the two queues and their windows do
\* only what the service allows: an SDU leaves the transmit window passed up or
\* given up, and never is passed up again or after that (AmTxQueue, AmRxQueue).
ImplementsService == Service!Spec

\* What AmIInv does not say and the refinement rests on: a PDU the sender still
\* answers for and that was seen was passed up, unless it was given up before;
\* and a PDU never sent was never sent again.
Answered ==
  \A sn \in Sns : sn >= txFirst /\ sn \in seen => passedUp[sn] > 0 \/ sn \in txDiscarded

UnsentNotRetried == \A sn \in Sns : sn >= txSeq => txNumber[sn] = 0

ServiceInv == AmIInv /\ Answered /\ UnsentNotRetried
=============================================================================
