--------------------------- MODULE HarqRefinement ---------------------------
(***************************************************************************)
(* The two H-ARQ buffers, their feedback and the grants between them       *)
(* implement the service of HarqService, when mode switches reach both     *)
(* ends.                                                                   *)
(***************************************************************************)
EXTENDS HarqUplinkInv

Service == INSTANCE HarqService WITH
  pending <- {[pdu |-> txPdu[u], tries |-> txCount[u]] :
                u \in {v \in Unit : txPdu[v] # NoPdu}},
  delivered <- delivered

\* LteHarqBufferTx and LteHarqBufferRx together, each relying on the timing of
\* the other, only do what the service allows: whatever feedback, mode switches
\* and handovers cross each other, a PDU is passed up once, only while the UE
\* answers for it, and never forgotten before it was.
ImplementsService == Service!Spec
=============================================================================
