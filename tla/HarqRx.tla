------------------------------- MODULE HarqRx -------------------------------
(***************************************************************************)
(* The reception side of a hybrid-ARQ link: LteHarqBufferRx with its       *)
(* LteHarqProcessRx objects, for one source.  A unit is CORRECT only       *)
(* between the two loops of extractCorrectPdus, which are one step here.   *)
(***************************************************************************)
EXTENDS HarqCommon

CONSTANTS
  FbInterval,    \* HARQ_FB_EVALUATION_INTERVAL in TTIs (3 in the code)
  RxPurges       \* does the purge loop of the node start at the first buffer, as in
                 \* LteMacEnb, or where the loop before it ended, at the last

ASSUME HarqRxAssumption == FbInterval \in Nat \ {0} /\ RxPurges \in BOOLEAN

VARIABLES
  rxStatus,      \* LteHarqProcessRx::status_
  rxPdu,         \* LteHarqProcessRx::pdu_
  rxResult,      \* LteHarqProcessRx::result_, the decider's verdict
  rxAge,         \* NOW - rxTime_ of an evaluating unit, in TTIs up to FbInterval
  rxCount,       \* LteHarqProcessRx::transmissions_, one for ALL the units
  resetHarq      \* LteMacBase::resetHarq_ of the source equals NOW

rxVars == <<rxStatus, rxPdu, rxResult, rxAge, rxCount, resetHarq>>

CountModulus == 256      \* transmissions_ is an unsigned char

RxTypeOK ==
  /\ rxStatus \in [Unit -> {"EMPTY", "EVALUATING", "CORRUPTED"}]
  /\ rxPdu \in [Unit -> Pdus \cup {NoPdu}]
  /\ rxResult \in [Unit -> BOOLEAN]
  /\ rxAge \in [Unit -> 0 .. FbInterval]
  /\ rxCount \in [Acid -> 0 .. CountModulus - 1]
  /\ resetHarq \in BOOLEAN

RxInit ==
  /\ rxStatus = [u \in Unit |-> "EMPTY"]
  /\ rxPdu = [u \in Unit |-> NoPdu]
  /\ rxResult = [u \in Unit |-> FALSE]
  /\ rxAge = [u \in Unit |-> 0]
  /\ rxCount = [a \in Acid |-> 0]
  /\ resetHarq = FALSE

-----------------------------------------------------------------------------
(***************************************************************************)
(* insertPdu of a PDU the decider judged ok or corrupted.  Nothing is      *)
(* accepted in the TTI in which the processes were aborted.                *)
(***************************************************************************)
RxInsertPdu(d, ok) ==
  LET u == d.unit IN
  \/ /\ resetHarq
     /\ UNCHANGED <<rxVars, thrown>>
  \/ /\ ~resetHarq /\ d.ndi /\ rxStatus[u] # "EMPTY"
     /\ thrown' = "newDataInBusyUnit"
     /\ UNCHANGED rxVars
  \/ /\ ~resetHarq /\ ~d.ndi /\ rxStatus[u] = "EVALUATING"
     /\ thrown' = "rtxInNonEmptyUnit"
     /\ UNCHANGED rxVars
  \/ /\ ~resetHarq
     /\ rxStatus[u] = "EMPTY" \/ (~d.ndi /\ rxStatus[u] = "CORRUPTED")
     /\ rxStatus' = [rxStatus EXCEPT ![u] = "EVALUATING"]
     /\ rxPdu' = [rxPdu EXCEPT ![u] = d.pdu]
     /\ rxResult' = [rxResult EXCEPT ![u] = ok]
     /\ rxAge' = [rxAge EXCEPT ![u] = 0]
     /\ rxCount' = [rxCount EXCEPT ![u[1]] = (@ + 1) % CountModulus]
     /\ UNCHANGED <<resetHarq, thrown>>

(***************************************************************************)
(* One main loop of the node: extractCorrectPdus creates the feedback of   *)
(* every evaluated unit and passes the correct PDUs up; what stays         *)
(* corrupted is purged when the loop does so.                              *)
(***************************************************************************)
Evaluated == {u \in Unit : rxStatus[u] = "EVALUATING" /\ rxAge[u] >= FbInterval}

\* Mutant: only the correct PDUs are answered.
RxFeedbackAcksOnly ==
  {[unit |-> u, pdu |-> rxPdu[u], ack |-> TRUE] : u \in {v \in Evaluated : rxResult[v]}}

RxFeedback == {[unit |-> u, pdu |-> rxPdu[u], ack |-> rxResult[u]] : u \in Evaluated}

CorrectUnits == {u \in Evaluated : rxResult[u]}
NackedUnits == Evaluated \ CorrectUnits
ExtractedPdus == {rxPdu[u] : u \in CorrectUnits}

\* Mutant: maxHarqRtx is taken for the number of transmissions.
ExhaustedUnitsEarly ==
  {u \in NackedUnits :
     /\ rxCount[u[1]] = MaxHarqRtx
     /\ \A v \in NackedUnits : v[1] = u[1] => u[2] <= v[2]}

\* createFeedback resets a unit when the process has seen maxHarqRtx_ + 1
\* transmissions; the reset zeroes the count, so only the first unit can.
ExhaustedUnits ==
  {u \in NackedUnits :
     /\ rxCount[u[1]] = MaxHarqRtx + 1
     /\ \A v \in NackedUnits : v[1] = u[1] => u[2] <= v[2]}

PurgedUnits ==
  IF RxPurges THEN NackedUnits \cup {u \in Unit : rxStatus[u] = "CORRUPTED"} ELSE {}

\* Mutant: extractPdu leaves the unit as it is.
ResetUnitsKeepingCorrect == ExhaustedUnits \cup PurgedUnits

ResetUnits == CorrectUnits \cup ExhaustedUnits \cup PurgedUnits

RxMainLoop ==
  /\ rxStatus' = [u \in Unit |-> IF u \in ResetUnits THEN "EMPTY"
                                 ELSE IF u \in NackedUnits THEN "CORRUPTED"
                                 ELSE rxStatus[u]]
  /\ rxPdu' = [u \in Unit |-> IF u \in ResetUnits THEN NoPdu ELSE rxPdu[u]]
  /\ rxResult' = [u \in Unit |-> rxResult[u] /\ u \notin ResetUnits]
  /\ rxAge' = [u \in Unit |-> IF u \in Evaluated THEN 0 ELSE rxAge[u]]
  /\ rxCount' = [a \in Acid |-> IF UnitsOf(a) \cap ResetUnits # {} THEN 0
                                ELSE rxCount[a]]
  /\ UNCHANGED <<resetHarq, thrown>>

(***************************************************************************)
(* The H-ARQ part of a D2D mode switch: every unit is purged and reset,    *)
(* and the TTI is remembered.                                              *)
(***************************************************************************)
\* Mutant: the TTI of the abort is not remembered.
RxAbortAllForgotten ==
  /\ rxStatus' = [u \in Unit |-> "EMPTY"]
  /\ rxPdu' = [u \in Unit |-> NoPdu]
  /\ rxResult' = [u \in Unit |-> FALSE]
  /\ rxAge' = [u \in Unit |-> 0]
  /\ rxCount' = [a \in Acid |-> 0]
  /\ UNCHANGED <<resetHarq, thrown>>

RxAbortAll ==
  /\ rxStatus' = [u \in Unit |-> "EMPTY"]
  /\ rxPdu' = [u \in Unit |-> NoPdu]
  /\ rxResult' = [u \in Unit |-> FALSE]
  /\ rxAge' = [u \in Unit |-> 0]
  /\ rxCount' = [a \in Acid |-> 0]
  /\ resetHarq' = TRUE
  /\ UNCHANGED thrown

\* Time passes: NOW moves one TTI on.
RxNextTti ==
  /\ rxAge' = [u \in Unit |-> IF rxStatus[u] = "EVALUATING" /\ rxAge[u] < FbInterval
                              THEN rxAge[u] + 1 ELSE rxAge[u]]
  /\ resetHarq' = FALSE
  /\ UNCHANGED <<rxStatus, rxPdu, rxResult, rxCount, thrown>>
=============================================================================
