------------------------------- MODULE HarqTx -------------------------------
(***************************************************************************)
(* The transmission side of a hybrid-ARQ link: LteHarqBufferTx with its    *)
(* LteHarqProcessTx and LteHarqUnitTx objects, for one destination.  Each  *)
(* action is one operation of the buffer; modules that compose it say who  *)
(* calls it and when.                                                      *)
(***************************************************************************)
EXTENDS HarqCommon

VARIABLES
  txStatus,        \* LteHarqUnitTx::status_
  txPdu,           \* LteHarqUnitTx::pduId_
  txCount,         \* LteHarqUnitTx::transmissions_
  numEmptyUnits,   \* LteHarqProcessTx::numEmptyUnits_
  numSelected,     \* LteHarqProcessTx::numSelected_
  dropped,         \* LteHarqProcessTx::dropped_
  selectedAcid     \* LteHarqBufferTx::selectedAcid_

txVars == <<txStatus, txPdu, txCount, numEmptyUnits, numSelected, dropped,
            selectedAcid>>

HarqNone == -1     \* HARQ_NONE, a process number no process has

TxTypeOK ==
  /\ txStatus \in [Unit -> {"EMPTY", "SELECTED", "WAITING", "BUFFERED"}]
  /\ txPdu \in [Unit -> Pdus \cup {NoPdu}]
  /\ txCount \in [Unit -> Nat]
  /\ numEmptyUnits \in [Acid -> Int]
  /\ numSelected \in [Acid -> Int]
  /\ dropped \in [Acid -> BOOLEAN]
  /\ selectedAcid \in Acid \cup {HarqNone}

TxInit ==
  /\ txStatus = [u \in Unit |-> "EMPTY"]
  /\ txPdu = [u \in Unit |-> NoPdu]
  /\ txCount = [u \in Unit |-> 0]
  /\ numEmptyUnits = [a \in Acid |-> Cardinality(Codewords)]
  /\ numSelected = [a \in Acid |-> 0]
  /\ dropped = [a \in Acid |-> FALSE]
  /\ selectedAcid = HarqNone

UnitsIn(a, status) == {u \in UnitsOf(a) : txStatus[u] = status}
ReadyUnits(a) == UnitsIn(a, "BUFFERED")
EmptyUnits(a) == UnitsIn(a, "EMPTY")

-----------------------------------------------------------------------------
(***************************************************************************)
(* insertPdu, called once for every unit of U in process a.  Only the      *)
(* first call of a TTI finds no process selected and asks for the whole    *)
(* process to be empty.                                                    *)
(***************************************************************************)
ProcessRefused(a) ==
  selectedAcid = HarqNone /\ numEmptyUnits[a] # Cardinality(Codewords)

TxInsertPdus(a, U, pdu) ==
  \/ /\ ProcessRefused(a)
     /\ thrown' = "processNotEmpty"
     /\ UNCHANGED txVars
  \/ /\ ~ProcessRefused(a)
     /\ ~(U \subseteq EmptyUnits(a))
     /\ thrown' = "unitNotEmpty"
     /\ UNCHANGED txVars
  \/ /\ ~ProcessRefused(a)
     /\ U \subseteq EmptyUnits(a)
     /\ selectedAcid' = a
     /\ txStatus' = [u \in Unit |-> IF u \in U THEN "SELECTED" ELSE txStatus[u]]
     /\ txPdu' = [u \in Unit |-> IF u \in U THEN pdu[u] ELSE txPdu[u]]
     /\ txCount' = [u \in Unit |-> IF u \in U THEN 0 ELSE txCount[u]]
     /\ numEmptyUnits' = [numEmptyUnits EXCEPT ![a] = @ - Cardinality(U)]
     /\ numSelected' = [numSelected EXCEPT ![a] = @ + Cardinality(U)]
     /\ dropped' = [dropped EXCEPT ![a] = FALSE]
     /\ UNCHANGED thrown

(***************************************************************************)
(* markSelected of the ready units of a process, with tbs transport blocks *)
(* available.  With fewer blocks than units the first unit takes over the  *)
(* SDUs of the others (its jumbo PDU), which are dropped.                  *)
(***************************************************************************)
FirstUnit(R) == CHOOSE u \in R : \A v \in R : u[2] <= v[2]

Marked(R, tbs) == IF Cardinality(R) > tbs THEN {FirstUnit(R)} ELSE R

TxMarkSelected(a, tbs) ==
  LET R == ReadyUnits(a)
      M == Marked(R, tbs)
  IN  /\ R # {} /\ tbs > 0
      /\ \/ /\ numSelected[a] + Cardinality(M) > Cardinality(Codewords)
            /\ thrown' = "allSelected"
            /\ UNCHANGED txVars
         \/ /\ numSelected[a] + Cardinality(M) <= Cardinality(Codewords)
            /\ txStatus' = [u \in Unit |-> IF u \in M THEN "SELECTED"
                                           ELSE IF u \in R THEN "EMPTY"
                                           ELSE txStatus[u]]
            /\ txPdu' = [u \in Unit |-> IF u \in R \ M THEN NoPdu ELSE txPdu[u]]
            /\ txCount' = [u \in Unit |-> IF u \in R \ M THEN 0 ELSE txCount[u]]
            /\ numEmptyUnits' = [numEmptyUnits EXCEPT ![a] = @ + Cardinality(R \ M)]
            /\ numSelected' = [numSelected EXCEPT ![a] = @ + Cardinality(M)]
            /\ selectedAcid' = a
            /\ UNCHANGED <<dropped, thrown>>

(***************************************************************************)
(* sendSelectedDown: every selected unit of the selected process goes to   *)
(* the air with the new-data indicator of a first transmission, and waits. *)
(***************************************************************************)
SelectedUnits == IF selectedAcid = HarqNone THEN {}
                 ELSE UnitsIn(selectedAcid, "SELECTED")

SelectedData == {[unit |-> u, pdu |-> txPdu[u], ndi |-> txCount[u] = 0] :
                 u \in SelectedUnits}

TxSendSelectedDown ==
  LET U == SelectedUnits IN
  \/ /\ selectedAcid = HarqNone
     /\ UNCHANGED <<txVars, thrown>>
  \/ /\ selectedAcid # HarqNone
     /\ numSelected[selectedAcid] < Cardinality(U)
     /\ thrown' = "noneSelected"
     /\ UNCHANGED txVars
  \/ /\ selectedAcid # HarqNone
     /\ numSelected[selectedAcid] >= Cardinality(U)
     /\ txStatus' = [u \in Unit |-> IF u \in U THEN "WAITING" ELSE txStatus[u]]
     /\ txCount' = [u \in Unit |-> IF u \in U THEN txCount[u] + 1 ELSE txCount[u]]
     /\ numSelected' = [numSelected EXCEPT ![selectedAcid] = @ - Cardinality(U)]
     /\ selectedAcid' = HarqNone
     /\ UNCHANGED <<txPdu, numEmptyUnits, dropped, thrown>>

(***************************************************************************)
(* receiveHarqFeedback: ignored while the process is dropped; otherwise it *)
(* must name the PDU of the unit, and the unit must be waiting for it.     *)
(***************************************************************************)
\* Mutant: the answer is not looked at.
TxFreesUnitUnread(f) == txCount[f.unit] = MaxHarqRtx + 1

TxFreesUnit(f) == f.ack \/ txCount[f.unit] = MaxHarqRtx + 1

TxReceiveFeedback(f) ==
  LET u == f.unit
      a == f.unit[1]
  IN
  \/ /\ dropped[a]
     /\ UNCHANGED <<txVars, thrown>>
  \/ /\ ~dropped[a] /\ f.pdu # txPdu[u]
     /\ thrown' = "feedbackForOtherPdu"
     /\ UNCHANGED txVars
  \/ /\ ~dropped[a] /\ f.pdu = txPdu[u] /\ txStatus[u] # "WAITING"
     /\ thrown' = "feedbackNotAwaited"
     /\ UNCHANGED txVars
  \/ /\ ~dropped[a] /\ f.pdu = txPdu[u] /\ txStatus[u] = "WAITING"
     /\ TxFreesUnit(f)
     /\ txStatus' = [txStatus EXCEPT ![u] = "EMPTY"]
     /\ txPdu' = [txPdu EXCEPT ![u] = NoPdu]
     /\ txCount' = [txCount EXCEPT ![u] = 0]
     /\ numEmptyUnits' = [numEmptyUnits EXCEPT ![a] = @ + 1]
     /\ UNCHANGED <<numSelected, dropped, selectedAcid, thrown>>
  \/ /\ ~dropped[a] /\ f.pdu = txPdu[u] /\ txStatus[u] = "WAITING"
     /\ ~TxFreesUnit(f)
     /\ txStatus' = [txStatus EXCEPT ![u] = "BUFFERED"]
     /\ UNCHANGED <<txPdu, txCount, numEmptyUnits, numSelected, dropped,
                    selectedAcid, thrown>>

(***************************************************************************)
(* forceDropProcess of every process, as a D2D mode switch does.           *)
(***************************************************************************)
\* Mutant: the counter of empty units is not restored.
TxForceDropAllUncounted ==
  /\ txStatus' = [u \in Unit |-> "EMPTY"]
  /\ txPdu' = [u \in Unit |-> NoPdu]
  /\ txCount' = [u \in Unit |-> 0]
  /\ numSelected' = [a \in Acid |-> 0]
  /\ dropped' = [a \in Acid |-> TRUE]
  /\ selectedAcid' = HarqNone
  /\ UNCHANGED <<numEmptyUnits, thrown>>

TxForceDropAll ==
  /\ txStatus' = [u \in Unit |-> "EMPTY"]
  /\ txPdu' = [u \in Unit |-> NoPdu]
  /\ txCount' = [u \in Unit |-> 0]
  /\ numEmptyUnits' = [a \in Acid |-> Cardinality(Codewords)]
  /\ numSelected' = [a \in Acid |-> 0]
  /\ dropped' = [a \in Acid |-> TRUE]
  /\ selectedAcid' = HarqNone
  /\ UNCHANGED thrown
=============================================================================
