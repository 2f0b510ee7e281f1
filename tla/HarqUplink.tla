----------------------------- MODULE HarqUplink -----------------------------
(***************************************************************************)
(* The uplink H-ARQ of one UE (LteMacUeRealistic and its D2D variant) and  *)
(* its serving eNodeB (LteMacEnbRealistic, or LteMacEnb when RxPurges), in *)
(* transmission time intervals.  Inside a TTI the events of both nodes     *)
(* interleave as OMNeT++ orders them: a mode switch (priority -1 at the UE,*)
(* 0 at the eNodeB) before the node's main loop (1), the RLC's answer and  *)
(* the flush of the UE after its loop, and the frames sent in the TTI      *)
(* before (10) after the loops of both.                                    *)
(***************************************************************************)
EXTENDS HarqTx, HarqRx

CONSTANTS
  SwitchScopes,      \* the sets of nodes a mode switch reaches in a TTI
  Handovers,         \* may the UE change its eNodeB
  IdleFirstGrant     \* may the first grant find nothing to send

\* A process comes round again only after its feedback arrived: 8 >= 3 + 3 in
\* the code, which needs it and does not check it.
ASSUME HarqUplinkAssumption ==
  /\ NumProc >= FbInterval + 3
  /\ 0 \in Codewords
  /\ SwitchScopes \subseteq SUBSET {"ue", "enb"}
  /\ {} \in SwitchScopes
  /\ Handovers \in BOOLEAN /\ IdleFirstGrant \in BOOLEAN

VARIABLES
  currentHarq,       \* LteMacUe::currentHarq_
  firstTx,           \* LteMacUe::firstTx
  schedulingGrant,   \* LteMacUe::schedulingGrant_
  harqStatus,        \* LteSchedulerEnbUl::harqStatus_ of the UE
  rxBuffer,          \* does harqRxBuffers_ have an entry for the UE
  switching,         \* nodes still to handle the mode switch of this TTI
  ueStep,            \* what the UE does next in this TTI
  enbStep,           \* what the eNodeB does next in this TTI
  dataSent, fbSent, grantSent,    \* frames sent in this TTI
  dataAir, fbAir, grantAir,       \* frames of the previous TTI, still to arrive
  delivered          \* PDUs passed up by the eNodeB that some end still names

airVars == <<dataSent, fbSent, grantSent, dataAir, fbAir, grantAir>>
ueVars == <<txVars, currentHarq, firstTx, schedulingGrant, ueStep>>
enbVars == <<rxVars, harqStatus, rxBuffer, enbStep>>
vars == <<thrown, ueVars, enbVars, airVars, switching, delivered>>

\* A grant is the process the eNodeB means it to retransmit, or HarqNone for
\* a new transmission, or NoGrant.
NoGrant == -2
Grant == Acid \cup {HarqNone, NoGrant}

Data == [unit : Unit, pdu : Pdus \cup {NoPdu}, ndi : BOOLEAN]
Feedback == [unit : Unit, pdu : Pdus \cup {NoPdu}, ack : BOOLEAN]

TypeOK ==
  /\ thrown \in Errors \cup {"none"}
  /\ TxTypeOK
  /\ RxTypeOK
  /\ currentHarq \in Acid
  /\ firstTx \in BOOLEAN
  /\ schedulingGrant \in Grant /\ grantSent \in Grant /\ grantAir \in Grant
  /\ harqStatus \in Acid \cup {HarqNone}
  /\ rxBuffer \in BOOLEAN
  /\ switching \in SUBSET {"ue", "enb"}
  /\ ueStep \in {"tick", "make", "flush", "air"}
  /\ enbStep \in {"tick", "air"}
  /\ dataSent \subseteq Data /\ dataAir \subseteq Data
  /\ fbSent \subseteq Feedback /\ fbAir \subseteq Feedback
  /\ delivered \subseteq Pdus

Init ==
  /\ thrown = "none"
  /\ TxInit
  /\ RxInit
  /\ currentHarq = 0
  /\ firstTx = FALSE
  /\ schedulingGrant = NoGrant /\ grantSent = NoGrant /\ grantAir = NoGrant
  /\ harqStatus = HarqNone
  /\ rxBuffer = FALSE
  /\ switching = {}
  /\ ueStep = "tick" /\ enbStep = "tick"
  /\ dataSent = {} /\ dataAir = {}
  /\ fbSent = {} /\ fbAir = {}
  /\ delivered = {}

\* Mutant: the counter never wraps.
NextAcidUnwrapped(a) == a + 1
NextAcid(a) == IF a = NumProc - 1 THEN 0 ELSE a + 1
PrevAcid(a) == IF a = 0 THEN NumProc - 1 ELSE a - 1

\* The ids no PDU of the system has now.
FreshPdus == {p \in Pdus : /\ \A u \in Unit : txPdu[u] # p /\ rxPdu[u] # p
                           /\ \A m \in dataSent \cup dataAir \cup fbSent \cup fbAir :
                                m.pdu # p}

-----------------------------------------------------------------------------
(***************************************************************************)
(* The UE.                                                                 *)
(***************************************************************************)
UeModeSwitch ==
  /\ "ue" \in switching
  /\ TxForceDropAll
  /\ switching' = switching \ {"ue"}
  /\ UNCHANGED <<currentHarq, firstTx, schedulingGrant, ueStep, enbVars, airVars,
                 delivered>>

UeLoopStarts == ueStep = "tick" /\ "ue" \notin switching

\* Mutant: without a grant the loop returns before the counter moves on.
UeTickNoGrantReturns ==
  /\ UeLoopStarts
  /\ schedulingGrant = NoGrant
  /\ ueStep' = "air"
  /\ UNCHANGED <<thrown, txVars, currentHarq, firstTx, schedulingGrant, enbVars,
                 airVars, switching, delivered>>

\* Without a grant nothing is sent, and the process is skipped all the same.
UeTickNoGrant ==
  /\ UeLoopStarts
  /\ schedulingGrant = NoGrant
  /\ currentHarq' = NextAcid(currentHarq)
  /\ ueStep' = "air"
  /\ UNCHANGED <<thrown, txVars, firstTx, schedulingGrant, enbVars, airVars,
                 switching, delivered>>

\* The first grant of all initialises the counter, so that the eNodeB, which
\* receives the first PDU two TTIs later, can start its own at 0.
GrantedAcid == IF firstTx THEN currentHarq ELSE NumProc - 2

UeTickRetransmit ==
  /\ UeLoopStarts
  /\ schedulingGrant # NoGrant
  /\ \E layers \in 1 .. Cardinality(Codewords) : TxMarkSelected(GrantedAcid, layers)
  /\ firstTx' = TRUE
  /\ currentHarq' = NextAcid(GrantedAcid)
  /\ ueStep' = "flush"
  /\ UNCHANGED <<schedulingGrant, enbVars, airVars, switching, delivered>>

\* macSduRequest: the counter moves on when the RLC has answered.  The model
\* asks for no SDU while all the identities of Pdus are in use.
UeTickRequestSdu ==
  /\ UeLoopStarts
  /\ FreshPdus # {}
  /\ schedulingGrant # NoGrant
  /\ ReadyUnits(GrantedAcid) = {}
  /\ firstTx' = TRUE
  /\ currentHarq' = GrantedAcid
  /\ ueStep' = "make"
  /\ UNCHANGED <<thrown, txVars, schedulingGrant, enbVars, airVars, switching,
                 delivered>>

UeTickNothingToSend ==
  /\ UeLoopStarts
  /\ schedulingGrant # NoGrant
  /\ ReadyUnits(GrantedAcid) = {}
  /\ firstTx \/ IdleFirstGrant
  /\ firstTx' = TRUE
  /\ currentHarq' = NextAcid(GrantedAcid)
  /\ ueStep' = "flush"
  /\ UNCHANGED <<thrown, txVars, schedulingGrant, enbVars, airVars, switching,
                 delivered>>

\* macPduMake: one PDU, of codeword 0, for the current process; it is deleted
\* when the process has no empty unit.
UeMakePdu ==
  /\ ueStep = "make"
  /\ \E p \in FreshPdus :
       \/ /\ EmptyUnits(currentHarq) # {}
          /\ TxInsertPdus(currentHarq, {<<currentHarq, 0>>}, [u \in Unit |-> p])
       \/ /\ EmptyUnits(currentHarq) = {}
          /\ UNCHANGED <<thrown, txVars>>
  /\ currentHarq' = NextAcid(currentHarq)
  /\ ueStep' = "flush"
  /\ UNCHANGED <<firstTx, schedulingGrant, enbVars, airVars, switching, delivered>>

UeFlush ==
  /\ ueStep = "flush"
  /\ TxSendSelectedDown
  /\ dataSent' = dataSent \cup SelectedData
  /\ schedulingGrant' = NoGrant
  /\ ueStep' = "air"
  /\ UNCHANGED <<currentHarq, firstTx, enbVars, fbSent, grantSent, dataAir, fbAir,
                 grantAir, switching, delivered>>

-----------------------------------------------------------------------------
(***************************************************************************)
(* The eNodeB.                                                             *)
(***************************************************************************)
EnbModeSwitch ==
  /\ "enb" \in switching
  /\ RxAbortAll
  /\ switching' = switching \ {"enb"}
  /\ UNCHANGED <<ueVars, harqStatus, rxBuffer, enbStep, airVars, delivered>>

\* updateHarqDescs
NextHarqStatus == IF ~rxBuffer THEN harqStatus
                  ELSE IF harqStatus = HarqNone THEN 0 ELSE NextAcid(harqStatus)

\* Mutants: one process ahead; only the units answered in this very loop.
RtxAcidNear == NextAcid(NextHarqStatus)
AwaitsRtxNow(a) == \E u \in UnitsOf(a) : u \in NackedUnits \ ExhaustedUnits

\* rtxschedule looks two processes ahead for a unit that is still corrupted
\* after the feedback of this loop, and before its purge.
RtxAcid == NextAcid(NextAcid(NextHarqStatus))
AwaitsRtx(a) == \E u \in UnitsOf(a) :
                  \/ u \in NackedUnits \ ExhaustedUnits
                  \/ rxStatus[u] = "CORRUPTED"

RtxGrants == IF rxBuffer /\ AwaitsRtx(RtxAcid) THEN {RtxAcid} ELSE {}

EnbTick(grant) ==
  /\ enbStep = "tick" /\ "enb" \notin switching
  /\ RxMainLoop
  /\ fbSent' = fbSent \cup RxFeedback
  /\ delivered' = delivered \cup ExtractedPdus
  /\ harqStatus' = NextHarqStatus
  /\ grantSent' = grant
  /\ enbStep' = "air"
  /\ UNCHANGED <<ueVars, rxBuffer, dataSent, dataAir, fbAir, grantAir, switching>>

\* The retransmission is granted when the bands have room for it; a random
\* access or a buffer status report can earn a grant as well.
EnbTickRtx == \E a \in RtxGrants : EnbTick(a)
EnbTickOther == \E grant \in {HarqNone, NoGrant} : EnbTick(grant)

-----------------------------------------------------------------------------
(***************************************************************************)
(* The air, and time.                                                      *)
(***************************************************************************)
LoopsDone == ueStep = "air" /\ enbStep = "air"

DataArrives ==
  /\ LoopsDone
  /\ \E d \in dataAir, ok \in BOOLEAN :
       /\ RxInsertPdu(d, ok)
       /\ dataAir' = dataAir \ {d}
  /\ rxBuffer' = TRUE
  /\ UNCHANGED <<ueVars, harqStatus, enbStep, dataSent, fbSent, grantSent, fbAir,
                 grantAir, switching, delivered>>

FeedbackArrives ==
  /\ LoopsDone
  /\ \E f \in fbAir :
       /\ TxReceiveFeedback(f)
       /\ fbAir' = fbAir \ {f}
  /\ UNCHANGED <<currentHarq, firstTx, schedulingGrant, ueStep, enbVars, dataSent,
                 fbSent, grantSent, dataAir, grantAir, switching, delivered>>

\* macHandleGrant
GrantArrives ==
  /\ LoopsDone
  /\ grantAir # NoGrant
  /\ schedulingGrant' = grantAir
  /\ grantAir' = NoGrant
  /\ UNCHANGED <<thrown, txVars, currentHarq, firstTx, ueStep, enbVars, dataSent,
                 fbSent, grantSent, dataAir, fbAir, switching, delivered>>

AirEmpty == dataAir = {} /\ fbAir = {} /\ grantAir = NoGrant

NextTti ==
  /\ LoopsDone /\ AirEmpty
  /\ dataAir' = dataSent /\ fbAir' = fbSent /\ grantAir' = grantSent
  /\ dataSent' = {} /\ fbSent' = {} /\ grantSent' = NoGrant
  /\ switching' \in SwitchScopes
  /\ ueStep' = "tick" /\ enbStep' = "tick"
  /\ RxNextTti
  /\ delivered' = delivered \ FreshPdus
  /\ UNCHANGED <<txVars, currentHarq, firstTx, schedulingGrant, harqStatus,
                 rxBuffer>>

(***************************************************************************)
(* doHandover, between the events of two TTIs: both ends start with empty  *)
(* buffers, the new eNodeB may still have a process number of an earlier   *)
(* stay, and what is in the air is for, or from, a node that no longer     *)
(* matters.  currentHarq_, firstTx and the grant of the UE stay.           *)
(***************************************************************************)
HandOver ==
  /\ Handovers
  /\ LoopsDone /\ AirEmpty
  /\ txStatus' = [u \in Unit |-> "EMPTY"]
  /\ txPdu' = [u \in Unit |-> NoPdu]
  /\ txCount' = [u \in Unit |-> 0]
  /\ numEmptyUnits' = [a \in Acid |-> Cardinality(Codewords)]
  /\ numSelected' = [a \in Acid |-> 0]
  /\ dropped' = [a \in Acid |-> FALSE]
  /\ selectedAcid' = HarqNone
  /\ rxStatus' = [u \in Unit |-> "EMPTY"]
  /\ rxPdu' = [u \in Unit |-> NoPdu]
  /\ rxResult' = [u \in Unit |-> FALSE]
  /\ rxAge' = [u \in Unit |-> 0]
  /\ rxCount' = [a \in Acid |-> 0]
  /\ resetHarq' = FALSE
  /\ harqStatus' \in Acid \cup {HarqNone}
  /\ rxBuffer' = FALSE
  /\ dataSent' = {} /\ fbSent' = {} /\ grantSent' = NoGrant
  /\ UNCHANGED <<thrown, currentHarq, firstTx, schedulingGrant, ueStep, enbStep,
                 dataAir, fbAir, grantAir, switching, delivered>>

-----------------------------------------------------------------------------
\* cRuntimeError ends the simulation, so nothing happens once it was thrown.
Next ==
  /\ thrown = "none"
  /\ \/ UeModeSwitch
     \/ UeTickNoGrant \/ UeTickRetransmit \/ UeTickRequestSdu \/ UeTickNothingToSend
     \/ UeMakePdu \/ UeFlush
     \/ EnbModeSwitch \/ EnbTickRtx \/ EnbTickOther
     \/ DataArrives \/ FeedbackArrives \/ GrantArrives
     \/ NextTti \/ HandOver

Spec == Init /\ [][Next]_vars

\* The event queue never stops while events are scheduled, and every TTI
\* schedules the next.  That a retransmission asked for again and again finds
\* room in the bands in the end is the load the model assumes.
RtxGranted(a) == thrown = "none" /\ a \in RtxGrants /\ EnbTick(a)

FairSpec == Spec /\ WF_vars(Next) /\ \A a \in Acid : SF_vars(RtxGranted(a))

-----------------------------------------------------------------------------
(***************************************************************************)
(* Properties.                                                             *)
(***************************************************************************)

\* No check of the two H-ARQ buffers ever fails: LteHarqBufferTx and
\* LteHarqProcessRx throw "this should not happen" errors that end the whole
\* simulation, and rely on the timing of their callers not to meet them.
NoError == thrown = "none"

\* The part of NoError that concerns feedback: an answer that arrives is
\* either ignored, its process being dropped, or it names the PDU the unit
\* holds and waits for.  Nothing but the length of the process cycle keeps
\* the answer to a dropped PDU from meeting its successor.
FeedbackIsAwaited ==
  \A f \in fbAir : \/ dropped[f.unit[1]]
                   \/ txStatus[f.unit] = "WAITING" /\ txPdu[f.unit] = f.pdu

\* numEmptyUnits_ and numSelected_, kept by four classes of calls, count the
\* units they stand for, and only the selected process has selected units.
CountersMatch ==
  /\ \A a \in Acid :
       /\ numEmptyUnits[a] = Cardinality(EmptyUnits(a))
       /\ numSelected[a] = Cardinality(UnitsIn(a, "SELECTED"))
  /\ \A u \in Unit : txStatus[u] = "SELECTED" => selectedAcid = u[1]

\* What can still answer the transmission of unit u.
DataFor(u) == {d \in dataSent \cup dataAir : d.unit = u}
FeedbackFor(u) == {f \in fbSent \cup fbAir : f.unit = u}
AnswersTo(u) ==
  {d.pdu : d \in DataFor(u)} \cup {f.pdu : f \in FeedbackFor(u)}
    \cup {rxPdu[v] : v \in {w \in {u} : rxStatus[w] = "EVALUATING"}}
NumAnswers(u) == Cardinality(DataFor(u)) + Cardinality(FeedbackFor(u))
                 + (IF rxStatus[u] = "EVALUATING" THEN 1 ELSE 0)

\* A unit that waits has exactly one answer coming: its PDU is in the air, or
\* under evaluation, or its feedback is in the air.  A unit without one waits
\* for ever, as no timer of the code ever gives up.
WaitingHasAnswer ==
  switching = {} =>
    \A u \in Unit : txStatus[u] = "WAITING" =>
                      NumAnswers(u) = 1 /\ AnswersTo(u) = {txPdu[u]}

\* When the receiver keeps corrupted PDUs, the two ends count alike: a unit
\* ready for retransmission faces the corrupted copy of the same PDU, with as
\* many transmissions counted there, so both give up at the same one.
EndsCountAlike ==
  ~RxPurges /\ switching = {} =>
    \A u \in Unit :
      /\ txStatus[u] = "BUFFERED" =>
           /\ rxStatus[u] = "CORRUPTED" /\ rxPdu[u] = txPdu[u]
           /\ rxCount[u[1]] = txCount[u]
      /\ rxStatus[u] = "CORRUPTED" => txPdu[u] = rxPdu[u]

\* A PDU passed up is never received again, so RLC never sees it twice.
NoRedelivery ==
  /\ \A u \in Unit : rxStatus[u] = "EVALUATING" => rxPdu[u] \notin delivered
  /\ \A d \in dataSent \cup dataAir : d.pdu \notin delivered

\* "purge from corrupted PDUs all Rx H-HARQ buffers for all users", says the
\* comment on the last loop over the buffers in the main loop of the eNodeB.
CorruptedArePurged ==
  enbStep = "air" => \A u \in Unit : rxStatus[u] # "CORRUPTED"

\* The "Grant Synchronization check" that the main loop of the UE has commented
\* out: the grant the eNodeB gave for a process is used for that process.
GrantSynchronized ==
  schedulingGrant \in Acid /\ ueStep \in {"tick", "make"} =>
    firstTx /\ schedulingGrant = currentHarq

\* Every transmission is answered.
WaitingIsAnswered ==
  \A u \in Unit : txStatus[u] = "WAITING" ~> txStatus[u] # "WAITING"

\* Every PDU whose retransmission was asked for is sent again, or given up in a
\* mode switch.
NackedIsSentAgain ==
  \A u \in Unit : txStatus[u] = "BUFFERED" ~> txStatus[u] # "BUFFERED"
=============================================================================
