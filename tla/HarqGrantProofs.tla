--------------------------- MODULE HarqGrantProofs ---------------------------
(***************************************************************************)
(* The proof that the process counters of the two ends agree: the UE       *)
(* counts in every TTI from its first transmission on, the eNodeB from the *)
(* first PDU it has received, and a grant takes two TTIs to be used.       *)
(***************************************************************************)
EXTENDS HarqUplinkProofs

\* What the sync run assumes, but for the mode switches, which may come.
SteadyLink == ~Handovers /\ ~IdleFirstGrant /\ AgreedSwitches

\* Before the first PDU has arrived the eNodeB does not count; it arrives in the TTI
\* after the UE sent it as process NumProc - 2.
FirstOnItsWay ==
  ~rxBuffer =>
    /\ harqStatus = HarqNone
    /\ firstTx =>
         \/ Slot = NumProc - 1 /\ dataAir # {}
         \/ /\ Slot = NumProc - 2 /\ dataAir = {}
            /\ \/ ueStep = "make"
               \/ ueStep = "flush" /\ selectedAcid # HarqNone
               \/ ueStep = "air" /\ dataSent # {}

\* From then on it counts what the UE counts, one behind until its loop has run.
CountersAgree ==
  rxBuffer =>
    /\ firstTx
    /\ IF enbStep = "tick" THEN NextHarqStatus = Slot
       ELSE harqStatus = Slot \/ (harqStatus = HarqNone /\ Slot = NumProc - 1)

\* A grant for a process is for the one whose turn it will be when it is used.
GrantsInTime ==
  /\ grantSent \in Acid => rxBuffer /\ enbStep = "air" /\ grantSent = NextAcid(NextAcid(Slot))
  /\ grantAir \in Acid => rxBuffer /\ grantAir = NextAcid(Slot)
  /\ schedulingGrant \in Acid =>
       /\ rxBuffer
       /\ IF ueStep = "air" THEN LoopsDone /\ schedulingGrant = NextAcid(Slot)
          ELSE schedulingGrant = Slot

GrantInv == FirstOnItsWay /\ CountersAgree /\ GrantsInTime

-----------------------------------------------------------------------------
\* The processes at both ends of the cycle, and the grants that are for none.
LEMMA Cycle ==
  /\ NumProc - 1 \in Acid /\ NumProc - 2 \in Acid /\ 0 \in Acid
  /\ NextAcid(NumProc - 2) = NumProc - 1 /\ NextAcid(NumProc - 1) = 0
  /\ HarqNone \notin Acid /\ NoGrant \notin Acid
  /\ \A a \in Acid : NextAcid(PrevAcid(a)) = a /\ a # HarqNone
BY Constants DEF NextAcid, PrevAcid, Acid, HarqNone, NoGrant

\* A step within a TTI that leaves both counters and the grants as they are.
LEMMA SteadyStep ==
  ASSUME GrantInv, Slot' = Slot, firstTx' = firstTx,
         UNCHANGED <<harqStatus, rxBuffer, enbStep, grantSent, grantAir, dataAir>>,
         schedulingGrant' = schedulingGrant \/ schedulingGrant' \notin Acid,
         schedulingGrant' \in Acid => (ueStep = "air" <=> ueStep' = "air"),
         ~rxBuffer /\ dataAir = {} /\ firstTx =>
           \/ ueStep' = "make"
           \/ ueStep' = "flush" /\ selectedAcid' # HarqNone
           \/ ueStep' = "air" /\ dataSent' # {}
  PROVE  GrantInv'
<1>1. FirstOnItsWay'
  BY DEF GrantInv, FirstOnItsWay
<1>2. CountersAgree'
  BY DEF GrantInv, CountersAgree, NextHarqStatus
<1>3. GrantsInTime'
  BY DEF GrantInv, GrantsInTime, LoopsDone
<1>4. QED
  BY <1>1, <1>2, <1>3 DEF GrantInv

\* The loop of the UE starts in a TTI in which the first PDU is not to be sent still.
LEMMA LoopStartsAfter ==
  ASSUME IInv, GrantInv, ueStep = "tick"
  PROVE  ~rxBuffer /\ firstTx => dataAir # {} /\ Slot = NumProc - 1
BY DEF GrantInv, FirstOnItsWay

\* The first transmission takes the counter of the UE to NumProc - 2.
LEMMA FirstRequest ==
  ASSUME IInv, GrantInv, UeTickRequestSdu, ~firstTx
  PROVE  GrantInv'
<1>1. /\ firstTx' /\ ueStep' = "make" /\ currentHarq' = NumProc - 2
      /\ UNCHANGED <<schedulingGrant, harqStatus, rxBuffer, enbStep, airVars>>
  BY DEF UeTickRequestSdu, GrantedAcid, enbVars
<1>2. Slot' = NumProc - 2 /\ dataAir = {} /\ ~rxBuffer
  BY <1>1 DEF Slot, IInv, IdleBeforeFirstTx, GrantInv, CountersAgree
<1>3. FirstOnItsWay' /\ CountersAgree' /\ GrantsInTime'
  BY <1>1, <1>2 DEF GrantInv, FirstOnItsWay, CountersAgree, GrantsInTime, airVars
<1>4. QED
  BY <1>3 DEF GrantInv

\* The other loops of the UE.
LEMMA UeTickKeepsGrants ==
  ASSUME SteadyLink, IInv, GrantInv,
         UeTickNoGrant \/ UeTickRetransmit \/ UeTickRequestSdu \/ UeTickNothingToSend
  PROVE  GrantInv'
<1>1. /\ UeLoopStarts /\ ueStep = "tick" /\ Slot = currentHarq /\ Slot \in Acid
      /\ UNCHANGED <<schedulingGrant, harqStatus, rxBuffer, enbStep, airVars>>
  BY SlotType DEF UeTickNoGrant, UeTickRetransmit, UeTickRequestSdu, UeTickNothingToSend,
       UeLoopStarts, Slot, enbVars, IInv
<1>2. ~rxBuffer /\ firstTx => dataAir # {}
  BY <1>1, LoopStartsAfter
<1>3. CASE UeTickNoGrant
  <2>1. /\ schedulingGrant = NoGrant /\ firstTx' = firstTx /\ Slot' = Slot
    BY <1>1, <1>3, NextPrev DEF UeTickNoGrant, Slot
  <2>2. QED
    BY <1>1, <1>2, <2>1, Cycle, SteadyStep DEF airVars
<1>4. CASE UeTickRetransmit
  <2>1. PICK tbs \in 1 .. Cardinality(Codewords) : TxMarkSelected(GrantedAcid, tbs)
    BY <1>4 DEF UeTickRetransmit
  <2>2. ReadyUnits(GrantedAcid) # {} /\ GrantedAcid \in Acid
    BY <1>1, <2>1, TurnIsFree DEF TxMarkSelected
  <2>3. txStatus[First(GrantedAcid)] = "BUFFERED"
    BY <2>2, UnitsInOne DEF ReadyUnits
  <2>4. firstTx /\ GrantedAcid = Slot
    BY <1>1, <2>2, <2>3, TurnIsFree DEF IInv, IdleBeforeFirstTx
  <2>5. firstTx' = firstTx /\ ueStep' = "flush" /\ Slot' = Slot
    BY <1>1, <1>4, <2>4, NextPrev DEF UeTickRetransmit, Slot, IInv, TypeOK
  <2>6. QED
    BY <1>1, <1>2, <2>5, SteadyStep DEF airVars
<1>5. CASE UeTickRequestSdu /\ firstTx
  <2>1. firstTx' = firstTx /\ ueStep' = "make" /\ Slot' = Slot
    BY <1>1, <1>5 DEF UeTickRequestSdu, GrantedAcid, Slot, IInv, TypeOK
  <2>2. QED
    BY <1>1, <1>2, <2>1, SteadyStep DEF airVars
<1>6. CASE UeTickNothingToSend
  <2>1. firstTx /\ firstTx' = firstTx /\ ueStep' = "flush" /\ Slot' = Slot
    BY <1>1, <1>6, NextPrev DEF UeTickNothingToSend, GrantedAcid, Slot, SteadyLink, IInv, TypeOK
  <2>2. QED
    BY <1>1, <1>2, <2>1, SteadyStep DEF airVars
<1>7. QED
  BY <1>3, <1>4, <1>5, <1>6, FirstRequest

\* The PDU of the first grant is selected, and sent.
LEMMA MakeKeepsGrants ==
  ASSUME IInv, IInv', GrantInv, UeMakePdu
  PROVE  GrantInv'
<1>1. /\ ueStep = "make" /\ ueStep' = "flush" /\ currentHarq \in Acid
      /\ currentHarq' = NextAcid(currentHarq)
      /\ UNCHANGED <<firstTx, schedulingGrant, harqStatus, rxBuffer, enbStep, airVars>>
      /\ <<currentHarq, 0>> \in EmptyUnits(currentHarq)
      /\ thrown' = "none"
  BY FirstUnits, Constants DEF UeMakePdu, enbVars, IInv, TypeOK, StepsInOrder, NoError,
       EmptyUnits, UnitsIn, UnitsOf, First
<1>2. Slot' = Slot
  BY <1>1, NextPrev DEF Slot
<1>3. selectedAcid' = currentHarq
  <2>1. PICK p \in FreshPdus :
          TxInsertPdus(currentHarq, {<<currentHarq, 0>>}, [u \in Unit |-> p])
    BY <1>1 DEF UeMakePdu
  <2>2. {<<currentHarq, 0>>} \subseteq EmptyUnits(currentHarq)
    BY <1>1
  <2>3. QED
    BY <1>1, <2>1, <2>2 DEF TxInsertPdus
<1>4. QED
  BY <1>1, <1>2, <1>3, Cycle, SteadyStep DEF airVars

LEMMA FlushKeepsGrants ==
  ASSUME IInv, GrantInv, UeFlush
  PROVE  GrantInv'
<1>1. /\ ueStep = "flush" /\ ueStep' = "air" /\ schedulingGrant' \notin Acid
      /\ UNCHANGED <<currentHarq, firstTx, harqStatus, rxBuffer, enbStep, grantSent, dataAir,
                     grantAir>>
      /\ dataSent' = dataSent \cup SelectedData
  BY Cycle DEF UeFlush, enbVars
<1>2. Slot' = Slot
  BY <1>1 DEF Slot
<1>3. selectedAcid # HarqNone => dataSent' # {}
  <2>1. \A u \in SelectedUnits :
          [unit |-> u, pdu |-> txPdu[u], ndi |-> txCount[u] = 0] \in dataSent'
    BY <1>1 DEF SelectedData
  <2>2. selectedAcid # HarqNone => First(selectedAcid) \in SelectedUnits
    BY SelectedOne
  <2>3. QED
    BY <2>1, <2>2
<1>4. ~rxBuffer /\ firstTx /\ dataAir = {} => selectedAcid # HarqNone
  BY <1>1 DEF GrantInv, FirstOnItsWay
<1>5. QED
  BY <1>1, <1>2, <1>3, <1>4, SteadyStep

\* Mode switches, and feedback that arrives.
LEMMA OthersKeepGrants ==
  ASSUME IInv, GrantInv, UeModeSwitch \/ EnbModeSwitch \/ FeedbackArrives \/ UNCHANGED vars
  PROVE  GrantInv'
<1>1. /\ UNCHANGED <<currentHarq, ueStep, firstTx, schedulingGrant, harqStatus, rxBuffer,
                     enbStep, grantSent, grantAir, dataSent, dataAir>>
      /\ selectedAcid' = selectedAcid \/ ueStep = "tick" \/ ueStep = "air"
  BY DEF UeModeSwitch, EnbModeSwitch, FeedbackArrives, vars, ueVars, enbVars, txVars, airVars,
     LoopsDone, IInv, StepsInOrder
<1>2. Slot' = Slot
  BY <1>1 DEF Slot
<1>3. ~rxBuffer /\ dataAir = {} /\ firstTx =>
        \/ ueStep = "make"
        \/ ueStep = "flush" /\ selectedAcid # HarqNone
        \/ ueStep = "air" /\ dataSent # {}
  BY DEF GrantInv, FirstOnItsWay
<1>4. QED
  BY <1>1, <1>2, <1>3, SteadyStep

\* The eNodeB counts on, and grants the process two TTIs ahead.
LEMMA EnbTickKeepsGrants ==
  ASSUME IInv, GrantInv, EnbTickRtx \/ EnbTickOther
  PROVE  GrantInv'
<1>1. PICK grant : /\ EnbTick(grant)
                   /\ grant \in Acid => rxBuffer /\ grant = RtxAcid
  BY Cycle DEF EnbTickRtx, EnbTickOther, RtxGrants
<1>2. /\ enbStep = "tick" /\ enbStep' = "air" /\ harqStatus' = NextHarqStatus
      /\ grantSent' = grant
      /\ UNCHANGED <<currentHarq, ueStep, firstTx, schedulingGrant, rxBuffer, dataSent, dataAir,
                     grantAir, selectedAcid>>
  BY <1>1 DEF EnbTick, ueVars, txVars
<1>3. Slot' = Slot
  BY <1>2 DEF Slot
<1>4. rxBuffer => NextHarqStatus = Slot
  BY <1>2 DEF GrantInv, CountersAgree
<1>5. ~rxBuffer => harqStatus' = harqStatus
  BY <1>2 DEF NextHarqStatus
<1>6. FirstOnItsWay'
  BY <1>2, <1>3, <1>5 DEF GrantInv, FirstOnItsWay
<1>7. CountersAgree'
  BY <1>2, <1>3, <1>4 DEF GrantInv, CountersAgree
<1>8. GrantsInTime'
  BY <1>1, <1>2, <1>3, <1>4 DEF GrantInv, GrantsInTime, RtxAcid, LoopsDone
<1>9. QED
  BY <1>6, <1>7, <1>8 DEF GrantInv

\* The first PDU arrives one TTI after process NumProc - 2 was the UE's.
LEMMA DataKeepsGrants ==
  ASSUME IInv, GrantInv, DataArrives
  PROVE  GrantInv'
<1>1. /\ ueStep = "air" /\ enbStep = "air" /\ dataAir # {} /\ rxBuffer'
      /\ UNCHANGED <<currentHarq, ueStep, firstTx, schedulingGrant, harqStatus, enbStep,
                     grantSent, grantAir>>
  BY DEF DataArrives, LoopsDone, ueVars
<1>2. Slot' = Slot
  BY <1>1 DEF Slot
<1>3. firstTx
  BY <1>1 DEF IInv, IdleBeforeFirstTx
<1>4. ~rxBuffer => harqStatus = HarqNone /\ Slot = NumProc - 1
  BY <1>1, <1>3 DEF GrantInv, FirstOnItsWay
<1>5. CountersAgree'
  BY <1>1, <1>2, <1>3, <1>4 DEF GrantInv, CountersAgree
<1>6. FirstOnItsWay' /\ GrantsInTime'
  BY <1>1, <1>2 DEF GrantInv, FirstOnItsWay, GrantsInTime, LoopsDone
<1>7. QED
  BY <1>5, <1>6 DEF GrantInv

LEMMA GrantArrivesKeepsGrants ==
  ASSUME IInv, GrantInv, GrantArrives
  PROVE  GrantInv'
<1>1. /\ ueStep = "air" /\ enbStep = "air"
      /\ schedulingGrant' = grantAir /\ grantAir' \notin Acid
      /\ UNCHANGED <<currentHarq, ueStep, firstTx, harqStatus, rxBuffer, enbStep, grantSent,
                     dataSent, dataAir, selectedAcid>>
  BY Cycle DEF GrantArrives, LoopsDone, enbVars, txVars
<1>2. Slot' = Slot
  BY <1>1 DEF Slot
<1>3. FirstOnItsWay' /\ CountersAgree'
  BY <1>1, <1>2 DEF GrantInv, FirstOnItsWay, CountersAgree
<1>4. GrantsInTime'
  BY <1>1, <1>2 DEF GrantInv, GrantsInTime, LoopsDone
<1>5. QED
  BY <1>3, <1>4 DEF GrantInv

\* A TTI ends: the turn passes to the next process at both ends.
LEMMA NextTtiKeepsGrants ==
  ASSUME IInv, GrantInv, NextTti
  PROVE  GrantInv'
<1>1. /\ ueStep = "air" /\ enbStep = "air" /\ LoopsDone
      /\ ueStep' = "tick" /\ enbStep' = "tick" /\ dataAir = {}
      /\ grantAir' = grantSent /\ grantSent' \notin Acid /\ dataAir' = dataSent
      /\ UNCHANGED <<currentHarq, firstTx, schedulingGrant, harqStatus, rxBuffer>>
  BY Cycle DEF NextTti, AirEmpty, LoopsDone
<1>2. Slot' = NextAcid(Slot) /\ Slot \in Acid
  BY <1>1, Cycle, SlotType DEF Slot, IInv, TypeOK
<1>3. FirstOnItsWay'
  BY <1>1, <1>2, Cycle DEF GrantInv, FirstOnItsWay
<1>4. CountersAgree'
  BY <1>1, <1>2, Cycle DEF GrantInv, CountersAgree, NextHarqStatus
<1>5. GrantsInTime'
  BY <1>1, <1>2 DEF GrantInv, GrantsInTime
<1>6. QED
  BY <1>3, <1>4, <1>5 DEF GrantInv

-----------------------------------------------------------------------------
LEMMA GrantStep ==
  ASSUME SteadyLink, IInv, IInv', GrantInv, [Next]_vars
  PROVE  GrantInv'
<1>1. CASE UeTickNoGrant \/ UeTickRetransmit \/ UeTickRequestSdu \/ UeTickNothingToSend
  BY <1>1, UeTickKeepsGrants
<1>2. CASE UeMakePdu
  BY <1>2, MakeKeepsGrants
<1>3. CASE UeFlush
  BY <1>3, FlushKeepsGrants
<1>4. CASE UeModeSwitch \/ EnbModeSwitch \/ FeedbackArrives \/ UNCHANGED vars
  BY <1>4, OthersKeepGrants
<1>5. CASE EnbTickRtx \/ EnbTickOther
  BY <1>5, EnbTickKeepsGrants
<1>6. CASE DataArrives
  BY <1>6, DataKeepsGrants
<1>7. CASE GrantArrives
  BY <1>7, GrantArrivesKeepsGrants
<1>8. CASE NextTti
  BY <1>8, NextTtiKeepsGrants
<1>9. ~HandOver
  BY DEF HandOver, SteadyLink
<1>10. QED
  BY <1>1, <1>2, <1>3, <1>4, <1>5, <1>6, <1>7, <1>8, <1>9 DEF Next

\* The check that handleSelfMessage of the UE has commented out would never fail: as
\* long as the UE stays in its cell and sends something with its first grant, a grant
\* for a process is used for that process, mode switches or not.
THEOREM GrantsStaySynchronized == ASSUME SteadyLink PROVE Spec => []GrantSynchronized
<1>1. Init => IInv /\ GrantInv
  <2>1. Init => GrantInv
    BY Cycle DEF Init, GrantInv, FirstOnItsWay, CountersAgree, GrantsInTime
  <2>2. QED
    BY <2>1, InitInv
<1>2. IInv /\ GrantInv /\ [Next]_vars => (IInv /\ GrantInv)'
  BY NextStep, GrantStep DEF SteadyLink
<1>3. IInv /\ GrantInv => GrantSynchronized
  BY DEF GrantInv, GrantsInTime, CountersAgree, GrantSynchronized, Slot
<1>4. QED
  BY <1>1, <1>2, <1>3, PTL DEF Spec
=============================================================================
