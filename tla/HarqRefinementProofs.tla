------------------------- MODULE HarqRefinementProofs -------------------------
(***************************************************************************)
(* Proofs that the uplink H-ARQ never passes a PDU up twice, and that it   *)
(* implements HarqService.  History adds to IInv what the two ends know of *)
(* the PDUs passed up: the answers under way are the only trace of them,   *)
(* and they last until the sender has let go.                              *)
(***************************************************************************)
EXTENDS HarqRefinement, HarqUplinkProofs

Answers == fbSent \cup fbAir

\* No two units hold the same PDU, and an empty one holds none.
OnePlaceEach ==
  /\ \A u, v \in Unit : txPdu[u] = txPdu[v] /\ txPdu[u] # NoPdu => u = v
  /\ \A u \in Unit : txStatus[u] = "EMPTY" => txPdu[u] = NoPdu
  /\ \A u \in Unit : rxStatus[u] = "EMPTY" => rxPdu[u] = NoPdu

\* A PDU that was passed up and is still held by its sender is acknowledged by an
\* answer on its way.
HeldIsAcknowledged ==
  \A u \in Unit : txPdu[u] \in delivered =>
    \E f \in Answers : f.unit = u /\ f.pdu = txPdu[u] /\ f.ack

\* Until the answers of a TTI arrive, every PDU passed up has one, so that the UE
\* takes no such identity for a new PDU.
DeliveredHasAnswer ==
  ~LoopsDone => \A p \in delivered : \E f \in Answers : f.pdu = p

AcksAreTrue == \A f \in Answers : f.ack => f.pdu \in delivered

History ==
  /\ OnePlaceEach
  /\ NoRedelivery
  /\ HeldIsAcknowledged
  /\ DeliveredHasAnswer
  /\ AcksAreTrue

-----------------------------------------------------------------------------
\* What a step is to do in the service, and to keep beyond IInv.
Allowed == [Service!Next]_(Service!vars) /\ History'

\* The service's record of a unit, and of all that hold a PDU.
Entry(u) == [pdu |-> txPdu[u], tries |-> txCount[u]]
Pending == {[pdu |-> txPdu[u], tries |-> txCount[u]] :
              u \in {v \in Unit : txPdu[v] # NoPdu}}

\* Whose entries the service's set of pending PDUs has.
LEMMA PendingMembers ==
  /\ \A r : r \in Pending <=> \E u \in Unit : txPdu[u] # NoPdu /\ r = Entry(u)
  /\ \A p : p \in Service!PendingPdus <=> \E u \in Unit : txPdu[u] # NoPdu /\ p = txPdu[u]
<1>1. \A r : r \in Pending <=> \E u \in Unit : txPdu[u] # NoPdu /\ r = Entry(u)
  BY DEF Pending, Entry
<1>2. Service!PendingPdus = {r.pdu : r \in Pending}
  BY DEF Pending, Service!PendingPdus
<1>3. \A u : Entry(u).pdu = txPdu[u]
  BY DEF Entry
<1>4. \A p : p \in {r.pdu : r \in Pending} <=> \E r \in Pending : p = r.pdu
  OBVIOUS
<1>5. QED
  BY <1>1, <1>2, <1>3, <1>4

\* Both ends start empty, and so does the service.
LEMMA InitHistory ==
  ASSUME Init
  PROVE  Service!Init /\ History
<1>1. /\ \A u \in Unit : txPdu[u] = NoPdu /\ rxPdu[u] = NoPdu /\ rxStatus[u] = "EMPTY"
      /\ delivered = {} /\ fbSent = {} /\ fbAir = {} /\ dataSent = {} /\ dataAir = {}
  BY DEF Init, TxInit, RxInit
<1>2. Pending = {}
  BY <1>1, PendingMembers
<1>3. Service!Init
  BY <1>1, <1>2 DEF Pending, Service!Init
<1>4. History
  BY <1>1 DEF History, OnePlaceEach, NoRedelivery, HeldIsAcknowledged, DeliveredHasAnswer,
              AcksAreTrue, Answers
<1>5. QED
  BY <1>3, <1>4

\* A step that moves no PDU and no answer.
LEMMA QuietStep ==
  ASSUME History,
         UNCHANGED <<txPdu, txCount, rxStatus, rxPdu, dataSent, dataAir, fbSent, fbAir,
                     delivered>>,
         \A u \in Unit : txStatus'[u] = "EMPTY" => txStatus[u] = "EMPTY",
         LoopsDone => LoopsDone'
  PROVE  Allowed
<1>1. UNCHANGED Service!vars
  BY DEF Service!vars
<1>2. History'
  BY DEF History, OnePlaceEach, NoRedelivery, HeldIsAcknowledged, DeliveredHasAnswer,
         AcksAreTrue, Answers
<1>3. QED
  BY <1>1, <1>2 DEF Allowed

\* The loops of the UE that touch no PDU, and the arrival of a grant.
LEMMA QuietSteps ==
  ASSUME History,
         UeTickNoGrant \/ UeTickRequestSdu \/ UeTickNothingToSend \/ GrantArrives
  PROVE  Allowed
<1>1. /\ UNCHANGED <<txVars, enbVars, dataSent, dataAir, fbSent, fbAir, delivered>>
      /\ LoopsDone => LoopsDone'
  BY DEF UeTickNoGrant, UeTickRequestSdu, UeTickNothingToSend, GrantArrives, UeLoopStarts,
         LoopsDone, airVars, enbVars
<1>2. QED
  BY <1>1, QuietStep DEF txVars, enbVars, rxVars

\* A retransmission selects units that hold their PDU (markSelected).
LEMMA RetransmitAllowed ==
  ASSUME IInv, IInv', History, UeTickRetransmit
  PROVE  Allowed
<1>1. PICK tbs \in 1 .. Cardinality(Codewords) : TxMarkSelected(GrantedAcid, tbs)
  BY DEF UeTickRetransmit
<1>2. /\ UeLoopStarts
      /\ UNCHANGED <<enbVars, airVars, delivered>>
  BY DEF UeTickRetransmit
<1>3. thrown' = "none"
  BY DEF IInv, NoError
<1>4. GrantedAcid \in Acid /\ tbs > 0 /\ tbs \in Nat /\ ReadyUnits(GrantedAcid) # {}
  BY <1>1, <1>2, TurnIsFree, Constants DEF TxMarkSelected
<1> DEFINE u == First(GrantedAcid)
<1>5. ReadyUnits(GrantedAcid) = {u} /\ u \in Unit
  BY <1>4, UnitsInOne, FirstUnits DEF ReadyUnits
<1>6. Marked({u}, tbs) = {u}
  BY <1>4, CardinalityOne DEF Marked
<1>7. /\ txStatus' = [v \in Unit |-> IF v \in {u} THEN "SELECTED"
                                     ELSE IF v \in {u} THEN "EMPTY" ELSE txStatus[v]]
      /\ txPdu' = [v \in Unit |-> IF v \in {u} \ {u} THEN NoPdu ELSE txPdu[v]]
      /\ txCount' = [v \in Unit |-> IF v \in {u} \ {u} THEN 0 ELSE txCount[v]]
  BY <1>1, <1>3, <1>5, <1>6 DEF TxMarkSelected
<1> HIDE DEF u
<1>8. txPdu' = txPdu /\ txCount' = txCount
  BY <1>7 DEF IInv, TypeOK, TxTypeOK
<1>9. \A v \in Unit : txStatus'[v] = "EMPTY" => txStatus[v] = "EMPTY"
  BY <1>7
<1>10. ~LoopsDone
  BY <1>2 DEF UeLoopStarts, LoopsDone
<1>11. QED
  BY <1>2, <1>8, <1>9, <1>10, QuietStep DEF enbVars, rxVars, airVars

\* macPduMake: an identity no end names is in no unit and was not passed up.
LEMMA MakeAllowed ==
  ASSUME IInv, IInv', History, UeMakePdu
  PROVE  Allowed
<1> DEFINE u == First(currentHarq)
<1>1. /\ ueStep = "make" /\ ueStep' = "flush" /\ currentHarq \in Acid
      /\ UNCHANGED <<enbVars, airVars, delivered>>
      /\ u \in Unit /\ txStatus[u] = "EMPTY" /\ u \in EmptyUnits(currentHarq)
      /\ thrown' = "none"
  BY FirstUnits, Constants DEF UeMakePdu, IInv, TypeOK, StepsInOrder, NoError, EmptyUnits,
       UnitsIn, UnitsOf, First
<1>2. PICK p \in FreshPdus : TxInsertPdus(currentHarq, {u}, [v \in Unit |-> p])
  BY <1>1 DEF UeMakePdu, First
<1>3. /\ txStatus' = [v \in Unit |-> IF v = u THEN "SELECTED" ELSE txStatus[v]]
      /\ txPdu' = [v \in Unit |-> IF v = u THEN p ELSE txPdu[v]]
      /\ txCount' = [v \in Unit |-> IF v = u THEN 0 ELSE txCount[v]]
  <2>1. /\ txStatus' = [v \in Unit |-> IF v \in {u} THEN "SELECTED" ELSE txStatus[v]]
        /\ txPdu' = [v \in Unit |-> IF v \in {u} THEN [w \in Unit |-> p][v] ELSE txPdu[v]]
        /\ txCount' = [v \in Unit |-> IF v \in {u} THEN 0 ELSE txCount[v]]
    BY <1>1, <1>2 DEF TxInsertPdus
  <2>2. \A v \in Unit : [w \in Unit |-> p][v] = p
    OBVIOUS
  <2>3. QED
    BY <2>1, <2>2
<1> HIDE DEF u
<1>4. p \in Pdus /\ \A v \in Unit : txPdu[v] # p /\ rxPdu[v] # p
  BY <1>2 DEF FreshPdus
<1>5. p # NoPdu
  BY <1>4, Constants
<1>6. ~LoopsDone /\ ~LoopsDone'
  BY <1>1 DEF LoopsDone
<1>7. p \notin delivered
  BY <1>2, <1>6 DEF FreshPdus, History, DeliveredHasAnswer, Answers
<1>8. txPdu[u] = NoPdu
  BY <1>1 DEF History, OnePlaceEach
<1>9. [Service!Next]_(Service!vars)
  <2>1. p \in Pdus \ (Service!PendingPdus \cup delivered)
    BY <1>4, <1>7, PendingMembers
  <2>2. Pending' = Pending \cup {[pdu |-> p, tries |-> 0]}
    <3>1. \A v \in Unit : v # u => txPdu'[v] = txPdu[v] /\ txCount'[v] = txCount[v]
      BY <1>3
    <3>2. txPdu'[u] = p /\ txCount'[u] = 0
      BY <1>1, <1>3
    <3>3. QED
      BY <1>1, <1>5, <1>8, <3>1, <3>2 DEF Pending
  <2>3. QED
    BY <1>1, <2>1, <2>2 DEF Pending, Service!Next, Service!Accept
<1>10. OnePlaceEach'
  BY <1>1, <1>3, <1>4 DEF History, OnePlaceEach, enbVars, rxVars
<1>11. NoRedelivery' /\ AcksAreTrue'
  BY <1>1 DEF History, NoRedelivery, AcksAreTrue, Answers, enbVars, rxVars, airVars
<1>12. HeldIsAcknowledged'
  BY <1>1, <1>3, <1>7 DEF History, HeldIsAcknowledged, Answers, airVars
<1>13. DeliveredHasAnswer'
  BY <1>1, <1>6 DEF History, DeliveredHasAnswer, Answers, airVars
<1>14. QED
  BY <1>9, <1>10, <1>11, <1>12, <1>13 DEF Allowed, History

\* sendSelectedDown: one more transmission of a PDU that was not passed up, since
\* the answer that would say so would find its unit waiting.
LEMMA FlushAllowed ==
  ASSUME IInv, IInv', History, UeFlush
  PROVE  Allowed
<1>1. /\ ueStep = "flush" /\ TxSendSelectedDown
      /\ dataSent' = dataSent \cup SelectedData
      /\ UNCHANGED <<enbVars, fbSent, dataAir, fbAir, delivered>>
      /\ thrown' = "none"
      /\ ~LoopsDone
  BY DEF UeFlush, IInv, NoError, LoopsDone
<1>2. CASE selectedAcid = HarqNone
  <2>1. UNCHANGED txVars /\ dataSent' = dataSent
    BY <1>1, <1>2 DEF TxSendSelectedDown, SelectedData, SelectedUnits
  <2>2. QED
    BY <1>1, <2>1, QuietStep DEF txVars, enbVars, rxVars
<1>3. CASE selectedAcid # HarqNone
  <2> DEFINE u == First(selectedAcid)
  <2>1. /\ u \in Unit /\ txStatus[u] = "SELECTED" /\ SelectedUnits = {u}
        /\ selectedAcid \in Acid
    BY <1>3, SelectedOne
  <2>2. /\ txStatus' = [v \in Unit |-> IF v \in {u} THEN "WAITING" ELSE txStatus[v]]
        /\ txCount' = [v \in Unit |-> IF v \in {u} THEN txCount[v] + 1 ELSE txCount[v]]
        /\ txPdu' = txPdu
    BY <1>1, <1>3, <2>1 DEF TxSendSelectedDown
  <2>3. txPdu[u] \in Pdus /\ txCount[u] <= MaxHarqRtx
    BY <2>1 DEF IInv, UnitContents
  <2>4. dataSent' = dataSent \cup {[unit |-> u, pdu |-> txPdu[u], ndi |-> txCount[u] = 0]}
    BY <1>1, <2>1 DEF SelectedData
  <2>5. txPdu[u] \notin delivered
    <3>1. \A f \in Answers : f.unit # u
      BY <2>1, FirstUnits DEF IInv, AnswersAwaited, DroppedEmpty, Awaits, Answers
    <3>2. QED
      BY <2>1, <3>1 DEF History, HeldIsAcknowledged
  <2> HIDE DEF u
  <2>6. [Service!Next]_(Service!vars)
    <3>1. txPdu[u] # NoPdu /\ Entry(u) \in Pending
      BY <2>1, <2>3, Constants, PendingMembers
    <3>2. Entry(u).tries = txCount[u] /\ Entry(u).pdu = txPdu[u]
      BY DEF Entry
    <3>3. Pending' = (Pending \ {Entry(u)}) \cup {[Entry(u) EXCEPT !.tries = @ + 1]}
      <4>1. [Entry(u) EXCEPT !.tries = @ + 1] = [pdu |-> txPdu[u], tries |-> txCount[u] + 1]
        BY DEF Entry
      <4>2. /\ txPdu'[u] = txPdu[u] /\ txCount'[u] = txCount[u] + 1
            /\ \A v \in Unit : v # u => txPdu'[v] = txPdu[v] /\ txCount'[v] = txCount[v]
        BY <2>1, <2>2
      <4>3. \A v \in Unit : v # u /\ txPdu[v] # NoPdu => Entry(v) # Entry(u)
        BY <2>1 DEF History, OnePlaceEach, Entry
      <4>4. QED
        BY <2>1, <3>1, <4>1, <4>2, <4>3 DEF Pending, Entry
    <3>4. QED
      BY <1>1, <2>3, <2>5, <3>1, <3>2, <3>3 DEF Pending, Service!Next, Service!Transmit
  <2>7. OnePlaceEach'
    BY <1>1, <2>1, <2>2 DEF History, OnePlaceEach, enbVars, rxVars
  <2>8. NoRedelivery'
    BY <1>1, <2>4, <2>5 DEF History, NoRedelivery, enbVars, rxVars
  <2>9. HeldIsAcknowledged' /\ AcksAreTrue' /\ DeliveredHasAnswer'
    BY <1>1, <2>2 DEF History, HeldIsAcknowledged, AcksAreTrue, DeliveredHasAnswer, Answers
  <2>10. QED
    BY <2>6, <2>7, <2>8, <2>9 DEF Allowed, History
<1>4. QED
  BY <1>2, <1>3

\* What the eNodeB has evaluated is awaited, and by one unit each.
LEMMA EvaluatedAwaited ==
  ASSUME IInv, History, enbStep = "tick", "enb" \notin switching, NEW u \in Evaluated
  PROVE  /\ u \in Unit /\ u[1] \in Acid /\ u = First(u[1])
         /\ txStatus[u] = "WAITING" /\ txPdu[u] = rxPdu[u] /\ txPdu[u] \in Pdus
         /\ txCount[u] \in 1 .. MaxHarqRtx + 1
         /\ rxPdu[u] \notin delivered
         /\ Age(u[1]) = FbInterval + 1
         /\ ~resetHarq
<1>1. u \in Unit /\ u[1] \in Acid /\ u = First(u[1]) /\ rxStatus[u] = "EVALUATING"
      /\ rxAge[u] >= FbInterval
  BY FirstUnits DEF Evaluated, IInv, OneCodeword
<1>2. ~resetHarq
  BY <1>1 DEF IInv, SwitchForgets
<1>3. Awaits(u, rxPdu[u])
  BY <1>1 DEF IInv, AnswersAwaited
<1>4. txPdu[u] \in Pdus /\ txCount[u] \in 1 .. MaxHarqRtx + 1
  BY <1>1, <1>3 DEF IInv, UnitContents, Awaits
<1>5. Age(u[1]) = FbInterval + 1
  <2>1. rxAge[u] \in 0 .. FbInterval /\ Age(u[1]) = rxAge[u] + 1
    BY <1>1 DEF IInv, AgesTell, TypeOK, RxTypeOK
  <2>2. QED
    BY <1>1, <2>1, Constants
<1>6. rxPdu[u] \notin delivered
  BY <1>1 DEF History, NoRedelivery
<1>7. QED
  BY <1>1, <1>2, <1>3, <1>4, <1>5, <1>6 DEF Awaits

\* extractCorrectPdus: every PDU passed up is answered in the same loop, its sender
\* waits for it, and no copy of it is on its way.
LEMMA EnbTickAllowed ==
  ASSUME IInv, History, NEW grant, EnbTick(grant)
  PROVE  Allowed
<1>1. /\ enbStep = "tick" /\ enbStep' = "air" /\ "enb" \notin switching
      /\ RxMainLoop /\ fbSent' = fbSent \cup RxFeedback
      /\ delivered' = delivered \cup ExtractedPdus
      /\ UNCHANGED <<ueVars, dataSent, dataAir, fbAir>>
      /\ ~LoopsDone
  BY DEF EnbTick, LoopsDone
<1>2. \A u \in Evaluated :
        /\ u \in Unit /\ u[1] \in Acid /\ u = First(u[1])
        /\ txStatus[u] = "WAITING" /\ txPdu[u] = rxPdu[u] /\ txPdu[u] \in Pdus
        /\ txCount[u] \in 1 .. MaxHarqRtx + 1
        /\ rxPdu[u] \notin delivered
        /\ Age(u[1]) = FbInterval + 1
        /\ ~resetHarq
  BY <1>1, EvaluatedAwaited
<1>3. /\ CorrectUnits \subseteq Evaluated
      /\ \A u \in CorrectUnits : rxResult[u]
      /\ \A p : p \in ExtractedPdus <=> \E u \in CorrectUnits : p = rxPdu[u]
      /\ \A u \in Evaluated : rxResult[u] => u \in CorrectUnits
  BY DEF CorrectUnits, ExtractedPdus
<1>4. \A u \in Unit : txPdu[u] \in ExtractedPdus => u \in CorrectUnits
  BY <1>2, <1>3, Constants DEF History, OnePlaceEach
<1>5. [Service!Next]_(Service!vars)
  <2> DEFINE S == {Entry(u) : u \in CorrectUnits}
  <2>1. \A r \in S : \E u \in CorrectUnits : r = Entry(u)
    OBVIOUS
  <2>2. \A u \in CorrectUnits :
          /\ Entry(u).pdu = rxPdu[u] /\ Entry(u).tries > 0 /\ Entry(u) \in Pending
          /\ Entry(u).pdu \notin delivered
    <3>1. \A u \in CorrectUnits : txPdu[u] # NoPdu /\ u \in Unit /\ txCount[u] > 0
      BY <1>2, <1>3, Constants
    <3>2. \A u : Entry(u).pdu = txPdu[u] /\ Entry(u).tries = txCount[u]
      BY DEF Entry
    <3>3. QED
      BY <1>2, <1>3, <3>1, <3>2, PendingMembers
  <2>3. S \in SUBSET {r \in Pending : r.tries > 0 /\ r.pdu \notin delivered}
    BY <2>1, <2>2
  <2>4. ExtractedPdus = {r.pdu : r \in S}
    BY <1>3, <2>1, <2>2
  <2> HIDE DEF S
  <2>5. Pending' = Pending
    BY <1>1 DEF Pending, ueVars, txVars
  <2>6. delivered' = delivered \cup {r.pdu : r \in S}
    BY <1>1, <2>4
  <2>7. QED
    BY <2>3, <2>5, <2>6 DEF Pending, Service!Next, Service!Deliver
<1>6. \A v \in Unit :
        /\ rxStatus'[v] = "EVALUATING" =>
             rxStatus[v] = "EVALUATING" /\ rxPdu'[v] = rxPdu[v] /\ v \notin Evaluated
        /\ rxStatus'[v] = "EMPTY" /\ rxPdu'[v] # NoPdu =>
             rxStatus[v] = "EMPTY" /\ rxPdu'[v] = rxPdu[v]
  BY <1>1 DEF RxMainLoop, ResetUnits, NackedUnits
<1>7. OnePlaceEach'
  BY <1>1, <1>6 DEF History, OnePlaceEach, ueVars, txVars
<1>8. NoRedelivery'
  <2>1. ASSUME NEW v \in Unit, rxStatus'[v] = "EVALUATING"
        PROVE  rxPdu'[v] \notin delivered'
    <3>1. rxStatus[v] = "EVALUATING" /\ rxPdu'[v] = rxPdu[v] /\ v \notin Evaluated
      BY <1>6, <2>1
    <3>2. rxPdu[v] \notin delivered
      BY <3>1 DEF History, NoRedelivery
    <3>3. Awaits(v, rxPdu[v])
      BY <1>1, <3>1, FirstUnits DEF IInv, AnswersAwaited, OneCodeword
    <3>4. rxPdu[v] \notin ExtractedPdus
      BY <1>3, <1>4, <3>1, <3>3 DEF Awaits
    <3>5. QED
      BY <1>1, <3>1, <3>2, <3>4
  <2>2. ASSUME NEW d \in dataSent \cup dataAir
        PROVE  d.pdu \notin delivered'
    <3>1. d.pdu \notin delivered
      BY DEF History, NoRedelivery
    <3>2. d.unit \in Unit /\ Age(d.unit[1]) \in {0, 1}
      BY DEF IInv, TypeOK, Data, AgesTell
    <3>3. ASSUME d.pdu \in ExtractedPdus
          PROVE  FALSE
      <4>1. PICK u \in Evaluated : d.pdu = rxPdu[u]
        BY <1>3, <3>3
      <4>2. Awaits(d.unit, d.pdu)
        BY <1>1, <1>2, <4>1 DEF IInv, AnswersAwaited
      <4>3. d.unit = u
        BY <1>2, <3>2, <4>1, <4>2, Constants DEF Awaits, History, OnePlaceEach
      <4>4. QED
        BY <1>2, <3>2, <4>3, Constants
    <3>4. QED
      BY <1>1, <3>1, <3>3
  <2>3. QED
    BY <1>1, <2>1, <2>2 DEF NoRedelivery
<1>9. \A u \in CorrectUnits : \E f \in fbSent' : f.unit = u /\ f.pdu = rxPdu[u] /\ f.ack
  <2> SUFFICES ASSUME NEW u \in CorrectUnits
               PROVE  \E f \in fbSent' : f.unit = u /\ f.pdu = rxPdu[u] /\ f.ack
    OBVIOUS
  <2> DEFINE f == [unit |-> u, pdu |-> rxPdu[u], ack |-> rxResult[u]]
  <2>1. f \in fbSent'
    BY <1>1, <1>3 DEF RxFeedback
  <2>2. f.unit = u /\ f.pdu = rxPdu[u] /\ f.ack
    BY <1>3
  <2>3. QED
    BY <2>1, <2>2
<1>10. HeldIsAcknowledged'
  <2> SUFFICES ASSUME NEW u \in Unit, txPdu[u] \in delivered'
               PROVE  \E f \in Answers' : f.unit = u /\ f.pdu = txPdu[u] /\ f.ack
    BY <1>1 DEF HeldIsAcknowledged, ueVars, txVars
  <2>1. CASE txPdu[u] \in delivered
    BY <1>1, <2>1 DEF History, HeldIsAcknowledged, Answers
  <2>2. CASE txPdu[u] \in ExtractedPdus
    <3>1. u \in CorrectUnits
      BY <1>4, <2>2
    <3>2. QED
      BY <1>2, <1>3, <1>9, <3>1 DEF Answers
  <2>3. QED
    BY <1>1, <2>1, <2>2
<1>11. DeliveredHasAnswer'
  BY <1>1, <1>3, <1>9 DEF History, DeliveredHasAnswer, Answers
<1>12. AcksAreTrue'
  <2>1. \A f \in RxFeedback : f.ack => f.pdu \in ExtractedPdus
    <3>1. \A f \in RxFeedback : \E u \in Evaluated : f.pdu = rxPdu[u] /\ f.ack = rxResult[u]
      BY DEF RxFeedback
    <3>2. QED
      BY <1>3, <3>1
  <2>2. QED
    BY <1>1, <2>1 DEF History, AcksAreTrue, Answers
<1>13. QED
  BY <1>5, <1>7, <1>8, <1>10, <1>11, <1>12 DEF Allowed, History

\* insertPdu of the receiver: what it takes was not passed up.
LEMMA DataAllowed ==
  ASSUME IInv, IInv', History, DataArrives
  PROVE  Allowed
<1>1. PICK d \in dataAir, ok \in BOOLEAN : RxInsertPdu(d, ok) /\ dataAir' = dataAir \ {d}
  BY DEF DataArrives
<1>2. /\ UNCHANGED <<ueVars, dataSent, fbSent, fbAir, delivered>>
      /\ LoopsDone /\ LoopsDone' /\ thrown' = "none"
      /\ d.unit \in Unit /\ d.pdu \notin delivered
  BY DEF DataArrives, LoopsDone, ueVars, IInv, NoError, TypeOK, Data, History, NoRedelivery
<1>3. UNCHANGED Service!vars
  BY <1>2 DEF Service!vars, ueVars, txVars
<1>4. \/ UNCHANGED <<rxStatus, rxPdu>>
      \/ /\ rxStatus' = [rxStatus EXCEPT ![d.unit] = "EVALUATING"]
         /\ rxPdu' = [rxPdu EXCEPT ![d.unit] = d.pdu]
  BY <1>1, <1>2 DEF RxInsertPdu, rxVars
<1>5. \A v \in Unit : \/ rxStatus'[v] = rxStatus[v] /\ rxPdu'[v] = rxPdu[v]
                      \/ rxStatus'[v] = "EVALUATING" /\ rxPdu'[v] = d.pdu
  BY <1>4 DEF IInv, TypeOK, RxTypeOK
<1>6. OnePlaceEach' /\ NoRedelivery'
  BY <1>1, <1>2, <1>5 DEF History, OnePlaceEach, NoRedelivery, ueVars, txVars
<1>7. HeldIsAcknowledged' /\ DeliveredHasAnswer' /\ AcksAreTrue'
  BY <1>2 DEF History, HeldIsAcknowledged, DeliveredHasAnswer, AcksAreTrue, Answers, ueVars,
              txVars
<1>8. QED
  BY <1>3, <1>6, <1>7 DEF Allowed, History

\* receiveHarqFeedback: the PDU is let go when it was passed up or sent as often as
\* allowed, and what the answer said is not needed again.
LEMMA FeedbackAllowed ==
  ASSUME IInv, IInv', History, FeedbackArrives
  PROVE  Allowed
<1>1. PICK f \in fbAir : TxReceiveFeedback(f) /\ fbAir' = fbAir \ {f}
  BY DEF FeedbackArrives
<1> DEFINE u == f.unit
<1>2. /\ UNCHANGED <<enbVars, dataSent, fbSent, dataAir, delivered>>
      /\ LoopsDone /\ LoopsDone' /\ thrown' = "none"
      /\ u \in Unit /\ u[1] \in Acid /\ u = First(u[1])
      /\ Answers' \subseteq Answers
      /\ \A g \in Answers : g \in Answers' \/ g = f
  BY <1>1, FirstUnits DEF FeedbackArrives, LoopsDone, enbVars, IInv, NoError, TypeOK, Feedback,
       OneCodeword, Answers
<1>3. \A g \in Answers : g.unit = u => g = f
  <2>1. \A g \in fbAir : g = f
    BY <1>1 DEF IInv, OneAtATime, AtMostOne
  <2>2. \A g \in fbSent : Age(g.unit[1]) = FbInterval + 1
    BY DEF IInv, AgesTell
  <2>3. Age(u[1]) = FbInterval + 2
    BY <1>1 DEF IInv, AgesTell
  <2>4. QED
    BY <2>1, <2>2, <2>3, Constants DEF Answers
<1>4. NoRedelivery' /\ AcksAreTrue' /\ DeliveredHasAnswer'
  BY <1>1, <1>2 DEF History, NoRedelivery, AcksAreTrue, DeliveredHasAnswer, enbVars, rxVars
<1>5. CASE dropped[u[1]]
  <2>1. UNCHANGED txVars
    BY <1>1, <1>5 DEF TxReceiveFeedback
  <2>2. UNCHANGED Service!vars
    BY <1>2, <2>1 DEF Service!vars, txVars
  <2>3. txPdu[u] = NoPdu
    BY <1>2, <1>5 DEF IInv, DroppedEmpty, History, OnePlaceEach
  <2>4. txPdu[u] \notin delivered
    BY <2>3, Constants DEF IInv, TypeOK
  <2>5. HeldIsAcknowledged'
    BY <1>2, <2>1, <2>4 DEF History, HeldIsAcknowledged, txVars
  <2>6. OnePlaceEach'
    BY <1>2, <2>1 DEF History, OnePlaceEach, txVars, enbVars, rxVars
  <2>7. QED
    BY <1>4, <2>2, <2>5, <2>6 DEF Allowed, History
<1>6. CASE ~dropped[u[1]]
  <2>1. /\ txStatus[u] = "WAITING" /\ txPdu[u] = f.pdu /\ txPdu[u] \in Pdus
        /\ txPdu[u] # NoPdu
    BY <1>1, <1>2, <1>6, Constants DEF IInv, AnswersAwaited, Awaits, UnitContents
  <2>2. CASE TxFreesUnit(f)
    <3>1. /\ txStatus' = [txStatus EXCEPT ![u] = "EMPTY"]
          /\ txPdu' = [txPdu EXCEPT ![u] = NoPdu]
          /\ txCount' = [txCount EXCEPT ![u] = 0]
      BY <1>1, <1>2, <1>6, <2>1, <2>2 DEF TxReceiveFeedback
    <3>2. /\ txStatus'[u] = "EMPTY" /\ txPdu'[u] = NoPdu
          /\ \A v \in Unit : v # u => /\ txStatus'[v] = txStatus[v]
                                      /\ txPdu'[v] = txPdu[v] /\ txCount'[v] = txCount[v]
      BY <1>2, <3>1 DEF IInv, TypeOK, TxTypeOK
    <3> HIDE DEF u
    <3>3. Entry(u) \in Pending /\ Entry(u).pdu = txPdu[u] /\ Entry(u).tries = txCount[u]
      BY <1>2, <2>1, PendingMembers DEF Entry
    <3>4. Entry(u).pdu \in delivered \/ Entry(u).tries = MaxHarqRtx + 1
      BY <1>1, <2>1, <2>2, <3>3 DEF TxFreesUnit, History, AcksAreTrue, Answers, u
    <3>5. Pending' = Pending \ {Entry(u)}
      <4>1. \A v \in Unit : v # u /\ txPdu[v] # NoPdu => Entry(v) # Entry(u)
        BY <1>2 DEF History, OnePlaceEach, Entry
      <4>2. QED
        BY <1>2, <2>1, <3>2, <4>1 DEF Pending, Entry
    <3>6. [Service!Next]_(Service!vars)
      BY <1>2, <3>3, <3>4, <3>5 DEF Pending, Service!Next, Service!Release
    <3>7. OnePlaceEach'
      BY <1>2, <3>2 DEF History, OnePlaceEach, enbVars, rxVars
    <3>8. NoPdu \notin delivered
      BY Constants DEF IInv, TypeOK
    <3>9. HeldIsAcknowledged'
      <4> SUFFICES ASSUME NEW v \in Unit, txPdu'[v] \in delivered
                   PROVE  \E g \in Answers' : g.unit = v /\ g.pdu = txPdu'[v] /\ g.ack
        BY <1>2 DEF HeldIsAcknowledged
      <4>1. v # u /\ txPdu'[v] = txPdu[v]
        BY <3>2, <3>8
      <4>2. PICK g \in Answers : g.unit = v /\ g.pdu = txPdu[v] /\ g.ack
        BY <4>1 DEF History, HeldIsAcknowledged
      <4>3. g \in Answers'
        BY <1>2, <4>1, <4>2 DEF u
      <4>4. QED
        BY <4>1, <4>2, <4>3
    <3>10. QED
      BY <1>4, <3>6, <3>7, <3>9 DEF Allowed, History
  <2>3. CASE ~TxFreesUnit(f)
    <3>1. txStatus' = [txStatus EXCEPT ![u] = "BUFFERED"] /\ UNCHANGED <<txPdu, txCount>>
      BY <1>1, <1>2, <1>6, <2>1, <2>3 DEF TxReceiveFeedback
    <3>2. UNCHANGED Service!vars
      BY <1>2, <3>1 DEF Service!vars
    <3>3. \A v \in Unit : txStatus'[v] = "EMPTY" => txStatus[v] = "EMPTY"
      BY <1>2, <3>1 DEF IInv, TypeOK, TxTypeOK
    <3>4. OnePlaceEach'
      BY <1>2, <3>1, <3>3 DEF History, OnePlaceEach, enbVars, rxVars
    <3>5. txPdu[u] \notin delivered
      BY <1>2, <1>3, <2>3 DEF TxFreesUnit, History, HeldIsAcknowledged
    <3>6. HeldIsAcknowledged'
      BY <1>2, <3>1, <3>5 DEF History, HeldIsAcknowledged
    <3>7. QED
      BY <1>4, <3>2, <3>4, <3>6 DEF Allowed, History
  <2>4. QED
    BY <2>2, <2>3
<1>7. QED
  BY <1>5, <1>6

\* When all units are emptied, the service is interrupted.
LEMMA EmptiedInterrupts ==
  ASSUME txPdu' = [u \in Unit |-> NoPdu], delivered' = delivered
  PROVE  [Service!Next]_(Service!vars)
<1>1. \A u \in Unit : txPdu'[u] = NoPdu
  OBVIOUS
<1>2. Pending' = {}
  BY <1>1 DEF Pending
<1>3. QED
  BY <1>2 DEF Pending, Service!Next, Service!Interrupt

\* The UE drops what it holds; answers under way name PDUs nobody holds.
LEMMA UeSwitchAllowed ==
  ASSUME IInv, History, UeModeSwitch
  PROVE  Allowed
<1>1. /\ txPdu' = [u \in Unit |-> NoPdu]
      /\ UNCHANGED <<ueStep, enbVars, airVars, delivered>>
  BY DEF UeModeSwitch, TxForceDropAll
<1>2. NoPdu \notin delivered
  BY Constants DEF IInv, TypeOK
<1>3. History'
  BY <1>1, <1>2 DEF History, OnePlaceEach, NoRedelivery, HeldIsAcknowledged, DeliveredHasAnswer,
     AcksAreTrue, Answers, LoopsDone, enbVars, rxVars, airVars
<1>4. QED
  BY <1>1, <1>3, EmptiedInterrupts DEF Allowed

\* The receiver forgets what it was evaluating; the sender still answers for it.
LEMMA EnbSwitchAllowed ==
  ASSUME IInv, History, EnbModeSwitch
  PROVE  Allowed
<1>1. /\ rxStatus' = [u \in Unit |-> "EMPTY"] /\ rxPdu' = [u \in Unit |-> NoPdu]
      /\ UNCHANGED <<ueVars, enbStep, airVars, delivered>>
  BY DEF EnbModeSwitch, RxAbortAll
<1>2. UNCHANGED Service!vars
  BY <1>1 DEF Service!vars, ueVars, txVars
<1>3. History'
  BY <1>1 DEF History, OnePlaceEach, NoRedelivery, HeldIsAcknowledged, DeliveredHasAnswer,
     AcksAreTrue, Answers, LoopsDone, ueVars, txVars, airVars
<1>4. QED
  BY <1>2, <1>3 DEF Allowed

\* A handover empties both ends between two TTIs (doHandover).
LEMMA HandOverAllowed ==
  ASSUME IInv, History, HandOver
  PROVE  Allowed
<1>1. /\ txPdu' = [u \in Unit |-> NoPdu]
      /\ rxStatus' = [u \in Unit |-> "EMPTY"] /\ rxPdu' = [u \in Unit |-> NoPdu]
      /\ dataSent' = {} /\ dataAir' = {} /\ fbSent' = {} /\ fbAir' = {}
      /\ LoopsDone' /\ delivered' = delivered
  BY DEF HandOver, AirEmpty, LoopsDone
<1>2. NoPdu \notin delivered
  BY Constants DEF IInv, TypeOK
<1>3. History'
  BY <1>1, <1>2 DEF History, OnePlaceEach, NoRedelivery, HeldIsAcknowledged, DeliveredHasAnswer,
     AcksAreTrue, Answers
<1>4. QED
  BY <1>1, <1>3, EmptiedInterrupts DEF Allowed

\* When a TTI ends, the PDUs passed up are forgotten but for those an answer names:
\* no other end or message can name one.
LEMMA NextTtiAllowed ==
  ASSUME IInv, History, NextTti
  PROVE  Allowed
<1>1. /\ LoopsDone /\ ueStep = "air" /\ switching = {}
      /\ dataAir = {} /\ fbAir = {} /\ dataSent' = {} /\ fbSent' = {}
      /\ dataAir' = dataSent /\ fbAir' = fbSent
      /\ delivered' = delivered \ FreshPdus
      /\ UNCHANGED <<txVars, rxStatus, rxPdu>>
  BY DEF NextTti, AirEmpty, LoopsDone, RxNextTti, IInv, TypeOK, StepsInOrder
<1>2. Answers' = Answers /\ Answers = fbSent
  BY <1>1 DEF Answers
<1>3. [Service!Next]_(Service!vars)
  <2>1. Pending' = Pending
    BY <1>1 DEF Pending, txVars
  <2>2. \A p \in Service!PendingPdus : p \notin FreshPdus
    BY PendingMembers DEF FreshPdus
  <2>3. QED
    BY <1>1, <2>1, <2>2 DEF Pending, Service!Next, Service!Forget
<1>4. OnePlaceEach'
  BY <1>1 DEF History, OnePlaceEach, txVars
<1>5. NoRedelivery'
  BY <1>1 DEF History, NoRedelivery
<1>6. HeldIsAcknowledged'
  BY <1>1, <1>2 DEF History, HeldIsAcknowledged, txVars
<1>7. AcksAreTrue'
  BY <1>1, <1>2 DEF History, AcksAreTrue, FreshPdus
<1>8. DeliveredHasAnswer'
  <2> SUFFICES ASSUME NEW p \in delivered, p \notin FreshPdus
               PROVE  \E f \in Answers : f.pdu = p
    BY <1>1, <1>2 DEF DeliveredHasAnswer
  <2>1. p \in Pdus /\ p # NoPdu
    BY Constants DEF IInv, TypeOK
  <2>2. CASE \E u \in Unit : txPdu[u] = p
    BY <2>2 DEF History, HeldIsAcknowledged
  <2>3. ASSUME NEW u \in Unit, rxPdu[u] = p
        PROVE  txPdu[u] = p
    <3>1. rxStatus[u] \in {"EMPTY", "EVALUATING", "CORRUPTED"}
      BY DEF IInv, TypeOK, RxTypeOK
    <3>2. rxStatus[u] # "EMPTY"
      BY <2>1, <2>3 DEF History, OnePlaceEach
    <3>3. rxStatus[u] # "EVALUATING"
      BY <2>3 DEF History, NoRedelivery
    <3>4. u[1] \in Acid /\ u = First(u[1])
      BY <3>2, FirstUnits DEF IInv, OneCodeword
    <3>5. QED
      BY <1>1, <2>3, <3>1, <3>2, <3>3, <3>4 DEF IInv, CountedAlike
  <2>4. \A m \in dataSent : m.pdu # p
    BY DEF History, NoRedelivery
  <2>5. QED
    BY <1>1, <2>1, <2>2, <2>3, <2>4 DEF FreshPdus, Answers
<1>9. QED
  BY <1>3, <1>4, <1>5, <1>6, <1>7, <1>8 DEF Allowed, History

-----------------------------------------------------------------------------
\* One case per action of Next.
LEMMA StepAllowed ==
  ASSUME IInv, IInv', History, [Next]_vars
  PROVE  Allowed
<1>1. CASE UeTickNoGrant \/ UeTickRequestSdu \/ UeTickNothingToSend \/ GrantArrives
  BY <1>1, QuietSteps
<1>2. CASE UeTickRetransmit
  BY <1>2, RetransmitAllowed
<1>3. CASE UeMakePdu
  BY <1>3, MakeAllowed
<1>4. CASE UeFlush
  BY <1>4, FlushAllowed
<1>5. CASE EnbTickRtx \/ EnbTickOther
  BY <1>5, EnbTickAllowed DEF EnbTickRtx, EnbTickOther
<1>6. CASE DataArrives
  BY <1>6, DataAllowed
<1>7. CASE FeedbackArrives
  BY <1>7, FeedbackAllowed
<1>8. CASE UeModeSwitch
  BY <1>8, UeSwitchAllowed
<1>9. CASE EnbModeSwitch
  BY <1>9, EnbSwitchAllowed
<1>10. CASE NextTti
  BY <1>10, NextTtiAllowed
<1>11. CASE HandOver
  BY <1>11, HandOverAllowed
<1>12. CASE UNCHANGED vars
  BY <1>12, QuietStep DEF vars, ueVars, enbVars, airVars, txVars, rxVars, LoopsDone
<1>13. QED
  BY <1>1, <1>2, <1>3, <1>4, <1>5, <1>6, <1>7, <1>8, <1>9, <1>10, <1>11, <1>12 DEF Next

\* Only what an answer under way still says about a PDU needs remembering; with that
\* the history of what was passed up is inductive together with IInv.
LEMMA HistoryHolds == ASSUME AgreedSwitches PROVE Spec => [](IInv /\ History)
<1>1. Init => IInv /\ History
  BY InitInv, InitHistory
<1>2. IInv /\ History /\ [Next]_vars => (IInv /\ History)'
  BY NextStep, StepAllowed DEF Allowed
<1>3. QED
  BY <1>1, <1>2, PTL DEF Spec

\* A PDU that extractCorrectPdus passed up is neither under evaluation nor on its way
\* again, so RLC never sees it twice, as long as both ends see each mode switch.
THEOREM NeverPassedUpTwice == ASSUME AgreedSwitches PROVE Spec => []NoRedelivery
<1>1. IInv /\ History => NoRedelivery
  BY DEF History
<1>2. QED
  BY <1>1, HistoryHolds, PTL

\* LteHarqBufferTx and LteHarqBufferRx together implement the service, whatever
\* feedback, mode switches of both ends and handovers cross each other.
THEOREM HarqImplementsService == ASSUME AgreedSwitches PROVE Spec => ImplementsService
<1>1. Init => Service!Init
  BY InitHistory
<1>2. (IInv /\ History) /\ (IInv /\ History)' /\ [Next]_vars => [Service!Next]_(Service!vars)
  BY StepAllowed DEF Allowed
<1>3. QED
  BY <1>1, <1>2, HistoryHolds, PTL DEF Spec, ImplementsService, Service!Spec
=============================================================================
