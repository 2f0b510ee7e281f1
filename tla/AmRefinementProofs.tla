------------------------- MODULE AmRefinementProofs -------------------------
(***************************************************************************)
(* The proof that RLC AM implements the service of AmService, for SDUs     *)
(* that fit a PDU and a load of at most half a receive window.             *)
(***************************************************************************)
EXTENDS AmRefinement, AmLinkProofs

\* What a step is to keep beyond AmIInv, and to do in the service.
Allowed == [Service!Next]_(Service!vars) /\ Answered' /\ UnsentNotRetried'

LEMMA NumbersOf ==
  ASSUME OneFragmentEach, AmIInv
  PROVE  /\ txFirst \in Nat /\ txSeq \in Nat /\ rxFirst \in Nat
         /\ arrived \in 0 .. NumSdus /\ NumSdus \in Nat /\ MaxRtx \in Nat
         /\ Sns = Sdus /\ Sdus = 0 .. NumSdus - 1
         /\ txFirst <= rxFirst /\ rxFirst <= txSeq /\ txSeq <= arrived
         /\ txNumber \in [Sns -> 0 .. MaxRtx]
         /\ txDiscarded \subseteq txFirst .. txSeq - 1
         /\ passedUp \in [Sdus -> Nat]
<1>1. TxTypeOK /\ RxTypeOK /\ Outstanding /\ MarkedOrTimed
  BY DEF AmIInv, AmTypeOK
<1>2. QED
  BY <1>1, Shape DEF TxTypeOK, RxTypeOK, Outstanding, MarkedOrTimed, Window

LEMMA InitAllowed ==
  ASSUME OneFragmentEach, Init
  PROVE  Service!Init /\ ServiceInv
<1>1. AmIInv
  BY InitIInv
<1>2. /\ arrived = 0 /\ txFirst = 0 /\ txNumber = [sn \in Sns |-> 0] /\ txDiscarded = {}
      /\ passedUp = [k \in Sdus |-> 0] /\ seen = {}
  BY DEF Init, TxInit, RxInit
<1>3. {k \in Sdus : passedUp[k] > 0} = {}
  BY <1>2
<1>4. Service!Init
  BY <1>2, <1>3, Shape DEF Service!Init, Service!Sdus
<1>5. Answered /\ UnsentNotRetried
  BY <1>2 DEF Answered, UnsentNotRetried
<1>6. QED
  BY <1>1, <1>4, <1>5 DEF ServiceInv

\* A step that changes none of what the service is about.
LEMMA IdleAllowed ==
  ASSUME ServiceInv,
         UNCHANGED <<arrived, txFirst, txSeq, txNumber, txDiscarded, passedUp, seen>>
  PROVE  Allowed
<1>1. UNCHANGED Service!vars
  BY DEF Service!vars
<1>2. Answered' /\ UnsentNotRetried'
  BY DEF ServiceInv, Answered, UnsentNotRetried
<1>3. QED
  BY <1>1, <1>2 DEF Allowed

\* PDUs sent for the first time count as not retried, as those never sent.
LEMMA AddedNotRetried ==
  ASSUME OneFragmentEach, AmIInv, UnsentNotRetried,
         NEW first \in Nat, NEW sdus \in 0 .. NumSdus, NEW marked, NEW timers,
         txSeq \in 0 .. sdus, timers \subseteq Sns, \A sn \in marked : sn < txSeq,
         AddPdus(first, sdus, marked, timers)
  PROVE  txNumber' = txNumber /\ txSeq' \in Nat /\ txSeq <= txSeq' /\ UnsentNotRetried'
<1>1. txSeq' \in txSeq .. sdus /\ txNumber' \in [Sns -> 0 .. MaxRtx]
  BY PdusAdded DEF AmIInv
<1>2. txNumber \in [Sns -> 0 .. MaxRtx] /\ txSeq \in Nat /\ Sns \subseteq Nat
  BY NumbersOf
<1>3. \A sn \in NewSns(first, sdus) : txNumber[sn] = 0
  BY DEF NewSns, UnsentNotRetried
<1>4. txNumber' = [sn \in Sns |-> IF sn \in NewSns(first, sdus) THEN 0 ELSE txNumber[sn]]
  BY DEF AddPdus
<1>5. txNumber' = txNumber
  BY <1>2, <1>3, <1>4
<1>6. txSeq' \in Nat /\ txSeq <= txSeq'
  BY <1>1, <1>2
<1>7. UnsentNotRetried'
  BY <1>2, <1>5, <1>6 DEF UnsentNotRetried
<1>8. QED
  BY <1>5, <1>6, <1>7

\* An SDU that arrives is taken.
LEMMA ArrivalAllowed ==
  ASSUME OneFragmentEach, ServiceInv, SduArrives
  PROVE  Allowed
<1>1. /\ arrived < NumSdus /\ arrived' = arrived + 1
      /\ AddPdus(txFirst, arrived + 1, Done, pduTimers)
      /\ UNCHANGED <<txFirst, txReceived, txDiscarded, rxVars, seen>>
  BY DEF SduArrives, TxEnque
<1>2. AmIInv /\ Answered /\ UnsentNotRetried
  BY DEF ServiceInv
<1>3. /\ txFirst \in Nat /\ arrived + 1 \in 0 .. NumSdus /\ txSeq \in 0 .. arrived + 1
      /\ pduTimers \subseteq Sns /\ \A sn \in Done : sn < txSeq
  <2>1. \A sn \in Done : sn < txSeq
    BY <1>2, NumbersOf DEF AmIInv, MarkedOrTimed, Done, Window
  <2>2. QED
    BY <1>1, <1>2, <2>1, NumbersOf DEF AmIInv, AmTypeOK, TxTypeOK
<1>4. txNumber' = txNumber /\ UnsentNotRetried'
  BY <1>1, <1>2, <1>3, AddedNotRetried
<1>5. Service!Accept
  BY <1>1, <1>4 DEF Service!Accept, rxVars
<1>6. Answered'
  BY <1>1, <1>2 DEF Answered, rxVars
<1>7. QED
  BY <1>4, <1>5, <1>6 DEF Allowed, Service!Next

\* The timer of a PDU sends its SDU again or gives it up.
LEMMA PduTimerAllowed ==
  ASSUME OneFragmentEach, ServiceInv, PduTimerFires
  PROVE  Allowed
<1>1. AmIInv /\ Answered /\ UnsentNotRetried
  BY DEF ServiceInv
<1>2. PICK sn \in pduTimers :
        \/ sn < txFirst \/ sn >= txFirst + TxWindow \/ sn \in txReceived
        \/ /\ ~GivesUp(sn)
           /\ txNumber' = [txNumber EXCEPT ![sn] = @ + 1]
           /\ UNCHANGED <<arrived, txFirst, txSeq, txDiscarded>>
        \/ /\ GivesUp(sn)
           /\ txDiscarded' = txDiscarded \cup DiscardedWith(sn)
           /\ UNCHANGED <<arrived, txFirst, txSeq, txNumber>>
  BY DEF PduTimerFires, TxPduTimer
<1>3. UNCHANGED <<passedUp, seen>>
  BY DEF PduTimerFires, rxVars
<1>4. /\ sn \in Sns /\ txFirst <= sn /\ sn < txSeq /\ sn \notin Done
      /\ DiscardedWith(sn) = {sn} /\ txNumber[sn] \in 0 .. MaxRtx
      /\ ~(sn < txFirst \/ sn >= txFirst + TxWindow \/ sn \in txReceived)
  <2>1. TxWindow \in Nat /\ txFirst \in Nat
    BY <1>1, Shape, NumbersOf
  <2>2. QED
    BY <1>1, <2>1, TimedPdu DEF Done
<1>5. sn \in Service!Open
  BY <1>1, <1>4, NumbersOf DEF Service!Open
<1>6. CASE ~GivesUp(sn)
  <2>1. txNumber[sn] < MaxRtx
    BY <1>1, <1>4, <1>6, NumbersOf DEF GivesUp
  <2>2. /\ txNumber' = [txNumber EXCEPT ![sn] = @ + 1]
        /\ UNCHANGED <<arrived, txFirst, txSeq, txDiscarded>>
    BY <1>2, <1>4, <1>6
  <2>3. Service!Retry
    BY <1>3, <1>4, <1>5, <2>1, <2>2 DEF Service!Retry, Done
  <2>4. Answered'
    BY <1>1, <1>3, <2>2 DEF Answered
  <2>5. UnsentNotRetried'
    <3>1. \A n \in Sns : n >= txSeq => n # sn
      BY <1>1, <1>4, NumbersOf
    <3>2. QED
      BY <1>1, <2>2, <3>1, NumbersOf DEF UnsentNotRetried
  <2>6. QED
    BY <2>3, <2>4, <2>5 DEF Allowed, Service!Next
<1>7. CASE GivesUp(sn)
  <2>1. txNumber[sn] = MaxRtx
    BY <1>1, <1>4, <1>7, NumbersOf DEF GivesUp
  <2>2. /\ txDiscarded' = txDiscarded \cup {sn}
        /\ UNCHANGED <<arrived, txFirst, txSeq, txNumber>>
    BY <1>2, <1>4, <1>7
  <2>3. Service!GiveUp
    BY <1>3, <1>5, <2>1, <2>2 DEF Service!GiveUp
  <2>4. Answered' /\ UnsentNotRetried'
    BY <1>1, <1>3, <2>2 DEF Answered, UnsentNotRetried
  <2>5. QED
    BY <2>3, <2>4 DEF Allowed, Service!Next
<1>8. QED
  BY <1>6, <1>7

\* An answer to a command moves the window, past SDUs that are done with.
LEMMA MrwAckAllowed ==
  ASSUME OneFragmentEach, ServiceInv, MrwAckArrives
  PROVE  Allowed
<1>1. AmIInv /\ Answered /\ UnsentNotRetried
  BY DEF ServiceInv
<1>2. PICK m \in BagToSet(air) :
        m.type = "mrwAck" /\ TxReceiveMrwAck(m) /\ UNCHANGED <<rxVars, seen>>
  BY DEF MrwAckArrives
<1>3. m.first \in Nat /\ m.first <= rxFirst
  BY <1>1, <1>2 DEF AmIInv, AmTypeOK, Messages, MrwAcksTrue, InAir
<1>4. /\ arrived' = arrived /\ passedUp' = passedUp /\ seen' = seen
      /\ ~(m.first > txSeq)
  BY <1>1, <1>2, <1>3, NumbersOf DEF TxReceiveMrwAck, rxVars
<1>5. CASE ~(m.first > txFirst)
  BY <1>2, <1>4, <1>5, IdleAllowed DEF TxReceiveMrwAck
<1>6. CASE m.first > txFirst
  <2>1. /\ txFirst' = m.first
        /\ txDiscarded' = MarksAfter(txDiscarded, m.first)
        /\ AddPdus(m.first, arrived,
                   MarksAfter(txReceived, m.first) \cup MarksAfter(txDiscarded, m.first),
                   pduTimers \ (txFirst .. m.first - 1))
    BY <1>2, <1>4, <1>6 DEF TxReceiveMrwAck
  <2>2. txNumber' = txNumber /\ txSeq' \in Nat /\ txSeq <= txSeq' /\ UnsentNotRetried'
    <3>1. \A sn \in MarksAfter(txReceived, m.first) \cup MarksAfter(txDiscarded, m.first) :
            sn < txSeq
      BY <1>1, <1>3, NumbersOf DEF MarksAfter
    <3>2. pduTimers \ (txFirst .. m.first - 1) \subseteq Sns /\ txSeq \in 0 .. arrived
      BY <1>1, NumbersOf DEF AmIInv, AmTypeOK, TxTypeOK
    <3>3. arrived \in 0 .. NumSdus
      BY <1>1, NumbersOf
    <3>4. QED
      BY <1>1, <1>3, <2>1, <3>1, <3>2, <3>3, AddedNotRetried
  <2> DEFINE n == m.first - 1
             passed == {k \in Sdus : passedUp[k] > 0}
  <2>3. n \in Service!Open /\ m.first = n + 1 /\ n \in Nat
    BY <1>1, <1>3, <1>6, NumbersOf DEF Service!Open
  <2>4. txFirst .. n \subseteq passed \cup txDiscarded
    <3>1. SUFFICES ASSUME NEW sn \in txFirst .. n
                   PROVE  sn \in passed \cup txDiscarded
      OBVIOUS
    <3>2. sn \in Sns /\ sn \in Sdus /\ sn < rxFirst /\ sn >= txFirst
      BY <1>1, <1>3, <3>1, NumbersOf
    <3>3. sn \in txReceived \cup txDiscarded
      BY <1>1, <3>2 DEF AmIInv, NothingSkipped
    <3>4. sn \in seen \/ sn \in txDiscarded
      BY <1>1, <3>3 DEF AmIInv, ReceivedWasSeen
    <3>5. QED
      BY <1>1, <3>2, <3>4 DEF Answered
  <2>5. txDiscarded' = {k \in txDiscarded : k > n}
    BY <1>1, <1>3, <2>1, NumbersOf DEF MarksAfter
  <2>6. Service!Finish
    <3>1. txFirst' = n + 1 /\ UNCHANGED <<arrived, txNumber, passed>>
      BY <1>4, <2>1, <2>2, <2>3
    <3> HIDE DEF n
    <3>2. QED
      BY <2>3, <2>4, <2>5, <3>1 DEF Service!Finish
  <2>7. Answered'
    <3>1. SUFFICES ASSUME NEW sn \in Sns, sn >= txFirst', sn \in seen
                   PROVE  passedUp[sn] > 0 \/ sn \in txDiscarded'
      BY <1>4 DEF Answered
    <3>2. sn \in Nat /\ sn >= txFirst /\ sn > n
      BY <1>1, <1>3, <1>6, <2>1, <3>1, NumbersOf
    <3>3. QED
      BY <1>1, <2>5, <3>1, <3>2 DEF Answered
  <2>8. QED
    BY <2>2, <2>6, <2>7 DEF Allowed, Service!Next
<1>7. QED
  BY <1>5, <1>6

\* A data PDU passes its SDU up, or is known or out of date.
LEMMA PduAllowed ==
  ASSUME OneFragmentEach, LightLoad, ServiceInv, thrown = "none", PduArrives
  PROVE  Allowed
<1>1. AmIInv /\ Answered /\ UnsentNotRetried
  BY DEF ServiceInv
<1>2. PICK m \in BagToSet(air) :
        m.type = "data" /\ RxReceivePdu(m) /\ seen' = seen \cup {m.sn} /\ UNCHANGED txVars
  BY DEF PduArrives
<1> DEFINE sn == m.sn
<1>3. /\ sn \in Sns /\ sn \in Sdus /\ sn \in Nat /\ sn < txSeq
      /\ SduOf(sn) = sn /\ IsWhole(sn)
  BY <1>1, <1>2, Shape, WholePdus DEF AmIInv, AmTypeOK, Messages, SentBefore, InAir
<1>4. UNCHANGED <<arrived, txFirst, txSeq, txNumber, txDiscarded>>
  BY <1>2 DEF txVars
<1>5. UnsentNotRetried'
  BY <1>1, <1>4 DEF UnsentNotRetried
<1>6. ASSUME passedUp' = passedUp,
             sn >= txFirst => passedUp[sn] > 0 \/ sn \in txDiscarded
      PROVE  Allowed
  <2>1. UNCHANGED Service!vars
    BY <1>4, <1>6 DEF Service!vars
  <2>2. Answered'
    BY <1>1, <1>2, <1>4, <1>6 DEF Answered
  <2>3. QED
    BY <1>5, <2>1, <2>2 DEF Allowed
<1>7. CASE RxReceiveOld(m)
  <2>1. passedUp' = passedUp /\ sn < rxFirst
    BY <1>7 DEF RxReceiveOld
  <2>2. sn >= txFirst => sn \in txReceived \cup txDiscarded
    BY <1>1, <1>3, <2>1 DEF AmIInv, NothingSkipped
  <2>3. sn >= txFirst => sn \in seen \/ sn \in txDiscarded
    BY <1>1, <2>2 DEF AmIInv, ReceivedWasSeen
  <2>4. sn >= txFirst => passedUp[sn] > 0 \/ sn \in txDiscarded
    BY <1>1, <1>3, <2>3 DEF Answered
  <2>5. QED
    BY <1>6, <2>1, <2>4
<1>8. CASE RxReceiveBeyond(m)
  <2>1. sn >= rxFirst + RxWindow
    BY <1>8 DEF RxReceiveBeyond
  <2>2. Load \in Nat /\ RxWindow \in Nat /\ arrived <= txFirst + Load
    BY <1>1, Shape DEF AmIInv, Outstanding
  <2>3. QED
    BY <1>1, <1>3, <2>1, <2>2, NumbersOf DEF LightLoad
<1>9. CASE RxReceiveAgain(m)
  <2>1. passedUp' = passedUp /\ sn \in rxReceived
    BY <1>9 DEF RxReceiveAgain, AlreadyReceived
  <2>2. sn \in seen
    BY <1>1, <2>1 DEF AmIInv, FlagsTrue
  <2>3. QED
    BY <1>1, <1>3, <1>6, <2>1, <2>2 DEF Answered
<1>10. CASE RxReceiveNew(m)
  <2>1. CompleteSdu(sn, IF firstSdu = NoSdu THEN SduOf(sn) ELSE firstSdu,
                    rxReceived \cup {sn}, pduBuffer \cup {sn}) = sn
    BY <1>3 DEF CompleteSdu
  <2>2. /\ InRxWindow(sn) /\ sn \notin rxReceived
        /\ passedUp' = [k \in Sdus |-> IF k = sn THEN passedUp[k] + 1 ELSE passedUp[k]]
    BY <1>10, <2>1 DEF RxReceiveNew, AlreadyReceived
  <2>3. rxFirst <= sn /\ ~(sn < rxFirst) /\ sn >= txFirst
    BY <1>1, <1>3, <2>2, NumbersOf DEF InRxWindow
  <2>4. passedUp[sn] = 0
    <3>1. ~(passedUp[sn] > 0)
      BY <1>1, <1>3, <2>2, <2>3 DEF AmIInv, PassedIsFlagged
    <3>2. QED
      BY <1>1, <1>3, <3>1, NumbersOf
  <2>5. /\ passedUp'[sn] = 1
        /\ \A k \in Sdus : k # sn => passedUp'[k] = passedUp[k]
    BY <1>3, <2>2, <2>4
  <2>6. {k \in Sdus : passedUp'[k] > 0} = {k \in Sdus : passedUp[k] > 0} \cup {sn}
    BY <1>3, <2>5
  <2>7. sn \in Service!Open \ {k \in Sdus : passedUp[k] > 0}
    BY <1>1, <1>3, <2>3, <2>4, NumbersOf DEF Service!Open
  <2>8. Service!PassUp
    BY <1>4, <2>6, <2>7 DEF Service!PassUp
  <2>9. Answered'
    BY <1>1, <1>2, <1>3, <1>4, <2>5, NumbersOf DEF Answered
  <2>10. QED
    BY <1>5, <2>8, <2>9 DEF Allowed, Service!Next
<1>11. QED
  BY <1>2, <1>7, <1>8, <1>9, <1>10 DEF RxReceivePdu

LEMMA NextAllowed ==
  ASSUME OneFragmentEach, LightLoad, ServiceInv, [Next]_vars
  PROVE  Allowed
<1>1. CASE UNCHANGED vars
  BY <1>1, IdleAllowed DEF vars, txVars, rxVars
<1>2. CASE StatusTimerFires
  BY <1>2, IdleAllowed DEF StatusTimerFires, TxStatusTimer, rxVars
<1>3. CASE MrwTimerFires
  BY <1>3, IdleAllowed DEF MrwTimerFires, TxMrwTimer, rxVars
<1>4. CASE ReportTimerFires
  BY <1>4, IdleAllowed DEF ReportTimerFires, RxReportTimer, txVars
<1>5. CASE AckArrives
  BY <1>5, IdleAllowed DEF AckArrives, TxReceiveAck, txVars, rxVars
<1>6. CASE MrwArrives
  <2>1. UNCHANGED <<txVars, passedUp, seen>>
    BY <1>6 DEF MrwArrives, RxReceiveMrw, rxVars
  <2>2. QED
    BY <2>1, IdleAllowed DEF txVars
<1>7. CASE PduLost
  BY <1>7, IdleAllowed DEF PduLost, txVars, rxVars
<1>8. CASE Next
  BY <1>2, <1>3, <1>4, <1>5, <1>6, <1>7, <1>8, ArrivalAllowed, PduTimerAllowed, MrwAckAllowed,
     PduAllowed DEF Next
<1>9. QED
  BY <1>1, <1>8

\* RLC AM implements its service, for any number of SDUs that fit a PDU, any
\* windows and any load of at most half a receive window: every step of the two
\* queues and their link is one the service allows (AmTxQueue, AmRxQueue).
THEOREM AmImplementsService ==
  ASSUME OneFragmentEach, LightLoad
  PROVE  Spec => ImplementsService
<1>1. Init => Service!Init /\ ServiceInv
  BY InitAllowed
<1>2. ServiceInv /\ [Next]_vars => ServiceInv' /\ [Service!Next]_(Service!vars)
  BY NextKeeps, NextAllowed DEF ServiceInv, Allowed
<1>3. QED
  BY <1>1, <1>2, PTL DEF Spec, ImplementsService, Service!Spec
=============================================================================
