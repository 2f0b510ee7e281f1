---------------------------- MODULE AmLinkProofs ----------------------------
(***************************************************************************)
(* The proofs about RLC AM: for SDUs that fit a PDU and a load of at most  *)
(* half a receive window, AmIInv is an invariant of AmLink, and from it    *)
(* follow the properties of AmLink for every value of the constants.       *)
(***************************************************************************)
EXTENDS AmLinkInv, FiniteSetTheorems, WellFoundedInduction, TLAPS

(***************************************************************************)
(* The constants, and PDUs that are whole.                                 *)
(***************************************************************************)
LEMMA Shape ==
  ASSUME OneFragmentEach
  PROVE  /\ NumSdus \in Nat \ {0} /\ TxWindow \in Nat \ {0} /\ RxWindow \in Nat \ {0}
         /\ MaxRtx \in Nat /\ Load \in Nat
         /\ Sns = Sdus /\ Sdus = 0 .. NumSdus - 1
         /\ FirstSn[NumSdus] = NumSdus
         /\ \A k \in 0 .. NumSdus : FirstSn[k] = k
BY AmAssumption, AmLinkAssumption DEF OneFragmentEach, Sns, Sdus

LEMMA WholePdus ==
  ASSUME OneFragmentEach, NEW sn \in Sns
  PROVE  SduOf(sn) = sn /\ FragmentsOf(sn) = {sn} /\ IsWhole(sn)
<1>0. sn \in Sdus /\ sn \in Nat /\ sn + 1 \in 0 .. NumSdus /\ sn \in 0 .. NumSdus
  BY Shape
<1>1. FirstSn[sn] = sn /\ FirstSn[sn + 1] = sn + 1
  BY <1>0, Shape
<1>2. \A k \in Sdus : FirstSn[k] = k /\ FirstSn[k + 1] = k + 1
  BY Shape
<1>3. SduOf(sn) = sn
  <2>1. \A k \in Sdus : (FirstSn[k] <= sn /\ sn < FirstSn[k + 1]) <=> k = sn
    BY <1>0, <1>2, Shape
  <2>2. QED
    BY <1>0, <2>1 DEF SduOf
<1>4. FragmentsOf(sn) = {sn}
  BY <1>0, <1>1 DEF FragmentsOf
<1>5. QED
  BY <1>1, <1>3, <1>4 DEF IsWhole, IsFirst, IsLast

(***************************************************************************)
(* The bag of PDUs in the air.                                             *)
(***************************************************************************)
LEMMA SendAir ==
  ASSUME IsABag(air), NEW S, Send(S)
  PROVE  IsABag(air') /\ BagToSet(air') = BagToSet(air) \cup S
BY DEF Send, IsABag, BagToSet, SetToBag, (+)

LEMMA TakeAir ==
  ASSUME IsABag(air), NEW m \in BagToSet(air), Take(m)
  PROVE  IsABag(air') /\ BagToSet(air') \subseteq BagToSet(air)
BY DEF Take, IsABag, BagToSet, SetToBag, (-)

LEMMA AnswerAir ==
  ASSUME IsABag(air), NEW m \in BagToSet(air), NEW S, Answer(m, S)
  PROVE  IsABag(air') /\ BagToSet(air') \subseteq BagToSet(air) \cup S
<1> DEFINE rest == air (-) SetToBag({m})
<1>1. IsABag(rest) /\ BagToSet(rest) \subseteq BagToSet(air)
  BY DEF IsABag, BagToSet, SetToBag, (-)
<1>2. air' = rest (+) SetToBag(S)
  BY DEF Answer
<1> HIDE DEF rest
<1>3. IsABag(air') /\ BagToSet(air') = BagToSet(rest) \cup S
  BY <1>1, <1>2 DEF IsABag, BagToSet, SetToBag, (+)
<1>4. QED
  BY <1>1, <1>3

(***************************************************************************)
(* The operators of the entities.                                          *)
(***************************************************************************)
\* addPdus sends the numbers from txSeq on, up to the window or the last SDU.
LEMMA NewSnsInterval ==
  ASSUME OneFragmentEach, NEW first \in Nat, NEW sdus \in 0 .. NumSdus, txSeq \in 0 .. sdus
  PROVE  \E e \in txSeq .. sdus :
           /\ e <= first + TxWindow \/ e = txSeq
           /\ NewSns(first, sdus) = txSeq .. e - 1
           /\ Cardinality(NewSns(first, sdus)) = e - txSeq
<1>0. NewSns(first, sdus) = {sn \in Sdus : txSeq <= sn /\ sn < first + TxWindow /\ sn < sdus}
  BY Shape DEF NewSns
<1>1. CASE first + TxWindow >= txSeq /\ first + TxWindow <= sdus
  <2> DEFINE e == first + TxWindow
  <2>1. e \in txSeq .. sdus
    BY <1>1, Shape
  <2>2. NewSns(first, sdus) = txSeq .. e - 1
    BY <1>0, <1>1, Shape
  <2>3. Cardinality(txSeq .. e - 1) = e - txSeq
    BY <2>1, FS_Interval
  <2>4. QED
    BY <2>1, <2>2, <2>3
<1>2. CASE first + TxWindow < txSeq
  <2>1. NewSns(first, sdus) = txSeq .. txSeq - 1
    BY <1>0, <1>2, Shape
  <2>2. Cardinality(txSeq .. txSeq - 1) = 0
    BY FS_Interval
  <2>3. txSeq \in txSeq .. sdus /\ txSeq - txSeq = 0
    OBVIOUS
  <2>4. QED
    BY <2>1, <2>2, <2>3
<1>3. CASE first + TxWindow > sdus
  <2>1. NewSns(first, sdus) = txSeq .. sdus - 1
    BY <1>0, <1>3, Shape
  <2>2. Cardinality(txSeq .. sdus - 1) = sdus - txSeq
    <3>1. txSeq \in Int /\ sdus - 1 \in Int /\ txSeq <= sdus
      BY Shape
    <3>2. Cardinality(txSeq .. sdus - 1) = IF txSeq <= sdus - 1 THEN (sdus - 1) - txSeq + 1 ELSE 0
      BY <3>1, FS_Interval
    <3>3. QED
      BY <3>1, <3>2, Shape
  <2>3. QED
    BY <1>3, <2>1, <2>2, Shape
<1>4. QED
  BY <1>1, <1>2, <1>3, Shape

\* The first number of an interval that a set does not have.
LEMMA FirstGap ==
  ASSUME NEW a \in Nat, NEW b \in Nat, a <= b, NEW S
  PROVE  \E s \in a .. b : a .. s - 1 \subseteq S /\ (s = b \/ s \notin S)
<1> DEFINE T == {n \in a .. b : n = b \/ n \notin S}
<1>1. T \in SUBSET Nat /\ b \in T
  OBVIOUS
<1>2. PICK s \in T : \A n \in T : s <= n
  <2> DEFINE R == {p \in Nat \X Nat : p[1] < p[2]}
  <2>1. IsWellFoundedOn(R, Nat)
    BY Zenon, NatLessThanWellFounded DEF OpToRel
  <2>2. \A n, t \in Nat : n < t => <<n, t>> \in R
    OBVIOUS
  <2> HIDE DEF R, T
  <2>3. PICK s \in T : \A n \in T : ~(<<n, s>> \in R)
    BY <1>1, <2>1, WFMin
  <2>4. \A n \in T : s \in Nat /\ n \in Nat /\ ~(n < s)
    BY <1>1, <2>2, <2>3
  <2>5. \A n \in T : s <= n
    BY <2>4
  <2>6. QED
    BY <2>5
<1>3. a .. s - 1 \subseteq S
  BY <1>2
<1>4. QED
  BY <1>2, <1>3

\* checkForMrw: how far the window could move, and the command for it.
LEMMA TargetOf ==
  ASSUME NEW done, txFirst \in Nat, txSeq \in Nat, txFirst <= txSeq
  PROVE  /\ MrwTarget(done) \in txFirst .. txSeq
         /\ txFirst .. MrwTarget(done) - 1 \subseteq done
<1>1. \E s \in txFirst .. txSeq : txFirst .. s - 1 \subseteq done /\ (s = txSeq \/ s \notin done)
  BY FirstGap
<1>2. QED
  BY <1>1 DEF MrwTarget

\* sendStatusReport: all below the first missing number is in the vector.
LEMMA MissingOf ==
  ASSUME OneFragmentEach, NEW R, rxFirst \in Nat
  PROVE  /\ FirstMissing(R) \in rxFirst .. rxFirst + RxWindow
         /\ rxFirst .. FirstMissing(R) - 1 \subseteq R
<1>0. rxFirst + RxWindow \in Nat /\ rxFirst <= rxFirst + RxWindow
  BY Shape
<1>1. \E s \in rxFirst .. rxFirst + RxWindow :
        rxFirst .. s - 1 \subseteq R /\ (s = rxFirst + RxWindow \/ s \notin R)
  BY <1>0, FirstGap
<1>2. QED
  BY <1>1 DEF FirstMissing

(***************************************************************************)
(* What is in the air, kind by kind.                                       *)
(***************************************************************************)
LEMMA KindsInAir ==
  ASSUME NEW S, BagToSet(air') \subseteq BagToSet(air) \cup S, NEW type
  PROVE  InAir(type)' \subseteq InAir(type) \cup {m \in S : m.type = type}
BY DEF InAir

\* A status report says nothing but what the receiver knows.
LEMMA ReportIsTrue ==
  ASSUME OneFragmentEach, AmIInv, NEW R, NEW X,
         rxReceived \subseteq R, R \subseteq X, R \subseteq Nat, seen \subseteq X,
         \A sn \in X : sn < txSeq
  PROVE  /\ StatusReport(R) \in Messages
         /\ StatusReport(R).type = "ack"
         /\ StatusReport(R).last < txSeq
         /\ StatusReport(R).bits \subseteq X
         /\ \A sn \in txFirst .. StatusReport(R).last : sn \in X \/ sn \in txDiscarded
<1> DEFINE n == FirstMissing(R)
<1>1. rxFirst \in Nat /\ txFirst \in Nat /\ txSeq \in Nat
  BY Shape DEF AmIInv, AmTypeOK, TxTypeOK, RxTypeOK
<1>2. n \in rxFirst .. rxFirst + RxWindow /\ rxFirst .. n - 1 \subseteq R
  BY <1>1, MissingOf
<1>3. RxWindow \in Nat
  BY Shape
<1> HIDE DEF n
<1>4. n - 1 < txSeq
  <2>1. CASE n = rxFirst
    BY <1>1, <2>1 DEF AmIInv, Outstanding
  <2>2. CASE n # rxFirst
    <3>1. n - 1 \in R
      BY <1>1, <1>2, <1>3, <2>2
    <3>2. QED
      BY <3>1
  <2>3. QED
    BY <2>1, <2>2
<1>5. \A sn \in txFirst .. n - 1 : sn \in X \/ sn \in txDiscarded
  <2> SUFFICES ASSUME NEW sn \in txFirst .. n - 1 PROVE sn \in X \/ sn \in txDiscarded
    OBVIOUS
  <2>1. CASE sn >= rxFirst
    BY <1>1, <1>2, <1>3, <2>1
  <2>2. CASE sn < rxFirst
    <3>1. sn \in Sns
      BY <1>1, <2>2, Shape DEF AmIInv, AmTypeOK, RxTypeOK
    <3>2. sn \in Done
      BY <1>1, <2>2, <3>1 DEF AmIInv, NothingSkipped, Done
    <3>3. QED
      BY <3>2 DEF AmIInv, ReceivedWasSeen, Done
  <2>3. QED
    BY <1>1, <1>2, <1>3, <2>1, <2>2
<1>6. StatusReport(R) = [type |-> "ack", last |-> n - 1, bits |-> {sn \in R : sn > n}]
  BY DEF StatusReport, Ack, n
<1>7. n - 1 \in Int /\ {sn \in R : sn > n} \in SUBSET Nat
  <2>1. n \in Int
    BY <1>1, <1>2, <1>3
  <2>2. {sn \in R : sn > n} \subseteq Nat
    OBVIOUS
  <2>3. QED
    BY <2>1, <2>2
<1>8. StatusReport(R) \in [type : {"ack"}, last : Int, bits : SUBSET Nat]
  BY <1>6, <1>7
<1>9. StatusReport(R) \in Messages
  BY <1>8 DEF Messages
<1>10. StatusReport(R).type = "ack" /\ StatusReport(R).last = n - 1
       /\ StatusReport(R).bits = {sn \in R : sn > n}
  BY <1>6
<1>11. StatusReport(R).bits \subseteq X
  BY <1>10
<1>12. QED
  BY <1>4, <1>5, <1>9, <1>10, <1>11

(***************************************************************************)
(* The initial state, and the steps that only take from the air or add to *)
(* it.                                                                     *)
(***************************************************************************)
LEMMA InitIInv ==
  ASSUME OneFragmentEach, Init
  PROVE  AmIInv
<1>0. BagToSet(air) = {} /\ IsABag(air)
  BY DEF Init, EmptyBag, SetToBag, BagToSet, IsABag
<1>1. AmTypeOK
  <2>1. TxTypeOK
    <3>1. 0 \in 0 .. FirstSn[NumSdus] /\ 0 \in 0 .. NumSdus /\ 0 \in 0 .. MaxRtx
      BY Shape
    <3>2. TxInit
      BY DEF Init
    <3>3. txNumber \in [Sns -> 0 .. MaxRtx] /\ dueBefore \in [Sns -> SUBSET Sns]
      BY <3>1, <3>2 DEF TxInit
    <3>4. QED
      BY <3>1, <3>2, <3>3 DEF TxInit, TxTypeOK
  <2>2. RxTypeOK
    <3>1. 0 \in 0 .. FirstSn[NumSdus] /\ 0 \in Sdus
      BY Shape
    <3>2. RxInit
      BY DEF Init
    <3>3. QED
      BY <3>1, <3>2 DEF RxInit, RxTypeOK, NoSdu
  <2>3. QED
    BY <1>0, <2>1, <2>2 DEF Init, AmTypeOK
<1>2. OnlyWithoutContact /\ Outstanding /\ MarkedOrTimed
  BY Shape DEF Init, TxInit, RxInit, OnlyWithoutContact, NoAmError, Outstanding,
               MarkedOrTimed
<1>3. SentBefore /\ AcksTrue /\ MrwsCoverDone /\ MrwAcksTrue
  BY <1>0 DEF Init, TxInit, SentBefore, AcksTrue, MrwsCoverDone, MrwAcksTrue, InAir
<1>4. FlagsTrue /\ ReceivedWasSeen /\ NothingSkipped /\ InContact
  BY Shape DEF Init, TxInit, RxInit, FlagsTrue, ReceivedWasSeen, NothingSkipped, InContact
<1>5. PassedIsFlagged /\ SettledBehind
  BY Shape DEF Init, TxInit, RxInit, PassedIsFlagged, SettledBehind
<1>6. QED
  BY <1>1, <1>2, <1>3, <1>4, <1>5 DEF AmIInv

\* What the sender does when it sends a command, if it sends one.
LEMMA CommandsOf ==
  ASSUME AmIInv, OneFragmentEach, NEW done, CheckForMrw(done)
  PROVE  /\ mrwQueue' \subseteq [number : Nat, last : Nat] /\ mrwSeq' \in Nat
         /\ \A q \in mrwQueue' : \/ q \in mrwQueue
                                 \/ /\ q.last <= txSeq
                                    /\ \A sn \in txFirst .. q.last - 1 : sn \in done
         /\ NewMrw(done) \subseteq Messages
         /\ \A m \in NewMrw(done) : /\ m.type = "mrw" /\ m.last <= txSeq
                                    /\ \A sn \in txFirst .. m.last - 1 : sn \in done
<1> DEFINE n == MrwTarget(done)
<1>1. txFirst \in Nat /\ txSeq \in Nat /\ txFirst <= txSeq /\ mrwSeq \in Nat
      /\ mrwQueue \subseteq [number : Nat, last : Nat]
  BY Shape DEF AmIInv, AmTypeOK, TxTypeOK, Outstanding, RxTypeOK
<1>2. n \in txFirst .. txSeq /\ txFirst .. n - 1 \subseteq done
  BY <1>1, TargetOf
<1>3. n \in Nat /\ n <= txSeq
  BY <1>1, <1>2
<1>4. \/ UNCHANGED <<mrwQueue, mrwSeq>> /\ NewMrw(done) = {}
      \/ /\ mrwQueue' = mrwQueue \cup {[number |-> mrwSeq, last |-> n]}
         /\ mrwSeq' = mrwSeq + 1
         /\ NewMrw(done) = {[type |-> "mrw", number |-> mrwSeq, last |-> n]}
  <2>1. CASE n = txFirst
    BY <2>1 DEF CheckForMrw, NewMrw
  <2>2. CASE n # txFirst
    BY <2>2 DEF CheckForMrw, NewMrw, Mrw
  <2>3. QED
    BY <2>1, <2>2
<1> HIDE DEF n
<1>5. [type |-> "mrw", number |-> mrwSeq, last |-> n] \in Messages
  <2>1. [type |-> "mrw", number |-> mrwSeq, last |-> n]
          \in [type : {"mrw"}, number : Nat, last : Nat]
    BY <1>1, <1>3
  <2>2. QED
    BY <2>1 DEF Messages
<1>6. mrwQueue' \subseteq [number : Nat, last : Nat] /\ mrwSeq' \in Nat
  BY <1>1, <1>3, <1>4
<1>7. \A q \in mrwQueue' : \/ q \in mrwQueue
                           \/ /\ q.last <= txSeq
                              /\ \A sn \in txFirst .. q.last - 1 : sn \in done
  BY <1>2, <1>3, <1>4
<1>8. \A m \in NewMrw(done) : /\ m.type = "mrw" /\ m.last <= txSeq
                              /\ \A sn \in txFirst .. m.last - 1 : sn \in done
  BY <1>2, <1>3, <1>4
<1>9. NewMrw(done) \subseteq Messages
  BY <1>4, <1>5
<1>10. QED
  BY <1>6, <1>7, <1>8, <1>9

\* What is true of a message, whatever it says.
TrueMessage(m) ==
  /\ m.type = "data" => m.sn < txSeq
  /\ m.type = "ack" => /\ m.last < txSeq
                       /\ m.bits \subseteq seen
                       /\ \A sn \in txFirst .. m.last : sn \in seen \/ sn \in txDiscarded
  /\ m.type = "mrw" => /\ m.last <= txSeq
                       /\ \A sn \in txFirst .. m.last - 1 : sn \in Done
  /\ m.type = "mrwAck" => m.first <= rxFirst

\* The entities stay as they are but for commands that are true, and so is
\* what is sent.
LEMMA AirOnly ==
  ASSUME AmIInv, AmTypeOK',
         UNCHANGED <<thrown, arrived, txFirst, txSeq, txReceived, txDiscarded, txNumber,
                     pduTimers, rxFirst, rxReceived, pduBuffer, knowsPeer, passedUp, seen>>,
         \A q \in mrwQueue' : \/ q \in mrwQueue
                              \/ /\ q.last <= txSeq
                                 /\ \A sn \in txFirst .. q.last - 1 : sn \in Done,
         NEW S, BagToSet(air') \subseteq BagToSet(air) \cup S, \A m \in S : TrueMessage(m)
  PROVE  AmIInv'
<1>1. \A type : InAir(type)' \subseteq InAir(type) \cup {m \in S : m.type = type}
  BY KindsInAir
<1>2. SentBefore'
  BY <1>1 DEF AmIInv, SentBefore, TrueMessage
<1>3. AcksTrue'
  BY <1>1 DEF AmIInv, AcksTrue, TrueMessage
<1>4. MrwsCoverDone'
  BY <1>1 DEF AmIInv, MrwsCoverDone, Done, TrueMessage
<1>5. MrwAcksTrue'
  BY <1>1 DEF AmIInv, MrwAcksTrue, TrueMessage
<1>6. OnlyWithoutContact' /\ Outstanding' /\ MarkedOrTimed' /\ FlagsTrue'
      /\ ReceivedWasSeen' /\ NothingSkipped' /\ InContact'
  BY DEF AmIInv, OnlyWithoutContact, NoAmError, Outstanding, MarkedOrTimed, FlagsTrue,
         ReceivedWasSeen, NothingSkipped, InContact, Window, Done
<1>7. PassedIsFlagged' /\ SettledBehind'
  BY DEF AmIInv, PassedIsFlagged, SettledBehind, Settled
<1>8. QED
  BY <1>2, <1>3, <1>4, <1>5, <1>6, <1>7 DEF AmIInv

LEMMA LostKeeps ==
  ASSUME AmIInv, PduLost
  PROVE  AmIInv'
<1>1. PICK m \in BagToSet(air) : Take(m) /\ UNCHANGED <<thrown, txVars, rxVars, seen>>
  BY DEF PduLost
<1>2. IsABag(air') /\ BagToSet(air') \subseteq BagToSet(air)
  BY <1>1, TakeAir DEF AmIInv, AmTypeOK
<1>3. PICK S : S = {}
  OBVIOUS
<1>4. BagToSet(air') \subseteq BagToSet(air) \cup S /\ \A n \in S : TrueMessage(n)
  BY <1>2, <1>3
<1>5. AmTypeOK'
  BY <1>1, <1>2 DEF AmIInv, AmTypeOK, TxTypeOK, RxTypeOK, txVars, rxVars
<1>6. mrwQueue' = mrwQueue
      /\ UNCHANGED <<thrown, arrived, txFirst, txSeq, txReceived, txDiscarded, txNumber,
                     pduTimers, rxFirst, rxReceived, pduBuffer, knowsPeer, passedUp, seen>>
  BY <1>1 DEF txVars, rxVars
<1>7. QED
  BY <1>4, <1>5, <1>6, AirOnly

LEMMA ReportTimerKeeps ==
  ASSUME OneFragmentEach, AmIInv, ReportTimerFires
  PROVE  AmIInv'
<1>1. PICK S \in Reports(rxReceived) : Send(S)
  BY DEF ReportTimerFires, RxReportTimer
<1>2. StatusReport(rxReceived) \in Messages /\ TrueMessage(StatusReport(rxReceived))
  <2>1. rxReceived \subseteq Nat /\ rxReceived \subseteq seen
    BY Shape DEF AmIInv, FlagsTrue, AmTypeOK
  <2>2. \A sn \in seen : sn < txSeq
    BY DEF AmIInv, SentBefore
  <2>3. QED
    BY <2>1, <2>2, ReportIsTrue DEF TrueMessage
<1>3. S \subseteq Messages /\ \A m \in S : TrueMessage(m)
  BY <1>2 DEF Reports
<1>4. IsABag(air') /\ BagToSet(air') = BagToSet(air) \cup S
  BY <1>1, SendAir DEF AmIInv, AmTypeOK
<1>5. UNCHANGED <<thrown, txVars, rxFirst, rxSeq, rxReceived, pduBuffer, firstSdu,
                  knowsPeer, passedUp, seen>>
      /\ reportTimer' \in BOOLEAN
  BY DEF ReportTimerFires, RxReportTimer
<1>6. AmTypeOK'
  BY <1>3, <1>4, <1>5 DEF AmIInv, AmTypeOK, TxTypeOK, RxTypeOK, txVars
<1>7. QED
  BY <1>3, <1>4, <1>5, <1>6, AirOnly DEF txVars

LEMMA StatusTimerKeeps ==
  ASSUME OneFragmentEach, AmIInv, StatusTimerFires
  PROVE  AmIInv'
<1>1. Send(NewMrw(Done)) /\ CheckForMrw(Done) /\ statusTimer' = FALSE
      /\ UNCHANGED <<thrown, arrived, txFirst, txSeq, txReceived, txDiscarded, txNumber,
                     pduTimers, dueBefore, rxVars, seen>>
  BY DEF StatusTimerFires, TxStatusTimer
<1>2. IsABag(air') /\ BagToSet(air') = BagToSet(air) \cup NewMrw(Done)
  BY <1>1, SendAir DEF AmIInv, AmTypeOK
<1>3. /\ mrwQueue' \subseteq [number : Nat, last : Nat] /\ mrwSeq' \in Nat
      /\ \A q \in mrwQueue' : \/ q \in mrwQueue
                              \/ /\ q.last <= txSeq
                                 /\ \A sn \in txFirst .. q.last - 1 : sn \in Done
      /\ NewMrw(Done) \subseteq Messages
      /\ \A m \in NewMrw(Done) : /\ m.type = "mrw" /\ m.last <= txSeq
                                 /\ \A sn \in txFirst .. m.last - 1 : sn \in Done
  BY <1>1, CommandsOf
<1>4. \A m \in NewMrw(Done) : TrueMessage(m)
  BY <1>3 DEF TrueMessage
<1>5. AmTypeOK'
  BY <1>1, <1>2, <1>3 DEF AmIInv, AmTypeOK, TxTypeOK, RxTypeOK, rxVars
<1>6. QED
  BY <1>1, <1>2, <1>3, <1>4, <1>5, AirOnly DEF rxVars

LEMMA MrwTimerKeeps ==
  ASSUME OneFragmentEach, AmIInv, MrwTimerFires
  PROVE  AmIInv'
<1>1. PICK q \in mrwQueue :
        \/ mrwQueue' = mrwQueue \ {q} /\ UNCHANGED air
        \/ Send({Mrw(q.number, q.last)}) /\ UNCHANGED mrwQueue
  BY DEF MrwTimerFires, TxMrwTimer
<1>2. UNCHANGED <<thrown, arrived, txFirst, txSeq, txReceived, txDiscarded, txNumber,
                  pduTimers, dueBefore, statusTimer, mrwSeq, rxVars, seen>>
  BY DEF MrwTimerFires, TxMrwTimer
<1>3. q.number \in Nat /\ q.last \in Nat /\ IsABag(air)
      /\ mrwQueue \subseteq [number : Nat, last : Nat]
  BY DEF AmIInv, AmTypeOK, TxTypeOK
<1> DEFINE S == {Mrw(q.number, q.last)}
<1>4. \A m \in S : TrueMessage(m) /\ m \in Messages
  <2>1. q.last <= txSeq /\ \A sn \in txFirst .. q.last - 1 : sn \in Done
    BY DEF AmIInv, MrwsCoverDone
  <2>2. Mrw(q.number, q.last) \in [type : {"mrw"}, number : Nat, last : Nat]
    BY <1>3 DEF Mrw
  <2>3. Mrw(q.number, q.last).type = "mrw" /\ Mrw(q.number, q.last).last = q.last
    BY DEF Mrw
  <2>4. QED
    BY <2>1, <2>2, <2>3 DEF TrueMessage, Messages
<1>5. IsABag(air') /\ BagToSet(air') \subseteq BagToSet(air) \cup S
      /\ mrwQueue' \subseteq mrwQueue
  <2>1. CASE mrwQueue' = mrwQueue \ {q} /\ UNCHANGED air
    BY <1>3, <2>1
  <2>2. CASE Send(S) /\ UNCHANGED mrwQueue
    BY <1>3, <2>2, SendAir
  <2>3. QED
    BY <1>1, <2>1, <2>2
<1> HIDE DEF S
<1>6. AmTypeOK'
  BY <1>2, <1>3, <1>4, <1>5 DEF AmIInv, AmTypeOK, TxTypeOK, RxTypeOK, rxVars
<1>7. QED
  BY <1>2, <1>4, <1>5, <1>6, AirOnly DEF rxVars

(***************************************************************************)
(* The steps that send new PDUs.                                           *)
(***************************************************************************)
\* What addPdus does when nothing beyond the last PDU sent is marked.
LEMMA PdusAdded ==
  ASSUME OneFragmentEach, AmTypeOK, NEW first \in Nat, NEW sdus \in 0 .. NumSdus,
         NEW marked, NEW timers, txSeq \in 0 .. sdus, timers \subseteq Sns,
         \A sn \in marked : sn < txSeq,
         AddPdus(first, sdus, marked, timers)
  PROVE  /\ txSeq' \in txSeq .. sdus
         /\ txSeq' <= first + TxWindow \/ txSeq' = txSeq
         /\ txNumber' \in [Sns -> 0 .. MaxRtx]
         /\ \A sn \in Sns : sn < txSeq => txNumber'[sn] = txNumber[sn]
         /\ pduTimers' = timers \cup txSeq .. txSeq' - 1
         /\ pduTimers' \subseteq Sns
         /\ dueBefore' \in [Sns -> SUBSET Sns]
         /\ statusTimer' \in BOOLEAN
         /\ thrown' = thrown
         /\ NewPdus(first, sdus) \subseteq Messages
         /\ \A m \in NewPdus(first, sdus) : m.type = "data" /\ m.sn < txSeq'
<1> DEFINE N == NewSns(first, sdus)
<1>1. PICK e \in txSeq .. sdus :
        (e <= first + TxWindow \/ e = txSeq) /\ N = txSeq .. e - 1
        /\ Cardinality(N) = e - txSeq
  BY NewSnsInterval
<1>2. txSeq' = txSeq + Cardinality(N) /\ StartTimers(N, timers)
      /\ txNumber' = [sn \in Sns |-> IF sn \in N THEN 0 ELSE txNumber[sn]]
      /\ statusTimer' = (statusTimer \/ N # {})
      /\ thrown' = IF N \cap marked # {} THEN "busyPosition" ELSE thrown
  BY DEF AddPdus
<1>3. NewPdus(first, sdus) = {Pdu(sn, 0) : sn \in N}
  BY DEF NewPdus
<1>4. N \subseteq Sns
  BY DEF NewSns
<1> HIDE DEF N
<1>5. txSeq' = e
  BY <1>1, <1>2
<1>6. txNumber' \in [Sns -> 0 .. MaxRtx]
      /\ \A sn \in Sns : sn < txSeq => txNumber'[sn] = txNumber[sn]
  <2>1. 0 \in 0 .. MaxRtx /\ txNumber \in [Sns -> 0 .. MaxRtx]
    BY Shape DEF AmTypeOK, TxTypeOK
  <2>2. \A sn \in N : ~(sn < txSeq)
    BY <1>1
  <2>3. QED
    BY <1>2, <2>1, <2>2
<1>7. pduTimers' = timers \cup N /\ pduTimers' \subseteq Sns
      /\ dueBefore' \in [Sns -> SUBSET Sns]
  <2>1. dueBefore \in [Sns -> SUBSET Sns]
    BY DEF AmTypeOK, TxTypeOK
  <2>2. pduTimers' = timers \cup N
    BY <1>2 DEF StartTimers
  <2>3. dueBefore' \in [Sns -> SUBSET Sns]
    BY <1>2, <1>4, <2>1 DEF StartTimers
  <2>4. QED
    BY <1>4, <2>2, <2>3
<1>8. statusTimer' \in BOOLEAN
  <2>1. statusTimer' = (statusTimer \/ N # {})
    BY <1>2
  <2>2. statusTimer \in BOOLEAN
    BY DEF AmTypeOK, TxTypeOK
  <2>3. QED
    BY <2>1, <2>2, Zenon
<1>9. thrown' = thrown
  <2>1. N \cap marked = {}
    BY <1>1
  <2>2. QED
    BY <1>2, <2>1
<1>10. \A m \in NewPdus(first, sdus) : m \in Messages /\ m.type = "data" /\ m.sn < txSeq'
  <2> SUFFICES ASSUME NEW sn \in N
               PROVE  /\ Pdu(sn, 0) \in Messages
                      /\ Pdu(sn, 0).type = "data" /\ Pdu(sn, 0).sn < txSeq'
    BY <1>3
  <2>1. sn \in Sns /\ sn < e
    BY <1>1, <1>4
  <2>2. Pdu(sn, 0) \in [type : {"data"}, sn : Sns, txNumber : 0 .. MaxRtx]
    BY <2>1, Shape DEF Pdu
  <2>3. QED
    BY <1>5, <2>1, <2>2 DEF Messages, Pdu
<1>11. QED
  BY <1>1, <1>5, <1>6, <1>7, <1>8, <1>9, <1>10

LEMMA ArrivalKeeps ==
  ASSUME OneFragmentEach, AmIInv, SduArrives
  PROVE  AmIInv'
<1>1. /\ arrived < NumSdus /\ FirstSn[arrived + 1] - txFirst <= Load
      /\ arrived' = arrived + 1
      /\ AddPdus(txFirst, arrived + 1, Done, pduTimers)
      /\ Send(NewPdus(txFirst, arrived + 1))
      /\ UNCHANGED <<txFirst, txReceived, txDiscarded, mrwQueue, mrwSeq, rxVars, seen>>
  BY DEF SduArrives, TxEnque
<1>2. /\ arrived \in 0 .. NumSdus /\ txFirst \in Nat /\ txSeq \in Nat /\ rxFirst \in Nat
      /\ pduTimers \subseteq Sns /\ AmTypeOK
      /\ txFirst <= rxFirst /\ rxFirst <= txSeq
      /\ txSeq <= arrived /\ arrived <= txFirst + Load /\ txSeq <= txFirst + TxWindow
  <2>1. AmTypeOK /\ Outstanding
    BY DEF AmIInv
  <2>2. TxTypeOK /\ rxFirst \in 0 .. FirstSn[NumSdus]
    BY <2>1 DEF AmTypeOK, RxTypeOK
  <2>3. arrived \in 0 .. NumSdus /\ txFirst \in Nat /\ txSeq \in Nat /\ rxFirst \in Nat
        /\ pduTimers \subseteq Sns
    BY <2>2, Shape DEF TxTypeOK
  <2>4. QED
    BY <2>1, <2>3 DEF Outstanding
<1>3. arrived + 1 \in 0 .. NumSdus /\ arrived + 1 <= txFirst + Load
      /\ txSeq \in 0 .. arrived + 1
  BY <1>1, <1>2, Shape
<1>4. \A sn \in Done : sn < txSeq
  BY <1>2 DEF AmIInv, MarkedOrTimed, Window, Done
<1>5. /\ txSeq' \in txSeq .. arrived + 1
      /\ txSeq' <= txFirst + TxWindow \/ txSeq' = txSeq
      /\ txNumber' \in [Sns -> 0 .. MaxRtx]
      /\ \A sn \in Sns : sn < txSeq => txNumber'[sn] = txNumber[sn]
      /\ pduTimers' = pduTimers \cup txSeq .. txSeq' - 1
      /\ pduTimers' \subseteq Sns
      /\ dueBefore' \in [Sns -> SUBSET Sns]
      /\ statusTimer' \in BOOLEAN
      /\ thrown' = thrown
      /\ NewPdus(txFirst, arrived + 1) \subseteq Messages
      /\ \A m \in NewPdus(txFirst, arrived + 1) : m.type = "data" /\ m.sn < txSeq'
  BY <1>1, <1>2, <1>3, <1>4, PdusAdded
<1> DEFINE S == NewPdus(txFirst, arrived + 1)
<1>6. IsABag(air') /\ BagToSet(air') = BagToSet(air) \cup S
  BY <1>1, SendAir DEF AmIInv, AmTypeOK
<1>7. \A m \in S : m \in Messages /\ m.type = "data" /\ m.sn < txSeq'
  BY <1>5
<1> HIDE DEF S
<1>8. \A type : InAir(type)' \subseteq InAir(type) \cup {m \in S : m.type = type}
  BY <1>6, KindsInAir
<1>9. txSeq' \in Nat /\ txSeq <= txSeq' /\ txSeq' <= arrived' /\ txSeq' <= txFirst + TxWindow
  BY <1>1, <1>2, <1>3, <1>5, Shape
<1>10. AmTypeOK'
  <2>1. TxTypeOK'
    <3>1. arrived' \in 0 .. NumSdus /\ txSeq' \in 0 .. FirstSn[NumSdus]
      BY <1>1, <1>3, <1>9, Shape
    <3>2. TxTypeOK
      BY <1>2 DEF AmTypeOK
    <3>3. QED
      BY <1>1, <1>5, <3>1, <3>2 DEF TxTypeOK
  <2>2. RxTypeOK'
    BY <1>1, <1>2 DEF AmTypeOK, RxTypeOK, rxVars
  <2>3. QED
    BY <1>1, <1>2, <1>5, <1>6, <1>7, <2>1, <2>2 DEF AmTypeOK
<1>11. OnlyWithoutContact' /\ FlagsTrue' /\ ReceivedWasSeen' /\ NothingSkipped' /\ InContact'
       /\ MrwAcksTrue' /\ PassedIsFlagged'
  BY <1>1, <1>5, <1>7, <1>8
     DEF AmIInv, OnlyWithoutContact, NoAmError, FlagsTrue, ReceivedWasSeen, NothingSkipped,
         InContact, MrwAcksTrue, PassedIsFlagged, rxVars
<1>12. Outstanding'
  BY <1>1, <1>2, <1>3, <1>5, <1>9 DEF Outstanding, rxVars
<1>13. MarkedOrTimed'
  <2>1. PICK e \in Nat : e = txSeq'
    BY <1>9
  <2>2. txSeq <= e /\ txFirst \in Nat /\ txSeq \in Nat /\ txFirst <= txSeq
    BY <1>2, <1>9, <2>1
  <2>3. txFirst .. txSeq - 1 \subseteq txFirst .. e - 1
        /\ txSeq .. e - 1 \subseteq txFirst .. e - 1
    BY <2>2
  <2>4. \A sn \in txSeq .. e - 1 : sn \notin Done
    BY <1>4, <2>2
  <2>5. pduTimers' = pduTimers \cup txSeq .. e - 1 /\ Window' = txFirst .. e - 1
    BY <1>1, <1>5, <2>1 DEF Window
  <2>6. QED
    BY <1>1, <2>3, <2>4, <2>5 DEF AmIInv, MarkedOrTimed, Done, Window
<1>14. SentBefore'
  <2>1. \A m \in InAir("data") : m.sn \in Nat
    BY Shape DEF AmIInv, AmTypeOK, InAir, Messages
  <2>2. seen \subseteq Nat
    BY Shape DEF AmIInv, AmTypeOK
  <2>3. QED
    BY <1>1, <1>2, <1>7, <1>8, <1>9, <2>1, <2>2 DEF AmIInv, SentBefore
<1>15. AcksTrue'
  <2>1. \A m \in InAir("ack") : m.last \in Int
    BY DEF AmIInv, AmTypeOK, InAir, Messages
  <2>2. InAir("ack")' \subseteq InAir("ack")
    BY <1>7, <1>8
  <2>3. QED
    BY <1>1, <1>2, <1>9, <2>1, <2>2 DEF AmIInv, AcksTrue
<1>16. MrwsCoverDone'
  <2>1. \A m \in InAir("mrw") \cup mrwQueue : m.last \in Nat
    BY DEF AmIInv, AmTypeOK, TxTypeOK, InAir, Messages
  <2>2. InAir("mrw")' \subseteq InAir("mrw")
    BY <1>7, <1>8
  <2>3. QED
    BY <1>1, <1>2, <1>9, <2>1, <2>2 DEF AmIInv, MrwsCoverDone, Done
<1>17. SettledBehind'
  <2>1. \A k \in Sdus : k < rxFirst => txNumber'[k] = txNumber[k]
    BY <1>2, <1>5, Shape
  <2>2. \A k \in seen \cup txDiscarded : txNumber'[k] = txNumber[k]
    BY <1>2, <1>4, <1>5 DEF AmIInv, SentBefore, AmTypeOK, TxTypeOK, Done
  <2>3. QED
    BY <1>1, <2>1, <2>2 DEF AmIInv, SettledBehind, Settled, rxVars
<1>18. QED
  BY <1>10, <1>11, <1>12, <1>13, <1>14, <1>15, <1>16, <1>17 DEF AmIInv

(***************************************************************************)
(* The timer of a PDU.                                                     *)
(***************************************************************************)
\* A PDU that is timed is in the window and its SDU goes with it.
LEMMA TimedPdu ==
  ASSUME OneFragmentEach, AmIInv, NEW sn \in pduTimers
  PROVE  /\ sn \in Sns /\ sn \in Nat /\ txFirst <= sn /\ sn < txSeq
         /\ sn < txFirst + TxWindow /\ sn \notin Done
         /\ DiscardedWith(sn) = {sn}
         /\ txNumber[sn] \in 0 .. MaxRtx
<1>1. sn \in Sns /\ sn \in Window /\ sn \notin Done
  BY DEF AmIInv, AmTypeOK, TxTypeOK, MarkedOrTimed
<1>2. txFirst \in Nat /\ txSeq \in Nat /\ txSeq <= txFirst + TxWindow
  BY Shape DEF AmIInv, AmTypeOK, TxTypeOK, Outstanding
<1>3. sn \in Nat /\ txFirst <= sn /\ sn < txSeq
  BY <1>1, <1>2 DEF Window
<1>4. DiscardedWith(sn) = {sn}
  BY <1>1, <1>3, WholePdus DEF DiscardedWith
<1>5. txNumber[sn] \in 0 .. MaxRtx
  BY <1>1 DEF AmIInv, AmTypeOK, TxTypeOK
<1>6. QED
  BY <1>1, <1>2, <1>3, <1>4, <1>5, Shape

LEMMA ResendKeeps ==
  ASSUME OneFragmentEach, AmIInv, NEW sn \in pduTimers,
         ~GivesUp(sn),
         txNumber' = [txNumber EXCEPT ![sn] = @ + 1],
         RestartTimer(sn),
         Send({Pdu(sn, txNumber[sn] + 1)}),
         UNCHANGED <<thrown, arrived, txFirst, txSeq, txReceived, txDiscarded,
                     statusTimer, mrwQueue, mrwSeq, rxVars, seen>>
  PROVE  AmIInv'
<1>1. /\ sn \in Sns /\ sn \in Nat /\ sn < txSeq /\ sn \notin Done
      /\ txNumber[sn] \in 0 .. MaxRtx
  BY TimedPdu
<1>2. txNumber[sn] + 1 \in 0 .. MaxRtx /\ txNumber[sn] # MaxRtx
  BY <1>1, Shape DEF GivesUp
<1>3. txNumber \in [Sns -> 0 .. MaxRtx] /\ dueBefore \in [Sns -> SUBSET Sns]
      /\ pduTimers \subseteq Sns
  BY DEF AmIInv, AmTypeOK, TxTypeOK
<1>4. txNumber' \in [Sns -> 0 .. MaxRtx]
      /\ \A k \in Sns : txNumber[k] = MaxRtx => txNumber'[k] = MaxRtx
  BY <1>1, <1>2, <1>3
<1>5. pduTimers' = pduTimers /\ dueBefore' \in [Sns -> SUBSET Sns]
  BY <1>3 DEF RestartTimer
<1> DEFINE S == {Pdu(sn, txNumber[sn] + 1)}
<1>6. \A m \in S : m \in Messages /\ m.type = "data" /\ m.sn < txSeq
  <2>1. Pdu(sn, txNumber[sn] + 1) \in [type : {"data"}, sn : Sns, txNumber : 0 .. MaxRtx]
    BY <1>1, <1>2 DEF Pdu
  <2>2. Pdu(sn, txNumber[sn] + 1).type = "data" /\ Pdu(sn, txNumber[sn] + 1).sn = sn
    BY DEF Pdu
  <2>3. QED
    BY <1>1, <2>1, <2>2 DEF Messages
<1>7. IsABag(air') /\ BagToSet(air') = BagToSet(air) \cup S
  BY SendAir DEF AmIInv, AmTypeOK
<1> HIDE DEF S
<1>8. \A type : InAir(type)' \subseteq InAir(type) \cup {m \in S : m.type = type}
  BY <1>7, KindsInAir
<1>9. AmTypeOK'
  <2>1. TxTypeOK'
    BY <1>4, <1>5 DEF AmIInv, AmTypeOK, TxTypeOK
  <2>2. RxTypeOK'
    BY DEF AmIInv, AmTypeOK, RxTypeOK, rxVars
  <2>3. QED
    BY <1>6, <1>7, <2>1, <2>2 DEF AmIInv, AmTypeOK
<1>10. SentBefore' /\ AcksTrue' /\ MrwsCoverDone' /\ MrwAcksTrue'
  BY <1>6, <1>8 DEF AmIInv, SentBefore, AcksTrue, MrwsCoverDone, MrwAcksTrue, Done, rxVars
<1>11. OnlyWithoutContact' /\ Outstanding' /\ MarkedOrTimed' /\ FlagsTrue'
       /\ ReceivedWasSeen' /\ NothingSkipped' /\ InContact' /\ PassedIsFlagged'
  BY <1>5
     DEF AmIInv, OnlyWithoutContact, NoAmError, Outstanding, MarkedOrTimed, FlagsTrue,
         ReceivedWasSeen, NothingSkipped, InContact, PassedIsFlagged, Window, Done, rxVars
<1>12. SettledBehind'
  <2>1. Sdus = Sns /\ seen \subseteq Sns /\ txDiscarded \subseteq Sns
    BY Shape DEF AmIInv, AmTypeOK, TxTypeOK
  <2>2. QED
    BY <1>4, <2>1 DEF AmIInv, SettledBehind, Settled, rxVars
<1>13. QED
  BY <1>9, <1>10, <1>11, <1>12 DEF AmIInv

LEMMA GiveUpKeeps ==
  ASSUME OneFragmentEach, AmIInv, NEW sn \in pduTimers,
         GivesUp(sn),
         txDiscarded' = txDiscarded \cup {sn},
         StopTimers({sn}),
         CheckForMrw(Done \cup {sn}),
         Send(NewMrw(Done \cup {sn})),
         UNCHANGED <<thrown, arrived, txFirst, txSeq, txReceived, txNumber,
                     statusTimer, rxVars, seen>>
  PROVE  AmIInv'
<1>1. /\ sn \in Sns /\ sn \in Nat /\ txFirst <= sn /\ sn < txSeq /\ sn \notin Done
      /\ txNumber[sn] \in 0 .. MaxRtx
  BY TimedPdu
<1>2. txNumber[sn] = MaxRtx
  BY <1>1, Shape DEF GivesUp
<1> DEFINE S == NewMrw(Done \cup {sn})
<1>3. Done' = Done \cup {sn}
  BY DEF Done
<1>4. /\ mrwQueue' \subseteq [number : Nat, last : Nat] /\ mrwSeq' \in Nat
      /\ \A q \in mrwQueue' : \/ q \in mrwQueue
                              \/ /\ q.last <= txSeq
                                 /\ \A n \in txFirst .. q.last - 1 : n \in Done'
      /\ S \subseteq Messages
      /\ \A m \in S : /\ m.type = "mrw" /\ m.last <= txSeq
                      /\ \A n \in txFirst .. m.last - 1 : n \in Done'
  BY <1>3, CommandsOf
<1>5. pduTimers' = pduTimers \ {sn} /\ dueBefore' \in [Sns -> SUBSET Sns]
  <2>1. dueBefore \in [Sns -> SUBSET Sns]
    BY DEF AmIInv, AmTypeOK, TxTypeOK
  <2>2. QED
    BY <2>1 DEF StopTimers
<1>6. IsABag(air') /\ BagToSet(air') = BagToSet(air) \cup S
  BY SendAir DEF AmIInv, AmTypeOK
<1> HIDE DEF S
<1>7. \A type : InAir(type)' \subseteq InAir(type) \cup {m \in S : m.type = type}
  BY <1>6, KindsInAir
<1>8. AmTypeOK'
  <2>1. TxTypeOK'
    BY <1>1, <1>4, <1>5 DEF AmIInv, AmTypeOK, TxTypeOK
  <2>2. RxTypeOK'
    BY DEF AmIInv, AmTypeOK, RxTypeOK, rxVars
  <2>3. QED
    BY <1>4, <1>6, <2>1, <2>2 DEF AmIInv, AmTypeOK
<1>9. SentBefore' /\ AcksTrue' /\ MrwAcksTrue'
  BY <1>4, <1>7 DEF AmIInv, SentBefore, AcksTrue, MrwAcksTrue, rxVars
<1>10. MrwsCoverDone'
  BY <1>3, <1>4, <1>7 DEF AmIInv, MrwsCoverDone
<1>11. OnlyWithoutContact' /\ Outstanding' /\ FlagsTrue'
       /\ ReceivedWasSeen' /\ NothingSkipped' /\ InContact' /\ PassedIsFlagged'
  BY DEF AmIInv, OnlyWithoutContact, NoAmError, Outstanding, FlagsTrue,
         ReceivedWasSeen, NothingSkipped, InContact, PassedIsFlagged, rxVars
<1>12. MarkedOrTimed'
  <2>1. sn \in txFirst .. txSeq - 1
    BY <1>1, Shape DEF AmIInv, AmTypeOK, TxTypeOK
  <2>2. QED
    BY <1>3, <1>5, <2>1 DEF AmIInv, MarkedOrTimed, Window
<1>13. SettledBehind'
  BY <1>2 DEF AmIInv, SettledBehind, Settled, rxVars
<1>14. QED
  BY <1>8, <1>9, <1>10, <1>11, <1>12, <1>13 DEF AmIInv

LEMMA PduTimerKeeps ==
  ASSUME OneFragmentEach, AmIInv, PduTimerFires
  PROVE  AmIInv'
<1>1. PICK sn \in pduTimers :
        \/ sn < txFirst \/ sn >= txFirst + TxWindow \/ sn \in txReceived
        \/ /\ ~GivesUp(sn)
           /\ txNumber' = [txNumber EXCEPT ![sn] = @ + 1]
           /\ RestartTimer(sn)
           /\ Send({Pdu(sn, txNumber[sn] + 1)})
           /\ UNCHANGED <<thrown, arrived, txFirst, txSeq, txReceived, txDiscarded,
                          statusTimer, mrwQueue, mrwSeq>>
        \/ /\ GivesUp(sn)
           /\ txDiscarded' = txDiscarded \cup DiscardedWith(sn)
           /\ StopTimers(DiscardedWith(sn) \cup {sn})
           /\ CheckForMrw(Done \cup DiscardedWith(sn))
           /\ Send(NewMrw(Done \cup DiscardedWith(sn)))
           /\ UNCHANGED <<thrown, arrived, txFirst, txSeq, txReceived, txNumber,
                          statusTimer>>
  BY DEF PduTimerFires, TxPduTimer
<1>2. UNCHANGED <<rxVars, seen>>
  BY DEF PduTimerFires
<1>3. DiscardedWith(sn) = {sn} /\ DiscardedWith(sn) \cup {sn} = {sn}
      /\ ~(sn < txFirst \/ sn >= txFirst + TxWindow \/ sn \in txReceived)
  <2>1. TxWindow \in Nat /\ txFirst \in Nat
    BY Shape DEF AmIInv, AmTypeOK, TxTypeOK
  <2>2. QED
    BY <2>1, TimedPdu DEF Done
<1>4. CASE GivesUp(sn)
  BY <1>1, <1>2, <1>3, <1>4, GiveUpKeeps
<1>5. CASE ~GivesUp(sn)
  BY <1>1, <1>2, <1>3, <1>5, ResendKeeps
<1>6. QED
  BY <1>4, <1>5

(***************************************************************************)
(* An acknowledgement at the sender.                                       *)
(***************************************************************************)
\* All it marks is in the window, and was seen or given up.
LEMMA AckedIsSeen ==
  ASSUME OneFragmentEach, AmIInv, NEW m \in BagToSet(air), m.type = "ack"
  PROVE  \A sn \in AckedUpTo(m) \cup AckedBits(m) :
           /\ sn \in Nat /\ txFirst <= sn /\ sn < txSeq /\ sn < txFirst + TxWindow
           /\ sn \in seen \cup txDiscarded
<1>1. /\ m.last \in Int /\ m.bits \subseteq Nat
      /\ m.last < txSeq /\ m.bits \subseteq seen
      /\ \A sn \in txFirst .. m.last : sn \in seen \/ sn \in txDiscarded
  BY DEF AmIInv, AmTypeOK, Messages, AcksTrue, InAir
<1>2. txFirst \in Nat /\ txSeq \in Nat /\ txSeq <= txFirst + TxWindow /\ TxWindow \in Nat
  BY Shape DEF AmIInv, AmTypeOK, TxTypeOK, Outstanding
<1>3. \A sn \in seen : sn < txSeq
  BY DEF AmIInv, SentBefore
<1>4. \A sn \in AckedUpTo(m) : sn \in txFirst .. m.last
  BY DEF AckedUpTo
<1>5. \A sn \in AckedBits(m) : sn \in m.bits /\ txFirst <= sn
  BY <1>1, <1>2 DEF AckedBits
<1>6. \A sn \in AckedUpTo(m) \cup AckedBits(m) :
        sn \in Nat /\ txFirst <= sn /\ sn < txSeq /\ sn \in seen \cup txDiscarded
  BY <1>1, <1>2, <1>3, <1>4, <1>5
<1>7. QED
  BY <1>2, <1>6

LEMMA AckKeeps ==
  ASSUME OneFragmentEach, AmIInv, AckArrives
  PROVE  AmIInv'
<1>1. PICK m \in BagToSet(air) : m.type = "ack" /\ TxReceiveAck(m) /\ UNCHANGED <<rxVars, seen>>
  BY DEF AckArrives
<1> DEFINE acked == AckedUpTo(m) \cup AckedBits(m)
<1>2. \A sn \in acked : /\ sn \in Nat /\ txFirst <= sn /\ sn < txSeq /\ sn < txFirst + TxWindow
                        /\ sn \in seen \cup txDiscarded
  BY <1>1, AckedIsSeen
<1>3. txFirst \in Nat /\ txSeq \in Nat /\ TxWindow \in Nat
  BY Shape DEF AmIInv, AmTypeOK, TxTypeOK
<1> DEFINE done == (txReceived \cup AckedUpTo(m)) \cup txDiscarded
<1>4. /\ txReceived' = txReceived \cup acked
      /\ StopTimers(acked)
      /\ IF m.last < txFirst
         THEN Take(m) /\ UNCHANGED <<mrwQueue, mrwSeq>>
         ELSE CheckForMrw(done) /\ Answer(m, NewMrw(done))
      /\ UNCHANGED <<thrown, arrived, txFirst, txSeq, txDiscarded, txNumber, statusTimer>>
  <2>1. ~\E sn \in acked : sn >= txFirst + TxWindow
    BY <1>2, <1>3
  <2>2. QED
    BY <1>1, <2>1 DEF TxReceiveAck
<1>5. done \subseteq Done' /\ Done' = Done \cup acked
  BY <1>4 DEF Done
<1> HIDE DEF acked, done
<1>6. PICK S : /\ S \subseteq Messages
               /\ \A n \in S : /\ n.type = "mrw" /\ n.last <= txSeq
                               /\ \A sn \in txFirst .. n.last - 1 : sn \in Done'
               /\ IsABag(air') /\ BagToSet(air') \subseteq BagToSet(air) \cup S
               /\ mrwQueue' \subseteq [number : Nat, last : Nat] /\ mrwSeq' \in Nat
               /\ \A q \in mrwQueue' : \/ q \in mrwQueue
                                       \/ /\ q.last <= txSeq
                                          /\ \A sn \in txFirst .. q.last - 1 : sn \in Done'
  <2>1. CASE m.last < txFirst
    <3>1. PICK S : S = {}
      OBVIOUS
    <3>2. IsABag(air') /\ BagToSet(air') \subseteq BagToSet(air)
      BY <1>4, <2>1, TakeAir DEF AmIInv, AmTypeOK
    <3>3. UNCHANGED <<mrwQueue, mrwSeq>>
      BY <1>4, <2>1
    <3>4. QED
      BY <3>1, <3>2, <3>3 DEF AmIInv, AmTypeOK, TxTypeOK
  <2>2. CASE ~(m.last < txFirst)
    <3>1. CheckForMrw(done) /\ Answer(m, NewMrw(done))
      BY <1>4, <2>2
    <3>2. /\ mrwQueue' \subseteq [number : Nat, last : Nat] /\ mrwSeq' \in Nat
          /\ \A q \in mrwQueue' : \/ q \in mrwQueue
                                  \/ /\ q.last <= txSeq
                                     /\ \A sn \in txFirst .. q.last - 1 : sn \in done
          /\ NewMrw(done) \subseteq Messages
          /\ \A n \in NewMrw(done) : /\ n.type = "mrw" /\ n.last <= txSeq
                                     /\ \A sn \in txFirst .. n.last - 1 : sn \in done
      BY <3>1, CommandsOf
    <3>3. IsABag(air') /\ BagToSet(air') \subseteq BagToSet(air) \cup NewMrw(done)
      BY <3>1, AnswerAir DEF AmIInv, AmTypeOK
    <3>4. QED
      BY <1>5, <3>2, <3>3
  <2>3. QED
    BY <2>1, <2>2
<1>7. pduTimers' = pduTimers \ acked /\ dueBefore' \in [Sns -> SUBSET Sns]
  <2>1. dueBefore \in [Sns -> SUBSET Sns]
    BY DEF AmIInv, AmTypeOK, TxTypeOK
  <2>2. QED
    BY <1>4, <2>1 DEF StopTimers
<1>8. \A type : InAir(type)' \subseteq InAir(type) \cup {n \in S : n.type = type}
  BY <1>6, KindsInAir
<1>9. AmTypeOK'
  <2>1. TxTypeOK'
    BY <1>2, <1>4, <1>6, <1>7 DEF AmIInv, AmTypeOK, TxTypeOK
  <2>2. RxTypeOK'
    BY <1>1 DEF AmIInv, AmTypeOK, RxTypeOK, rxVars
  <2>3. QED
    BY <1>1, <1>4, <1>6, <2>1, <2>2 DEF AmIInv, AmTypeOK
<1>10. SentBefore' /\ AcksTrue' /\ MrwAcksTrue'
  BY <1>1, <1>4, <1>6, <1>8 DEF AmIInv, SentBefore, AcksTrue, MrwAcksTrue, rxVars
<1>11. MrwsCoverDone'
  BY <1>4, <1>5, <1>6, <1>8 DEF AmIInv, MrwsCoverDone
<1>12. OnlyWithoutContact' /\ Outstanding' /\ FlagsTrue' /\ InContact' /\ PassedIsFlagged'
  BY <1>1, <1>4 DEF AmIInv, OnlyWithoutContact, NoAmError, Outstanding, FlagsTrue,
                    InContact, PassedIsFlagged, rxVars
<1>13. NothingSkipped' /\ ReceivedWasSeen'
  BY <1>1, <1>2, <1>4 DEF AmIInv, NothingSkipped, ReceivedWasSeen, rxVars
<1>14. MarkedOrTimed'
  <2>1. acked \subseteq txFirst .. txSeq - 1
    BY <1>2, <1>3
  <2>2. QED
    BY <1>4, <1>5, <1>7, <2>1 DEF AmIInv, MarkedOrTimed, Window
<1>15. SettledBehind'
  BY <1>1, <1>4 DEF AmIInv, SettledBehind, Settled, rxVars
<1>16. QED
  BY <1>9, <1>10, <1>11, <1>12, <1>13, <1>14, <1>15 DEF AmIInv

(***************************************************************************)
(* A command at the receiver.                                              *)
(***************************************************************************)
\* A window that moves by no more than half its size keeps no flag it should
\* not: a light load never moves it further.
LEMMA LightShift ==
  ASSUME OneFragmentEach, LightLoad, AmIInv,
         NEW last \in Nat, last <= txSeq
  PROVE  /\ 2 * (last - rxFirst) <= RxWindow
         /\ last > rxFirst =>
              Shifted(rxReceived, last - rxFirst) = {sn \in rxReceived : sn >= last}
<1>1. /\ rxFirst \in Nat /\ txFirst \in Nat /\ txSeq \in Nat /\ arrived \in Nat
      /\ txFirst <= rxFirst /\ txSeq <= arrived /\ arrived <= txFirst + Load
      /\ Load \in Nat /\ RxWindow \in Nat
  <2>1. AmTypeOK /\ Outstanding
    BY DEF AmIInv
  <2>2. TxTypeOK /\ RxTypeOK
    BY <2>1 DEF AmTypeOK
  <2>3. QED
    BY <2>1, <2>2, Shape DEF TxTypeOK, RxTypeOK, Outstanding
<1>2. 2 * (last - rxFirst) <= RxWindow
  BY <1>1 DEF LightLoad
<1>3. ASSUME last > rxFirst
      PROVE  Shifted(rxReceived, last - rxFirst) = {sn \in rxReceived : sn >= last}
  <2>1. PICK pos \in Nat : pos = last - rxFirst /\ 2 * pos <= RxWindow
    BY <1>1, <1>2, <1>3
  <2>2. {n \in rxReceived : n - rxFirst \in RxWindow - pos .. pos - 1} = {}
    BY <1>1, <2>1
  <2>3. {sn + pos : sn \in {n \in rxReceived : n - rxFirst \in RxWindow - pos .. pos - 1}} = {}
    BY <2>2
  <2>4. rxFirst + pos = last
    BY <1>1, <2>1
  <2>5. QED
    BY <2>1, <2>3, <2>4 DEF Shifted
<1>4. QED
  BY <1>2, <1>3

LEMMA MoveKeeps ==
  ASSUME OneFragmentEach, AmIInv, NEW m \in BagToSet(air), m.type = "mrw",
         rxFirst < m.last,
         rxFirst' = m.last,
         rxReceived' = {sn \in rxReceived : sn >= m.last},
         pduBuffer' = {sn \in pduBuffer : sn >= m.last},
         firstSdu' = SduAfter(m.last),
         Answer(m, {MrwAck(m.number, m.last)}),
         UNCHANGED <<rxSeq, reportTimer, knowsPeer, passedUp, thrown, txVars, seen>>
  PROVE  AmIInv'
<1>1. /\ m.last \in Nat /\ m.number \in Nat /\ m.last <= txSeq
      /\ \A sn \in txFirst .. m.last - 1 : sn \in Done
  BY DEF AmIInv, AmTypeOK, Messages, MrwsCoverDone, InAir
<1>2. /\ rxFirst \in Nat /\ txFirst \in Nat /\ txSeq \in Nat /\ txFirst <= rxFirst
      /\ txSeq \in 0 .. FirstSn[NumSdus]
  <2>1. AmTypeOK /\ Outstanding
    BY DEF AmIInv
  <2>2. TxTypeOK /\ RxTypeOK
    BY <2>1 DEF AmTypeOK
  <2>3. QED
    BY <2>1, <2>2, Shape DEF TxTypeOK, RxTypeOK, Outstanding
<1> DEFINE S == {MrwAck(m.number, m.last)}
<1>3. \A n \in S : n \in Messages /\ n.type = "mrwAck" /\ n.first = m.last
  <2>1. MrwAck(m.number, m.last) \in [type : {"mrwAck"}, number : Nat, first : Nat]
    BY <1>1 DEF MrwAck
  <2>2. MrwAck(m.number, m.last).type = "mrwAck" /\ MrwAck(m.number, m.last).first = m.last
    BY DEF MrwAck
  <2>3. QED
    BY <2>1, <2>2 DEF Messages
<1>4. IsABag(air') /\ BagToSet(air') \subseteq BagToSet(air) \cup S
  BY AnswerAir DEF AmIInv, AmTypeOK
<1> HIDE DEF S
<1>5. \A type : InAir(type)' \subseteq InAir(type) \cup {n \in S : n.type = type}
  BY <1>4, KindsInAir
<1>6. AmTypeOK'
  <2>1. TxTypeOK'
    BY DEF AmIInv, AmTypeOK, TxTypeOK, txVars
  <2>2. rxFirst' \in 0 .. FirstSn[NumSdus]
    BY <1>1, <1>2, Shape
  <2>3. firstSdu' \in Sdus \cup {NoSdu}
    <3>1. CASE SduAfter(m.last) = NoSdu
      BY <3>1
    <3>2. CASE SduAfter(m.last) # NoSdu
      <4>1. m.last - 1 \in Sns /\ SduAfter(m.last) = SduOf(m.last - 1)
        BY <3>2 DEF SduAfter, AmIInv, AmTypeOK, RxTypeOK
      <4>2. SduOf(m.last - 1) \in Sdus
        BY <4>1, WholePdus, Shape
      <4>3. QED
        BY <4>1, <4>2
    <3>3. QED
      BY <3>1, <3>2
  <2>4. \A sn \in rxReceived' : sn \in m.last .. m.last + RxWindow - 1
    BY <1>1, <1>2, Shape DEF AmIInv, AmTypeOK, RxTypeOK
  <2>5. RxTypeOK'
    BY <2>2, <2>3, <2>4 DEF AmIInv, AmTypeOK, RxTypeOK
  <2>6. QED
    BY <1>3, <1>4, <2>1, <2>5 DEF AmIInv, AmTypeOK
<1>7. SentBefore' /\ AcksTrue' /\ MrwsCoverDone'
  BY <1>3, <1>5 DEF AmIInv, SentBefore, AcksTrue, MrwsCoverDone, Done, txVars
<1>8. MrwAcksTrue'
  <2>1. \A n \in InAir("mrwAck") : n.first \in Nat /\ n.first <= rxFirst
    BY DEF AmIInv, AmTypeOK, Messages, MrwAcksTrue, InAir
  <2>2. \A n \in InAir("mrwAck")' : n.first <= m.last
    BY <1>1, <1>2, <1>3, <1>5, <2>1
  <2>3. QED
    BY <2>2 DEF MrwAcksTrue
<1>9. Outstanding'
  BY <1>1, <1>2 DEF AmIInv, Outstanding, txVars
<1>10. OnlyWithoutContact' /\ MarkedOrTimed' /\ FlagsTrue' /\ ReceivedWasSeen' /\ InContact'
  BY DEF AmIInv, OnlyWithoutContact, NoAmError, MarkedOrTimed, FlagsTrue,
         ReceivedWasSeen, InContact, Window, Done, txVars
<1>11. NothingSkipped'
  BY <1>1, <1>2, Shape DEF NothingSkipped, Done, txVars
<1>12. PassedIsFlagged'
  BY <1>1, <1>2, Shape DEF AmIInv, PassedIsFlagged
<1>13. SettledBehind'
  <2>1. \A k \in Sdus : k < m.last => Settled(k)
    <3> SUFFICES ASSUME NEW k \in Sdus, k < m.last PROVE Settled(k)
      OBVIOUS
    <3>1. CASE k < rxFirst
      BY <3>1 DEF AmIInv, SettledBehind
    <3>2. CASE ~(k < rxFirst)
      <4>1. k \in txFirst .. m.last - 1
        BY <1>1, <1>2, <3>2, Shape
      <4>2. k \in seen \cup txDiscarded
        BY <1>1, <4>1 DEF AmIInv, ReceivedWasSeen, Done
      <4>3. QED
        BY <4>2 DEF AmIInv, SettledBehind, Settled
    <3>3. QED
      BY <3>1, <3>2
  <2>2. QED
    BY <2>1 DEF AmIInv, SettledBehind, Settled, txVars
<1>14. QED
  BY <1>6, <1>7, <1>8, <1>9, <1>10, <1>11, <1>12, <1>13 DEF AmIInv

LEMMA MrwKeeps ==
  ASSUME OneFragmentEach, LightLoad, AmIInv, thrown = "none", MrwArrives
  PROVE  AmIInv'
<1>1. PICK m \in BagToSet(air) : m.type = "mrw" /\ RxReceiveMrw(m) /\ UNCHANGED <<txVars, seen>>
  BY DEF MrwArrives
<1>2. m.last \in Nat /\ m.number \in Nat /\ m.last <= txSeq
  BY <1>1 DEF AmIInv, AmTypeOK, Messages, MrwsCoverDone, InAir
<1>3. rxFirst \in Nat /\ RxWindow \in Nat
  BY Shape DEF AmIInv, AmTypeOK, RxTypeOK
<1>4. 2 * (m.last - rxFirst) <= RxWindow
      /\ (m.last > rxFirst =>
            Shifted(rxReceived, m.last - rxFirst) = {sn \in rxReceived : sn >= m.last})
  BY <1>2, LightShift
<1>5. ~(m.last - rxFirst > RxWindow)
  BY <1>2, <1>3, <1>4
<1>6. \/ ~knowsPeer /\ thrown' = "noControlInfo" /\ Take(m) /\ UNCHANGED rxVars
      \/ /\ m.last - rxFirst <= 0 /\ Answer(m, {MrwAck(m.number, rxFirst)})
         /\ UNCHANGED <<rxVars, thrown>>
      \/ /\ m.last - rxFirst \in 1 .. RxWindow
         /\ rxFirst' = m.last
         /\ rxReceived' = Shifted(rxReceived, m.last - rxFirst)
         /\ pduBuffer' = {sn \in pduBuffer : sn >= m.last}
         /\ firstSdu' = SduAfter(m.last)
         /\ Answer(m, {MrwAck(m.number, m.last)})
         /\ UNCHANGED <<rxSeq, reportTimer, knowsPeer, passedUp, thrown>>
  BY <1>1, <1>5 DEF RxReceiveMrw
<1>7. CASE ~knowsPeer /\ thrown' = "noControlInfo" /\ Take(m) /\ UNCHANGED rxVars
  <2>1. IsABag(air') /\ BagToSet(air') \subseteq BagToSet(air)
    BY <1>7, TakeAir DEF AmIInv, AmTypeOK
  <2>2. \A type : InAir(type)' \subseteq InAir(type)
    BY <2>1 DEF InAir
  <2>3. AmTypeOK'
    BY <1>1, <1>7, <2>1 DEF AmIInv, AmTypeOK, TxTypeOK, RxTypeOK, Errors, txVars, rxVars
  <2>4. SentBefore' /\ AcksTrue' /\ MrwsCoverDone' /\ MrwAcksTrue'
    BY <1>1, <1>7, <2>2
       DEF AmIInv, SentBefore, AcksTrue, MrwsCoverDone, MrwAcksTrue, Done, txVars, rxVars
  <2>5. OnlyWithoutContact'
    BY <1>1, <1>7 DEF AmIInv, OnlyWithoutContact, NoAmError, InContact
  <2>6. Outstanding' /\ MarkedOrTimed' /\ FlagsTrue' /\ ReceivedWasSeen' /\ NothingSkipped'
        /\ InContact' /\ PassedIsFlagged' /\ SettledBehind'
    BY <1>1, <1>7
       DEF AmIInv, Outstanding, MarkedOrTimed, FlagsTrue, ReceivedWasSeen, NothingSkipped,
           InContact, PassedIsFlagged, SettledBehind, Settled, Window, Done, txVars, rxVars
  <2>7. QED
    BY <2>3, <2>4, <2>5, <2>6 DEF AmIInv
<1>8. CASE /\ m.last - rxFirst <= 0 /\ Answer(m, {MrwAck(m.number, rxFirst)})
           /\ UNCHANGED <<rxVars, thrown>>
  <2> DEFINE S == {MrwAck(m.number, rxFirst)}
  <2>1. \A n \in S : n \in Messages /\ TrueMessage(n)
    <3>1. MrwAck(m.number, rxFirst) \in [type : {"mrwAck"}, number : Nat, first : Nat]
      BY <1>2, <1>3 DEF MrwAck
    <3>2. MrwAck(m.number, rxFirst).type = "mrwAck"
          /\ MrwAck(m.number, rxFirst).first = rxFirst
      BY DEF MrwAck
    <3>3. QED
      BY <1>3, <3>1, <3>2 DEF Messages, TrueMessage
  <2>2. IsABag(air') /\ BagToSet(air') \subseteq BagToSet(air) \cup S
    BY <1>8, AnswerAir DEF AmIInv, AmTypeOK
  <2> HIDE DEF S
  <2>3. AmTypeOK'
    BY <1>1, <1>8, <2>1, <2>2 DEF AmIInv, AmTypeOK, TxTypeOK, RxTypeOK, txVars, rxVars
  <2>4. mrwQueue' = mrwQueue
        /\ UNCHANGED <<thrown, arrived, txFirst, txSeq, txReceived, txDiscarded, txNumber,
                       pduTimers, rxFirst, rxReceived, pduBuffer, knowsPeer, passedUp, seen>>
    BY <1>1, <1>8 DEF txVars, rxVars
  <2>5. QED
    BY <2>1, <2>2, <2>3, <2>4, AirOnly
<1>9. CASE /\ m.last - rxFirst \in 1 .. RxWindow
           /\ rxFirst' = m.last
           /\ rxReceived' = Shifted(rxReceived, m.last - rxFirst)
           /\ pduBuffer' = {sn \in pduBuffer : sn >= m.last}
           /\ firstSdu' = SduAfter(m.last)
           /\ Answer(m, {MrwAck(m.number, m.last)})
           /\ UNCHANGED <<rxSeq, reportTimer, knowsPeer, passedUp, thrown>>
  <2>1. rxFirst < m.last
    BY <1>2, <1>3, <1>9
  <2>2. rxReceived' = {sn \in rxReceived : sn >= m.last}
    BY <1>2, <1>3, <1>4, <1>9, <2>1
  <2>3. QED
    BY <1>1, <1>9, <2>1, <2>2, MoveKeeps
<1>10. QED
  BY <1>6, <1>7, <1>8, <1>9

(***************************************************************************)
(* The answer to a command at the sender.                                  *)
(***************************************************************************)
LEMMA AdvanceKeeps ==
  ASSUME OneFragmentEach, AmIInv, NEW m \in BagToSet(air), m.type = "mrwAck",
         txFirst < m.first,
         txFirst' = m.first,
         txReceived' = MarksAfter(txReceived, m.first),
         txDiscarded' = MarksAfter(txDiscarded, m.first),
         AddPdus(m.first, arrived,
                 MarksAfter(txReceived, m.first) \cup MarksAfter(txDiscarded, m.first),
                 pduTimers \ (txFirst .. m.first - 1)),
         Answer(m, NewPdus(m.first, arrived)),
         mrwQueue' \subseteq mrwQueue,
         UNCHANGED <<arrived, mrwSeq, rxVars, seen>>
  PROVE  AmIInv'
<1>1. m.first \in Nat /\ m.first <= rxFirst
  BY DEF AmIInv, AmTypeOK, Messages, MrwAcksTrue, InAir
<1>2. /\ AmTypeOK /\ TxTypeOK /\ RxTypeOK
      /\ arrived \in 0 .. NumSdus /\ txFirst \in Nat /\ txSeq \in Nat /\ rxFirst \in Nat
      /\ pduTimers \subseteq Sns /\ Load \in Nat /\ TxWindow \in Nat
      /\ txFirst <= rxFirst /\ rxFirst <= txSeq
      /\ txSeq <= arrived /\ arrived <= txFirst + Load /\ txSeq <= txFirst + TxWindow
  <2>1. AmTypeOK /\ Outstanding
    BY DEF AmIInv
  <2>2. TxTypeOK /\ RxTypeOK
    BY <2>1 DEF AmTypeOK
  <2>3. arrived \in 0 .. NumSdus /\ txFirst \in Nat /\ txSeq \in Nat /\ pduTimers \subseteq Sns
    BY <2>2, Shape DEF TxTypeOK
  <2>4. rxFirst \in Nat
    BY <2>2, Shape DEF RxTypeOK
  <2>5. QED
    BY <2>1, <2>2, <2>3, <2>4, Shape DEF Outstanding
<1> DEFINE marked == MarksAfter(txReceived, m.first) \cup MarksAfter(txDiscarded, m.first)
           timers == pduTimers \ (txFirst .. m.first - 1)
           S == NewPdus(m.first, arrived)
<1>3. Done' = marked /\ marked = Done \cap m.first .. txSeq - 1
  BY DEF Done, MarksAfter
<1>4. txSeq \in 0 .. arrived /\ timers \subseteq Sns /\ \A sn \in marked : sn < txSeq
  BY <1>1, <1>2, <1>3
<1>5. AddPdus(m.first, arrived, marked, timers)
  OBVIOUS
<1> HIDE DEF marked, timers
<1>6. /\ txSeq' \in txSeq .. arrived
      /\ txSeq' <= m.first + TxWindow \/ txSeq' = txSeq
      /\ txNumber' \in [Sns -> 0 .. MaxRtx]
      /\ \A sn \in Sns : sn < txSeq => txNumber'[sn] = txNumber[sn]
      /\ pduTimers' = timers \cup txSeq .. txSeq' - 1
      /\ pduTimers' \subseteq Sns
      /\ dueBefore' \in [Sns -> SUBSET Sns]
      /\ statusTimer' \in BOOLEAN
      /\ thrown' = thrown
      /\ S \subseteq Messages
      /\ \A n \in S : n.type = "data" /\ n.sn < txSeq'
  BY <1>1, <1>2, <1>4, <1>5, PdusAdded
<1>7. IsABag(air') /\ BagToSet(air') \subseteq BagToSet(air) \cup S
  BY AnswerAir DEF AmIInv, AmTypeOK
<1> HIDE DEF S
<1>8. \A type : InAir(type)' \subseteq InAir(type) \cup {n \in S : n.type = type}
  BY <1>7, KindsInAir
<1>9. PICK e \in Nat : e = txSeq' /\ txSeq <= e /\ e <= arrived
  BY <1>2, <1>6
<1>10. AmTypeOK'
  <2>1. txFirst' \in 0 .. FirstSn[NumSdus] /\ txSeq' \in 0 .. FirstSn[NumSdus]
    BY <1>1, <1>2, <1>9, Shape
  <2>2. txReceived' \subseteq Nat /\ txDiscarded' \subseteq Sns
    BY <1>2 DEF MarksAfter, TxTypeOK
  <2>3. TxTypeOK'
    BY <1>2, <1>6, <2>1, <2>2 DEF TxTypeOK
  <2>4. RxTypeOK'
    BY <1>2 DEF RxTypeOK, rxVars
  <2>5. QED
    BY <1>2, <1>6, <1>7, <2>3, <2>4 DEF AmTypeOK
<1>11. OnlyWithoutContact' /\ FlagsTrue' /\ InContact' /\ PassedIsFlagged' /\ MrwAcksTrue'
  BY <1>6, <1>8 DEF AmIInv, OnlyWithoutContact, NoAmError, FlagsTrue, InContact,
                    PassedIsFlagged, MrwAcksTrue, rxVars
<1>12. Outstanding'
  <2>1. /\ m.first <= rxFirst /\ rxFirst <= e /\ e <= arrived
        /\ arrived <= m.first + Load /\ e <= m.first + TxWindow
    BY <1>1, <1>2, <1>6, <1>9
  <2>2. QED
    BY <1>9, <2>1 DEF Outstanding, rxVars
<1>13. MarkedOrTimed'
  <2>1. \A sn \in timers : sn \in m.first .. txSeq - 1 /\ sn \notin Done
    <3>1. pduTimers \subseteq Window \ Done
      BY DEF AmIInv, MarkedOrTimed
    <3>2. \A sn \in timers : sn \in txFirst .. txSeq - 1 /\ sn \notin Done
                             /\ sn \notin txFirst .. m.first - 1
      BY <3>1 DEF Window, timers
    <3>3. QED
      BY <1>1, <1>2, <3>2
  <2>2. \A sn \in txSeq .. e - 1 : sn \notin marked
    BY <1>2, <1>3
  <2>3. /\ \A sn \in m.first .. txSeq - 1 : sn \in m.first .. e - 1
        /\ \A sn \in txSeq .. e - 1 : sn \in m.first .. e - 1
    <3>1. PICK f \in Nat : f = m.first /\ f <= txSeq
      BY <1>1, <1>2
    <3>2. txSeq \in Nat /\ txSeq <= e
      BY <1>2, <1>9
    <3>3. /\ \A sn \in f .. txSeq - 1 : sn \in f .. e - 1
          /\ \A sn \in txSeq .. e - 1 : sn \in f .. e - 1
      BY <3>1, <3>2
    <3>4. QED
      BY <3>1, <3>3
  <2>4. pduTimers' = timers \cup txSeq .. e - 1 /\ Window' = m.first .. e - 1
    BY <1>6, <1>9 DEF Window
  <2>5. pduTimers' \subseteq Window' \ Done'
    BY <1>3, <2>1, <2>2, <2>3, <2>4
  <2>6. txReceived' \subseteq Window' /\ txDiscarded' \subseteq Window'
    BY <2>3, <2>4 DEF MarksAfter
  <2>7. QED
    BY <2>5, <2>6 DEF MarkedOrTimed
<1>14. SentBefore'
  <2>1. (\A n \in InAir("data") : n.sn \in Nat) /\ seen \subseteq Nat
    BY <1>2, Shape DEF AmTypeOK, InAir, Messages
  <2>2. QED
    BY <1>2, <1>6, <1>8, <1>9, <2>1 DEF AmIInv, SentBefore
<1>15. AcksTrue'
  <2>1. \A n \in InAir("ack") :
          /\ n.last \in Int /\ n.last < txSeq /\ n.bits \subseteq seen
          /\ \A sn \in txFirst .. n.last : sn \in seen \/ sn \in txDiscarded
    BY DEF AmIInv, AmTypeOK, AcksTrue, InAir, Messages
  <2>2. InAir("ack")' \subseteq InAir("ack")
    BY <1>6, <1>8
  <2>3. \A n \in InAir("ack") : n.last < e
          /\ \A sn \in m.first .. n.last : sn \in seen \/ sn \in txDiscarded'
    BY <1>1, <1>2, <1>9, <2>1 DEF MarksAfter
  <2>4. QED
    BY <1>9, <2>1, <2>2, <2>3 DEF AcksTrue
<1>16. MrwsCoverDone'
  <2>1. \A n \in InAir("mrw") \cup mrwQueue :
          /\ n.last \in Nat /\ n.last <= txSeq
          /\ \A sn \in txFirst .. n.last - 1 : sn \in Done
    BY DEF AmIInv, AmTypeOK, TxTypeOK, MrwsCoverDone, InAir, Messages
  <2>2. InAir("mrw")' \subseteq InAir("mrw")
    BY <1>6, <1>8
  <2>3. \A n \in InAir("mrw") \cup mrwQueue : n.last <= e
          /\ \A sn \in m.first .. n.last - 1 : sn \in Done'
    BY <1>1, <1>2, <1>3, <1>9, <2>1
  <2>4. QED
    BY <1>9, <2>1, <2>2, <2>3 DEF MrwsCoverDone
<1>17. ReceivedWasSeen'
  BY DEF AmIInv, ReceivedWasSeen, MarksAfter
<1>18. NothingSkipped'
  <2>1. \A sn \in Sns : sn < rxFirst /\ sn >= m.first => sn \in marked
    BY <1>1, <1>2, <1>3, Shape DEF AmIInv, NothingSkipped, Done
  <2>2. QED
    BY <1>3, <2>1 DEF NothingSkipped, Done, rxVars
<1>19. SettledBehind'
  <2>1. \A k \in Sdus : k < rxFirst => txNumber'[k] = txNumber[k]
    BY <1>2, <1>6, Shape
  <2>2. \A k \in seen : txNumber'[k] = txNumber[k]
    BY <1>2, <1>6 DEF AmIInv, SentBefore, AmTypeOK
  <2>3. \A k \in txDiscarded' : k \in txDiscarded /\ txNumber'[k] = txNumber[k]
    BY <1>2, <1>6 DEF MarksAfter, TxTypeOK
  <2>4. QED
    BY <2>1, <2>2, <2>3 DEF AmIInv, SettledBehind, Settled, rxVars
<1>20. QED
  BY <1>10, <1>11, <1>12, <1>13, <1>14, <1>15, <1>16, <1>17, <1>18, <1>19 DEF AmIInv

LEMMA MrwAckKeeps ==
  ASSUME OneFragmentEach, AmIInv, MrwAckArrives
  PROVE  AmIInv'
<1>1. PICK m \in BagToSet(air) :
        m.type = "mrwAck" /\ TxReceiveMrwAck(m) /\ UNCHANGED <<rxVars, seen>>
  BY DEF MrwAckArrives
<1>2. m.first \in Nat /\ m.first <= rxFirst /\ txFirst \in Nat /\ txSeq \in Nat
      /\ rxFirst \in Nat /\ rxFirst <= txSeq
  BY <1>1, Shape
     DEF AmIInv, AmTypeOK, TxTypeOK, RxTypeOK, Messages, MrwAcksTrue, InAir, Outstanding
<1>3. mrwQueue' \subseteq mrwQueue /\ UNCHANGED <<arrived, mrwSeq>>
  BY <1>1 DEF TxReceiveMrwAck
<1>4. ~(m.first > txSeq)
  BY <1>2
<1>5. CASE m.first > txFirst
  <2>1. /\ txFirst' = m.first
        /\ txReceived' = MarksAfter(txReceived, m.first)
        /\ txDiscarded' = MarksAfter(txDiscarded, m.first)
        /\ AddPdus(m.first, arrived,
                   MarksAfter(txReceived, m.first) \cup MarksAfter(txDiscarded, m.first),
                   pduTimers \ (txFirst .. m.first - 1))
        /\ Answer(m, NewPdus(m.first, arrived))
    BY <1>1, <1>4, <1>5 DEF TxReceiveMrwAck
  <2>2. txFirst < m.first
    BY <1>2, <1>5
  <2>3. QED
    BY <1>1, <1>3, <2>1, <2>2, AdvanceKeeps
<1>6. CASE ~(m.first > txFirst)
  <2>1. /\ Take(m)
        /\ UNCHANGED <<thrown, txFirst, txSeq, txReceived, txDiscarded, txNumber,
                       pduTimers, dueBefore, statusTimer>>
    BY <1>1, <1>6 DEF TxReceiveMrwAck
  <2>2. PICK S : S = {}
    OBVIOUS
  <2>3. IsABag(air') /\ BagToSet(air') \subseteq BagToSet(air)
    BY <2>1, TakeAir DEF AmIInv, AmTypeOK
  <2>4. BagToSet(air') \subseteq BagToSet(air) \cup S /\ \A n \in S : TrueMessage(n)
    BY <2>2, <2>3
  <2>5. AmTypeOK'
    BY <1>1, <1>3, <2>1, <2>3 DEF AmIInv, AmTypeOK, TxTypeOK, RxTypeOK, rxVars
  <2>6. UNCHANGED <<thrown, arrived, txFirst, txSeq, txReceived, txDiscarded, txNumber,
                    pduTimers, rxFirst, rxReceived, pduBuffer, knowsPeer, passedUp, seen>>
    BY <1>1, <1>3, <2>1 DEF rxVars
  <2>7. \A q \in mrwQueue' : q \in mrwQueue
    BY <1>3
  <2>8. QED
    BY <2>4, <2>5, <2>6, <2>7, AirOnly
<1>7. QED
  BY <1>5, <1>6

(***************************************************************************)
(* A data PDU at the receiver.                                             *)
(***************************************************************************)
\* What the receiver does with a PDU, when the rest follows from these facts.
LEMMA SeenKeeps ==
  ASSUME OneFragmentEach, AmIInv, thrown' = "none",
         NEW m \in BagToSet(air), m.type = "data",
         NEW S, Answer(m, S),
         \A n \in S : /\ n \in Messages /\ n.type = "ack"
                      /\ n.last < txSeq
                      /\ n.bits \subseteq seen'
                      /\ \A sn \in txFirst .. n.last : sn \in seen' \/ sn \in txDiscarded,
         RxTypeOK', knowsPeer', seen' = seen \cup {m.sn},
         UNCHANGED <<rxFirst, txVars>>,
         FlagsTrue', PassedIsFlagged',
         Settled(m.sn)',
         \A k \in Sdus : passedUp[k] > 0 => passedUp'[k] > 0
  PROVE  AmIInv'
<1>1. m.sn \in Sns /\ m.sn < txSeq
  BY DEF AmIInv, AmTypeOK, Messages, SentBefore, InAir
<1>2. IsABag(air') /\ BagToSet(air') \subseteq BagToSet(air) \cup S
  BY AnswerAir DEF AmIInv, AmTypeOK
<1>3. \A type : InAir(type)' \subseteq InAir(type) \cup {n \in S : n.type = type}
  BY <1>2, KindsInAir
<1>4. AmTypeOK'
  BY <1>1, <1>2 DEF AmIInv, AmTypeOK, TxTypeOK, txVars
<1>5. SentBefore' /\ AcksTrue' /\ MrwsCoverDone' /\ MrwAcksTrue'
  BY <1>1, <1>3 DEF AmIInv, SentBefore, AcksTrue, MrwsCoverDone, MrwAcksTrue, Done, txVars
<1>6. OnlyWithoutContact' /\ Outstanding' /\ MarkedOrTimed' /\ ReceivedWasSeen'
      /\ NothingSkipped' /\ InContact'
  BY DEF AmIInv, OnlyWithoutContact, NoAmError, Outstanding, MarkedOrTimed, ReceivedWasSeen,
         NothingSkipped, InContact, Window, Done, txVars
<1>7. SettledBehind'
  <2>1. \A k \in Sdus : Settled(k) => Settled(k)'
    BY DEF Settled, txVars
  <2>2. seen \subseteq Sdus
    BY Shape DEF AmIInv, AmTypeOK
  <2>3. QED
    BY <2>1, <2>2 DEF AmIInv, SettledBehind, txVars
<1>8. QED
  BY <1>4, <1>5, <1>6, <1>7 DEF AmIInv

LEMMA PduKeeps ==
  ASSUME OneFragmentEach, LightLoad, AmIInv, thrown = "none", PduArrives
  PROVE  AmIInv'
<1>1. PICK m \in BagToSet(air) :
        m.type = "data" /\ RxReceivePdu(m) /\ seen' = seen \cup {m.sn} /\ UNCHANGED txVars
  BY DEF PduArrives
<1>2. reportTimer' = TRUE /\ knowsPeer' = TRUE
  BY <1>1 DEF RxReceivePdu
<1>3. /\ m.sn \in Sns /\ m.sn \in Sdus /\ m.sn \in Nat /\ m.sn < txSeq
      /\ SduOf(m.sn) = m.sn /\ IsWhole(m.sn)
  BY <1>1, Shape, WholePdus DEF AmIInv, AmTypeOK, Messages, SentBefore, InAir
<1>4. /\ rxFirst \in Nat /\ txSeq \in Nat /\ RxWindow \in Nat
      /\ txSeq < rxFirst + RxWindow + 1 /\ TxTypeOK /\ RxTypeOK
  <2>1. AmTypeOK /\ Outstanding
    BY DEF AmIInv
  <2>2. TxTypeOK /\ RxTypeOK
    BY <2>1 DEF AmTypeOK
  <2>3. txFirst \in Nat /\ txSeq \in Nat /\ arrived \in Nat
    BY <2>2, Shape DEF TxTypeOK
  <2>4. rxFirst \in Nat /\ RxWindow \in Nat /\ Load \in Nat
    BY <2>2, Shape DEF RxTypeOK
  <2>5. txFirst <= rxFirst /\ txSeq <= arrived /\ arrived <= txFirst + Load
    BY <2>1 DEF Outstanding
  <2>6. QED
    BY <2>2, <2>3, <2>4, <2>5 DEF LightLoad
<1>5. /\ \A sn \in seen : sn < txSeq
      /\ rxReceived \subseteq seen /\ rxReceived = pduBuffer /\ seen \subseteq Nat
      /\ rxReceived \subseteq rxFirst .. rxFirst + RxWindow - 1
  BY <1>4, Shape DEF AmIInv, SentBefore, FlagsTrue, AmTypeOK, RxTypeOK
<1>6. m.sn + 1 \in 0 .. FirstSn[NumSdus]
  BY <1>3, Shape
<1>7. ASSUME NEW R, rxReceived \subseteq R, R \subseteq rxReceived \cup {m.sn},
             NEW S \in Reports(R)
      PROVE  \A n \in S : /\ n \in Messages /\ n.type = "ack"
                          /\ n.last < txSeq
                          /\ n.bits \subseteq seen'
                          /\ \A sn \in txFirst .. n.last : sn \in seen' \/ sn \in txDiscarded
  <2>1. PICK X : X = seen \cup {m.sn}
    OBVIOUS
  <2>2. R \subseteq X /\ R \subseteq Nat /\ seen \subseteq X /\ \A sn \in X : sn < txSeq
    BY <1>3, <1>5, <1>7, <2>1
  <2>3. /\ StatusReport(R) \in Messages
        /\ StatusReport(R).type = "ack"
        /\ StatusReport(R).last < txSeq
        /\ StatusReport(R).bits \subseteq X
        /\ \A sn \in txFirst .. StatusReport(R).last : sn \in X \/ sn \in txDiscarded
    BY <1>7, <2>2, ReportIsTrue
  <2>4. S = {} \/ S = {StatusReport(R)}
    BY <1>7 DEF Reports
  <2>5. X = seen'
    BY <1>1, <2>1
  <2>6. QED
    BY <2>3, <2>4, <2>5
<1>8. CASE RxReceiveOld(m)
  <2>1. PICK S : S = {}
    OBVIOUS
  <2>2. IsABag(air') /\ BagToSet(air') \subseteq BagToSet(air) /\ Take(m)
    BY <1>8, TakeAir DEF RxReceiveOld, AmIInv, AmTypeOK
  <2>3. /\ m.sn < rxFirst
        /\ UNCHANGED <<rxFirst, rxSeq, rxReceived, pduBuffer, firstSdu, passedUp, thrown>>
    BY <1>8 DEF RxReceiveOld
  <2>4. RxTypeOK' /\ FlagsTrue' /\ PassedIsFlagged'
    BY <1>1, <1>2, <1>4, <2>3 DEF RxTypeOK, AmIInv, FlagsTrue, PassedIsFlagged
  <2>5. Settled(m.sn)'
    BY <1>1, <1>3, <2>3 DEF AmIInv, SettledBehind, Settled, txVars
  <2>6. \A type : InAir(type)' \subseteq InAir(type)
    BY <2>2 DEF InAir
  <2>7. AmTypeOK'
    BY <1>1, <1>3, <2>2, <2>3, <2>4 DEF AmIInv, AmTypeOK, TxTypeOK, txVars
  <2>8. SentBefore' /\ AcksTrue' /\ MrwsCoverDone' /\ MrwAcksTrue'
    BY <1>1, <1>3, <2>3, <2>6
       DEF AmIInv, SentBefore, AcksTrue, MrwsCoverDone, MrwAcksTrue, Done, txVars
  <2>9. OnlyWithoutContact' /\ Outstanding' /\ MarkedOrTimed' /\ ReceivedWasSeen'
        /\ NothingSkipped' /\ InContact'
    BY <1>1, <1>2, <2>3
       DEF AmIInv, OnlyWithoutContact, NoAmError, Outstanding, MarkedOrTimed, ReceivedWasSeen,
           NothingSkipped, InContact, Window, Done, txVars
  <2>10. SettledBehind'
    BY <1>1, <2>3, <2>5 DEF AmIInv, SettledBehind, Settled, txVars
  <2>11. QED
    BY <2>4, <2>7, <2>8, <2>9, <2>10 DEF AmIInv
<1>9. CASE RxReceiveBeyond(m)
  <2>1. m.sn >= rxFirst + RxWindow
    BY <1>9 DEF RxReceiveBeyond
  <2>2. QED
    BY <1>3, <1>4, <2>1
<1>10. CASE RxReceiveAgain(m)
  <2>1. /\ m.sn \in rxReceived
        /\ rxSeq' = m.sn + 1
        /\ thrown' = IF m.sn \in pduBuffer THEN thrown ELSE "missingPdu"
        /\ UNCHANGED <<rxFirst, rxReceived, pduBuffer, firstSdu, passedUp>>
    BY <1>10 DEF RxReceiveAgain, AlreadyReceived
  <2>2. PICK S \in ReportsFirst(m.sn) : Answer(m, S)
    BY <1>10 DEF RxReceiveAgain
  <2>3. S = {} \/ S \in Reports(rxReceived)
    BY <2>2 DEF ReportsFirst
  <2>4. \A n \in S : /\ n \in Messages /\ n.type = "ack"
                     /\ n.last < txSeq
                     /\ n.bits \subseteq seen'
                     /\ \A sn \in txFirst .. n.last : sn \in seen' \/ sn \in txDiscarded
    BY <1>7, <2>3
  <2>5. thrown' = "none"
    BY <1>5, <2>1
  <2>6. RxTypeOK'
    BY <1>2, <1>4, <1>6, <2>1 DEF RxTypeOK
  <2>7. FlagsTrue' /\ PassedIsFlagged'
    BY <1>1, <2>1 DEF AmIInv, FlagsTrue, PassedIsFlagged
  <2>8. Settled(m.sn)'
    BY <1>1, <1>5, <2>1 DEF AmIInv, SettledBehind, Settled, txVars
  <2>9. QED
    BY <1>1, <1>2, <2>1, <2>2, <2>4, <2>5, <2>6, <2>7, <2>8, SeenKeeps
<1>11. CASE RxReceiveNew(m)
  <2> DEFINE R == rxReceived \cup {m.sn}
             first == IF firstSdu = NoSdu THEN SduOf(m.sn) ELSE firstSdu
  <2>1. CompleteSdu(m.sn, first, R, pduBuffer \cup {m.sn}) = m.sn
    BY <1>3 DEF CompleteSdu
  <2>2. /\ InRxWindow(m.sn) /\ m.sn \notin rxReceived
        /\ rxSeq' = m.sn + 1
        /\ rxReceived' = R
        /\ pduBuffer' = pduBuffer \cup {m.sn}
        /\ firstSdu' = first
        /\ thrown' = IF m.sn = Crash THEN "missingPdu" ELSE thrown
        /\ passedUp' = [k \in Sdus |-> IF k = m.sn THEN passedUp[k] + 1 ELSE passedUp[k]]
        /\ UNCHANGED rxFirst
    BY <1>11, <2>1 DEF RxReceiveNew, AlreadyReceived
  <2>3. PICK S \in ReportsFirst(m.sn) \cup Reports(R) : Answer(m, S)
    BY <1>11, <2>1 DEF RxReceiveNew
  <2>4. S = {} \/ S \in Reports(rxReceived) \/ S \in Reports(R)
    BY <2>3 DEF ReportsFirst
  <2>5. \A n \in S : /\ n \in Messages /\ n.type = "ack"
                     /\ n.last < txSeq
                     /\ n.bits \subseteq seen'
                     /\ \A sn \in txFirst .. n.last : sn \in seen' \/ sn \in txDiscarded
    BY <1>7, <2>4
  <2>6. thrown' = "none"
    BY <1>3, <2>2 DEF Crash
  <2>7. passedUp \in [Sdus -> Nat] /\ firstSdu \in Sdus \cup {NoSdu}
    BY <1>4 DEF RxTypeOK
  <2>8. passedUp[m.sn] = 0
    <3>1. ~(m.sn < rxFirst)
      BY <1>3, <1>4, <2>2 DEF InRxWindow
    <3>2. ~(passedUp[m.sn] > 0)
      BY <1>3, <2>2, <3>1 DEF AmIInv, PassedIsFlagged
    <3>3. QED
      BY <1>3, <2>7, <3>2
  <2>9. passedUp' \in [Sdus -> Nat] /\ passedUp'[m.sn] = 1
        /\ \A k \in Sdus : k # m.sn => passedUp'[k] = passedUp[k]
    BY <1>3, <2>2, <2>7, <2>8
  <2>10. RxTypeOK'
    <3>1. m.sn \in rxFirst .. rxFirst + RxWindow - 1
      BY <1>3, <1>4, <2>2 DEF InRxWindow
    <3>2. firstSdu' \in Sdus \cup {NoSdu}
      BY <1>3, <2>2, <2>7
    <3>3. QED
      BY <1>2, <1>3, <1>4, <1>6, <2>2, <2>9, <3>1, <3>2 DEF RxTypeOK
  <2>11. FlagsTrue'
    BY <1>1, <1>5, <2>2 DEF FlagsTrue
  <2>12. PassedIsFlagged'
    BY <2>2, <2>9 DEF AmIInv, PassedIsFlagged
  <2>13. Settled(m.sn)'
    BY <2>9 DEF Settled
  <2>14. \A k \in Sdus : passedUp[k] > 0 => passedUp'[k] > 0
    BY <2>9
  <2>15. QED
    BY <1>1, <1>2, <2>2, <2>3, <2>5, <2>6, <2>10, <2>11, <2>12, <2>13, <2>14, SeenKeeps
<1>12. QED
  BY <1>1, <1>8, <1>9, <1>10, <1>11 DEF RxReceivePdu

(***************************************************************************)
(* The theorems.                                                           *)
(***************************************************************************)
LEMMA NextKeeps ==
  ASSUME OneFragmentEach, LightLoad, AmIInv, [Next]_vars
  PROVE  AmIInv'
<1>1. CASE UNCHANGED vars
  <2>1. PICK S : S = {}
    OBVIOUS
  <2>2. BagToSet(air') \subseteq BagToSet(air) \cup S /\ \A n \in S : TrueMessage(n)
    BY <1>1, <2>1 DEF vars
  <2>3. AmTypeOK'
    BY <1>1 DEF AmIInv, AmTypeOK, TxTypeOK, RxTypeOK, vars, txVars, rxVars
  <2>4. mrwQueue' = mrwQueue
        /\ UNCHANGED <<thrown, arrived, txFirst, txSeq, txReceived, txDiscarded, txNumber,
                       pduTimers, rxFirst, rxReceived, pduBuffer, knowsPeer, passedUp, seen>>
    BY <1>1 DEF vars, txVars, rxVars
  <2>5. QED
    BY <2>2, <2>3, <2>4, AirOnly
<1>2. CASE Next
  BY <1>2, ArrivalKeeps, StatusTimerKeeps, PduTimerKeeps, MrwTimerKeeps, ReportTimerKeeps,
     PduKeeps, AckKeeps, MrwKeeps, MrwAckKeeps, LostKeeps DEF Next
<1>3. QED
  BY <1>1, <1>2

\* AmIInv is an invariant, for any number of SDUs that fit a PDU, any windows
\* and any load of at most half a receive window (AmTxQueue, AmRxQueue).
THEOREM AmInductive ==
  ASSUME OneFragmentEach, LightLoad
  PROVE  Spec => []AmIInv
<1>1. Init => AmIInv
  BY InitIInv
<1>2. AmIInv /\ [Next]_vars => AmIInv'
  BY NextKeeps
<1>3. QED
  BY <1>1, <1>2, PTL DEF Spec

\* Both entities keep their types: no sequence number of the receiver leaves
\* its window and no timer runs for a PDU that was never made.
THEOREM AmTypeCorrect ==
  ASSUME OneFragmentEach, LightLoad
  PROVE  Spec => []AmTypeOK
<1>1. AmIInv => AmTypeOK
  BY DEF AmIInv
<1>2. QED
  BY <1>1, AmInductive, PTL

\* No check of either entity fails but the one nobody wrote, of a receiver
\* that answers a command before any data PDU reached it.
THEOREM AmChecksHold ==
  ASSUME OneFragmentEach, LightLoad
  PROVE  Spec => []OnlyWithoutContact
<1>1. AmIInv => OnlyWithoutContact
  BY DEF AmIInv
<1>2. QED
  BY <1>1, AmInductive, PTL

\* The receiver's window begins within what the sender has outstanding.
THEOREM AmNested ==
  ASSUME OneFragmentEach, LightLoad
  PROVE  Spec => []WindowsNested
<1>1. AmIInv => WindowsNested
  BY DEF AmIInv, Outstanding, WindowsNested
<1>2. QED
  BY <1>1, AmInductive, PTL

\* What the sender takes for received was received, or given up by itself.
THEOREM AmAcksAreTrue ==
  ASSUME OneFragmentEach, LightLoad
  PROVE  Spec => []ReceivedWasSeen
<1>1. AmIInv => ReceivedWasSeen
  BY DEF AmIInv
<1>2. QED
  BY <1>1, AmInductive, PTL

\* An SDU reaches the upper layer at most once, however often it is sent.
THEOREM AmNoDuplicate ==
  ASSUME OneFragmentEach, LightLoad
  PROVE  Spec => []PassedUpOnce
<1>1. AmIInv => PassedUpOnce
  BY DEF AmIInv, PassedIsFlagged, PassedUpOnce
<1>2. QED
  BY <1>1, AmInductive, PTL

\* A command moves the receiver's window only past what the sender is done with.
THEOREM AmSkipsNothing ==
  ASSUME OneFragmentEach, LightLoad
  PROVE  Spec => []NothingSkipped
<1>1. AmIInv => NothingSkipped
  BY DEF AmIInv
<1>2. QED
  BY <1>1, AmInductive, PTL

\* The sender's window leaves an SDU behind only when it was passed up or its
\* PDU was sent as often as maxRtx allows.
THEOREM AmLeavesNothing ==
  ASSUME OneFragmentEach, LightLoad
  PROVE  Spec => []LeftBehindOnlyWhenDone
<1>1. AmIInv => LeftBehindOnlyWhenDone
  <2> SUFFICES ASSUME AmIInv, NEW k \in Sdus, FirstSn[k + 1] <= txFirst
               PROVE  passedUp[k] > 0 \/ \E sn \in FragmentsOf(k) : txNumber[sn] = MaxRtx
    BY DEF LeftBehindOnlyWhenDone
  <2>1. k \in Nat /\ k \in Sns /\ FirstSn[k + 1] = k + 1
    BY Shape
  <2>2. txFirst \in Nat /\ rxFirst \in Nat /\ txFirst <= rxFirst
    BY Shape DEF AmIInv, AmTypeOK, TxTypeOK, RxTypeOK, Outstanding
  <2>3. k < rxFirst
    BY <2>1, <2>2
  <2>4. Settled(k)
    BY <2>3 DEF AmIInv, SettledBehind
  <2>5. FragmentsOf(k) = {k}
    <3>1. FirstSn[k] = k
      BY <2>1, Shape
    <3>2. QED
      BY <2>1, <3>1 DEF FragmentsOf
  <2>6. QED
    BY <2>4, <2>5 DEF Settled
<1>2. QED
  BY <1>1, AmInductive, PTL
=============================================================================
