-------------------------------- MODULE AmTx --------------------------------
(***************************************************************************)
(* The transmission entity of RLC AM (AmTxQueue) for one connection.  The  *)
(* vectors the code keeps by position in the window, received_, discarded_ *)
(* and pduRtxQueue_, are sets of sequence numbers here: moveTxWindow shifts*)
(* all three by the same amount and clears what it leaves.  The model      *)
(* keeps no clock; the timeout of a TMultiTimer is the same for all its    *)
(* events, so they fire in the order they were started.                    *)
(***************************************************************************)
EXTENDS AmCommon

VARIABLES
  arrived,       \* SDUs that enque was called for
  txFirst,       \* txWindowDesc_.firstSeqNum_
  txSeq,         \* txWindowDesc_.seqNum_
  txReceived,    \* received_
  txDiscarded,   \* discarded_
  txNumber,      \* LteRlcAmPdu::txNumber of the PDUs of pduRtxQueue_
  pduTimers,     \* events pduTimer_ is running for
  dueBefore,     \* which of them fire before the one of a number
  statusTimer,   \* bufferStatusTimer_ is running
  mrwQueue,      \* the PDUs of mrwRtxQueue_, each with its event of mrwTimer_
  mrwSeq         \* mrwDesc_.mrwSeqNum_; lastMrw_ is the one before

txVars == <<arrived, txFirst, txSeq, txReceived, txDiscarded, txNumber, pduTimers,
            dueBefore, statusTimer, mrwQueue, mrwSeq>>

TxTypeOK ==
  /\ arrived \in 0 .. NumSdus
  /\ txFirst \in 0 .. FirstSn[NumSdus]
  /\ txSeq \in 0 .. FirstSn[NumSdus]
  /\ txReceived \subseteq Nat
  /\ txDiscarded \subseteq Sns
  /\ txNumber \in [Sns -> 0 .. MaxRtx]
  /\ pduTimers \subseteq Sns
  /\ dueBefore \in [Sns -> SUBSET Sns]
  /\ statusTimer \in BOOLEAN
  /\ mrwQueue \subseteq [number : Nat, last : Nat]
  /\ mrwSeq \in Nat

TxInit ==
  /\ arrived = 0
  /\ txFirst = 0
  /\ txSeq = 0
  /\ txReceived = {}
  /\ txDiscarded = {}
  /\ txNumber = [sn \in Sns |-> 0]
  /\ pduTimers = {}
  /\ dueBefore = [sn \in Sns |-> {}]
  /\ statusTimer = FALSE
  /\ mrwQueue = {}
  /\ mrwSeq = 0

Done == txReceived \cup txDiscarded

\* Mutant: the events stay in the list.
StopTimersNot(S) == UNCHANGED <<pduTimers, dueBefore>>

\* TMultiTimer: remove, add once more after firing, and add behind the events T.
StopTimers(S) ==
  /\ pduTimers' = pduTimers \ S
  /\ dueBefore' = [sn \in Sns |-> IF sn \in S THEN {} ELSE dueBefore[sn] \ S]

RestartTimer(sn) ==
  /\ UNCHANGED pduTimers
  /\ dueBefore' = [n \in Sns |-> IF n = sn THEN pduTimers \ {sn}
                                          ELSE dueBefore[n] \ {sn}]

StartTimers(N, T) ==
  /\ pduTimers' = T \cup N
  /\ dueBefore' = [sn \in Sns |->
       IF sn \in N THEN T \cup {n \in N : n < sn}
       ELSE IF sn \in T THEN dueBefore[sn] \cap T ELSE {}]

-----------------------------------------------------------------------------
(***************************************************************************)
(* addPdus: as many fragments as the window and the SDUs queued allow are  *)
(* sent and remembered.  It is called with the window's first number and   *)
(* what is marked received or discarded, once the caller has changed them. *)
(***************************************************************************)
NewSns(first, sdus) ==
  {sn \in Sns : txSeq <= sn /\ sn < first + TxWindow /\ sn < FirstSn[sdus]}

AddPdus(first, sdus, marked, timers) ==
  LET N == NewSns(first, sdus) IN
  /\ txSeq' = txSeq + Cardinality(N)
  /\ txNumber' = [sn \in Sns |-> IF sn \in N THEN 0 ELSE txNumber[sn]]
  /\ StartTimers(N, timers)
  /\ statusTimer' = (statusTimer \/ N # {})
  /\ thrown' = IF N \cap marked # {} THEN "busyPosition" ELSE thrown

NewPdus(first, sdus) == {Pdu(sn, 0) : sn \in NewSns(first, sdus)}

\* enque
TxEnque ==
  /\ arrived < NumSdus
  /\ arrived' = arrived + 1
  /\ AddPdus(txFirst, arrived + 1, Done, pduTimers)
  /\ Send(NewPdus(txFirst, arrived + 1))
  /\ UNCHANGED <<txFirst, txReceived, txDiscarded, mrwQueue, mrwSeq>>

(***************************************************************************)
(* checkForMrw: when the window starts with PDUs that are received or      *)
(* discarded, the receiver is told to move its window past them.           *)
(***************************************************************************)
\* Mutant: the loop goes on behind a PDU that is neither.
MrwTargetUnbroken(done) ==
  CHOOSE s \in txFirst .. txSeq : /\ s = txFirst \/ s - 1 \in done
                                  /\ \A n \in s .. txSeq - 1 : n \notin done

\* Mutant: the number sent is one too high.
MrwTargetOneMore(done) ==
  LET n == CHOOSE s \in txFirst .. txSeq : /\ txFirst .. s - 1 \subseteq done
                                           /\ s = txSeq \/ s \notin done
  IN IF n = txFirst THEN n ELSE n + 1

MrwTarget(done) ==
  CHOOSE s \in txFirst .. txSeq : /\ txFirst .. s - 1 \subseteq done
                                  /\ s = txSeq \/ s \notin done

NewMrw(done) == IF MrwTarget(done) = txFirst THEN {} ELSE {Mrw(mrwSeq, MrwTarget(done))}

CheckForMrw(done) ==
  IF MrwTarget(done) = txFirst
  THEN UNCHANGED <<mrwQueue, mrwSeq>>
  ELSE /\ mrwQueue' = mrwQueue \cup {[number |-> mrwSeq, last |-> MrwTarget(done)]}
       /\ mrwSeq' = mrwSeq + 1

\* The buffer status timer, which is not started again until a PDU is added.
TxStatusTimer ==
  /\ statusTimer
  /\ statusTimer' = FALSE
  /\ CheckForMrw(Done)
  /\ Send(NewMrw(Done))
  /\ UNCHANGED <<thrown, arrived, txFirst, txSeq, txReceived, txDiscarded, txNumber,
                 pduTimers, dueBefore>>

-----------------------------------------------------------------------------
(***************************************************************************)
(* handleControlPacket of an ACK: recvCumulativeAck, which may send a MRW, *)
(* and then recvAck for the bits that are set.                             *)
(***************************************************************************)
AckedUpTo(m) == IF m.last < txFirst THEN {} ELSE txFirst .. m.last
AckedBits(m) == {sn \in m.bits : sn >= txFirst}

TxReceiveAck(m) ==
  LET cumulative == txReceived \cup AckedUpTo(m)
      acked == AckedUpTo(m) \cup AckedBits(m)
  IN
  \/ /\ \E sn \in acked : sn >= txFirst + TxWindow
     /\ thrown' = "ackBeyondWindow"
     /\ Take(m)
     /\ UNCHANGED txVars
  \/ /\ \A sn \in acked : sn < txFirst + TxWindow
     /\ txReceived' = txReceived \cup acked
     /\ StopTimers(acked)
     /\ IF m.last < txFirst
        THEN Take(m) /\ UNCHANGED <<mrwQueue, mrwSeq>>
        ELSE /\ CheckForMrw(cumulative \cup txDiscarded)
             /\ Answer(m, NewMrw(cumulative \cup txDiscarded))
     /\ UNCHANGED <<thrown, arrived, txFirst, txSeq, txDiscarded, txNumber,
                    statusTimer>>

\* Mutant: the positions shifted from are not cleared.
MarksAfterUncleared(marks, first) ==
  {sn \in marks : sn >= first}
    \cup {sn + first - txFirst : sn \in {n \in marks : n + first >= txSeq + txFirst}}

\* What is left of a vector when the window starts at first.
MarksAfter(marks, first) == marks \cap first .. txSeq - 1

(***************************************************************************)
(* handleControlPacket of an MRW_ACK: moveTxWindow, which adds PDUs, and   *)
(* recvMrwAck.  A PDU of the window is never missing, as the window only   *)
(* moves within what was sent.                                             *)
(***************************************************************************)
TxReceiveMrwAck(m) ==
  LET moves == m.first > txFirst
      received == MarksAfter(txReceived, m.first)
      discarded == MarksAfter(txDiscarded, m.first)
      timers == pduTimers \ (txFirst .. m.first - 1)
  IN
  /\ mrwQueue' = {q \in mrwQueue : q.number # m.number}
  /\ \/ /\ ~moves
        /\ Take(m)
        /\ UNCHANGED <<thrown, txFirst, txSeq, txReceived, txDiscarded, txNumber,
                       pduTimers, dueBefore, statusTimer>>
     \/ /\ moves /\ m.first > txSeq
        /\ thrown' = "missingPdu"
        /\ Take(m)
        /\ UNCHANGED <<txFirst, txSeq, txReceived, txDiscarded, txNumber, pduTimers,
                       dueBefore, statusTimer>>
     \/ /\ moves /\ m.first <= txSeq
        /\ txFirst' = m.first
        /\ txReceived' = received
        /\ txDiscarded' = discarded
        /\ AddPdus(m.first, arrived, received \cup discarded, timers)
        /\ Answer(m, NewPdus(m.first, arrived))
  /\ UNCHANGED <<arrived, mrwSeq>>

-----------------------------------------------------------------------------
(***************************************************************************)
(* pduTimerHandle: the PDU is sent again, or given up together with the    *)
(* other fragments of its SDU that are in the window.                      *)
(***************************************************************************)
\* Mutant: one transmission too many.
GivesUpLate(sn) == txNumber[sn] > MaxRtx

\* Mutant: one transmission too few.
GivesUpEarly(sn) == txNumber[sn] + 1 >= MaxRtx

GivesUp(sn) == txNumber[sn] + 1 > MaxRtx

DiscardedWith(sn) == {n \in FragmentsOf(SduOf(sn)) : txFirst <= n /\ n < txSeq}

TxPduTimer == \E sn \in pduTimers :
  LET D == DiscardedWith(sn) IN
  /\ dueBefore[sn] = {}
  /\ \/ /\ sn < txFirst \/ sn >= txFirst + TxWindow \/ sn \in txReceived
        /\ thrown' = "timerOutOfWindow"
        /\ UNCHANGED <<txVars, air>>
     \/ /\ txFirst <= sn /\ sn < txFirst + TxWindow /\ sn \notin txReceived
        /\ ~GivesUp(sn)
        /\ txNumber' = [txNumber EXCEPT ![sn] = @ + 1]
        /\ RestartTimer(sn)
        /\ Send({Pdu(sn, txNumber[sn] + 1)})
        /\ UNCHANGED <<thrown, arrived, txFirst, txSeq, txReceived, txDiscarded,
                       statusTimer, mrwQueue, mrwSeq>>
     \/ /\ txFirst <= sn /\ sn < txFirst + TxWindow /\ sn \notin txReceived
        /\ GivesUp(sn)
        /\ txDiscarded' = txDiscarded \cup D
        /\ StopTimers(D \cup {sn})
        /\ CheckForMrw(Done \cup D)
        /\ Send(NewMrw(Done \cup D))
        /\ UNCHANGED <<thrown, arrived, txFirst, txSeq, txReceived, txNumber,
                       statusTimer>>

\* mrwTimerHandle: only the newest command is sent again.
TxMrwTimer == \E q \in mrwQueue :
  /\ \A r \in mrwQueue : q.number <= r.number
  /\ \/ /\ q.number < mrwSeq - 1
        /\ mrwQueue' = mrwQueue \ {q}
        /\ UNCHANGED air
     \/ /\ q.number = mrwSeq - 1
        /\ Send({Mrw(q.number, q.last)})
        /\ UNCHANGED mrwQueue
  /\ UNCHANGED <<thrown, arrived, txFirst, txSeq, txReceived, txDiscarded, txNumber,
                 pduTimers, dueBefore, statusTimer, mrwSeq>>
=============================================================================
