-------------------------------- MODULE AmRx --------------------------------
(***************************************************************************)
(* The reception entity of RLC AM (AmRxQueue) for one connection.  The     *)
(* vector received_ and the array pduBuffer_ are sets of sequence numbers  *)
(* here; they are kept apart because moveRxWindow treats them differently. *)
(***************************************************************************)
EXTENDS AmCommon

VARIABLES
  rxFirst,       \* rxWindowDesc_.firstSeqNum_
  rxSeq,         \* rxWindowDesc_.seqNum_, one more than the last PDU received
  rxReceived,    \* received_
  pduBuffer,     \* the PDUs of pduBuffer_
  firstSdu,      \* firstSdu_
  reportTimer,   \* timer_ is running
  knowsPeer,     \* flowControlInfo_ is not NULL
  passedUp       \* how often each SDU was passed up

rxVars == <<rxFirst, rxSeq, rxReceived, pduBuffer, firstSdu, reportTimer, knowsPeer,
            passedUp>>

NoSdu == -1

RxTypeOK ==
  /\ rxFirst \in 0 .. FirstSn[NumSdus]
  /\ rxSeq \in 0 .. FirstSn[NumSdus]
  /\ rxReceived \subseteq rxFirst .. rxFirst + RxWindow - 1
  /\ pduBuffer \subseteq Sns
  /\ firstSdu \in Sdus \cup {NoSdu}
  /\ reportTimer \in BOOLEAN
  /\ knowsPeer \in BOOLEAN
  /\ passedUp \in [Sdus -> Nat]

RxInit ==
  /\ rxFirst = 0
  /\ rxSeq = 0
  /\ rxReceived = {}
  /\ pduBuffer = {}
  /\ firstSdu = 0
  /\ reportTimer = FALSE
  /\ knowsPeer = FALSE
  /\ passedUp = [k \in Sdus |-> 0]

InRxWindow(sn) == rxFirst <= sn /\ sn < rxFirst + RxWindow

-----------------------------------------------------------------------------
(***************************************************************************)
(* sendStatusReport of the vector R: all up to the first missing number is *)
(* acknowledged at once, the rest of the window bit by bit.  The report is *)
(* left out when the last one was sent less than ackReportInterval_ ago.   *)
(***************************************************************************)
FirstMissing(R) ==
  CHOOSE s \in rxFirst .. rxFirst + RxWindow :
    /\ rxFirst .. s - 1 \subseteq R
    /\ s = rxFirst + RxWindow \/ s \notin R

\* Mutant: the first missing number is acknowledged as well.
StatusReportOneMore(R) == Ack(FirstMissing(R), {sn \in R : sn > FirstMissing(R)})

StatusReport(R) == Ack(FirstMissing(R) - 1, {sn \in R : sn > FirstMissing(R)})

Reports(R) == {{}, {StatusReport(R)}}

\* The report timer goes on while PDUs are in the buffer.
RxReportTimer ==
  /\ reportTimer
  /\ \E S \in Reports(rxReceived) : Send(S)
  /\ reportTimer' = (pduBuffer # {})
  /\ UNCHANGED <<thrown, rxFirst, rxSeq, rxReceived, pduBuffer, firstSdu, knowsPeer,
                 passedUp>>

-----------------------------------------------------------------------------
(***************************************************************************)
(* moveRxWindow shifts the vector in place and clears the positions it     *)
(* shifted FROM.  A shift by more than half of the window never comes to   *)
(* clear the positions in between, which keep their flags for the numbers  *)
(* they stand for now.                                                     *)
(***************************************************************************)
Shifted(R, pos) ==
  {sn \in R : sn >= rxFirst + pos}
    \cup {sn + pos : sn \in {n \in R : n - rxFirst \in RxWindow - pos .. pos - 1}}

\* The SDU that the first PDU after the shift goes on with.
SduAfter(first) ==
  IF first - 1 \in pduBuffer /\ ~IsLast(first - 1) THEN SduOf(first - 1) ELSE NoSdu

RxReceiveMrw(m) ==
  LET pos == m.last - rxFirst IN
  \/ /\ pos > RxWindow
     /\ thrown' = "moveBeyondWindow"
     /\ Take(m)
     /\ UNCHANGED rxVars
  \/ /\ pos <= RxWindow /\ ~knowsPeer
     /\ thrown' = "noControlInfo"
     /\ Take(m)
     /\ UNCHANGED rxVars
  \/ /\ pos <= 0 /\ knowsPeer
     /\ Answer(m, {MrwAck(m.number, rxFirst)})
     /\ UNCHANGED <<rxVars, thrown>>
  \/ /\ pos \in 1 .. RxWindow /\ knowsPeer
     /\ rxFirst' = m.last
     /\ rxReceived' = Shifted(rxReceived, pos)
     /\ pduBuffer' = {sn \in pduBuffer : sn >= m.last}
     /\ firstSdu' = SduAfter(m.last)
     /\ Answer(m, {MrwAck(m.number, m.last)})
     /\ UNCHANGED <<rxSeq, reportTimer, knowsPeer, passedUp, thrown>>

-----------------------------------------------------------------------------
(***************************************************************************)
(* checkCompleteSdu of PDU sn, just added to the vector R and the buffer B:*)
(* the SDU it passes up, or none, or an error.  The search backward stops  *)
(* at the first fragment, at a PDU not received, or at the window's start; *)
(* the search forward at the last fragment, at a PDU not received, or at   *)
(* the window's end, which counts as success.                              *)
(***************************************************************************)
Crash == -2

Backward(sn) == {n \in FragmentsOf(SduOf(sn)) : rxFirst <= n /\ n < sn}
Forward(sn) == {n \in FragmentsOf(SduOf(sn)) : sn < n /\ n < rxFirst + RxWindow}

\* A search ends at the PDU e that is missing or, though marked, not there.
Stops(S, R, B) == {n \in S : n \notin R \/ n \notin B}

FoundAt(first, B) == IF first \in B THEN SduOf(first) ELSE Crash

\* firstIndex is 0 after the search backward, whatever PDU it ended with, and
\* -1 without one.
CompleteSdu(sn, first, R, B) ==
  LET back == Stops(Backward(sn), R, B)
      forward == Stops(Forward(sn), R, B)
      lastBack == CHOOSE n \in back : \A i \in back : i <= n
      firstForward == CHOOSE n \in forward : \A i \in forward : n <= i
      found == IF IsFirst(sn) THEN Crash ELSE FoundAt(rxFirst, B)
  IN
  IF IsWhole(sn) THEN SduOf(sn)
  ELSE IF ~IsFirst(sn) /\ sn = rxFirst /\ first # SduOf(sn) THEN Crash
  ELSE IF ~IsFirst(sn) /\ sn # rxFirst /\ back # {}
       THEN IF lastBack \in R THEN Crash ELSE NoSdu
  ELSE IF ~IsLast(sn) /\ forward # {}
       THEN IF firstForward \in R THEN Crash ELSE NoSdu
  ELSE found

(***************************************************************************)
(* enque of a data PDU.  One that does not follow the last one received is *)
(* reported before it is looked at; an SDU passed up is reported after.    *)
(***************************************************************************)
RxReceiveOld(m) ==
  /\ m.sn < rxFirst
  /\ Take(m)
  /\ UNCHANGED <<rxFirst, rxSeq, rxReceived, pduBuffer, firstSdu, passedUp, thrown>>

RxReceiveBeyond(m) ==
  /\ m.sn >= rxFirst + RxWindow
  /\ thrown' = "pduBeyondWindow"
  /\ Take(m)
  /\ UNCHANGED <<rxFirst, rxSeq, rxReceived, pduBuffer, firstSdu, passedUp>>

\* Mutant: only a repetition of the last PDU is noticed.
AlreadyReceivedLast(sn) == sn \in rxReceived /\ sn + 1 = rxSeq

AlreadyReceived(sn) == sn \in rxReceived

ReportsFirst(sn) == IF sn = rxSeq THEN {{}} ELSE Reports(rxReceived)

RxReceiveAgain(m) ==
  /\ InRxWindow(m.sn) /\ AlreadyReceived(m.sn)
  /\ rxSeq' = m.sn + 1
  /\ thrown' = IF m.sn \in pduBuffer THEN thrown ELSE "missingPdu"
  /\ \E S \in ReportsFirst(m.sn) : Answer(m, S)
  /\ UNCHANGED <<rxFirst, rxReceived, pduBuffer, firstSdu, passedUp>>

RxReceiveNew(m) ==
  LET R == rxReceived \cup {m.sn}
      B == pduBuffer \cup {m.sn}
      first == IF firstSdu = NoSdu THEN SduOf(m.sn) ELSE firstSdu
      sdu == CompleteSdu(m.sn, first, R, B)
  IN
  /\ InRxWindow(m.sn) /\ ~AlreadyReceived(m.sn)
  /\ rxSeq' = m.sn + 1
  /\ rxReceived' = R
  /\ pduBuffer' = B
  /\ firstSdu' = first
  /\ thrown' = IF sdu = Crash THEN "missingPdu" ELSE thrown
  /\ passedUp' = [k \in Sdus |-> IF k = sdu THEN passedUp[k] + 1 ELSE passedUp[k]]
  /\ \E S \in ReportsFirst(m.sn) \cup (IF m.sn = rxSeq /\ sdu \in Sdus
                                       THEN Reports(R) ELSE {}) : Answer(m, S)
  /\ UNCHANGED rxFirst

RxReceivePdu(m) ==
  /\ reportTimer' = TRUE
  /\ knowsPeer' = TRUE
  /\ \/ RxReceiveOld(m)
     \/ RxReceiveBeyond(m)
     \/ RxReceiveAgain(m)
     \/ RxReceiveNew(m)
=============================================================================
