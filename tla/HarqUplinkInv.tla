---------------------------- MODULE HarqUplinkInv ----------------------------
(***************************************************************************)
(* Why the H-ARQ of the uplink never meets one of its own errors.  The     *)
(* inductive invariant IInv says where the one answer to every             *)
(* transmission is, by the AGE of its process: the number of TTIs since    *)
(* the UE last used it.  Ages are what keeps apart the transmissions of a  *)
(* process, since no message between the two ends carries a time.          *)
(***************************************************************************)
EXTENDS HarqUplink

\* A mode switch reaches both ends in the same TTI, or none of them.
AgreedSwitches == SwitchScopes \subseteq {{}, {"ue", "enb"}}

\* The unit of process a that the uplink uses.
First(a) == <<a, 0>>

\* The process whose turn this TTI is, and the age of a process.
Slot == IF ueStep \in {"tick", "make"} THEN currentHarq ELSE PrevAcid(currentHarq)
Age(a) == IF a <= Slot THEN Slot - a ELSE Slot - a + NumProc

\* The steps of a TTI come in order, and a node that has still to handle a mode
\* switch has not run its main loop.
StepsInOrder ==
  /\ "ue" \in switching => ueStep = "tick"
  /\ "enb" \in switching => enbStep = "tick"
  /\ ueStep # "air" => dataSent = {}
  /\ enbStep = "tick" => fbSent = {}
  /\ ueStep \in {"make", "flush"} => firstTx
  /\ ueStep = "make" => txStatus[First(currentHarq)] = "EMPTY"

\* The first grant of all, which makes the counter jump, meets an idle link.
IdleBeforeFirstTx ==
  ~firstTx =>
    /\ \A a \in Acid : /\ txStatus[First(a)] = "EMPTY"
                       /\ rxStatus[First(a)] = "EMPTY"
    /\ dataSent = {} /\ dataAir = {} /\ fbSent = {} /\ fbAir = {}

\* Only the first codeword is in use.
OneCodeword ==
  /\ \A u \in Unit : u[2] # 0 => txStatus[u] = "EMPTY" /\ rxStatus[u] = "EMPTY"
  /\ \A m \in dataSent \cup dataAir \cup fbSent \cup fbAir : m.unit[2] = 0

SelectionMatches ==
  /\ \A a \in Acid : txStatus[First(a)] = "SELECTED" <=> selectedAcid = a
  /\ selectedAcid # HarqNone =>
       ueStep = "flush" /\ selectedAcid = PrevAcid(currentHarq)

CountsMatch ==
  \A a \in Acid :
    /\ numEmptyUnits[a] = Cardinality(Codewords)
                          - (IF txStatus[First(a)] = "EMPTY" THEN 0 ELSE 1)
    /\ numSelected[a] = (IF txStatus[First(a)] = "SELECTED" THEN 1 ELSE 0)

\* Where a transmission of age n is: in the air, under evaluation, or its
\* feedback in the air.
AgesTell ==
  /\ \A d \in dataSent : Age(d.unit[1]) = 0
  /\ \A d \in dataAir : Age(d.unit[1]) = 1
  /\ \A a \in Acid : rxStatus[First(a)] = "EVALUATING" =>
       /\ Age(a) = rxAge[First(a)] + 1
       /\ enbStep = "air" => rxAge[First(a)] < FbInterval
       /\ rxAge[First(a)] = 0 => LoopsDone /\ dataAir = {}
  /\ \A f \in fbSent : Age(f.unit[1]) = FbInterval + 1
  /\ \A f \in fbAir : Age(f.unit[1]) = FbInterval + 2

AtMostOne(S) == \A x, y \in S : x = y

OneAtATime ==
  AtMostOne(dataSent) /\ AtMostOne(dataAir) /\ AtMostOne(fbSent) /\ AtMostOne(fbAir)

\* The unit waits for an answer that names PDU p.
Awaits(u, p) == ~dropped[u[1]] /\ txStatus[u] = "WAITING" /\ txPdu[u] = p

AnswersAwaited ==
  /\ \A d \in dataSent :
       Awaits(d.unit, d.pdu) /\ d.ndi = (txCount[d.unit] = 1)
  /\ \A d \in dataAir :
       \/ Awaits(d.unit, d.pdu) /\ d.ndi = (txCount[d.unit] = 1)
       \/ dropped[d.unit[1]] /\ (resetHarq \/ "enb" \in switching)
  /\ \A a \in Acid : rxStatus[First(a)] = "EVALUATING" =>
       \/ Awaits(First(a), rxPdu[First(a)])
       \/ dropped[a] /\ "enb" \in switching
  /\ \A f \in fbSent \cup fbAir : dropped[f.unit[1]] \/ Awaits(f.unit, f.pdu)

HasData(u) == \E d \in dataSent \cup dataAir : d.unit = u
HasFeedback(u) == \E f \in fbSent \cup fbAir : f.unit = u

WaitingAnswered ==
  "ue" \notin switching =>
    \A a \in Acid : txStatus[First(a)] = "WAITING" =>
      \/ HasData(First(a))
      \/ rxStatus[First(a)] = "EVALUATING"
      \/ HasFeedback(First(a))

DroppedEmpty == \A a \in Acid : dropped[a] => txStatus[First(a)] = "EMPTY"

\* In the TTI of a mode switch, a node that has handled it holds nothing older.
SwitchForgets ==
  /\ "ue" \in switching => "enb" \in switching \/ resetHarq
  /\ resetHarq =>
       /\ "enb" \notin switching
       /\ fbSent = {}
       /\ \A a \in Acid : rxStatus[First(a)] = "EMPTY" /\ rxCount[a] = 0
  /\ (resetHarq \/ "enb" \in switching) /\ "ue" \notin switching =>
       \A a \in Acid :
         \/ dropped[a]
         \/ /\ a = Slot
            /\ \/ txStatus[First(a)] = "SELECTED" /\ txCount[First(a)] = 0
               \/ /\ txStatus[First(a)] = "WAITING" /\ txCount[First(a)] = 1
                  /\ \E d \in dataSent : d.unit = First(a)

\* What a unit holds, and how often it can have been sent.
UnitContents ==
  \A a \in Acid :
    LET u == First(a) IN
    /\ IF txStatus[u] = "EMPTY" THEN txCount[u] = 0 ELSE txPdu[u] \in Pdus
    /\ txStatus[u] = "SELECTED" => txCount[u] <= MaxHarqRtx
    /\ txStatus[u] = "WAITING" => txCount[u] \in 1 .. MaxHarqRtx + 1
    /\ txStatus[u] = "BUFFERED" => txCount[u] \in 1 .. MaxHarqRtx

\* A receiver that keeps corrupted PDUs has counted what the sender counted,
\* and one that purges them holds none.
CountedAlike ==
  IF RxPurges
  THEN \A a \in Acid : rxStatus[First(a)] # "CORRUPTED"
  ELSE switching = {} =>
    \A a \in Acid :
      LET u == First(a) IN
      /\ rxStatus[u] = "EMPTY" =>
           /\ rxCount[a] = 0
           /\ txStatus[u] # "BUFFERED"
           /\ txStatus[u] = "SELECTED" => txCount[u] = 0
           /\ HasData(u) /\ ~dropped[a] => txCount[u] = 1
           /\ \A f \in fbSent \cup fbAir :
                f.unit = u /\ ~dropped[a] => f.ack \/ txCount[u] = MaxHarqRtx + 1
      /\ rxStatus[u] = "EVALUATING" => rxCount[a] = txCount[u]
      /\ rxStatus[u] = "CORRUPTED" =>
           /\ txStatus[u] # "EMPTY" /\ txPdu[u] = rxPdu[u]
           /\ rxCount[a] \in 1 .. MaxHarqRtx
           /\ rxCount[a] = txCount[u] - (IF HasData(u) THEN 1 ELSE 0)
           /\ \A f \in fbSent \cup fbAir : f.unit = u => ~f.ack

IInv ==
  /\ TypeOK
  /\ NoError
  /\ StepsInOrder
  /\ IdleBeforeFirstTx
  /\ OneCodeword
  /\ SelectionMatches
  /\ CountsMatch
  /\ AgesTell
  /\ OneAtATime
  /\ AnswersAwaited
  /\ WaitingAnswered
  /\ DroppedEmpty
  /\ SwitchForgets
  /\ UnitContents
  /\ CountedAlike
=============================================================================
