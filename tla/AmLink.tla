------------------------------- MODULE AmLink -------------------------------
(***************************************************************************)
(* One RLC AM connection: AmTxQueue at one node, AmRxQueue at the other,   *)
(* and between them the MAC, whose H-ARQ gives PDUs up after maxHarqRtx    *)
(* and delivers the rest once, in any order.                               *)
(***************************************************************************)
EXTENDS AmTx, AmRx

CONSTANTS
  Load,          \* PDUs the upper layer has the entity hold at a time
  AirBound,      \* bound: PDUs in the air
  MrwBound       \* bound: MRW commands of a behaviour

ASSUME AmLinkAssumption == Load \in Nat /\ AirBound \in Nat /\ MrwBound \in Nat

VARIABLE seen        \* the numbers of the PDUs that reached the receiver

vars == <<thrown, air, txVars, rxVars, seen>>

Messages ==
  [type : {"data"}, sn : Sns, txNumber : 0 .. MaxRtx]
    \cup [type : {"ack"}, last : Int, bits : SUBSET Nat]
    \cup [type : {"mrw"}, number : Nat, last : Nat]
    \cup [type : {"mrwAck"}, number : Nat, first : Nat]

AmTypeOK ==
  /\ thrown \in Errors \cup {"none"}
  /\ IsABag(air) /\ BagToSet(air) \subseteq Messages
  /\ TxTypeOK
  /\ RxTypeOK
  /\ seen \subseteq Sns

Init ==
  /\ thrown = "none"
  /\ air = EmptyBag
  /\ TxInit
  /\ RxInit
  /\ seen = {}

-----------------------------------------------------------------------------
\* The upper layer offers an SDU when the entity then holds at most Load PDUs.
SduArrives ==
  /\ arrived < NumSdus /\ FirstSn[arrived + 1] - txFirst <= Load
  /\ TxEnque
  /\ UNCHANGED <<rxVars, seen>>

StatusTimerFires == TxStatusTimer /\ UNCHANGED <<rxVars, seen>>
PduTimerFires == TxPduTimer /\ UNCHANGED <<rxVars, seen>>
MrwTimerFires == TxMrwTimer /\ UNCHANGED <<rxVars, seen>>
ReportTimerFires == RxReportTimer /\ UNCHANGED <<txVars, seen>>

PduArrives == \E m \in BagToSet(air) :
  /\ m.type = "data"
  /\ RxReceivePdu(m)
  /\ seen' = seen \cup {m.sn}
  /\ UNCHANGED txVars

AckArrives == \E m \in BagToSet(air) :
  /\ m.type = "ack"
  /\ TxReceiveAck(m)
  /\ UNCHANGED <<rxVars, seen>>

MrwArrives == \E m \in BagToSet(air) :
  /\ m.type = "mrw"
  /\ RxReceiveMrw(m)
  /\ UNCHANGED <<txVars, seen>>

MrwAckArrives == \E m \in BagToSet(air) :
  /\ m.type = "mrwAck"
  /\ TxReceiveMrwAck(m)
  /\ UNCHANGED <<rxVars, seen>>

\* The H-ARQ below gives a PDU up.
PduLost == \E m \in BagToSet(air) :
  /\ Take(m)
  /\ UNCHANGED <<thrown, txVars, rxVars, seen>>

Bounded ==
  /\ BagCardinality(air) <= AirBound
  /\ mrwSeq <= MrwBound
  /\ \A k \in Sdus : passedUp[k] <= 2

Next ==
  /\ thrown = "none"
  /\ \/ SduArrives
     \/ StatusTimerFires \/ PduTimerFires \/ MrwTimerFires \/ ReportTimerFires
     \/ PduArrives \/ AckArrives \/ MrwArrives \/ MrwAckArrives
     \/ PduLost
  /\ Bounded'

Spec == Init /\ [][Next]_vars

-----------------------------------------------------------------------------
(***************************************************************************)
(* Properties.                                                             *)
(***************************************************************************)

\* No check of either entity fails.
NoAmError == thrown = "none"

\* With a light load of SDUs that fit a PDU the only check that can fail is the
\* one nobody wrote: a command that reaches a receiver no data PDU ever reached,
\* which then answers without control information (a NULL pointer).
OnlyWithoutContact == NoAmError \/ (thrown = "noControlInfo" /\ seen = {})

\* The windows are nested: the receiver's begins within what the sender has
\* outstanding, so no PDU is beyond it and no command moves it too far.
WindowsNested == txFirst <= rxFirst /\ rxFirst <= txSeq

\* The sender takes a PDU for received only when it was, or when it had given
\* it up itself: otherwise it stops the timer of a PDU that was lost and moves
\* past it, and the SDU is lost with nobody noticing.
ReceivedWasSeen == txReceived \subseteq seen \cup txDiscarded

\* An SDU reaches the upper layer at most once.
PassedUpOnce == \A k \in Sdus : passedUp[k] <= 1

\* An SDU that reaches the upper layer is complete.
PassedUpComplete == \A k \in Sdus : passedUp[k] > 0 => FragmentsOf(k) \subseteq seen

\* A command to move the receiver's window covers only PDUs that were received
\* or that the sender has given up after MaxRtx retransmissions.
NothingSkipped ==
  \A sn \in Sns : sn < rxFirst /\ sn >= txFirst => sn \in txReceived \cup txDiscarded

\* The window of the sender leaves behind an SDU only when it was passed up or
\* MaxRtx retransmissions of one of its fragments were made.
LeftBehindOnlyWhenDone ==
  \A k \in Sdus : FirstSn[k + 1] <= txFirst =>
    passedUp[k] > 0 \/ \E sn \in FragmentsOf(k) : txNumber[sn] = MaxRtx
=============================================================================
