----------------------------- MODULE AmLinkInv -----------------------------
(***************************************************************************)
(* The inductive invariant of AmLink, for SDUs that fit a PDU and a load   *)
(* of at most half a receive window.                                       *)
(***************************************************************************)
EXTENDS AmLink

\* Every SDU fits a PDU: its number is the sequence number of its fragment.
OneFragmentEach == \A k \in 0 .. NumSdus : FirstSn[k] = k

\* No window moves by more than half its size at once.
LightLoad == 2 * Load <= RxWindow

InAir(type) == {m \in BagToSet(air) : m.type = type}

Window == txFirst .. txSeq - 1

\* What the sender holds.
Outstanding ==
  /\ txFirst <= rxFirst /\ rxFirst <= txSeq
  /\ txSeq <= arrived /\ arrived <= txFirst + Load
  /\ txSeq <= txFirst + TxWindow

\* Marks and timers are of PDUs in the window, and nothing marked is timed.
MarkedOrTimed ==
  /\ txReceived \subseteq Window
  /\ txDiscarded \subseteq Window
  /\ pduTimers \subseteq Window \ Done

\* Everything in the air or seen was sent.
SentBefore ==
  /\ \A m \in InAir("data") : m.sn < txSeq
  /\ \A sn \in seen : sn < txSeq

\* An acknowledgement, once it arrives, marks only what was seen or given up.
AcksTrue ==
  \A m \in InAir("ack") :
    /\ m.last < txSeq
    /\ m.bits \subseteq seen
    /\ \A sn \in txFirst .. m.last : sn \in seen \/ sn \in txDiscarded

\* A command covers only what the sender is done with.
MrwsCoverDone ==
  \A m \in InAir("mrw") \cup mrwQueue :
    /\ m.last <= txSeq
    /\ \A sn \in txFirst .. m.last - 1 : sn \in Done

\* What the answer to a command says, the receiver has done.
MrwAcksTrue == \A m \in InAir("mrwAck") : m.first <= rxFirst

\* The receiver's flags and buffer agree.
FlagsTrue == rxReceived = pduBuffer /\ rxReceived \subseteq seen

\* An SDU that was passed up is known by its flag as long as the window holds it.
PassedIsFlagged ==
  \A k \in Sdus : /\ passedUp[k] <= 1
                  /\ passedUp[k] > 0 => k < rxFirst \/ k \in rxReceived

\* Passed up, or sent as often as maxRtx allows.
Settled(k) == passedUp[k] > 0 \/ txNumber[k] = MaxRtx

SettledBehind ==
  /\ \A k \in Sdus : k < rxFirst => Settled(k)
  /\ \A k \in seen : Settled(k)
  /\ \A k \in txDiscarded : txNumber[k] = MaxRtx

InContact == ~knowsPeer => seen = {}

\* The conjunction of the above: it holds in every state (AmRx, AmTx).
AmIInv ==
  /\ AmTypeOK
  /\ OnlyWithoutContact
  /\ Outstanding
  /\ MarkedOrTimed
  /\ SentBefore
  /\ AcksTrue
  /\ MrwsCoverDone
  /\ MrwAcksTrue
  /\ FlagsTrue
  /\ ReceivedWasSeen
  /\ NothingSkipped
  /\ PassedIsFlagged
  /\ SettledBehind
  /\ InContact
=============================================================================
