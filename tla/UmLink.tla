------------------------------- MODULE UmLink -------------------------------
(***************************************************************************)
(* A connection of RLC unacknowledged mode: both entities, the MAC that    *)
(* asks for PDUs and loses or reorders them (H-ARQ gives up, and sends     *)
(* again), the D2D mode switches that leave the connection and come back   *)
(* to it, and the handovers that start it anew.                            *)
(***************************************************************************)
EXTENDS UmRx

VARIABLES
  link,              \* PDUs between the two entities
  away,              \* the flow has the other mode
  restarted          \* was the receiver's numbering ever reset

vars == <<umTxVars, umRxVars, link, away, restarted>>

UmTypeOK ==
  /\ UmTxTypeOK
  /\ UmRxTypeOK
  /\ link \subseteq Pdus
  /\ away \in BOOLEAN /\ restarted \in BOOLEAN

Init ==
  /\ UmTxInit
  /\ UmRxInit
  /\ link = {}
  /\ away = FALSE
  /\ restarted = FALSE

-----------------------------------------------------------------------------
\* PDCP sends to the connection of the new mode before RLC hears of the switch.
SduArrives ==
  /\ Enque
  /\ UNCHANGED <<umRxVars, link, away, restarted>>

MacRequests == \E space \in Spaces :
  /\ ~away
  /\ RlcPduMake(space)
  /\ link' = link \cup {MadePdu(space)}
  /\ UNCHANGED <<umRxVars, away, restarted>>

PduIsLost == \E pdu \in link :
  /\ link' = link \ {pdu}
  /\ UNCHANGED <<umTxVars, umRxVars, away, restarted>>

PduArrives == \E pdu \in link :
  /\ link' = link \ {pdu}
  /\ EnquePdu(pdu)
  /\ UNCHANGED <<umTxVars, away, restarted>>

ReorderingExpires ==
  /\ TimerExpires
  /\ UNCHANGED <<umTxVars, link, away, restarted>>

\* Both ends hear of a switch in the same TTI, in which MAC drops what is
\* between them.  A multicast connection has one mode.
LeaveMode ==
  /\ ~multicast /\ ~away
  /\ UmTxOldMode
  /\ UmRxOldMode
  /\ link' = {}
  /\ away' = TRUE
  /\ UNCHANGED restarted

ReturnToMode ==
  /\ away
  /\ UmTxNewMode
  /\ UmRxNewMode
  /\ away' = FALSE
  /\ restarted' = TRUE
  /\ UNCHANGED link

HandOver ==
  /\ ~multicast
  /\ UmTxDeleted
  /\ UmRxDeleted
  /\ link' = {}
  /\ away' = FALSE
  /\ restarted' = TRUE

Next ==
  /\ thrown = "none"
  /\ \/ SduArrives \/ MacRequests
     \/ PduIsLost \/ PduArrives \/ ReorderingExpires
     \/ LeaveMode \/ ReturnToMode \/ HandOver

Spec == Init /\ [][Next]_vars

\* A timer that runs expires, unless it is stopped before: only ReorderingExpires
\* moves reorderFrom and leaves the link alone.
FairSpec == Spec /\ WF_reorderFrom(thrown = "none" /\ ReordersFrom /\ UNCHANGED link)

-----------------------------------------------------------------------------
(***************************************************************************)
(* Properties.                                                             *)
(***************************************************************************)

\* No check of the receiver ends the simulation: what it reassembles has the
\* size of the SDU, and every position it addresses exists and is free,
\* whatever is lost or late and wherever fragments are cut.
NothingThrown == thrown = "none"

\* The receiver's variables stay in order, PDUs are held back only from where
\* it reorders, each at its own position, and never without the timer that will
\* let them go.
WindowSound ==
  /\ firstSno <= reorderFrom /\ reorderFrom <= highestSno
  /\ highestSno <= firstSno + windowSize
  /\ timer => reorderFrom < reorderingSno /\ reorderingSno <= highestSno
  /\ \A i \in Positions : pduBuffer[i] # Nothing =>
       /\ timer
       /\ pduBuffer[i].sno = firstSno + i
       /\ reorderFrom < firstSno + i /\ firstSno + i < highestSno

\* Until its numbering is reset, the receiver's statistics are exact: an SDU is
\* counted as lost when a later one is passed up without it, and only then.
\* That number 0 is never counted is how toPdcp compares.
LossesAreExact ==
  ~restarted =>
    counted = {k \in 1 .. lastSnoDelivered : \A i \in DOMAIN passedUp : passedUp[i] # k}

\* Whatever is lost, late or cut in pieces, and across mode switches and
\* handovers, SDUs are passed up in order and none twice.
Service == INSTANCE UmService WITH sent <- arrived, passed <- passedUp

ImplementsService == Service!Spec

\* A PDU is not held back for ever by one that is missing.  Number 0 has no
\* predecessor; for the numbers beyond a window it is the same again.
HeldBack(n) == \E i \in Positions : pduBuffer[i] # Nothing /\ pduBuffer[i].sno = n

HeldBackNotForever == \A n \in 1 .. RxWindowSize : HeldBack(n) ~> ~HeldBack(n)
=============================================================================
