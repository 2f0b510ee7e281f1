------------------------------ MODULE AmCommon ------------------------------
(***************************************************************************)
(* What the two RLC AM entities of a connection share: the SDUs and the    *)
(* sequence numbers their fragments get, the PDUs in the air, and the way  *)
(* an entity stops the simulation when a check fails.  SDUs are fragmented *)
(* in order and PDUs numbered without a gap, so the fragment a sequence    *)
(* number stands for is known from the sizes of the SDUs alone.            *)
(***************************************************************************)
EXTENDS Integers, Sequences, FiniteSets, Bags

CONSTANTS
  NumSdus,       \* SDUs that the upper layer offers, numbered from 0
  FirstSn,       \* FirstSn[k] is the number of the first fragment of SDU k
  TxWindow,      \* the parameter txWindowSize (200 by default)
  RxWindow,      \* the parameter rxWindowSize (20 by default)
  MaxRtx         \* the parameter maxRtx

ASSUME AmAssumption ==
  /\ NumSdus \in Nat \ {0}
  /\ FirstSn \in [0 .. NumSdus -> Nat] /\ FirstSn[0] = 0
  /\ \A k \in 0 .. NumSdus - 1 : FirstSn[k] < FirstSn[k + 1]
  /\ TxWindow \in Nat \ {0} /\ RxWindow \in Nat \ {0}
  /\ MaxRtx \in Nat

Sdus == 0 .. NumSdus - 1
Sns == 0 .. FirstSn[NumSdus] - 1

\* isFirst, isLast and isWhole of LteRlcAmPdu.
SduOf(sn) == CHOOSE k \in Sdus : FirstSn[k] <= sn /\ sn < FirstSn[k + 1]
FragmentsOf(k) == FirstSn[k] .. FirstSn[k + 1] - 1
IsFirst(sn) == sn = FirstSn[SduOf(sn)]
IsLast(sn) == sn + 1 = FirstSn[SduOf(sn) + 1]
IsWhole(sn) == IsFirst(sn) /\ IsLast(sn)

\* What a check of the code can report before it ends the simulation, or what
\* ends it unreported (a NULL pointer, an index a vector does not have).
Errors == {"busyPosition", "ackBeyondWindow", "timerOutOfWindow",
           "pduBeyondWindow", "moveBeyondWindow", "missingPdu", "noControlInfo"}

VARIABLES
  thrown,        \* "none", or the error the simulation ended with
  air            \* the bag of PDUs sent and not yet received or lost

Pdu(sn, n) == [type |-> "data", sn |-> sn, txNumber |-> n]
Ack(last, bits) == [type |-> "ack", last |-> last, bits |-> bits]
Mrw(n, last) == [type |-> "mrw", number |-> n, last |-> last]
MrwAck(n, first) == [type |-> "mrwAck", number |-> n, first |-> first]

Send(S) == air' = air (+) SetToBag(S)
Take(m) == air' = air (-) SetToBag({m})
Answer(m, S) == air' = (air (-) SetToBag({m})) (+) SetToBag(S)
=============================================================================
