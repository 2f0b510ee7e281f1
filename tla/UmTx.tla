-------------------------------- MODULE UmTx --------------------------------
(***************************************************************************)
(* The sending side of RLC unacknowledged mode (UmTxEntity): a queue of    *)
(* SDUs that the MAC empties in PDUs of the sizes it has room for, each    *)
(* with whole SDUs and, at its ends, the last part of one and the first    *)
(* part of another.                                                        *)
(***************************************************************************)
EXTENDS Naturals, Sequences

CONSTANTS
  NumSdus,           \* bound: SDUs of a behaviour, numbered from 0 by PDCP
  SduSize,           \* bytes of an SDU
  Spaces             \* bytes a PDU may have room for, beside its header

ASSUME UmTxAssumption ==
  NumSdus \in Nat /\ SduSize \in Nat \ {0} /\ Spaces \subseteq Nat \ {0}

VARIABLES
  arrived,           \* SDUs PDCP has numbered (LtePdcpEntity::sequenceNumber_)
  sduQueue,          \* sduQueue_: SDUs with the bytes that are left of them
  firstIsFragment,   \* firstIsFragment_
  sno                \* sno_, the number of the next PDU

umTxVars == <<arrived, sduQueue, firstIsFragment, sno>>

Sdus == 0 .. NumSdus - 1
Chunks == [sdu : Sdus, len : 1 .. SduSize]

\* A PDU; its framing info says whether it starts, or ends, with a fragment.
Pdus == [sno : Nat, startFrag : BOOLEAN, endFrag : BOOLEAN, chunks : Seq(Chunks)]

UmTxTypeOK ==
  /\ arrived \in 0 .. NumSdus
  /\ sduQueue \in Seq(Chunks)
  /\ firstIsFragment \in BOOLEAN
  /\ sno \in Nat

UmTxInit ==
  /\ arrived = 0
  /\ sduQueue = <<>>
  /\ firstIsFragment = FALSE
  /\ sno = 0

\* nextSequenceNumber of PDCP and enque
Enque ==
  /\ arrived < NumSdus
  /\ sduQueue' = Append(sduQueue, [sdu |-> arrived, len |-> SduSize])
  /\ arrived' = arrived + 1
  /\ UNCHANGED <<firstIsFragment, sno>>

-----------------------------------------------------------------------------
\* Only the first SDU of the queue can have lost bytes to an earlier PDU.
BytesOfFirst(n) == IF n = 0 THEN 0 ELSE sduQueue[1].len + (n - 1) * SduSize

\* Mutant: an SDU that just fits is cut.
NumWholeStrict(space) ==
  CHOOSE n \in 0 .. Len(sduQueue) :
    /\ n = 0 \/ BytesOfFirst(n) < space
    /\ \A m \in n + 1 .. Len(sduQueue) : BytesOfFirst(m) >= space

NumWhole(space) ==
  CHOOSE n \in 0 .. Len(sduQueue) :
    /\ BytesOfFirst(n) <= space
    /\ \A m \in n + 1 .. Len(sduQueue) : BytesOfFirst(m) > space

\* Bytes of the SDU after the whole ones that still find room.
PartLen(space) ==
  IF NumWhole(space) = Len(sduQueue) THEN 0 ELSE space - BytesOfFirst(NumWhole(space))

PduChunks(space) ==
  SubSeq(sduQueue, 1, NumWhole(space))
    \o IF PartLen(space) = 0 THEN <<>>
       ELSE <<[sdu |-> sduQueue[NumWhole(space) + 1].sdu, len |-> PartLen(space)]>>

RemainingQueue(space) ==
  LET rest == SubSeq(sduQueue, NumWhole(space) + 1, Len(sduQueue))
  IN  IF PartLen(space) = 0 THEN rest
      ELSE [rest EXCEPT ![1].len = @ - PartLen(space)]

\* Mutant: the framing is that of the queue after this PDU was taken from it.
MadePduLate(space) ==
  [sno |-> sno, startFrag |-> PartLen(space) > 0, endFrag |-> PartLen(space) > 0,
   chunks |-> PduChunks(space)]

MadePdu(space) ==
  [sno |-> sno, startFrag |-> firstIsFragment, endFrag |-> PartLen(space) > 0,
   chunks |-> PduChunks(space)]

\* rlcPduMake; a PDU without data has no number and only tells the MAC so.
RlcPduMake(space) ==
  /\ sduQueue # <<>>
  /\ sduQueue' = RemainingQueue(space)
  /\ firstIsFragment' = (PartLen(space) > 0)
  /\ sno' = sno + 1
  /\ UNCHANGED arrived

-----------------------------------------------------------------------------
\* rlcHandleD2DModeSwitch of the entity of the old mode; its numbering stays.
UmTxOldMode ==
  /\ sduQueue' = <<>>
  /\ firstIsFragment' = FALSE
  /\ UNCHANGED <<arrived, sno>>

\* The same of the entity of the new mode.
UmTxNewMode ==
  /\ sno' = 0
  /\ UNCHANGED <<arrived, sduQueue, firstIsFragment>>

\* deleteQueues, and the entity made for the next SDU; PDCP goes on counting.
UmTxDeleted ==
  /\ sduQueue' = <<>>
  /\ firstIsFragment' = FALSE
  /\ sno' = 0
  /\ UNCHANGED arrived
=============================================================================
