----------------------------- MODULE UmLinkInv -----------------------------
(***************************************************************************)
(* The inductive invariant of UmLink.  The SDUs in their order are a       *)
(* stream of bytes, which the sender cuts into PDUs: begin[n] is the place *)
(* in the stream where the PDU of number n begins, and begin[sno] where    *)
(* the next one will.                                                      *)
(***************************************************************************)
EXTENDS UmLink

\* A place in the stream: off bytes of an SDU are before it.
Places == [sdu : Nat, off : Nat]

Upto(p, q) == p.sdu < q.sdu \/ (p.sdu = q.sdu /\ p.off <= q.off)

\* Where in its SDU a chunk of a PDU begins that begins itself at p.
ChunkOff(p, i) == IF i = 1 THEN p.off ELSE 0

IsCut(pdu, i) == i = Len(pdu.chunks) /\ pdu.endFrag

\* The PDU has the bytes of the stream from p on, up to a place of an SDU or
\* to the end of one, and its framing says so.
CutAt(pdu, p) ==
  /\ Len(pdu.chunks) > 0
  /\ pdu.startFrag <=> p.off > 0
  /\ \A i \in 1 .. Len(pdu.chunks) :
       /\ pdu.chunks[i].sdu = p.sdu + (i - 1)
       /\ IF IsCut(pdu, i) THEN ChunkOff(p, i) + pdu.chunks[i].len < SduSize
                           ELSE ChunkOff(p, i) + pdu.chunks[i].len = SduSize

\* Where the next PDU can begin.
EndOf(pdu, p) ==
  LET n == Len(pdu.chunks)
  IN  IF pdu.endFrag
      THEN [sdu |-> p.sdu + (n - 1), off |-> ChunkOff(p, n) + pdu.chunks[n].len]
      ELSE [sdu |-> p.sdu + n, off |-> 0]

\* Where the sender is.
TxPlace ==
  IF sduQueue = <<>> THEN [sdu |-> arrived, off |-> 0]
  ELSE [sdu |-> sduQueue[1].sdu, off |-> SduSize - sduQueue[1].len]

-----------------------------------------------------------------------------
\* The queue ends with the SDU that arrived last, and only its first is cut.
QueueShape ==
  /\ \A i \in 1 .. Len(sduQueue) :
       /\ sduQueue[i].sdu + Len(sduQueue) = arrived + (i - 1)
       /\ i > 1 => sduQueue[i].len = SduSize
  /\ firstIsFragment <=> sduQueue # <<>> /\ sduQueue[1].len < SduSize

\* PDUs that the receiver has not reassembled.
Outstanding == link \cup ({pduBuffer[i] : i \in Positions} \ {Nothing})

\* What is cut later begins later.
Ordered(begin, n) == \A i, j \in 0 .. n : i <= j => Upto(begin[i], begin[j])

CutPdu(begin, pdu) ==
  /\ CutAt(pdu, begin[pdu.sno])
  /\ Upto(EndOf(pdu, begin[pdu.sno]), begin[pdu.sno + 1])

Cuts(begin) ==
  /\ begin[sno] = TxPlace
  /\ Ordered(begin, sno)
  /\ \A pdu \in Outstanding : pdu.sno < sno /\ CutPdu(begin, pdu)

-----------------------------------------------------------------------------
\* The window has one position where it was set by the first PDU; before that,
\* and while the flow has the other mode, nothing is held back.
WindowShape ==
  /\ windowSize = IF multicast /\ init THEN 1 ELSE RxWindowSize
  /\ highestSno <= sno
  /\ SetsWindow => highestSno = 0
  /\ away => ~multicast /\ ~timer /\ link = {} /\ pduBuffer = EmptyBuffer

\* What awaits its rest is before p.
RestSeen(rest, p) ==
  rest # Nothing =>
    /\ rest.len < SduSize
    /\ Upto([sdu |-> rest.sdu, off |-> rest.len], p)

\* The SDUs passed up, u, are before p and in their order.
UpSeen(u, p) ==
  \A i \in 1 .. Len(u) :
    /\ u[i] < p.sdu
    /\ \A j \in 1 .. i - 1 : u[j] < u[i]

\* SDUs are counted when a later one is passed up without them.
CountedSeen(u, last, count) ==
  /\ last = IF u = <<>> THEN 0 ELSE u[Len(u)]
  /\ count = {k \in 1 .. last : \A i \in 1 .. Len(u) : u[i] # k}

\* The receiver has seen the stream up to where the PDU begins from which on
\* it reorders.
Seen(begin) ==
  /\ RestSeen(buffered, begin[reorderFrom])
  /\ UpSeen(passedUp, begin[reorderFrom])
  /\ ~restarted => CountedSeen(passedUp, lastSnoDelivered, counted)
  /\ away => buffered = Nothing

UmIInv ==
  /\ UmTypeOK
  /\ NothingThrown
  /\ WindowSound
  /\ WindowShape
  /\ QueueShape
  /\ \E begin \in [Nat -> Places] : Cuts(begin) /\ Seen(begin)
=============================================================================
