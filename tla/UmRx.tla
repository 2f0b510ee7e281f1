-------------------------------- MODULE UmRx --------------------------------
(***************************************************************************)
(* The receiving side of RLC unacknowledged mode (UmRxEntity): a window of *)
(* PDUs that waits, with a timer, for the ones that are missing, and the   *)
(* reassembly of SDUs from PDUs in the order of their numbers.  Failed     *)
(* checks of the code, its containers' included, are recorded in thrown.   *)
(* resetFlag_ is never set anywhere, so its branches are not modelled.     *)
(***************************************************************************)
EXTENDS UmTx, Integers

CONSTANTS
  RxWindowSize,      \* the parameter rxWindowSize
  Nothing            \* no PDU in a position, no SDU awaiting its rest

ASSUME UmRxAssumption ==
  RxWindowSize \in Nat \ {0} /\ Nothing \notin Pdus /\ Nothing \notin Chunks

VARIABLES
  multicast,         \* is this a D2D_MULTI connection
  init,              \* init_
  windowSize,        \* rxWindowDesc_.windowSize_
  firstSno,          \* rxWindowDesc_.firstSno_
  reorderFrom,       \* rxWindowDesc_.firstSnoForReordering_
  reorderingSno,     \* rxWindowDesc_.reorderingSno_
  highestSno,        \* rxWindowDesc_.highestReceivedSno_, one past the highest
  pduBuffer,         \* pduBuffer_, and received_ where it is not Nothing
  timer,             \* t_reordering_ is running
  buffered,          \* buffered_, the SDU that awaits its rest
  lastSnoDelivered,  \* lastSnoDelivered_
  passedUp,          \* the SDUs passed up, in order
  counted,           \* the SDUs that statistics count as lost
  thrown             \* what ended the simulation, or "none"

umRxWindow == <<windowSize, firstSno, reorderFrom, reorderingSno, highestSno>>
umRxVars == <<multicast, init, umRxWindow, pduBuffer, timer, buffered, lastSnoDelivered,
              passedUp, counted, thrown>>

Positions == 0 .. RxWindowSize - 1

UmRxTypeOK ==
  /\ multicast \in BOOLEAN /\ init \in BOOLEAN /\ timer \in BOOLEAN
  /\ windowSize \in {1, RxWindowSize}
  /\ firstSno \in Nat /\ reorderFrom \in Nat
  /\ reorderingSno \in Nat /\ highestSno \in Nat
  /\ pduBuffer \in [Positions -> Pdus \cup {Nothing}]
  /\ buffered \in Chunks \cup {Nothing}
  /\ lastSnoDelivered \in Sdus \cup {0}
  /\ passedUp \in Seq(Sdus)
  /\ counted \subseteq Sdus
  /\ thrown \in {"none", "reassembly", "busyPosition", "outOfRange"}

EmptyBuffer == [i \in Positions |-> Nothing]

UmRxInit ==
  /\ multicast \in BOOLEAN
  /\ init = FALSE
  /\ windowSize = RxWindowSize
  /\ firstSno = 0 /\ reorderFrom = 0 /\ reorderingSno = 0 /\ highestSno = 0
  /\ pduBuffer = EmptyBuffer
  /\ timer = FALSE
  /\ buffered = Nothing
  /\ lastSnoDelivered = 0
  /\ passedUp = <<>>
  /\ counted = {}
  /\ thrown = "none"

-----------------------------------------------------------------------------
(***************************************************************************)
(* Reassembly, as a function of what it works on.                          *)
(***************************************************************************)
Assembly == [buffered |-> buffered, last |-> lastSnoDelivered, up |-> <<>>,
             lost |-> {}, failed |-> FALSE]

\* Mutant: the SDU passed up is counted as well.
ToPdcpOneMore(a, sdu) ==
  [a EXCEPT !.up = Append(@, sdu), !.lost = @ \cup (a.last + 1 .. sdu), !.last = sdu]

\* toPdcp: the numbers passed over since the last SDU are counted as lost.
ToPdcp(a, sdu) ==
  [a EXCEPT !.up = Append(@, sdu), !.lost = @ \cup (a.last + 1 .. sdu - 1), !.last = sdu]

Dropped(a) == [a EXCEPT !.buffered = Nothing]

Continues(a, chunk) == a.buffered # Nothing /\ a.buffered.sdu = chunk.sdu

WholeSdu(a, chunk) ==
  IF chunk.len # SduSize THEN [a EXCEPT !.failed = TRUE]
  ELSE Dropped(ToPdcp(a, chunk.sdu))

LastPart(a, chunk) ==
  LET length == a.buffered.len + chunk.len
  IN  IF ~Continues(a, chunk) \/ length < SduSize THEN Dropped(a)
      ELSE IF length > SduSize THEN [a EXCEPT !.failed = TRUE]
      ELSE Dropped(ToPdcp(a, chunk.sdu))

MidPart(a, chunk) ==
  IF Continues(a, chunk) THEN [a EXCEPT !.buffered.len = @ + chunk.len] ELSE Dropped(a)

\* What the framing info makes of a chunk, by its place in the PDU.
TakeChunk(a, pdu, i) ==
  LET chunk == pdu.chunks[i]
      isRest == i = 1 /\ pdu.startFrag
      isCut == i = Len(pdu.chunks) /\ pdu.endFrag
  IN  CASE isRest /\ isCut -> MidPart(a, chunk)
        [] isRest /\ ~isCut -> LastPart(a, chunk)
        [] ~isRest /\ isCut -> [a EXCEPT !.buffered = chunk]
        [] ~isRest /\ ~isCut -> WholeSdu(a, chunk)

TakePdu(a, pdu) ==
  LET after[i \in 0 .. Len(pdu.chunks)] ==
        IF i = 0 THEN a
        ELSE IF after[i - 1].failed THEN after[i - 1] ELSE TakeChunk(after[i - 1], pdu, i)
  IN  after[Len(pdu.chunks)]

\* reassemble of the positions from .. to - 1, in order, those without a PDU skipped.
Reassembled(a, buffer, from, to) ==
  LET after[p \in from .. to] ==
        IF p = from THEN a
        ELSE IF buffer[p - 1] = Nothing THEN after[p - 1]
        ELSE TakePdu(after[p - 1], buffer[p - 1])
  IN  after[to]

\* What reassembly leaves behind; it is the last thing a caller says.
TakesOver(a) ==
  /\ buffered' = a.buffered
  /\ lastSnoDelivered' = a.last
  /\ passedUp' = passedUp \o a.up
  /\ counted' = counted \cup a.lost

Without(buffer, P) == [i \in Positions |-> IF i \in P THEN Nothing ELSE buffer[i]]

-----------------------------------------------------------------------------
(***************************************************************************)
(* enque                                                                   *)
(***************************************************************************)
\* The first PDU of a multicast connection sets the window, of one position.
SetsWindow == multicast /\ ~init

Window(tsn) ==
  IF SetsWindow THEN [first |-> tsn, from |-> tsn, high |-> tsn, size |-> 1]
  ELSE [first |-> firstSno, from |-> reorderFrom, high |-> highestSno, size |-> windowSize]

Received(buffer, first, sn) == buffer[sn - first] # Nothing

\* Mutant: what left the window is told from its first position.
ConsideredNot(tsn) == tsn < firstSno

\* "x was already considered for reordering & reassembling"
Considered(tsn) == tsn < reorderFrom

AlreadyReceived(tsn) ==
  ~Considered(tsn) /\ tsn < highestSno /\ Received(pduBuffer, firstSno, tsn)

\* A PDU beyond the window moves it as far as the highest number moves, though
\* not past the PDU itself, in steps of at most the window size.
Shift(w, tsn) ==
  IF tsn < w.high \/ w.first + w.size >= tsn + 1 THEN 0
  ELSE LET shift == tsn + 1 - w.high
       IN  IF w.first + shift > tsn THEN tsn - w.first ELSE shift

ShiftedBuffer(buffer, n) ==
  [i \in Positions |-> IF i + n \in Positions THEN buffer[i + n] ELSE Nothing]

\* Mutant: it stops where nothing is given up any more.
NextMissingNot(buffer, first, from, high, until) ==
  CHOOSE n \in from .. high :
    /\ n = high \/ n >= until
    /\ \A m \in from .. n - 1 : m < until

\* Where the reordering goes on from: past the PDUs received, and past those
\* that are given up, which the numbers below until are; at the highest at most.
NextMissing(buffer, first, from, high, until) ==
  CHOOSE n \in from .. high :
    /\ n = high \/ ~(n < until \/ Received(buffer, first, n))
    /\ \A m \in from .. n - 1 : m < until \/ Received(buffer, first, m)

TimerGoesOn(first, from, high) ==
  timer /\ ~(reorderingSno <= from \/ reorderingSno < first \/ reorderingSno > high)

EnqueDiscards(pdu) ==
  /\ ~SetsWindow
  /\ Considered(pdu.sno) \/ AlreadyReceived(pdu.sno)
  /\ UNCHANGED umRxVars

\* The position of the PDU is checked, as is, by then, its being free.
EnqueFails(pdu, w, n) ==
  /\ LET p == pdu.sno - (w.first + n)
     IN  \/ /\ p \notin Positions
            /\ thrown' = "outOfRange"
         \/ /\ p \in Positions /\ ShiftedBuffer(pduBuffer, n)[p] # Nothing
            /\ thrown' = "busyPosition"
  /\ UNCHANGED <<multicast, init, umRxWindow, pduBuffer, timer, buffered,
                 lastSnoDelivered, passedUp, counted>>

EnqueBuffers(pdu, w, n) ==
  LET first == w.first + n
      high == IF pdu.sno < w.high THEN w.high ELSE pdu.sno + 1
      from == IF w.from < first THEN first ELSE w.from
      p == pdu.sno - first
      shifted == [ShiftedBuffer(pduBuffer, n) EXCEPT ![p] = pdu]
      next == NextMissing(shifted, first, from, high, 0)
      \* first what the shift pushes out of the window, then what is in order
      inOrder == [i \in 0 .. n + RxWindowSize - 1 |->
                    IF i < n THEN (IF i \in Positions THEN pduBuffer[i] ELSE Nothing)
                    ELSE shifted[i - n]]
      a == Reassembled(Assembly, inOrder, 0, n + (next - first))
  IN  /\ p \in Positions /\ ShiftedBuffer(pduBuffer, n)[p] = Nothing
      /\ firstSno' = first
      /\ highestSno' = high
      /\ reorderFrom' = next
      /\ pduBuffer' = Without(shifted, from - first .. next - first - 1)
      /\ timer' = (TimerGoesOn(first, next, high) \/ high > next)
      /\ reorderingSno' = IF TimerGoesOn(first, next, high) \/ high = next
                          THEN reorderingSno ELSE high
      /\ TakesOver(a)
      /\ thrown' = IF a.failed THEN "reassembly" ELSE "none"
      /\ windowSize' = w.size
      /\ init' = (init \/ SetsWindow)
      /\ UNCHANGED multicast

EnquePdu(pdu) ==
  LET w == Window(pdu.sno)
      n == Shift(w, pdu.sno)
  IN  \/ EnqueDiscards(pdu)
      \/ /\ SetsWindow \/ ~(Considered(pdu.sno) \/ AlreadyReceived(pdu.sno))
         /\ EnqueFails(pdu, w, n) \/ EnqueBuffers(pdu, w, n)

-----------------------------------------------------------------------------
\* Mutant: what came after the gap is left to the next PDU.
RestartsTimerNot(high, from) == FALSE

RestartsTimer(high, from) == high > from

\* handleMessage: t-reordering expires.
ReordersFrom ==
  /\ timer
  /\ reorderFrom' = NextMissing(pduBuffer, firstSno, reorderFrom, highestSno, reorderingSno)

TimerExpires ==
  /\ ReordersFrom
  /\ LET from == reorderFrom - firstSno
         to == reorderFrom' - firstSno
         a == Reassembled(Assembly, pduBuffer, from, to)
     IN  /\ pduBuffer' = Without(pduBuffer, from .. to - 1)
         /\ TakesOver(a)
         /\ thrown' = IF a.failed THEN "reassembly" ELSE thrown
  /\ timer' = RestartsTimer(highestSno, reorderFrom')
  /\ reorderingSno' = IF timer' THEN highestSno ELSE reorderingSno
  /\ UNCHANGED <<multicast, init, windowSize, firstSno, highestSno>>

\* rlcHandleD2DModeSwitch of the entity of the old mode; the window stays.
UmRxOldMode ==
  /\ LET a == Reassembled(Assembly, pduBuffer, 0, RxWindowSize)
     IN  /\ TakesOver([a EXCEPT !.buffered = Nothing])
         /\ thrown' = IF a.failed THEN "reassembly" ELSE thrown
  /\ pduBuffer' = EmptyBuffer
  /\ timer' = FALSE
  /\ UNCHANGED <<multicast, init, umRxWindow>>

\* The same of the entity of the new mode.
UmRxNewMode ==
  /\ firstSno' = 0 /\ reorderFrom' = 0 /\ reorderingSno' = 0 /\ highestSno' = 0
  /\ lastSnoDelivered' = 0
  /\ UNCHANGED <<multicast, init, windowSize, pduBuffer, timer, buffered, passedUp, counted,
                 thrown>>

\* deleteQueues, and the entity made for the next PDU.
UmRxDeleted ==
  /\ init' = FALSE
  /\ windowSize' = RxWindowSize
  /\ firstSno' = 0 /\ reorderFrom' = 0 /\ reorderingSno' = 0 /\ highestSno' = 0
  /\ pduBuffer' = EmptyBuffer
  /\ timer' = FALSE
  /\ buffered' = Nothing
  /\ lastSnoDelivered' = 0
  /\ UNCHANGED <<multicast, passedUp, counted, thrown>>
=============================================================================
