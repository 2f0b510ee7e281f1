---------------------------- MODULE UmLinkProofs ----------------------------
(***************************************************************************)
(* The proofs about RLC UM: UmIInv is an invariant of UmLink, and from it  *)
(* follow, for every number and size of SDUs, every room in a PDU and      *)
(* every window, that no check of the receiver fails, that its window is   *)
(* sound, that losses are counted exactly, and the service it implements.  *)
(***************************************************************************)
EXTENDS UmLinkInv, WellFoundedInduction, TLAPS

(***************************************************************************)
(* Loops: the least number of a set, induction over an interval, and the   *)
(* values a loop takes on.                                                 *)
(***************************************************************************)
LEMMA LeastOf ==
  ASSUME NEW T \in SUBSET Nat, T # {}
  PROVE  \E s \in T : \A n \in T : s <= n
<1> DEFINE R == {p \in Nat \X Nat : p[1] < p[2]}
<1>1. IsWellFoundedOn(R, Nat)
  BY Zenon, NatLessThanWellFounded DEF OpToRel
<1>2. \A n, t \in Nat : n < t => <<n, t>> \in R
  OBVIOUS
<1> HIDE DEF R
<1>3. PICK s \in T : \A n \in T : ~(<<n, s>> \in R)
  BY <1>1, WFMin
<1>4. \A n \in T : s \in Nat /\ n \in Nat /\ ~(n < s)
  BY <1>2, <1>3
<1>5. \A n \in T : s <= n
  BY <1>4
<1>6. QED
  BY <1>5

LEMMA Induction ==
  ASSUME NEW lo \in Int, NEW hi \in Int, NEW S, lo \in S,
         \A i \in lo + 1 .. hi : i - 1 \in S => i \in S
  PROVE  lo .. hi \subseteq S
<1> DEFINE T == {n \in Nat : lo + n <= hi /\ lo + n \notin S}
<1>1. SUFFICES ASSUME T # {} PROVE FALSE
  <2>1. ASSUME NEW i \in lo .. hi, i \notin S PROVE FALSE
    <3>1. i - lo \in T
      BY <2>1
    <3>2. QED
      BY <1>1, <3>1
  <2>2. QED
    BY <2>1
<1>2. PICK s \in T : \A n \in T : s <= n
  BY <1>1, LeastOf
<1>3. s \in Nat /\ lo + s <= hi /\ lo + s \notin S /\ s # 0
  BY <1>2
<1>4. s - 1 \in Nat /\ s - 1 \notin T
  BY <1>2, <1>3
<1>5. lo + (s - 1) \in S /\ lo + s \in lo + 1 .. hi /\ (lo + s) - 1 = lo + (s - 1)
  BY <1>3, <1>4
<1>6. QED
  BY <1>3, <1>5

\* The rounds of a loop, and the values it takes on, from the value base.
Rounds(T, lo, hi) == [lo + 1 .. hi -> [T -> T]]

IsRun(r, T, lo, hi, base, step) ==
  /\ r \in [lo .. hi -> T]
  /\ r[lo] = base
  /\ \A i \in lo + 1 .. hi : r[i] = step[i][r[i - 1]]

LEMMA Iterates ==
  ASSUME NEW T, NEW lo \in Int, NEW hi \in Int, lo <= hi, NEW base \in T,
         NEW step \in Rounds(T, lo, hi)
  PROVE  \E r : IsRun(r, T, lo, hi, base, step)
<1> DEFINE S == {k \in lo .. hi : \E r : IsRun(r, T, lo, k, base, step)}
<1>1. lo \in S
  <2> DEFINE r == [i \in lo .. lo |-> base]
  <2>1. IsRun(r, T, lo, lo, base, step)
    BY DEF IsRun
  <2> HIDE DEF r
  <2>2. QED
    BY <2>1
<1>2. ASSUME NEW k \in lo + 1 .. hi, k - 1 \in S PROVE k \in S
  <2>1. PICK q : IsRun(q, T, lo, k - 1, base, step)
    BY <1>2
  <2> DEFINE r == [i \in lo .. k |-> IF i = k THEN step[k][q[k - 1]] ELSE q[i]]
  <2>2. q \in [lo .. k - 1 -> T] /\ q[k - 1] \in T
    BY <2>1 DEF IsRun
  <2>3. step[k][q[k - 1]] \in T
    BY <2>2 DEF Rounds
  <2>4. r \in [lo .. k -> T]
    BY <2>2, <2>3
  <2>5. r[lo] = base
    BY <2>1 DEF IsRun
  <2>6. ASSUME NEW i \in lo + 1 .. k PROVE r[i] = step[i][r[i - 1]]
    <3>1. CASE i = k
      BY <3>1
    <3>2. CASE i # k
      <4>1. i \in lo + 1 .. k - 1 /\ r[i] = q[i] /\ r[i - 1] = q[i - 1]
        BY <3>2
      <4>2. QED
        BY <2>1, <4>1 DEF IsRun
    <3>3. QED
      BY <3>1, <3>2
  <2>7. IsRun(r, T, lo, k, base, step)
    BY <2>4, <2>5, <2>6 DEF IsRun
  <2> HIDE DEF r
  <2>8. QED
    BY <2>7
<1> HIDE DEF S
<1>3. lo .. hi \subseteq S
  BY <1>1, <1>2, Induction
<1>4. hi \in S
  BY <1>3
<1>5. QED
  BY <1>4 DEF S

(***************************************************************************)
(* Reassembly as a loop over the chunks of a PDU, and over PDUs.           *)
(***************************************************************************)
Assemblies ==
  [buffered : [sdu : Sdus, len : Nat \ {0}] \cup {Nothing}, last : Sdus \cup {0}, up : Seq(Sdus),
   lost : SUBSET Sdus, failed : BOOLEAN]

LEMMA Shape ==
  /\ NumSdus \in Nat /\ SduSize \in Nat \ {0} /\ Spaces \subseteq Nat \ {0}
  /\ RxWindowSize \in Nat \ {0} /\ Nothing \notin Pdus /\ Nothing \notin Chunks
BY UmTxAssumption, UmRxAssumption

LEMMA TakeChunkType ==
  ASSUME NEW a \in Assemblies, NEW pdu \in Pdus, NEW i \in 1 .. Len(pdu.chunks)
  PROVE  TakeChunk(a, pdu, i) \in Assemblies
<1> DEFINE chunk == pdu.chunks[i]
<1>1. chunk \in Chunks
  BY DEF Pdus
<1>2. chunk.sdu \in Sdus /\ chunk.len \in Nat /\ chunk \in [sdu : Sdus, len : Nat \ {0}]
  BY <1>1, Shape DEF Chunks
<1> HIDE DEF chunk
<1>3. \A sdu \in Sdus : ToPdcp(a, sdu) \in Assemblies
  <2> SUFFICES ASSUME NEW sdu \in Sdus PROVE ToPdcp(a, sdu) \in Assemblies
    OBVIOUS
  <2>1. a.last + 1 .. sdu - 1 \subseteq Sdus
    BY Shape DEF Assemblies, Sdus
  <2>2. Append(a.up, sdu) \in Seq(Sdus)
    BY DEF Assemblies
  <2>3. QED
    BY <2>1, <2>2 DEF Assemblies, ToPdcp
<1>4. \A b \in Assemblies : Dropped(b) \in Assemblies
  BY DEF Dropped, Assemblies
<1>5. [a EXCEPT !.failed = TRUE] \in Assemblies
  BY DEF Assemblies
<1>6. MidPart(a, chunk) \in Assemblies
  <2>1. CASE Continues(a, chunk)
    <3>1. a.buffered \in [sdu : Sdus, len : Nat \ {0}]
      BY <2>1 DEF Continues, Assemblies
    <3>2. [a.buffered EXCEPT !.len = @ + chunk.len] \in [sdu : Sdus, len : Nat \ {0}]
      BY <1>2, <3>1
    <3>3. QED
      BY <2>1, <3>2 DEF MidPart, Assemblies
  <2>2. QED
    BY <1>4, <2>1 DEF MidPart
<1>7. LastPart(a, chunk) \in Assemblies
  BY <1>2, <1>3, <1>4, <1>5 DEF LastPart
<1>8. WholeSdu(a, chunk) \in Assemblies
  BY <1>2, <1>3, <1>4, <1>5 DEF WholeSdu
<1>9. [a EXCEPT !.buffered = chunk] \in Assemblies
  BY <1>2 DEF Assemblies
<1>10. QED
  BY <1>6, <1>7, <1>8, <1>9, Zenon DEF TakeChunk, chunk

\* One round of the loop over the chunks.
ChunkTaken(a, pdu, i) == IF a.failed THEN a ELSE TakeChunk(a, pdu, i)

LEMMA ChunkLoop ==
  ASSUME NEW a \in Assemblies, NEW pdu \in Pdus
  PROVE  \E r \in [0 .. Len(pdu.chunks) -> Assemblies] :
           /\ r[0] = a
           /\ \A i \in 1 .. Len(pdu.chunks) : r[i] = ChunkTaken(r[i - 1], pdu, i)
           /\ TakePdu(a, pdu) = r[Len(pdu.chunks)]
<1> DEFINE N == Len(pdu.chunks)
           step == [i \in 0 + 1 .. N |-> [b \in Assemblies |-> ChunkTaken(b, pdu, i)]]
           Body(f, i) == IF i = 0 THEN a
                         ELSE IF f[i - 1].failed THEN f[i - 1] ELSE TakeChunk(f[i - 1], pdu, i)
           g == CHOOSE f : f = [i \in 0 .. N |-> Body(f, i)]
<1>1. N \in Nat /\ N \in Int /\ 0 \in Int /\ 0 <= N
  BY DEF Pdus
<1>2. \A b \in Assemblies, i \in 0 + 1 .. N : ChunkTaken(b, pdu, i) \in Assemblies
  BY TakeChunkType DEF ChunkTaken
<1>3. step \in Rounds(Assemblies, 0, N)
  BY <1>2 DEF Rounds
<1>4. \A b \in Assemblies, i \in 0 + 1 .. N : step[i][b] = ChunkTaken(b, pdu, i)
  OBVIOUS
<1> HIDE DEF step, N
<1>5. PICK r : IsRun(r, Assemblies, 0, N, a, step)
  BY <1>1, <1>3, Iterates
<1>6. \A i \in 0 + 1 .. N : r[i - 1] \in Assemblies /\ r[i] = ChunkTaken(r[i - 1], pdu, i)
  BY <1>1, <1>4, <1>5 DEF IsRun
<1>7. r = [i \in 0 .. N |-> Body(r, i)]
  BY <1>1, <1>5, <1>6 DEF ChunkTaken, IsRun
<1>8. g = [i \in 0 .. N |-> Body(g, i)]
  BY <1>7
<1> HIDE DEF g
<1>9. \A i \in 0 .. N : g[i] = Body(g, i)
  BY <1>8
<1> DEFINE S == {i \in 0 .. N : g[i] = r[i]}
<1>10. 0 \in S
  BY <1>1, <1>5, <1>9 DEF IsRun
<1>11. \A i \in 0 + 1 .. N : i - 1 \in S => i \in S
  BY <1>1, <1>6, <1>9 DEF ChunkTaken
<1>12. 0 .. N \subseteq S
  <2> HIDE DEF S
  <2>1. QED
    BY <1>1, <1>10, <1>11, Induction
<1>13. g[N] = r[N]
  BY <1>1, <1>12
<1>14. TakePdu(a, pdu) = g[N]
  BY DEF TakePdu, g, N
<1>15. QED
  BY <1>5, <1>6, <1>13, <1>14 DEF N, IsRun

\* One round of the loop over PDUs.
PduTaken(a, pdu) == IF pdu = Nothing THEN a ELSE TakePdu(a, pdu)

LEMMA TakePduType ==
  ASSUME NEW a \in Assemblies, NEW pdu \in Pdus
  PROVE  TakePdu(a, pdu) \in Assemblies
<1>1. PICK r \in [0 .. Len(pdu.chunks) -> Assemblies] : TakePdu(a, pdu) = r[Len(pdu.chunks)]
  BY ChunkLoop
<1>2. Len(pdu.chunks) \in Nat
  BY DEF Pdus
<1>3. QED
  BY <1>1, <1>2

HasPdus(buffer, from, to) == \A p \in from .. to - 1 : buffer[p] \in Pdus \cup {Nothing}

TakesPdus(r, a, buffer, from, to) ==
  /\ r \in [from .. to -> Assemblies]
  /\ r[from] = a
  /\ \A p \in from + 1 .. to : r[p] = PduTaken(r[p - 1], buffer[p - 1])
  /\ Reassembled(a, buffer, from, to) = r[to]

LEMMA PduLoop ==
  ASSUME NEW a \in Assemblies, NEW from \in Int, NEW to \in Int, from <= to, NEW buffer,
         HasPdus(buffer, from, to)
  PROVE  \E r : TakesPdus(r, a, buffer, from, to)
<1> DEFINE step == [p \in from + 1 .. to |-> [b \in Assemblies |-> PduTaken(b, buffer[p - 1])]]
           Body(f, p) == IF p = from THEN a
                         ELSE IF buffer[p - 1] = Nothing THEN f[p - 1]
                         ELSE TakePdu(f[p - 1], buffer[p - 1])
           g == CHOOSE f : f = [p \in from .. to |-> Body(f, p)]
<1>1. \A b \in Assemblies, p \in from + 1 .. to : PduTaken(b, buffer[p - 1]) \in Assemblies
  <2>1. \A p \in from + 1 .. to : buffer[p - 1] \in Pdus \cup {Nothing}
    BY DEF HasPdus
  <2>2. QED
    BY <2>1, TakePduType DEF PduTaken
<1>2. step \in Rounds(Assemblies, from, to)
  BY <1>1 DEF Rounds
<1>3. \A b \in Assemblies, p \in from + 1 .. to : step[p][b] = PduTaken(b, buffer[p - 1])
  OBVIOUS
<1> HIDE DEF step
<1>4. PICK r : IsRun(r, Assemblies, from, to, a, step)
  BY <1>2, Iterates
<1>5. \A p \in from + 1 .. to :
        r[p - 1] \in Assemblies /\ r[p] = PduTaken(r[p - 1], buffer[p - 1])
  BY <1>3, <1>4 DEF IsRun
<1>6. r = [p \in from .. to |-> Body(r, p)]
  <2>1. \A p \in from .. to : p = from \/ p \in from + 1 .. to
    OBVIOUS
  <2>2. \A p \in from .. to : r[p] = Body(r, p)
    BY <1>4, <1>5, <2>1 DEF PduTaken, IsRun
  <2>3. QED
    BY <1>4, <2>2 DEF IsRun
<1>7. g = [p \in from .. to |-> Body(g, p)]
  BY <1>6
<1> HIDE DEF g
<1>8. \A p \in from .. to : g[p] = Body(g, p)
  BY <1>7
<1> DEFINE S == {p \in from .. to : g[p] = r[p]}
<1>9. from \in S
  BY <1>4, <1>8 DEF IsRun
<1>10. \A p \in from + 1 .. to : p - 1 \in S => p \in S
  BY <1>5, <1>8 DEF PduTaken
<1>11. from .. to \subseteq S
  <2> HIDE DEF S
  <2>1. QED
    BY <1>9, <1>10, Induction
<1>12. g[to] = r[to]
  BY <1>11
<1>13. Reassembled(a, buffer, from, to) = g[to]
  BY DEF Reassembled, g
<1>14. QED
  BY <1>4, <1>5, <1>12, <1>13 DEF IsRun, TakesPdus

(***************************************************************************)
(* What reassembly has seen of the stream.                                 *)
(***************************************************************************)
\* What a has passed up, after all that was passed up before.
AllUp(a) == passedUp \o a.up

\* The state of the reassembly once it has seen the stream up to p.
SeenUpto(a, p) ==
  /\ ~a.failed
  /\ RestSeen(a.buffered, p)
  /\ UpSeen(AllUp(a), p)
  /\ ~restarted => CountedSeen(AllUp(a), a.last, counted \cup a.lost)

LEMMA UptoIsOrder ==
  ASSUME NEW p \in Places, NEW q \in Places, NEW r \in Places
  PROVE  Upto(p, p) /\ (Upto(p, q) /\ Upto(q, r) => Upto(p, r))
BY DEF Upto, Places

LEMMA AllUpType ==
  ASSUME NEW a \in Assemblies, passedUp \in Seq(Sdus)
  PROVE  /\ AllUp(a) \in Seq(Sdus)
         /\ \A i \in 1 .. Len(AllUp(a)) : AllUp(a)[i] \in Nat
<1>1. a.up \in Seq(Sdus)
  BY DEF Assemblies
<1>2. AllUp(a) \in Seq(Sdus)
  BY <1>1 DEF AllUp
<1>3. \A i \in 1 .. Len(AllUp(a)) : AllUp(a)[i] \in Sdus
  <2> DEFINE u == AllUp(a)
  <2> HIDE DEF u
  <2>1. u \in Seq(Sdus) => \A i \in 1 .. Len(u) : u[i] \in Sdus
    OBVIOUS
  <2>2. QED
    BY <1>2, <2>1 DEF u
<1>4. Sdus \subseteq Nat
  BY Shape DEF Sdus
<1>5. QED
  BY <1>2, <1>3, <1>4, Zenon

LEMMA SeenLater ==
  ASSUME NEW a \in Assemblies, NEW p \in Places, NEW q \in Places, passedUp \in Seq(Sdus),
         SeenUpto(a, p), Upto(p, q)
  PROVE  SeenUpto(a, q)
<1>1. p.sdu \in Nat /\ q.sdu \in Nat /\ p.sdu <= q.sdu
  BY DEF Places, Upto
<1>2. UpSeen(AllUp(a), q)
  BY <1>1, AllUpType DEF SeenUpto, UpSeen
<1>3. RestSeen(a.buffered, q)
  <2>1. SUFFICES ASSUME a.buffered # Nothing
                 PROVE  /\ a.buffered.len < SduSize
                        /\ Upto([sdu |-> a.buffered.sdu, off |-> a.buffered.len], q)
    BY DEF RestSeen
  <2>2. a.buffered.sdu \in Nat /\ a.buffered.len \in Nat
    BY <2>1, Shape DEF Assemblies, Sdus
  <2>3. [sdu |-> a.buffered.sdu, off |-> a.buffered.len] \in Places
    BY <2>2 DEF Places
  <2>4. QED
    BY <2>1, <2>3, UptoIsOrder DEF SeenUpto, RestSeen
<1>4. QED
  BY <1>2, <1>3 DEF SeenUpto

LEMMA SeenDropped ==
  ASSUME NEW a \in Assemblies, NEW p, SeenUpto(a, p)
  PROVE  SeenUpto(Dropped(a), p)
<1>1. /\ Dropped(a).failed = a.failed /\ Dropped(a).buffered = Nothing
      /\ Dropped(a).up = a.up /\ Dropped(a).last = a.last /\ Dropped(a).lost = a.lost
  BY DEF Dropped, Assemblies
<1>2. AllUp(Dropped(a)) = AllUp(a)
  BY <1>1 DEF AllUp
<1>3. RestSeen(Nothing, p)
  BY DEF RestSeen
<1>4. QED
  BY <1>1, <1>2, <1>3 DEF SeenUpto

LEMMA SeenPassed ==
  ASSUME NEW a \in Assemblies, NEW p \in Places, p.sdu \in Sdus, passedUp \in Seq(Sdus),
         SeenUpto(a, p)
  PROVE  SeenUpto(Dropped(ToPdcp(a, p.sdu)), [sdu |-> p.sdu + 1, off |-> 0])
<1> DEFINE s == p.sdu
           b == ToPdcp(a, s)
           u == AllUp(a)
           v == AllUp(b)
           next == [sdu |-> s + 1, off |-> 0]
<1>1. /\ b.failed = a.failed /\ b.up = Append(a.up, s) /\ b.last = s
      /\ b.lost = a.lost \cup (a.last + 1 .. s - 1)
  BY DEF ToPdcp, Assemblies
<1>2. s \in Nat /\ a.last \in Nat
  BY Shape DEF Places, Assemblies, Sdus
<1>3. u \in Seq(Sdus) /\ \A i \in 1 .. Len(u) : u[i] \in Nat
  BY AllUpType
<1>4. v = Append(u, s)
  <2>1. a.up \in Seq(Sdus)
    BY DEF Assemblies
  <2>2. passedUp \o Append(a.up, s) = Append(passedUp \o a.up, s)
    BY <2>1
  <2>3. QED
    BY <1>1, <2>2 DEF AllUp
<1>5. ~b.failed
  BY <1>1 DEF SeenUpto
<1> HIDE DEF b
<1>6. /\ UpSeen(u, p)
      /\ ~restarted => CountedSeen(u, a.last, counted \cup a.lost)
  BY DEF SeenUpto
<1> HIDE DEF u, v
<1>7. /\ Len(v) = Len(u) + 1 /\ Len(u) \in Nat /\ v[Len(v)] = s /\ v # <<>>
      /\ \A i \in 1 .. Len(u) : v[i] = u[i]
  BY <1>2, <1>3, <1>4
<1>8. UpSeen(v, next)
  <2> SUFFICES ASSUME NEW i \in 1 .. Len(v)
               PROVE  v[i] < s + 1 /\ \A j \in 1 .. i - 1 : v[j] < v[i]
    BY DEF UpSeen
  <2>1. \A k \in 1 .. Len(u) : u[k] \in Nat /\ u[k] < s /\ \A j \in 1 .. k - 1 : u[j] < u[k]
    BY <1>3, <1>6 DEF UpSeen
  <2>2. CASE i = Len(v)
    BY <1>2, <1>7, <2>1, <2>2
  <2>3. CASE i # Len(v)
    <3>1. i \in 1 .. Len(u) /\ v[i] = u[i] /\ \A j \in 1 .. i - 1 : v[j] = u[j]
      BY <1>7, <2>3
    <3>2. QED
      BY <1>2, <2>1, <3>1
  <2>4. QED
    BY <2>2, <2>3
<1>9. ASSUME ~restarted
      PROVE  CountedSeen(v, s, counted \cup b.lost)
  <2>0. /\ \A i \in 1 .. Len(u) : u[i] < s /\ \A j \in 1 .. i - 1 : u[j] < u[i]
        /\ a.last = IF u = <<>> THEN 0 ELSE u[Len(u)]
        /\ counted \cup a.lost = {k \in 1 .. a.last : \A i \in 1 .. Len(u) : u[i] # k}
    BY <1>6, <1>9 DEF UpSeen, CountedSeen
  <2>1. \A i \in 1 .. Len(u) : u[i] <= a.last
    BY <1>2, <1>3, <1>7, <2>0
  <2>2. a.last <= s
    BY <1>2, <1>3, <1>7, <2>0
  <2>3. \A k \in 1 .. s : (\A i \in 1 .. Len(v) : v[i] # k)
                            <=> k # s /\ \A i \in 1 .. Len(u) : u[i] # k
    BY <1>2, <1>7
  <2>4. \A k : k \in counted \cup a.lost
                 <=> k \in 1 .. a.last /\ \A i \in 1 .. Len(u) : u[i] # k
    BY <2>0
  <2>5. a.last = s => s = 0
    BY <1>2, <1>3, <1>7, <2>0
  <2>6. ASSUME NEW k \in counted \cup b.lost
        PROVE  k \in 1 .. s /\ k # s /\ \A i \in 1 .. Len(u) : u[i] # k
    BY <1>1, <1>2, <1>3, <2>1, <2>2, <2>4, <2>5
  <2>7. ASSUME NEW k \in 1 .. s, k # s, \A i \in 1 .. Len(u) : u[i] # k
        PROVE  k \in counted \cup b.lost
    BY <1>1, <1>2, <2>4, <2>7
  <2>8. QED
    BY <1>7, <2>3, <2>6, <2>7 DEF CountedSeen
<1>10. /\ Dropped(b).failed = b.failed /\ Dropped(b).buffered = Nothing
       /\ Dropped(b).up = b.up /\ Dropped(b).last = b.last /\ Dropped(b).lost = b.lost
  BY DEF Dropped, b, ToPdcp, Assemblies
<1>11. AllUp(Dropped(b)) = v
  BY <1>10 DEF AllUp, v
<1>12. RestSeen(Nothing, next)
  BY DEF RestSeen
<1> HIDE DEF next
<1>13. SeenUpto(Dropped(b), next)
  BY <1>1, <1>5, <1>8, <1>9, <1>10, <1>11, <1>12 DEF SeenUpto
<1>14. QED
  BY <1>13 DEF b, next

\* Where the chunk of a PDU that begins at p begins itself, and what comes next.
ChunkPlace(p, i) == [sdu |-> p.sdu + (i - 1), off |-> ChunkOff(p, i)]

ChunkEnd(pdu, p, i) ==
  IF IsCut(pdu, i) THEN [sdu |-> p.sdu + (i - 1), off |-> ChunkOff(p, i) + pdu.chunks[i].len]
  ELSE [sdu |-> p.sdu + i, off |-> 0]

LEMMA SeenChunk ==
  ASSUME NEW a \in Assemblies, NEW p \in Places, NEW pdu \in Pdus, CutAt(pdu, p),
         NEW i \in 1 .. Len(pdu.chunks), passedUp \in Seq(Sdus), SeenUpto(a, ChunkPlace(p, i))
  PROVE  SeenUpto(TakeChunk(a, pdu, i), ChunkEnd(pdu, p, i))
<1> DEFINE chunk == pdu.chunks[i]
           at == ChunkPlace(p, i)
           end == ChunkEnd(pdu, p, i)
           isRest == i = 1 /\ pdu.startFrag
           isCut == IsCut(pdu, i)
<1>1. chunk \in Chunks
  BY DEF Pdus
<1>2. /\ chunk \in [sdu : Sdus, len : Nat \ {0}] /\ chunk.sdu \in Sdus /\ chunk.len \in Nat
      /\ chunk.sdu \in Nat
  BY <1>1, Shape DEF Chunks, Sdus
<1>3. /\ at \in Places /\ at.sdu = chunk.sdu /\ at.off \in Nat
      /\ IF isCut THEN at.off + chunk.len < SduSize ELSE at.off + chunk.len = SduSize
      /\ ~isRest => at.off = 0
  BY <1>2 DEF CutAt, ChunkPlace, ChunkOff, Places
<1>4. /\ end \in Places /\ Upto(at, end)
      /\ isCut => end = [sdu |-> chunk.sdu, off |-> at.off + chunk.len]
      /\ ~isCut => end = [sdu |-> chunk.sdu + 1, off |-> 0]
  <2>1. p.sdu \in Nat /\ chunk.sdu = p.sdu + (i - 1)
    BY DEF CutAt, Places
  <2>2. at.off = ChunkOff(p, i)
    BY DEF ChunkPlace
  <2>3. isCut => end = [sdu |-> chunk.sdu, off |-> at.off + chunk.len]
    BY <2>1, <2>2 DEF ChunkEnd
  <2>4. ~isCut => end = [sdu |-> chunk.sdu + 1, off |-> 0]
    BY <2>1 DEF ChunkEnd
  <2> HIDE DEF end, at, isCut, chunk
  <2>5. QED
    BY <1>2, <1>3, <2>3, <2>4 DEF Places, Upto
<1> HIDE DEF at, end
<1> SUFFICES SeenUpto(TakeChunk(a, pdu, i), end)
  BY DEF end
<1>5. SeenUpto(Dropped(a), end)
  <2>1. Dropped(a) \in Assemblies
    BY DEF Dropped, Assemblies
  <2>2. SeenUpto(Dropped(a), at)
    BY SeenDropped DEF at
  <2>3. QED
    BY <1>3, <1>4, <2>1, <2>2, SeenLater
<1>6. ~isCut => SeenUpto(Dropped(ToPdcp(a, chunk.sdu)), end)
  <2>1. at.sdu \in Sdus /\ SeenUpto(a, at)
    BY <1>2, <1>3 DEF at
  <2>2. SeenUpto(Dropped(ToPdcp(a, at.sdu)), [sdu |-> at.sdu + 1, off |-> 0])
    BY <1>3, <2>1, SeenPassed
  <2>3. QED
    BY <1>3, <1>4, <2>2
<1>7. a.buffered # Nothing /\ a.buffered.sdu = chunk.sdu => a.buffered.len <= at.off
  <2>1. SeenUpto(a, at)
    BY DEF at
  <2>2. a.buffered # Nothing => Upto([sdu |-> a.buffered.sdu, off |-> a.buffered.len], at)
    BY <2>1 DEF SeenUpto, RestSeen
  <2>3. QED
    BY <1>2, <1>3, <2>2 DEF Upto
<1>8. a.buffered # Nothing => a.buffered.len \in Nat /\ a.buffered \in [sdu : Sdus, len : Nat \ {0}]
  BY DEF Assemblies
<1> HIDE DEF chunk, isCut, isRest
\* Another SDU may await its rest, as long as it is where this one ends.
<1>9. ASSUME NEW b \in [sdu : Sdus, len : Nat \ {0}], b.len < SduSize,
             Upto([sdu |-> b.sdu, off |-> b.len], end), NEW c,
             c = [a EXCEPT !.buffered = b]
      PROVE  SeenUpto(c, end)
  <2>1. c.buffered = b /\ c.failed = a.failed /\ c.up = a.up /\ c.last = a.last /\ c.lost = a.lost
    BY <1>9 DEF Assemblies
  <2>2. SeenUpto(a, end)
    <3>1. SeenUpto(a, at)
      BY DEF at
    <3>2. QED
      BY <1>3, <1>4, <3>1, SeenLater
  <2>3. AllUp(c) = AllUp(a)
    BY <2>1 DEF AllUp
  <2>4. QED
    <3>1. RestSeen(b, end)
      BY <1>9 DEF RestSeen
    <3>2. QED
      BY <2>1, <2>2, <2>3, <3>1 DEF SeenUpto
<1>10. CASE isRest /\ isCut
  <2>1. TakeChunk(a, pdu, i) = MidPart(a, chunk)
    BY <1>10 DEF TakeChunk, isRest, isCut, IsCut, chunk
  <2>2. CASE Continues(a, chunk)
    <3> DEFINE b == [a.buffered EXCEPT !.len = @ + chunk.len]
    <3>1. a.buffered # Nothing /\ a.buffered.sdu = chunk.sdu
      BY <2>2 DEF Continues
    <3>2. b \in [sdu : Sdus, len : Nat \ {0}] /\ b.sdu = chunk.sdu /\ b.len = a.buffered.len + chunk.len
      BY <1>2, <1>8, <3>1
    <3>3. MidPart(a, chunk) = [a EXCEPT !.buffered = b]
      BY <2>2 DEF MidPart
    <3> HIDE DEF b
    <3>4. b.len < SduSize /\ b.len <= at.off + chunk.len /\ b.len \in Nat
      BY <1>2, <1>3, <1>7, <1>8, <1>10, <3>1, <3>2, Shape
    <3>5. Upto([sdu |-> b.sdu, off |-> b.len], end)
      BY <1>4, <1>10, <3>2, <3>4 DEF Upto
    <3>6. QED
      BY <1>9, <2>1, <3>2, <3>3, <3>4, <3>5
  <2>3. CASE ~Continues(a, chunk)
    BY <1>5, <2>1, <2>3 DEF MidPart
  <2>4. QED
    BY <2>2, <2>3
<1>11. CASE isRest /\ ~isCut
  <2>1. TakeChunk(a, pdu, i) = LastPart(a, chunk)
    BY <1>11 DEF TakeChunk, isRest, isCut, IsCut, chunk
  <2>2. Continues(a, chunk) => ~(a.buffered.len + chunk.len > SduSize)
    BY <1>2, <1>3, <1>7, <1>8, <1>11, Shape DEF Continues
  <2>3. QED
    BY <1>5, <1>6, <1>11, <2>1, <2>2, Zenon DEF LastPart
<1>12. CASE ~isRest /\ isCut
  <2>1. TakeChunk(a, pdu, i) = [a EXCEPT !.buffered = chunk]
    BY <1>12 DEF TakeChunk, isRest, isCut, IsCut, chunk
  <2>2. chunk.len < SduSize /\ Upto([sdu |-> chunk.sdu, off |-> chunk.len], end)
    BY <1>2, <1>3, <1>4, <1>12, Shape DEF Upto
  <2>3. QED
    BY <1>2, <1>9, <2>1, <2>2
<1>13. CASE ~isRest /\ ~isCut
  <2>1. TakeChunk(a, pdu, i) = WholeSdu(a, chunk)
    BY <1>13 DEF TakeChunk, isRest, isCut, IsCut, chunk
  <2>2. chunk.len = SduSize
    BY <1>2, <1>3, <1>13, Shape
  <2>3. QED
    BY <1>6, <1>13, <2>1, <2>2 DEF WholeSdu
<1>14. QED
  BY <1>10, <1>11, <1>12, <1>13 DEF end

LEMMA SeenPdu ==
  ASSUME NEW a \in Assemblies, NEW p \in Places, NEW pdu \in Pdus, CutAt(pdu, p),
         passedUp \in Seq(Sdus), SeenUpto(a, p)
  PROVE  SeenUpto(TakePdu(a, pdu), EndOf(pdu, p))
<1> DEFINE N == Len(pdu.chunks)
<1>1. N \in Nat /\ N > 0 /\ N \in Int /\ 0 \in Int
  BY DEF Pdus, CutAt
<1>2. PICK r \in [0 .. N -> Assemblies] :
        /\ r[0] = a
        /\ \A i \in 1 .. N : r[i] = ChunkTaken(r[i - 1], pdu, i)
        /\ TakePdu(a, pdu) = r[N]
  BY ChunkLoop
<1> DEFINE after(i) == IF i = 0 THEN p ELSE ChunkEnd(pdu, p, i)
           S == {i \in 0 .. N : SeenUpto(r[i], after(i))}
<1>3. \A i \in 1 .. N : after(i - 1) = ChunkPlace(p, i)
  <2> SUFFICES ASSUME NEW i \in 1 .. N PROVE after(i - 1) = ChunkPlace(p, i)
    OBVIOUS
  <2>1. CASE i = 1
    <3>1. p = [sdu |-> p.sdu, off |-> p.off] /\ p.sdu \in Nat /\ p.sdu + (i - 1) = p.sdu
      BY <2>1 DEF Places
    <3>2. QED
      BY <2>1, <3>1 DEF ChunkPlace, ChunkOff
  <2>2. CASE i # 1
    <3>1. ~IsCut(pdu, i - 1) /\ i - 1 # 0
      BY <1>1, <2>2 DEF IsCut
    <3>2. QED
      BY <2>2, <3>1 DEF ChunkPlace, ChunkOff, ChunkEnd
  <2>3. QED
    BY <2>1, <2>2
<1>4. 0 \in S
  BY <1>1, <1>2
<1>5. ASSUME NEW i \in 0 + 1 .. N, i - 1 \in S PROVE i \in S
  <2>1. i \in 1 .. N /\ r[i - 1] \in Assemblies /\ r[i] = ChunkTaken(r[i - 1], pdu, i) /\ i # 0
    BY <1>1, <1>2
  <2>2. SeenUpto(r[i - 1], ChunkPlace(p, i))
    BY <1>3, <1>5, <2>1
  <2>3. r[i] = TakeChunk(r[i - 1], pdu, i)
    BY <2>1, <2>2 DEF ChunkTaken, SeenUpto
  <2>4. SeenUpto(r[i], ChunkEnd(pdu, p, i))
    BY <2>1, <2>2, <2>3, SeenChunk
  <2>5. QED
    BY <2>1, <2>4
<1>6. 0 .. N \subseteq S
  <2> HIDE DEF S, N
  <2>1. QED
    BY <1>1, <1>4, <1>5, Induction
<1>7. SeenUpto(r[N], ChunkEnd(pdu, p, N))
  BY <1>1, <1>6
<1>8. ChunkEnd(pdu, p, N) = EndOf(pdu, p)
  BY <1>1 DEF ChunkEnd, EndOf, IsCut
<1>9. QED
  BY <1>2, <1>7, <1>8

\* The end of a PDU is a place.
LEMMA EndIsPlace ==
  ASSUME NEW p \in Places, NEW pdu \in Pdus, CutAt(pdu, p)
  PROVE  EndOf(pdu, p) \in Places
<1>1. Len(pdu.chunks) \in Nat \ {0} /\ p.sdu \in Nat /\ p.off \in Nat
  BY DEF Places, Pdus, CutAt
<1>2. pdu.chunks[Len(pdu.chunks)] \in Chunks
  BY <1>1 DEF Pdus
<1>3. pdu.chunks[Len(pdu.chunks)].len \in Nat
  BY <1>2, Shape DEF Chunks
<1> DEFINE n == Len(pdu.chunks)
           len == pdu.chunks[n].len
<1> HIDE DEF n, len
<1>4. p.sdu + (n - 1) \in Nat /\ p.sdu + n \in Nat /\ ChunkOff(p, n) + len \in Nat
  <2>1. n \in Nat \ {0} /\ len \in Nat
    BY <1>1, <1>3 DEF n, len
  <2>2. ChunkOff(p, n) \in Nat
    BY <1>1, <2>1 DEF ChunkOff
  <2> DEFINE off == ChunkOff(p, n)
             x == p.sdu
  <2>3. off \in Nat /\ x \in Nat
    BY <1>1, <2>2
  <2> HIDE DEF off, x
  <2>4. x + (n - 1) \in Nat /\ x + n \in Nat /\ off + len \in Nat
    BY <2>1, <2>3
  <2>5. QED
    BY <2>4 DEF off, x
<1>5. QED
  BY <1>4 DEF EndOf, Places, n, len

\* The PDUs of these positions are in the order of their numbers, each cut as
\* begin says; that of position 0 has number first.
InLine(buffer, from, to, first, low, begin) ==
  \A p \in from .. to - 1 :
    /\ buffer[p] \in Pdus \cup {Nothing}
    /\ buffer[p] # Nothing => /\ buffer[p].sno = first + p
                              /\ low <= buffer[p].sno
                              /\ CutPdu(begin, buffer[p])

LEMMA SeenPdus ==
  ASSUME NEW a \in Assemblies, NEW begin \in [Nat -> Places], NEW top \in Nat, Ordered(begin, top),
         NEW low \in 0 .. top, NEW first \in Int, NEW from \in Int, NEW to \in Int, from <= to,
         first + to <= top, NEW buffer, InLine(buffer, from, to, first, low, begin),
         passedUp \in Seq(Sdus), SeenUpto(a, begin[low]),
         NEW n \in low .. top, first + to <= n
  PROVE  /\ Reassembled(a, buffer, from, to) \in Assemblies
         /\ SeenUpto(Reassembled(a, buffer, from, to), begin[n])
<1>0. HasPdus(buffer, from, to)
  BY DEF HasPdus, InLine
<1>r. PICK r : TakesPdus(r, a, buffer, from, to)
  BY <1>0, PduLoop
<1>1. /\ r \in [from .. to -> Assemblies]
      /\ r[from] = a
      /\ \A p \in from + 1 .. to : r[p] = PduTaken(r[p - 1], buffer[p - 1])
      /\ Reassembled(a, buffer, from, to) = r[to]
  BY <1>r DEF TakesPdus
<1> DEFINE past(p) == IF first + p < low THEN low ELSE first + p
           S == {p \in from .. to : SeenUpto(r[p], begin[past(p)])}
<1>2. \A p \in from .. to : past(p) \in 0 .. top /\ low <= past(p)
  OBVIOUS
<1>3. \A i, j \in 0 .. top : i <= j => Upto(begin[i], begin[j])
  BY DEF Ordered
<1>4. \A i, j \in 0 .. top : \A b \in Assemblies :
        i <= j /\ SeenUpto(b, begin[i]) => SeenUpto(b, begin[j])
  <2> SUFFICES ASSUME NEW i \in 0 .. top, NEW j \in 0 .. top, NEW b \in Assemblies,
                      i <= j, SeenUpto(b, begin[i])
               PROVE  SeenUpto(b, begin[j])
    OBVIOUS
  <2>1. begin[i] \in Places /\ begin[j] \in Places /\ Upto(begin[i], begin[j])
    BY <1>3
  <2>2. QED
    BY <2>1, SeenLater
<1>5. from \in S
  BY <1>1, <1>2, <1>4
<1>6. ASSUME NEW p \in from + 1 .. to, p - 1 \in S PROVE p \in S
  <2> DEFINE pdu == buffer[p - 1]
  <2>1. /\ p - 1 \in from .. to - 1 /\ p - 1 \in from .. to /\ p \in from .. to
        /\ r[p - 1] \in Assemblies /\ r[p] = PduTaken(r[p - 1], pdu)
        /\ r[p] \in Assemblies
    BY <1>1
  <2>2. SeenUpto(r[p - 1], begin[past(p - 1)])
    BY <1>6
  <2>3. past(p - 1) \in 0 .. top /\ past(p) \in 0 .. top /\ past(p - 1) <= past(p)
    BY <1>2, <2>1
  <2>4. CASE pdu = Nothing
    <3>1. r[p] = r[p - 1]
      BY <2>1, <2>4 DEF PduTaken
    <3>2. SeenUpto(r[p], begin[past(p)])
      BY <1>4, <2>1, <2>2, <2>3, <3>1
    <3>3. QED
      BY <2>1, <3>2
  <2>5. CASE pdu # Nothing
    <3>1. pdu \in Pdus /\ pdu.sno = first + (p - 1) /\ low <= pdu.sno /\ CutPdu(begin, pdu)
      BY <2>1, <2>5 DEF InLine
    <3> HIDE DEF pdu
    <3>2. past(p - 1) = pdu.sno /\ past(p) = pdu.sno + 1
      BY <3>1
    <3> HIDE DEF past
    <3>3. pdu.sno \in Nat /\ pdu.sno + 1 \in Nat
      BY <2>3, <3>2
    <3>4. begin[pdu.sno] \in Places /\ begin[pdu.sno + 1] \in Places
      BY <3>3
    <3>5. CutAt(pdu, begin[pdu.sno]) /\ Upto(EndOf(pdu, begin[pdu.sno]), begin[pdu.sno + 1])
      BY <3>1 DEF CutPdu
    <3>6. SeenUpto(TakePdu(r[p - 1], pdu), EndOf(pdu, begin[pdu.sno]))
      BY <2>1, <2>2, <3>1, <3>2, <3>4, <3>5, SeenPdu
    <3>7. EndOf(pdu, begin[pdu.sno]) \in Places
      BY <3>1, <3>4, <3>5, EndIsPlace
    <3>8. r[p] = TakePdu(r[p - 1], pdu)
      BY <2>1, <2>5 DEF PduTaken
    <3>9. SeenUpto(r[p], begin[pdu.sno + 1])
      BY <2>1, <3>4, <3>5, <3>6, <3>7, <3>8, SeenLater
    <3>10. QED
      BY <2>1, <3>2, <3>9
  <2>6. QED
    BY <2>4, <2>5
<1>7. from .. to \subseteq S
  <2> HIDE DEF S
  <2>1. QED
    BY <1>5, <1>6, Induction
<1>8. SeenUpto(r[to], begin[past(to)]) /\ r[to] \in Assemblies
  BY <1>1, <1>7
<1>9. past(to) \in 0 .. top /\ n \in 0 .. top /\ past(to) <= n
  OBVIOUS
<1> HIDE DEF past
<1>10. SeenUpto(r[to], begin[n])
  BY <1>4, <1>8, <1>9
<1>11. QED
  BY <1>1, <1>8, <1>10

(***************************************************************************)
(* The sender cuts the stream.                                             *)
(***************************************************************************)
LEMMA QueuedChunk ==
  ASSUME sduQueue \in Seq(Chunks), NEW i \in 1 .. Len(sduQueue)
  PROVE  /\ sduQueue[i] \in Chunks /\ sduQueue[i].sdu \in Nat /\ sduQueue[i].sdu \in Sdus
         /\ sduQueue[i].len \in 1 .. SduSize /\ sduQueue[i].len \in Nat
<1>1. sduQueue[i] \in Chunks
  OBVIOUS
<1>2. QED
  BY <1>1, Shape DEF Chunks, Sdus

LEMMA ProductOf ==
  ASSUME NEW n \in Nat, NEW k \in Nat
  PROVE  n * k \in Nat /\ (n + 1) * k = n * k + k
OBVIOUS

LEMMA BytesOf ==
  ASSUME sduQueue \in Seq(Chunks), NEW n \in 0 .. Len(sduQueue)
  PROVE  /\ BytesOfFirst(n) \in Nat
         /\ n = 0 => BytesOfFirst(n) = 0
         /\ n = 1 => BytesOfFirst(n) = sduQueue[1].len
         /\ n > 0 /\ n < Len(sduQueue) => BytesOfFirst(n + 1) = BytesOfFirst(n) + SduSize
<1>1. CASE n = 0
  BY <1>1 DEF BytesOfFirst
<1>2. CASE n # 0
  <2>1. n - 1 \in Nat /\ SduSize \in Nat /\ (n - 1) + 1 = n /\ (n + 1) - 1 = n /\ n \in Nat
    BY <1>2, Shape
  <2>2. (n - 1) * SduSize \in Nat /\ n * SduSize = (n - 1) * SduSize + SduSize
    <3>1. ((n - 1) + 1) * SduSize = (n - 1) * SduSize + SduSize /\ (n - 1) * SduSize \in Nat
      BY <2>1, ProductOf
    <3>2. QED
      BY <2>1, <3>1
  <2>3. 0 * SduSize = 0
    BY <2>1
  <2>4. 1 \in 1 .. Len(sduQueue)
    BY <1>2
  <2>5. sduQueue[1].len \in Nat
    BY <2>4, QueuedChunk
  <2>6. BytesOfFirst(n) = sduQueue[1].len + (n - 1) * SduSize
    BY <1>2 DEF BytesOfFirst
  <2>7. BytesOfFirst(n + 1) = sduQueue[1].len + n * SduSize
    BY <2>1 DEF BytesOfFirst
  <2> DEFINE x == (n - 1) * SduSize
  <2>8. BytesOfFirst(n + 1) = sduQueue[1].len + (x + SduSize)
    BY <2>2, <2>7
  <2>9. n = 1 => x = 0
    BY <2>1, <2>3
  <2>10. x \in Nat /\ BytesOfFirst(n) = sduQueue[1].len + x
    BY <2>2, <2>6
  <2> HIDE DEF x
  <2>11. /\ BytesOfFirst(n) \in Nat
         /\ n = 1 => BytesOfFirst(n) = sduQueue[1].len
    BY <2>5, <2>9, <2>10
  <2>12. BytesOfFirst(n + 1) = BytesOfFirst(n) + SduSize
    BY <2>1, <2>5, <2>8, <2>10
  <2>13. QED
    BY <1>2, <2>11, <2>12, Zenon
<1>3. QED
  BY <1>1, <1>2

LEMMA NumWholeOf ==
  ASSUME sduQueue \in Seq(Chunks), NEW space \in Nat
  PROVE  /\ NumWhole(space) \in 0 .. Len(sduQueue)
         /\ BytesOfFirst(NumWhole(space)) <= space
         /\ \A m \in NumWhole(space) + 1 .. Len(sduQueue) : BytesOfFirst(m) > space
<1> DEFINE L == Len(sduQueue)
           T == {k \in Nat : k <= L /\ BytesOfFirst(L - k) <= space}
<1>1. L \in Nat
  OBVIOUS
<1>2. L \in T
  <2>1. 0 \in 0 .. Len(sduQueue) /\ L - L = 0
    BY <1>1
  <2>2. BytesOfFirst(L - L) = 0
    BY <2>1, BytesOf
  <2>3. QED
    BY <1>1, <2>2
<1>3. PICK k \in T : \A j \in T : k <= j
  BY <1>2, LeastOf
<1>4. k \in Nat /\ k <= L /\ L - k \in 0 .. L /\ BytesOfFirst(L - k) <= space
  BY <1>1, <1>3
<1>5. ASSUME NEW m \in (L - k) + 1 .. L PROVE BytesOfFirst(m) > space
  <2>1. L - m \in Nat /\ L - m <= L /\ L - (L - m) = m /\ ~(k <= L - m) /\ m \in 0 .. L
    BY <1>1, <1>4
  <2>2. ~(BytesOfFirst(m) <= space)
    BY <1>3, <2>1
  <2>3. BytesOfFirst(m) \in Nat
    BY <2>1, BytesOf
  <2>4. QED
    BY <2>2, <2>3
<1>6. \E n \in 0 .. Len(sduQueue) :
        /\ BytesOfFirst(n) <= space
        /\ \A m \in n + 1 .. Len(sduQueue) : BytesOfFirst(m) > space
  BY <1>4, <1>5
<1>7. QED
  BY <1>6 DEF NumWhole

\* A PDU has whole SDUs of the queue and, if it is cut, bytes of the next.
LEMMA PartOf ==
  ASSUME sduQueue \in Seq(Chunks), QueueShape, sduQueue # <<>>, NEW space \in Nat \ {0}
  PROVE  /\ NumWhole(space) \in 0 .. Len(sduQueue) /\ PartLen(space) \in Nat
         /\ PartLen(space) > 0 => /\ NumWhole(space) + 1 \in 1 .. Len(sduQueue)
                                  /\ PartLen(space) < sduQueue[NumWhole(space) + 1].len
         /\ PartLen(space) = 0 => NumWhole(space) > 0
<1> DEFINE N == NumWhole(space)
           part == PartLen(space)
<1>1. /\ N \in 0 .. Len(sduQueue) /\ BytesOfFirst(N) <= space /\ BytesOfFirst(N) \in Nat
      /\ \A m \in N + 1 .. Len(sduQueue) : BytesOfFirst(m) > space
  BY NumWholeOf, BytesOf
<1>2. Len(sduQueue) \in Nat /\ Len(sduQueue) > 0
  OBVIOUS
<1>3. CASE N = Len(sduQueue)
  <2>1. part = 0
    BY <1>3 DEF PartLen
  <2>2. QED
    BY <1>1, <1>2, <1>3, <2>1
<1>4. CASE N # Len(sduQueue)
  <2>1. N + 1 \in 1 .. Len(sduQueue) /\ N + 1 \in 0 .. Len(sduQueue) /\ N \in Nat
    BY <1>1, <1>2, <1>4
  <2>2. part = space - BytesOfFirst(N)
    BY <1>4 DEF PartLen
  <2>3. BytesOfFirst(N + 1) > space /\ BytesOfFirst(N + 1) \in Nat
    BY <1>1, <2>1, BytesOf
  <2>4. BytesOfFirst(N + 1) = BytesOfFirst(N) + sduQueue[N + 1].len
    <3>1. CASE N = 0
      BY <2>1, <3>1, BytesOf, QueuedChunk
    <3>2. CASE N # 0
      <4>1. sduQueue[N + 1].len = SduSize
        BY <2>1, <3>2 DEF QueueShape
      <4>2. N > 0 /\ N < Len(sduQueue)
        BY <1>1, <1>2, <1>4, <3>2
      <4>3. QED
        BY <1>1, <4>1, <4>2, BytesOf
    <3>3. QED
      BY <3>1, <3>2
  <2>5. sduQueue[N + 1].len \in Nat
    BY <2>1, QueuedChunk
  <2>6. N = 0 => BytesOfFirst(N) = 0
    BY <1>1, BytesOf
  <2> HIDE DEF N, part
  <2>7. part \in Nat /\ part < sduQueue[N + 1].len
    BY <1>1, <2>2, <2>3, <2>4, <2>5
  <2>8. part = 0 => N > 0
    BY <1>1, <2>2, <2>6
  <2>9. QED
    BY <1>1, <2>1, <2>7, <2>8 DEF N, part
<1>5. QED
  BY <1>3, <1>4

LEMMA ChunksOf ==
  ASSUME sduQueue \in Seq(Chunks), QueueShape, sduQueue # <<>>, NEW space \in Nat \ {0}
  PROVE  /\ PduChunks(space) \in Seq(Chunks)
         /\ Len(PduChunks(space)) = NumWhole(space) + (IF PartLen(space) > 0 THEN 1 ELSE 0)
         /\ \A i \in 1 .. NumWhole(space) : PduChunks(space)[i] = sduQueue[i]
         /\ PartLen(space) > 0 =>
              PduChunks(space)[NumWhole(space) + 1]
                = [sdu |-> sduQueue[NumWhole(space) + 1].sdu, len |-> PartLen(space)]
<1> DEFINE N == NumWhole(space)
           part == PartLen(space)
           whole == SubSeq(sduQueue, 1, N)
           cut == [sdu |-> sduQueue[N + 1].sdu, len |-> part]
<1>1. /\ N \in 0 .. Len(sduQueue) /\ part \in Nat
      /\ part > 0 => N + 1 \in 1 .. Len(sduQueue) /\ part < sduQueue[N + 1].len
  BY PartOf
<1>2. part > 0 => cut \in Chunks
  <2>1. part > 0 => /\ sduQueue[N + 1].len \in 1 .. SduSize /\ sduQueue[N + 1].sdu \in Sdus
                    /\ part < sduQueue[N + 1].len
    BY <1>1, QueuedChunk
  <2> HIDE DEF part
  <2>2. part > 0 => part \in 1 .. SduSize
    BY <1>1, <2>1, Shape
  <2>3. QED
    BY <2>1, <2>2 DEF Chunks
<1>3. PduChunks(space) = whole \o (IF part = 0 THEN <<>> ELSE <<cut>>)
  BY DEF PduChunks
<1> HIDE DEF N, part, cut
<1>4. whole \in Seq(Chunks) /\ Len(whole) = N /\ \A i \in 1 .. N : whole[i] = sduQueue[i]
  BY <1>1
<1> HIDE DEF whole
<1>5. CASE part = 0
  <2>1. PduChunks(space) = whole
    BY <1>3, <1>4, <1>5
  <2>2. QED
    BY <1>1, <1>4, <1>5, <2>1 DEF N, part
<1>6. CASE part > 0
  <2>1. PduChunks(space) = whole \o <<cut>> /\ cut \in Chunks
    BY <1>1, <1>2, <1>3, <1>6
  <2>2. /\ PduChunks(space) \in Seq(Chunks) /\ Len(PduChunks(space)) = N + 1
        /\ \A i \in 1 .. N : PduChunks(space)[i] = sduQueue[i]
        /\ PduChunks(space)[N + 1] = cut
    BY <1>1, <1>4, <2>1
  <2>3. QED
    BY <1>6, <2>2 DEF N, part, cut
<1>7. QED
  BY <1>1, <1>5, <1>6

\* What rlcPduMake makes is cut where the sender is, and it goes on from there.
LEMMA MadePduIsCut ==
  ASSUME UmTxTypeOK, QueueShape, NEW space \in Spaces, sduQueue # <<>>
  PROVE  MadePdu(space) \in Pdus /\ TxPlace \in Places /\ CutAt(MadePdu(space), TxPlace)
<1> DEFINE N == NumWhole(space)
           part == PartLen(space)
           pdu == MadePdu(space)
           p == TxPlace
<1>1. sduQueue \in Seq(Chunks) /\ space \in Nat \ {0} /\ sno \in Nat /\ firstIsFragment \in BOOLEAN
  BY Shape DEF UmTxTypeOK
<1>2. /\ N \in 0 .. Len(sduQueue) /\ part \in Nat
      /\ part > 0 => N + 1 \in 1 .. Len(sduQueue) /\ part < sduQueue[N + 1].len
      /\ part = 0 => N > 0
  BY <1>1, PartOf
<1>3. /\ pdu.chunks \in Seq(Chunks) /\ Len(pdu.chunks) = N + (IF part > 0 THEN 1 ELSE 0)
      /\ \A i \in 1 .. N : pdu.chunks[i] = sduQueue[i]
      /\ part > 0 => pdu.chunks[N + 1] = [sdu |-> sduQueue[N + 1].sdu, len |-> part]
  BY <1>1, ChunksOf DEF MadePdu
<1>4. pdu.sno = sno /\ pdu.startFrag = firstIsFragment /\ pdu.endFrag = (part > 0)
  BY DEF MadePdu
<1>5. MadePdu(space) \in Pdus
  <2>1. PduChunks(space) \in Seq(Chunks)
    BY <1>1, ChunksOf
  <2>2. (PartLen(space) > 0) \in BOOLEAN
    OBVIOUS
  <2>3. QED
    BY <1>1, <2>1, <2>2 DEF MadePdu, Pdus
<1>6. 1 \in 1 .. Len(sduQueue)
  BY <1>1
<1>7. /\ sduQueue[1].sdu \in Nat /\ sduQueue[1].len \in 1 .. SduSize
      /\ p.sdu = sduQueue[1].sdu /\ p.off = SduSize - sduQueue[1].len
  BY <1>1, <1>6, QueuedChunk DEF TxPlace
<1>8. p \in Places
  BY <1>7, Shape DEF Places, TxPlace
<1> HIDE DEF N, part, pdu, p
<1>9. pdu.startFrag <=> p.off > 0
  BY <1>4, <1>7, Shape DEF QueueShape
<1>10. ASSUME NEW i \in 1 .. Len(pdu.chunks)
       PROVE  /\ pdu.chunks[i].sdu = p.sdu + (i - 1)
              /\ IF IsCut(pdu, i) THEN ChunkOff(p, i) + pdu.chunks[i].len < SduSize
                                  ELSE ChunkOff(p, i) + pdu.chunks[i].len = SduSize
  <2>1. i \in 1 .. Len(sduQueue) /\ i \in Nat
    BY <1>1, <1>2, <1>3
  <2>2. sduQueue[i].sdu \in Nat /\ sduQueue[i].len \in Nat
    BY <1>1, <2>1, QueuedChunk
  <2>3. sduQueue[i].sdu = p.sdu + (i - 1)
    <3>1. /\ sduQueue[i].sdu + Len(sduQueue) = arrived + (i - 1)
          /\ sduQueue[1].sdu + Len(sduQueue) = arrived + (1 - 1)
      BY <1>6, <2>1 DEF QueueShape
    <3>2. Len(sduQueue) \in Nat /\ arrived \in Nat
      BY <1>1, Shape DEF UmTxTypeOK
    <3> DEFINE x == sduQueue[i].sdu
               y == sduQueue[1].sdu
               l == Len(sduQueue)
    <3>3. x \in Nat /\ y \in Nat /\ l \in Nat /\ x + l = arrived + (i - 1) /\ y + l = arrived + (1 - 1)
      BY <1>7, <2>2, <3>1, <3>2
    <3>4. p.sdu = y
      BY <1>7
    <3> HIDE DEF x, y, l
    <3>5. x = y + (i - 1)
      BY <2>1, <3>2, <3>3
    <3>6. QED
      BY <3>4, <3>5 DEF x
  <2>4. ChunkOff(p, i) + sduQueue[i].len = SduSize
    <3>1. CASE i = 1
      BY <1>7, <3>1, Shape DEF ChunkOff
    <3>2. CASE i # 1
      BY <2>1, <2>2, <3>2, Shape DEF ChunkOff, QueueShape
    <3>3. QED
      BY <3>1, <3>2
  <2>5. ChunkOff(p, i) \in Nat
    BY <1>7, Shape DEF ChunkOff
  <2>6. CASE i = N + 1
    <3>1. part > 0 /\ i = Len(pdu.chunks)
      BY <1>2, <1>3, <2>6
    <3>2. IsCut(pdu, i)
      BY <1>4, <3>1 DEF IsCut
    <3>3. pdu.chunks[i].sdu = sduQueue[i].sdu /\ pdu.chunks[i].len = part
      BY <1>3, <2>6, <3>1
    <3>4. QED
      BY <1>2, <2>2, <2>3, <2>4, <2>5, <2>6, <3>1, <3>2, <3>3, Shape
  <2>7. CASE i # N + 1
    <3>1. i \in 1 .. N
      BY <1>2, <1>3, <2>7
    <3>2. pdu.chunks[i] = sduQueue[i]
      BY <1>3, <3>1
    <3>3. ~IsCut(pdu, i)
      BY <1>2, <1>3, <1>4, <2>7 DEF IsCut
    <3>4. QED
      BY <2>3, <2>4, <3>2, <3>3
  <2>8. QED
    BY <2>6, <2>7
<1>11. Len(pdu.chunks) > 0
  BY <1>2, <1>3
<1>12. CutAt(pdu, p)
  BY <1>9, <1>10, <1>11, Zenon DEF CutAt
<1>13. QED
  BY <1>5, <1>8, <1>12 DEF pdu, p

LEMMA RlcPduMakeGoesOn ==
  ASSUME UmTxTypeOK, QueueShape, NEW space \in Spaces, RlcPduMake(space)
  PROVE  /\ UmTxTypeOK' /\ QueueShape'
         /\ TxPlace' = EndOf(MadePdu(space), TxPlace)
<1> DEFINE N == NumWhole(space)
           part == PartLen(space)
           pdu == MadePdu(space)
           L == Len(sduQueue)
           rest == SubSeq(sduQueue, N + 1, L)
<1>1. /\ sduQueue \in Seq(Chunks) /\ space \in Nat \ {0} /\ sno \in Nat /\ sduQueue # <<>>
      /\ L \in Nat /\ arrived \in Nat /\ arrived' = arrived
  BY Shape DEF UmTxTypeOK, RlcPduMake
<1>2. /\ N \in 0 .. L /\ part \in Nat
      /\ part > 0 => N + 1 \in 1 .. L /\ part < sduQueue[N + 1].len
      /\ part = 0 => N > 0
  BY <1>1, PartOf
<1>3. /\ sduQueue' = IF part = 0 THEN rest ELSE [rest EXCEPT ![1].len = @ - part]
      /\ (firstIsFragment' <=> part > 0) /\ firstIsFragment' \in BOOLEAN /\ sno' = sno + 1
  <2>1. sduQueue' = IF part = 0 THEN rest ELSE [rest EXCEPT ![1].len = @ - part]
    BY DEF RlcPduMake, RemainingQueue
  <2>2. firstIsFragment' = (part > 0) /\ sno' = sno + 1
    BY DEF RlcPduMake
  <2>3. (part > 0) \in BOOLEAN
    OBVIOUS
  <2>4. (firstIsFragment' <=> part > 0) /\ firstIsFragment' \in BOOLEAN
    <3> HIDE DEF part
    <3>1. QED
      BY <2>2, <2>3, Zenon
  <2>5. QED
    BY <2>1, <2>2, <2>4, Zenon
<1>4. /\ Len(pdu.chunks) = N + (IF part > 0 THEN 1 ELSE 0)
      /\ part > 0 => pdu.chunks[N + 1].len = part
      /\ pdu.endFrag <=> part > 0
  <2>1. pdu.chunks = PduChunks(space) /\ pdu.endFrag = (part > 0)
    BY DEF MadePdu
  <2>2. Len(PduChunks(space)) = N + (IF part > 0 THEN 1 ELSE 0)
    BY <1>1, ChunksOf
  <2>3. part > 0 => PduChunks(space)[N + 1] = [sdu |-> sduQueue[N + 1].sdu, len |-> part]
    BY <1>1, ChunksOf
  <2>4. pdu.endFrag <=> part > 0
    <3> HIDE DEF pdu, part
    <3>1. QED
      BY <2>1, Zenon
  <2>5. QED
    BY <2>1, <2>2, <2>3, <2>4
<1>5. 1 \in 1 .. L
  BY <1>1
<1>6. /\ sduQueue[1].sdu \in Nat /\ sduQueue[1].len \in 1 .. SduSize
      /\ TxPlace = [sdu |-> sduQueue[1].sdu, off |-> SduSize - sduQueue[1].len]
  BY <1>1, <1>5, QueuedChunk DEF TxPlace
<1> HIDE DEF N, part, pdu
<1>7. /\ rest \in Seq(Chunks) /\ Len(rest) = L - N
      /\ \A i \in 1 .. L - N : rest[i] = sduQueue[N + i] /\ N + i \in 1 .. L
  <2>1. N \in Nat /\ N + 1 \in Nat /\ L - N \in Nat /\ N <= L
    BY <1>1, <1>2
  <2>2. rest \in Seq(Chunks) /\ Len(rest) = L - N
    BY <1>1, <2>1
  <2>3. ASSUME NEW i \in 1 .. L - N PROVE rest[i] = sduQueue[N + i] /\ N + i \in 1 .. L
    <3>1. rest[i] = sduQueue[(N + 1) + i - 1]
      BY <1>1, <2>1
    <3>2. (N + 1) + i - 1 = N + i /\ N + i \in 1 .. L
      BY <1>1, <2>1
    <3>3. QED
      BY <3>1, <3>2
  <2>4. QED
    BY <2>2, <2>3
<1> HIDE DEF rest, L
\* The first of the queue that is left, without the bytes of the PDU.
<1> DEFINE head == [rest[1] EXCEPT !.len = @ - part]
<1>8. part > 0 => /\ 1 \in 1 .. L - N /\ rest[1] = sduQueue[N + 1]
                  /\ head \in Chunks /\ head.sdu = sduQueue[N + 1].sdu
                  /\ head.len = sduQueue[N + 1].len - part
                  /\ sduQueue' = [rest EXCEPT ![1] = head]
  <2> SUFFICES ASSUME part > 0
               PROVE  /\ 1 \in 1 .. L - N /\ rest[1] = sduQueue[N + 1]
                      /\ head \in Chunks /\ head.sdu = sduQueue[N + 1].sdu
                      /\ head.len = sduQueue[N + 1].len - part
                      /\ sduQueue' = [rest EXCEPT ![1] = head]
    OBVIOUS
  <2>0. N \in Nat /\ N + 1 \in 1 .. L /\ 1 \in 1 .. L - N
    BY <1>1, <1>2
  <2>1. 1 \in 1 .. L - N /\ rest[1] = sduQueue[N + 1] /\ N + 1 \in 1 .. L
    BY <1>7, <2>0
  <2>2. rest[1] \in Chunks /\ rest[1].len \in 1 .. SduSize /\ part < rest[1].len
    BY <1>1, <1>2, <2>1, QueuedChunk DEF L
  <2>3. rest[1].len - part \in 1 .. SduSize
    BY <1>2, <2>2, Shape
  <2>4. head \in Chunks /\ head.sdu = rest[1].sdu /\ head.len = rest[1].len - part
    BY <2>2, <2>3 DEF Chunks
  <2>5. sduQueue' = [rest EXCEPT ![1] = head]
    BY <1>2, <1>3
  <2>6. QED
    BY <2>1, <2>4, <2>5
<1> HIDE DEF head
<1>9. /\ sduQueue' \in Seq(Chunks) /\ Len(sduQueue') = L - N
      /\ \A i \in 1 .. L - N : /\ sduQueue'[i].sdu = sduQueue[N + i].sdu
                               /\ i > 1 \/ part = 0 => sduQueue'[i].len = sduQueue[N + i].len
  <2>1. CASE part = 0
    BY <1>2, <1>3, <1>7, <2>1
  <2>2. CASE part > 0
    <3>1. /\ sduQueue' \in Seq(Chunks) /\ Len(sduQueue') = Len(rest) /\ sduQueue'[1] = head
          /\ \A i \in 1 .. L - N : i # 1 => sduQueue'[i] = rest[i]
      <4>1. 1 \in 1 .. Len(rest) /\ head \in Chunks /\ sduQueue' = [rest EXCEPT ![1] = head]
        BY <1>7, <1>8, <2>2
      <4>2. /\ [rest EXCEPT ![1] = head] \in Seq(Chunks)
            /\ Len([rest EXCEPT ![1] = head]) = Len(rest)
            /\ [rest EXCEPT ![1] = head][1] = head
            /\ \A i \in 1 .. Len(rest) : i # 1 => [rest EXCEPT ![1] = head][i] = rest[i]
        BY <1>7, <4>1
      <4>3. QED
        BY <1>7, <4>1, <4>2
    <3> SUFFICES ASSUME NEW i \in 1 .. L - N
                 PROVE  /\ sduQueue'[i].sdu = sduQueue[N + i].sdu
                        /\ i > 1 \/ part = 0 => sduQueue'[i].len = sduQueue[N + i].len
      BY <1>7, <3>1
    <3>2. CASE i = 1
      BY <1>8, <2>2, <3>1, <3>2
    <3>3. CASE i # 1
      BY <1>7, <3>1, <3>3
    <3>4. QED
      BY <3>2, <3>3
  <2>3. QED
    BY <1>2, <2>1, <2>2
<1>10. \A i \in 1 .. L : /\ sduQueue[i].sdu + L = arrived + (i - 1)
                         /\ sduQueue[i].sdu \in Nat /\ sduQueue[i].len \in Nat
                         /\ i > 1 => sduQueue[i].len = SduSize
  BY <1>1, QueuedChunk DEF QueueShape, L
<1>11. UmTxTypeOK'
  BY <1>1, <1>3, <1>9 DEF UmTxTypeOK
<1>12. N < L => /\ 1 \in 1 .. L - N
                /\ sduQueue'[1].sdu = sduQueue[N + 1].sdu
                /\ sduQueue'[1].len = sduQueue[N + 1].len - part
  <2> SUFFICES ASSUME N < L
               PROVE  /\ 1 \in 1 .. L - N
                      /\ sduQueue'[1].sdu = sduQueue[N + 1].sdu
                      /\ sduQueue'[1].len = sduQueue[N + 1].len - part
    OBVIOUS
  <2>1. 1 \in 1 .. L - N /\ N + 1 \in 1 .. L
    BY <1>1, <1>2
  <2>2. CASE part = 0
    <3>1. sduQueue'[1].sdu = sduQueue[N + 1].sdu /\ sduQueue'[1].len = sduQueue[N + 1].len
      BY <1>9, <2>1, <2>2
    <3>2. sduQueue[N + 1].len \in Nat
      BY <1>10, <2>1
    <3>3. QED
      BY <2>1, <2>2, <3>1, <3>2
  <2>3. CASE part > 0
    <3>1. 1 \in 1 .. Len(rest) /\ sduQueue'[1] = head
      BY <1>7, <1>8, <2>3
    <3>2. QED
      BY <1>8, <2>1, <2>3, <3>1
  <2>4. QED
    BY <1>2, <2>2, <2>3
<1>13. QueueShape'
  <2>1. ASSUME NEW i \in 1 .. Len(sduQueue')
        PROVE  /\ sduQueue'[i].sdu + Len(sduQueue') = arrived' + (i - 1)
               /\ i > 1 => sduQueue'[i].len = SduSize
    <3>1. i \in 1 .. L - N /\ N + i \in 1 .. L /\ i \in Nat
      BY <1>2, <1>7, <1>9
    <3>2. /\ sduQueue'[i].sdu = sduQueue[N + i].sdu
          /\ i > 1 => sduQueue'[i].len = sduQueue[N + i].len /\ N + i > 1
      BY <1>2, <1>9, <3>1
    <3>3. sduQueue[N + i].sdu + L = arrived + ((N + i) - 1)
      BY <1>10, <3>1
    <3>4. sduQueue[N + i].sdu \in Nat
      BY <1>10, <3>1
    <3>5. i > 1 => sduQueue[N + i].len = SduSize
      BY <1>10, <3>1, <3>2
    <3>6. QED
      <4> DEFINE x == sduQueue[N + i].sdu
      <4>1. x \in Nat /\ x + L = arrived + ((N + i) - 1) /\ N \in Nat /\ i \in Nat
        BY <1>2, <3>1, <3>3, <3>4
      <4> HIDE DEF x
      <4>2. x + (L - N) = arrived + (i - 1)
        BY <1>1, <4>1
      <4>3. sduQueue'[i].sdu + Len(sduQueue') = arrived' + (i - 1)
        BY <1>1, <1>9, <3>2, <4>2 DEF x
      <4>4. QED
        BY <3>2, <3>5, <4>3
  <2>2. firstIsFragment' <=> sduQueue' # <<>> /\ sduQueue'[1].len < SduSize
    <3>1. CASE N = L
      <4>1. part = 0 /\ Len(sduQueue') = 0
        BY <1>1, <1>2, <1>9, <3>1
      <4>2. sduQueue' = <<>>
        BY <1>9, <4>1
      <4>3. ~firstIsFragment' /\ ~(sduQueue' # <<>>)
        BY <1>3, <4>1, <4>2
      <4>4. QED
        BY <4>3, Zenon
    <3>2. CASE N < L
      <4>1. sduQueue' # <<>>
        BY <1>1, <1>2, <1>9, <3>2
      <4>2. N + 1 \in 1 .. L /\ sduQueue[N + 1].len \in 1 .. SduSize
        BY <1>1, <1>2, <3>2, QueuedChunk DEF L
      <4>3. part = 0 => sduQueue[N + 1].len = SduSize
        BY <1>2, <1>10, <4>2
      <4>4. sduQueue'[1].len < SduSize <=> part > 0
        BY <1>2, <1>12, <3>2, <4>2, <4>3, Shape
      <4>5. QED
        BY <1>3, <4>1, <4>4, Zenon
    <3>3. QED
      BY <1>1, <1>2, <3>1, <3>2
  <2>3. QED
    BY <2>1, <2>2, Zenon DEF QueueShape
<1>14. TxPlace' = EndOf(pdu, TxPlace)
  <2> DEFINE s == sduQueue[1].sdu
  <2>1. s + L = arrived /\ s \in Nat
    <3>1. s + L = arrived + (1 - 1) /\ s \in Nat
      BY <1>5, <1>10
    <3>2. QED
      BY <1>1, <3>1
  <2>2. CASE N = L
    <3>1. part = 0 /\ sduQueue' = <<>>
      BY <1>1, <1>2, <1>9, <2>2
    <3>2. EndOf(pdu, TxPlace) = [sdu |-> s + N, off |-> 0]
      <4>1. ~pdu.endFrag /\ Len(pdu.chunks) = N /\ TxPlace.sdu = s
        BY <1>2, <1>4, <1>6, <3>1
      <4>2. QED
        BY <4>1 DEF EndOf
    <3>3. TxPlace' = [sdu |-> arrived, off |-> 0]
      BY <1>1, <3>1 DEF TxPlace
    <3>4. s + N = arrived
      BY <2>1, <2>2
    <3>5. QED
      BY <3>2, <3>3, <3>4
  <2>3. CASE N < L
    <3>1. N + 1 \in 1 .. L /\ sduQueue' # <<>>
      BY <1>1, <1>2, <1>9, <2>3
    <3>2. sduQueue[N + 1].sdu = s + N
      <4>1. sduQueue[N + 1].sdu + L = arrived + ((N + 1) - 1) /\ sduQueue[N + 1].sdu \in Nat
        BY <1>10, <3>1
      <4> DEFINE x == sduQueue[N + 1].sdu
      <4>2. x + L = arrived + ((N + 1) - 1) /\ x \in Nat
        BY <4>1
      <4>3. L \in Nat /\ N \in Nat /\ arrived \in Nat
        BY <1>1, <1>2
      <4> HIDE DEF x, N, L, s
      <4>4. x = s + N
        BY <2>1, <4>2, <4>3
      <4>5. QED
        BY <4>4 DEF x
    <3>3. TxPlace' = [sdu |-> s + N, off |-> SduSize - (sduQueue[N + 1].len - part)]
      BY <1>12, <2>3, <3>1, <3>2 DEF TxPlace
    <3>4. CASE part = 0
      <4>1. EndOf(pdu, TxPlace) = [sdu |-> s + N, off |-> 0]
        <5>1. ~pdu.endFrag /\ Len(pdu.chunks) = N /\ TxPlace.sdu = s
          BY <1>2, <1>4, <1>6, <3>4
        <5>2. QED
          BY <5>1 DEF EndOf
      <4>2. sduQueue[N + 1].len = SduSize
        BY <1>2, <1>10, <3>1, <3>4
      <4>3. SduSize - (sduQueue[N + 1].len - part) = 0
        BY <3>4, <4>2, Shape
      <4>4. QED
        BY <3>3, <4>1, <4>3
    <3>5. CASE part > 0
      <4>1. Len(pdu.chunks) = N + 1 /\ pdu.endFrag /\ (N + 1) - 1 = N
        BY <1>2, <1>4, <3>5
      <4>2. EndOf(pdu, TxPlace) = [sdu |-> s + N, off |-> ChunkOff(TxPlace, N + 1) + part]
        BY <1>4, <1>6, <3>5, <4>1 DEF EndOf
      <4>3. ChunkOff(TxPlace, N + 1) = SduSize - sduQueue[N + 1].len
        <5>1. CASE N = 0
          BY <1>6, <5>1 DEF ChunkOff
        <5>2. CASE N # 0
          <6>1. sduQueue[N + 1].len = SduSize
            BY <1>2, <1>10, <3>1, <5>2
          <6>2. ChunkOff(TxPlace, N + 1) = 0
            BY <1>2, <5>2 DEF ChunkOff
          <6>3. QED
            BY <6>1, <6>2, Shape
        <5>3. QED
          BY <5>1, <5>2
      <4>4. sduQueue[N + 1].len \in Nat
        BY <1>10, <3>1
      <4>5. SduSize - (sduQueue[N + 1].len - part) = (SduSize - sduQueue[N + 1].len) + part
        BY <1>2, <4>4, Shape
      <4>6. QED
        BY <3>3, <4>2, <4>3, <4>5
    <3>6. QED
      BY <1>2, <3>4, <3>5
  <2>4. QED
    BY <1>1, <1>2, <2>2, <2>3
<1>15. QED
  BY <1>11, <1>13, <1>14 DEF pdu

(***************************************************************************)
(* The window of the receiver.                                             *)
(***************************************************************************)
LEMMA NextMissingOf ==
  ASSUME NEW buffer, NEW first \in Nat, NEW from \in Nat, NEW high \in Nat, from <= high,
         NEW until \in Nat
  PROVE  LET n == NextMissing(buffer, first, from, high, until)
         IN  /\ n \in from .. high
             /\ n = high \/ ~(n < until \/ Received(buffer, first, n))
             /\ \A m \in from .. n - 1 : m < until \/ Received(buffer, first, m)
<1> DEFINE Past(m) == m < until \/ Received(buffer, first, m)
           T == {m \in from .. high : m = high \/ ~Past(m)}
<1> HIDE DEF Past
<1>1. T \in SUBSET Nat /\ high \in T
  OBVIOUS
<1>2. PICK n \in T : \A m \in T : n <= m
  BY <1>1, LeastOf
<1>3. n \in from .. high /\ (n = high \/ ~Past(n))
  BY <1>2
<1>4. \A m \in from .. n - 1 : Past(m)
  BY <1>2, <1>3
<1>5. \E k \in from .. high :
        /\ k = high \/ ~(k < until \/ Received(buffer, first, k))
        /\ \A m \in from .. k - 1 : m < until \/ Received(buffer, first, m)
  BY <1>3, <1>4 DEF Past
<1>6. QED
  BY <1>5 DEF NextMissing

Windows == [first : Nat, from : Nat, high : Nat, size : {1, RxWindowSize}]

WindowInOrder(w) == w.first <= w.from /\ w.from <= w.high /\ w.high <= w.first + w.size

\* The PDUs that are held back, each at its position.
Held(buffer, w) ==
  \A i \in Positions : buffer[i] # Nothing =>
    buffer[i].sno = w.first + i /\ w.from < w.first + i /\ w.first + i < w.high

LEMMA ShiftOf ==
  ASSUME NEW w \in Windows, WindowInOrder(w), NEW tsn \in Nat, w.from <= tsn
  PROVE  /\ Shift(w, tsn) \in Nat
         /\ w.first + Shift(w, tsn) <= tsn
         /\ tsn < w.first + Shift(w, tsn) + w.size
         /\ tsn < w.high => Shift(w, tsn) = 0
<1>1. /\ w.first \in Nat /\ w.from \in Nat /\ w.high \in Nat /\ w.size \in Nat /\ w.size > 0
      /\ w.first <= w.from /\ w.from <= w.high /\ w.high <= w.first + w.size
  BY Shape DEF Windows, WindowInOrder
<1> QED
  BY <1>1 DEF Shift

\* The window a PDU finds that is not discarded.
LEMMA WindowOf ==
  ASSUME UmRxTypeOK, WindowSound, WindowShape, NEW pdu \in Pdus,
         SetsWindow \/ ~(Considered(pdu.sno) \/ AlreadyReceived(pdu.sno))
  PROVE  /\ Window(pdu.sno) \in Windows /\ WindowInOrder(Window(pdu.sno))
         /\ Held(pduBuffer, Window(pdu.sno))
         /\ Window(pdu.sno).from <= pdu.sno
         /\ reorderFrom <= Window(pdu.sno).from
         /\ pdu.sno < Window(pdu.sno).high =>
              ~SetsWindow /\ ~Received(pduBuffer, firstSno, pdu.sno)
         /\ SetsWindow => ~timer /\ pduBuffer = EmptyBuffer
         /\ Window(pdu.sno).size = IF multicast /\ (init \/ SetsWindow) THEN 1 ELSE RxWindowSize
<1> DEFINE tsn == pdu.sno
           w == Window(tsn)
<1>1. tsn \in Nat
  BY DEF Pdus
<1>2. /\ firstSno \in Nat /\ reorderFrom \in Nat /\ reorderingSno \in Nat /\ highestSno \in Nat
      /\ windowSize \in {1, RxWindowSize} /\ pduBuffer \in [Positions -> Pdus \cup {Nothing}]
  BY DEF UmRxTypeOK
<1>3. CASE SetsWindow
  <2>1. w = [first |-> tsn, from |-> tsn, high |-> tsn, size |-> 1]
    BY <1>3 DEF Window
  <2>2. highestSno = 0 /\ reorderFrom = 0
    BY <1>2, <1>3 DEF WindowSound, WindowShape
  <2>3. ~timer
    BY <1>2, <2>2 DEF WindowSound
  <2>4. \A i \in Positions : pduBuffer[i] = Nothing
    BY <2>3 DEF WindowSound
  <2>5. pduBuffer = EmptyBuffer
    BY <1>2, <2>4 DEF EmptyBuffer
  <2>6. Held(pduBuffer, w)
    BY <2>4 DEF Held
  <2>7. w \in Windows
    BY <1>1, <2>1 DEF Windows
  <2>8. WindowInOrder(w)
    BY <1>1, <2>1 DEF WindowInOrder
  <2>9. w.size = IF multicast /\ (init \/ SetsWindow) THEN 1 ELSE RxWindowSize
    BY <1>3, <2>1 DEF SetsWindow
  <2>10. w.from = tsn /\ w.high = tsn
    BY <2>1
  <2> HIDE DEF w
  <2>11. QED
    BY <1>1, <2>2, <2>3, <2>5, <2>6, <2>7, <2>8, <2>9, <2>10 DEF w
<1>4. CASE ~SetsWindow
  <2>1. w = [first |-> firstSno, from |-> reorderFrom, high |-> highestSno, size |-> windowSize]
    BY <1>4 DEF Window
  <2>2. w.first = firstSno /\ w.from = reorderFrom /\ w.high = highestSno /\ w.size = windowSize
    BY <2>1
  <2>3. w \in Windows
    BY <1>2, <2>1 DEF Windows
  <2>4. WindowInOrder(w)
    BY <2>2 DEF WindowInOrder, WindowSound
  <2>5. Held(pduBuffer, w)
    BY <2>2 DEF Held, WindowSound
  <2>6. ~Considered(tsn) /\ ~AlreadyReceived(tsn)
    BY <1>4
  <2>7. reorderFrom <= tsn /\ (tsn < highestSno => ~Received(pduBuffer, firstSno, tsn))
    BY <1>1, <1>2, <2>6 DEF Considered, AlreadyReceived
  <2>8. w.size = IF multicast /\ (init \/ SetsWindow) THEN 1 ELSE RxWindowSize
    BY <1>4, <2>2 DEF WindowShape
  <2> HIDE DEF w
  <2>9. QED
    BY <1>2, <1>4, <2>2, <2>3, <2>4, <2>5, <2>7, <2>8 DEF w
<1>5. QED
  BY <1>3, <1>4

\* The position of a PDU exists and is free.
LEMMA PositionOf ==
  ASSUME UmRxTypeOK, WindowSound, WindowShape, NEW pdu \in Pdus,
         SetsWindow \/ ~(Considered(pdu.sno) \/ AlreadyReceived(pdu.sno)),
         NEW w, w = Window(pdu.sno), NEW n, n = Shift(w, pdu.sno)
  PROVE  /\ n \in Nat /\ w.first + n <= pdu.sno /\ pdu.sno < w.first + n + w.size
         /\ pdu.sno < w.high => n = 0
         /\ pdu.sno - (w.first + n) \in Positions
         /\ ShiftedBuffer(pduBuffer, n)[pdu.sno - (w.first + n)] = Nothing
         /\ ~EnqueFails(pdu, w, n)
<1> DEFINE tsn == pdu.sno
           p == tsn - (w.first + n)
<1>1. tsn \in Nat
  BY DEF Pdus
<1>2. /\ w \in Windows /\ WindowInOrder(w) /\ Held(pduBuffer, w) /\ w.from <= tsn
      /\ tsn < w.high => ~SetsWindow /\ ~Received(pduBuffer, firstSno, tsn)
  BY WindowOf
<1>3. n \in Nat /\ w.first + n <= tsn /\ tsn < w.first + n + w.size /\ (tsn < w.high => n = 0)
  BY <1>1, <1>2, ShiftOf
<1>4. w.first \in Nat /\ w.size \in {1, RxWindowSize} /\ w.high \in Nat
  BY <1>2 DEF Windows
<1>5. p \in Positions
  BY <1>1, <1>3, <1>4, Shape DEF Positions
<1>6. ShiftedBuffer(pduBuffer, n)[p] = Nothing
  <2>1. ShiftedBuffer(pduBuffer, n)[p] = IF p + n \in Positions THEN pduBuffer[p + n] ELSE Nothing
    BY <1>5 DEF ShiftedBuffer
  <2>2. SUFFICES ASSUME p + n \in Positions, pduBuffer[p + n] # Nothing PROVE FALSE
    BY <2>1
  <2>3. tsn < w.high /\ p + n = tsn - w.first
    <3>1. w.first + (p + n) < w.high
      BY <1>2, <2>2 DEF Held
    <3>2. p + n = tsn - w.first
      BY <1>1, <1>3, <1>4
    <3>3. w.first + (tsn - w.first) = tsn
      BY <1>1, <1>4
    <3>4. QED
      BY <3>1, <3>2, <3>3
  <2>4. w.first = firstSno
    BY <1>2, <2>3 DEF Window
  <2>5. pduBuffer[tsn - firstSno] = Nothing
    BY <1>2, <2>3 DEF Received
  <2>6. QED
    BY <2>2, <2>3, <2>4, <2>5
<1>7. ~EnqueFails(pdu, w, n)
  BY <1>5, <1>6 DEF EnqueFails
<1>8. QED
  BY <1>3, <1>5, <1>6, <1>7

(***************************************************************************)
(* Reassembly from what the receiver has, and what it takes over.          *)
(***************************************************************************)
LEMMA AssemblyNow ==
  ASSUME UmRxTypeOK
  PROVE  /\ Assembly \in Assemblies /\ passedUp \in Seq(Sdus)
         /\ \A begin : Seen(begin) => SeenUpto(Assembly, begin[reorderFrom])
<1>1. Chunks \subseteq [sdu : Sdus, len : Nat \ {0}]
  BY Shape DEF Chunks
<1>2. /\ buffered \in Chunks \cup {Nothing} /\ lastSnoDelivered \in Sdus \cup {0}
      /\ passedUp \in Seq(Sdus)
  BY DEF UmRxTypeOK
<1>3. Assembly \in Assemblies
  BY <1>1, <1>2 DEF Assembly, Assemblies
<1>4. AllUp(Assembly) = passedUp
  BY <1>2 DEF AllUp, Assembly
<1>5. counted \cup Assembly.lost = counted
  BY DEF Assembly
<1>6. Assembly.buffered = buffered /\ Assembly.last = lastSnoDelivered /\ ~Assembly.failed
  BY DEF Assembly
<1>7. QED
  BY <1>2, <1>3, <1>4, <1>5, <1>6, Zenon DEF Seen, SeenUpto

\* What awaits its rest is a chunk: it is shorter than its SDU.
LEMMA TakenOver ==
  ASSUME UmRxTypeOK, NEW a \in Assemblies, NEW p, SeenUpto(a, p), TakesOver(a)
  PROVE  /\ buffered' \in Chunks \cup {Nothing} /\ lastSnoDelivered' \in Sdus \cup {0}
         /\ passedUp' \in Seq(Sdus) /\ counted' \subseteq Sdus
         /\ RestSeen(buffered', p) /\ UpSeen(passedUp', p)
         /\ ~restarted => CountedSeen(passedUp', lastSnoDelivered', counted')
<1>1. /\ a.buffered \in [sdu : Sdus, len : Nat \ {0}] \cup {Nothing}
      /\ a.last \in Sdus \cup {0} /\ a.up \in Seq(Sdus) /\ a.lost \subseteq Sdus
  BY DEF Assemblies
<1>2. /\ buffered' = a.buffered /\ lastSnoDelivered' = a.last /\ passedUp' = passedUp \o a.up
      /\ counted' = counted \cup a.lost
  BY DEF TakesOver
<1>3. buffered' \in Chunks \cup {Nothing}
  <2>1. SUFFICES ASSUME a.buffered # Nothing PROVE a.buffered \in Chunks
    BY <1>1, <1>2
  <2>2. a.buffered \in [sdu : Sdus, len : Nat \ {0}] /\ a.buffered.len < SduSize
    BY <1>1, <2>1 DEF SeenUpto, RestSeen
  <2>3. QED
    BY <2>2, Shape DEF Chunks
<1>4. passedUp \in Seq(Sdus) /\ counted \subseteq Sdus
  BY DEF UmRxTypeOK
<1>5. passedUp' = AllUp(a)
  BY <1>2 DEF AllUp
<1>6. passedUp' \in Seq(Sdus) /\ counted' \subseteq Sdus
  BY <1>1, <1>2, <1>4
<1>7. RestSeen(buffered', p) /\ UpSeen(passedUp', p)
  BY <1>2, <1>5 DEF SeenUpto
<1>8. ~restarted => CountedSeen(passedUp', lastSnoDelivered', counted')
  BY <1>2, <1>5 DEF SeenUpto
<1>9. QED
  BY <1>1, <1>2, <1>3, <1>6, <1>7, <1>8

\* The PDUs the receiver holds.
BufferOf(buffer) == {buffer[i] : i \in Positions} \ {Nothing}

(***************************************************************************)
(* A PDU that is buffered.                                                 *)
(***************************************************************************)
ShiftedWith(buffer, n, p, pdu) == [ShiftedBuffer(buffer, n) EXCEPT ![p] = pdu]

\* The PDUs of a window that begins at first, that has been joined by pdu.
Joined(shifted, buffer, w, first, p, pdu) ==
  \A i \in Positions : shifted[i] # Nothing =>
    /\ shifted[i].sno = first + i
    /\ w.from <= shifted[i].sno
    /\ i # p => shifted[i].sno < w.high
    /\ shifted[i] \in BufferOf(buffer) \cup {pdu}

LEMMA ShiftedHeld ==
  ASSUME NEW w \in Windows, NEW buffer \in [Positions -> Pdus \cup {Nothing}], Held(buffer, w),
         NEW pdu \in Pdus, NEW n \in Nat, NEW p \in Positions, pdu.sno = (w.first + n) + p,
         w.from <= pdu.sno
  PROVE  /\ ShiftedWith(buffer, n, p, pdu) \in [Positions -> Pdus \cup {Nothing}]
         /\ ShiftedWith(buffer, n, p, pdu)[p] = pdu
         /\ Joined(ShiftedWith(buffer, n, p, pdu), buffer, w, w.first + n, p, pdu)
<1> DEFINE shifted == ShiftedWith(buffer, n, p, pdu)
<1>1. Positions \subseteq Nat
  BY DEF Positions
<1>2. \A i \in Positions : i + n \in Positions \/ ShiftedBuffer(buffer, n)[i] = Nothing
  BY DEF ShiftedBuffer
<1>3. ShiftedBuffer(buffer, n) \in [Positions -> Pdus \cup {Nothing}]
  BY DEF ShiftedBuffer
<1>4. /\ shifted \in [Positions -> Pdus \cup {Nothing}] /\ shifted[p] = pdu
      /\ \A i \in Positions : i # p => shifted[i] = ShiftedBuffer(buffer, n)[i]
  BY <1>3 DEF ShiftedWith
<1> HIDE DEF shifted
<1>5. ASSUME NEW i \in Positions, shifted[i] # Nothing
      PROVE  /\ shifted[i].sno = (w.first + n) + i
             /\ w.from <= shifted[i].sno
             /\ i # p => shifted[i].sno < w.high
             /\ shifted[i] \in BufferOf(buffer) \cup {pdu}
  <2>1. CASE i = p
    BY <1>4, <2>1
  <2>2. CASE i # p
    <3>1. shifted[i] = ShiftedBuffer(buffer, n)[i]
      BY <1>4, <2>2
    <3>2. i + n \in Positions /\ shifted[i] = buffer[i + n]
      BY <1>2, <1>5, <3>1 DEF ShiftedBuffer
    <3>3. /\ buffer[i + n].sno = w.first + (i + n) /\ w.from < w.first + (i + n)
          /\ w.first + (i + n) < w.high
      BY <1>5, <3>2 DEF Held
    <3>4. w.first \in Nat /\ w.from \in Nat /\ w.high \in Nat /\ i \in Nat
      BY <1>1 DEF Windows
    <3>5. shifted[i] \in BufferOf(buffer)
      BY <1>5, <3>2 DEF BufferOf
    <3>6. shifted[i].sno = (w.first + n) + i
      BY <3>2, <3>3, <3>4
    <3>7. w.from <= shifted[i].sno /\ shifted[i].sno < w.high
      BY <3>2, <3>3, <3>4
    <3>8. QED
      BY <3>5, <3>6, <3>7
  <2>3. QED
    BY <2>1, <2>2
<1>6. QED
  BY <1>4, <1>5, Zenon DEF Joined, shifted

HeldFrom(buffer, first, from, high) ==
  \A i \in Positions : buffer[i] # Nothing =>
    buffer[i].sno = first + i /\ from <= first + i /\ first + i < high

LeftOf(left, buffer, first, next, high) ==
  /\ left \in [Positions -> Pdus \cup {Nothing}]
  /\ \A i \in Positions : left[i] # Nothing =>
       /\ left[i] = buffer[i] /\ left[i].sno = first + i
       /\ next < first + i /\ first + i < high

\* What is left in the buffer once its PDUs up to the first gap are taken out.
LEMMA HeldAfter ==
  ASSUME NEW first \in Nat, NEW from \in Nat, NEW high \in Nat, first <= from, from <= high,
         NEW buffer \in [Positions -> Pdus \cup {Nothing}], HeldFrom(buffer, first, from, high),
         NEW until \in Nat, NEW next, next = NextMissing(buffer, first, from, high, until)
  PROVE  LeftOf(Without(buffer, from - first .. next - first - 1), buffer, first, next, high)
<1> DEFINE left == Without(buffer, from - first .. next - first - 1)
<1>1. next \in from .. high /\ (next = high \/ ~Received(buffer, first, next))
  BY NextMissingOf
<1>2. left \in [Positions -> Pdus \cup {Nothing}]
  BY DEF Without
<1>3. ASSUME NEW i \in Positions, left[i] # Nothing
      PROVE  /\ left[i] = buffer[i] /\ left[i].sno = first + i
             /\ next < first + i /\ first + i < high
  <2>1. i \notin from - first .. next - first - 1 /\ left[i] = buffer[i]
    BY <1>3 DEF Without
  <2>2. buffer[i].sno = first + i /\ from <= first + i /\ first + i < high
    BY <1>3, <2>1 DEF HeldFrom
  <2>3. i \in Nat
    BY DEF Positions
  <2>4. next <= first + i
    BY <1>1, <2>1, <2>2, <2>3
  <2>5. next # first + i
    <3>1. SUFFICES ASSUME next = first + i PROVE FALSE
      OBVIOUS
    <3>2. next - first = i /\ next # high
      BY <1>1, <2>2, <2>3, <3>1
    <3>3. buffer[i] = Nothing
      BY <1>1, <3>2 DEF Received
    <3>4. QED
      BY <1>3, <2>1, <3>3
  <2>6. QED
    BY <1>1, <2>1, <2>2, <2>3, <2>4, <2>5
<1>4. QED
  BY <1>2, <1>3, Zenon DEF LeftOf

(***************************************************************************)
(* What is reassembled are PDUs that the receiver has, in order.           *)
(***************************************************************************)
\* Some of pdus, none of a number below low, at positions told from first.
Lined(line, from, to, first, low, pdus) ==
  \A p \in from .. to - 1 :
    /\ line[p] \in pdus \cup {Nothing}
    /\ line[p] # Nothing => line[p].sno = first + p /\ low <= line[p].sno

\* a is what reassembly makes of them, up to the number next.
Reassembles(a, pdus, low, next) ==
  \E line : \E first, from, to \in Int :
    /\ from <= to /\ first + to <= next
    /\ Lined(line, from, to, first, low, pdus)
    /\ a = Reassembled(Assembly, line, from, to)

AllCut(begin, pdus) == \A pdu \in pdus : pdu \in Pdus /\ pdu.sno < sno /\ CutPdu(begin, pdu)

\* The window may reach beyond the number of the next PDU.
Known(n) == IF n <= sno THEN n ELSE sno

LEMMA SeenAll ==
  ASSUME UmRxTypeOK, sno \in Nat, NEW begin \in [Nat -> Places], Ordered(begin, sno), Seen(begin),
         NEW low \in Nat, reorderFrom <= low, low <= sno, NEW next \in Nat, low <= next,
         NEW pdus, AllCut(begin, pdus), NEW a, Reassembles(a, pdus, low, next)
  PROVE  a \in Assemblies /\ SeenUpto(a, begin[Known(next)])
<1> DEFINE top == IF next <= sno THEN sno ELSE next
           later == [n \in Nat |-> begin[Known(n)]]
<1>1. PICK line : \E first, from, to \in Int :
               /\ from <= to /\ first + to <= next
               /\ Lined(line, from, to, first, low, pdus)
               /\ a = Reassembled(Assembly, line, from, to)
  BY Zenon DEF Reassembles
<1>2. PICK first \in Int, from \in Int, to \in Int :
               /\ from <= to /\ first + to <= next
               /\ Lined(line, from, to, first, low, pdus)
               /\ a = Reassembled(Assembly, line, from, to)
  BY <1>1
<1>3. \A n \in Nat : Known(n) \in 0 .. sno /\ (n <= sno => Known(n) = n)
  BY DEF Known
<1>4. /\ later \in [Nat -> Places]
      /\ \A n \in Nat : later[n] = begin[Known(n)] /\ (n <= sno => later[n] = begin[n])
  BY <1>3
<1>5. top \in Nat /\ low \in 0 .. top /\ next \in low .. top /\ first + to <= top
  BY <1>2
<1> HIDE DEF later, top
<1>6. Ordered(later, top)
  <2> SUFFICES ASSUME NEW i \in 0 .. top, NEW j \in 0 .. top, i <= j
               PROVE  Upto(later[i], later[j])
    BY DEF Ordered
  <2>1. i \in Nat /\ j \in Nat
    BY <1>5
  <2>2. Known(i) \in 0 .. sno /\ Known(j) \in 0 .. sno /\ Known(i) <= Known(j)
    BY <2>1 DEF Known
  <2>3. Upto(begin[Known(i)], begin[Known(j)])
    BY <2>2 DEF Ordered
  <2>4. QED
    BY <1>4, <2>1, <2>3
<1>7. \A pdu \in pdus : pdu \in Pdus /\ CutPdu(later, pdu)
  <2> SUFFICES ASSUME NEW pdu \in pdus PROVE pdu \in Pdus /\ CutPdu(later, pdu)
    OBVIOUS
  <2>1. pdu \in Pdus /\ pdu.sno < sno /\ CutPdu(begin, pdu)
    BY DEF AllCut
  <2>2. pdu.sno \in Nat
    BY <2>1 DEF Pdus
  <2>3. later[pdu.sno] = begin[pdu.sno] /\ later[pdu.sno + 1] = begin[pdu.sno + 1]
    BY <1>4, <2>1, <2>2
  <2>4. QED
    BY <2>1, <2>3 DEF CutPdu
<1>8. InLine(line, from, to, first, low, later)
  BY <1>2, <1>7, Zenon DEF InLine, Lined
<1>9. Assembly \in Assemblies /\ passedUp \in Seq(Sdus) /\ SeenUpto(Assembly, begin[reorderFrom])
  BY AssemblyNow
<1>10. SeenUpto(Assembly, later[low])
  <2>1. reorderFrom \in Nat
    BY DEF UmRxTypeOK
  <2>2. Upto(begin[reorderFrom], begin[low])
    BY <2>1 DEF Ordered
  <2>3. begin[reorderFrom] \in Places /\ begin[low] \in Places
    BY <2>1
  <2>4. later[low] = begin[low]
    BY <1>4
  <2>5. QED
    BY <1>9, <2>2, <2>3, <2>4, SeenLater
<1>11. a \in Assemblies /\ SeenUpto(a, later[next])
  BY <1>2, <1>4, <1>5, <1>6, <1>8, <1>9, <1>10, SeenPdus
<1>12. QED
  BY <1>4, <1>11

\* EnqueBuffers: the window and what it holds.
LEMMA BuffersWindow ==
  ASSUME UmRxTypeOK, WindowSound, WindowShape, NEW pdu \in Pdus, pdu.sno < sno, sno \in Nat,
         ~away, SetsWindow \/ ~(Considered(pdu.sno) \/ AlreadyReceived(pdu.sno)),
         EnqueBuffers(pdu, Window(pdu.sno), Shift(Window(pdu.sno), pdu.sno)),
         away' = away, sno' = sno
  PROVE  /\ multicast' \in BOOLEAN /\ init' \in BOOLEAN /\ timer' \in BOOLEAN
         /\ windowSize' \in {1, RxWindowSize}
         /\ firstSno' \in Nat /\ reorderFrom' \in Nat
         /\ reorderingSno' \in Nat /\ highestSno' \in Nat
         /\ pduBuffer' \in [Positions -> Pdus \cup {Nothing}]
         /\ WindowSound' /\ WindowShape'
         /\ BufferOf(pduBuffer') \subseteq BufferOf(pduBuffer) \cup {pdu}
         /\ reorderFrom' \in Nat /\ reorderFrom' <= sno
         /\ \E a : \E low \in Nat :
              /\ reorderFrom <= low /\ low <= reorderFrom'
              /\ Reassembles(a, BufferOf(pduBuffer) \cup {pdu}, low, reorderFrom')
              /\ TakesOver(a)
              /\ thrown' = IF a.failed THEN "reassembly" ELSE "none"
<1> DEFINE tsn == pdu.sno
           w == Window(tsn)
           n == Shift(w, tsn)
           first == w.first + n
           high == IF tsn < w.high THEN w.high ELSE tsn + 1
           from == IF w.from < first THEN first ELSE w.from
           p == tsn - first
           shifted == [ShiftedBuffer(pduBuffer, n) EXCEPT ![p] = pdu]
           next == NextMissing(shifted, first, from, high, 0)
           inOrder == [i \in 0 .. n + RxWindowSize - 1 |->
                         IF i < n THEN (IF i \in Positions THEN pduBuffer[i] ELSE Nothing)
                         ELSE shifted[i - n]]
           to == n + (next - first)
           a == Reassembled(Assembly, inOrder, 0, to)
<1>1. tsn \in Nat
  BY DEF Pdus
<1>2. /\ firstSno \in Nat /\ reorderFrom \in Nat /\ reorderingSno \in Nat /\ highestSno \in Nat
      /\ windowSize \in {1, RxWindowSize} /\ pduBuffer \in [Positions -> Pdus \cup {Nothing}]
      /\ multicast \in BOOLEAN /\ init \in BOOLEAN /\ timer \in BOOLEAN
  BY DEF UmRxTypeOK
<1>3. /\ w \in Windows /\ WindowInOrder(w) /\ Held(pduBuffer, w) /\ w.from <= tsn
      /\ SetsWindow => ~timer
      /\ reorderFrom <= w.from
      /\ w.size = IF multicast /\ (init \/ SetsWindow) THEN 1 ELSE RxWindowSize
  BY WindowOf
<1>4. /\ n \in Nat /\ first <= tsn /\ tsn < first + w.size
      /\ tsn < w.high => n = 0
      /\ p \in Positions
  BY PositionOf
<1>5. /\ w.first \in Nat /\ w.from \in Nat /\ w.high \in Nat /\ w.size \in {1, RxWindowSize}
      /\ w.first <= w.from /\ w.from <= w.high /\ w.high <= w.first + w.size
  BY <1>3 DEF Windows, WindowInOrder
<1>6. /\ firstSno' = first /\ highestSno' = high /\ reorderFrom' = next
      /\ pduBuffer' = Without(shifted, from - first .. next - first - 1)
      /\ windowSize' = w.size /\ multicast' = multicast
  BY Zenon DEF EnqueBuffers
<1>7. /\ timer' = (TimerGoesOn(first, next, high) \/ high > next)
      /\ reorderingSno' = IF TimerGoesOn(first, next, high) \/ high = next
                          THEN reorderingSno ELSE high
      /\ init' = (init \/ SetsWindow)
  BY Zenon DEF EnqueBuffers
<1>t. TakesOver(a) /\ thrown' = IF a.failed THEN "reassembly" ELSE "none"
  BY Zenon DEF EnqueBuffers
<1> HIDE DEF a
<1>8. p \in Nat /\ tsn = first + p
  BY <1>1, <1>4, <1>5 DEF Positions
<1> HIDE DEF w, n
<1>9. /\ first \in Nat /\ from \in Nat /\ high \in Nat /\ first <= from /\ from <= high
      /\ from <= tsn /\ tsn < high /\ w.high <= high /\ high <= first + w.size /\ w.from <= from
  <2>1. first \in Nat /\ (tsn < w.high => first = w.first)
    BY <1>4, <1>5
  <2> HIDE DEF first
  <2>2. from \in Nat /\ first <= from /\ from <= tsn /\ w.from <= from
    BY <1>1, <1>3, <1>4, <1>5, <2>1
  <2>3. tsn < w.high => from = w.from
    BY <1>5, <2>1
  <2> HIDE DEF from
  <2>4. CASE tsn < w.high
    BY <1>1, <1>4, <1>5, <2>1, <2>2, <2>3, <2>4
  <2>5. CASE ~(tsn < w.high)
    <3>1. high = tsn + 1
      BY <2>5
    <3> HIDE DEF high
    <3>2. QED
      BY <1>1, <1>4, <1>5, <2>1, <2>2, <2>5, <3>1, Shape
  <2>6. QED
    BY <2>4, <2>5
<1>10. /\ shifted \in [Positions -> Pdus \cup {Nothing}] /\ shifted[p] = pdu
       /\ \A i \in Positions : shifted[i] # Nothing =>
              /\ shifted[i].sno = first + i
              /\ w.from <= shifted[i].sno
              /\ i # p => shifted[i].sno < w.high
              /\ shifted[i] \in BufferOf(pduBuffer) \cup {pdu}
  <2>1. shifted = ShiftedWith(pduBuffer, n, p, pdu)
    BY DEF ShiftedWith
  <2>2. pdu.sno = (w.first + n) + p
    BY <1>8
  <2>3. n \in Nat /\ p \in Positions /\ w \in Windows /\ Held(pduBuffer, w) /\ w.from <= pdu.sno
    BY <1>3, <1>4
  <2> HIDE DEF p, shifted
  <2>4. /\ shifted \in [Positions -> Pdus \cup {Nothing}] /\ shifted[p] = pdu
        /\ Joined(shifted, pduBuffer, w, w.first + n, p, pdu)
    BY <1>2, <2>1, <2>2, <2>3, ShiftedHeld
  <2>5. QED
    BY <2>4, Zenon DEF Joined
<1> HIDE DEF shifted, high, p
<1>11. \A i \in Positions : shifted[i] # Nothing =>
         shifted[i].sno = first + i /\ from <= first + i /\ first + i < high
  <2> SUFFICES ASSUME NEW i \in Positions, shifted[i] # Nothing
               PROVE  shifted[i].sno = first + i /\ from <= first + i /\ first + i < high
    OBVIOUS
  <2>1. i \in Nat
    BY DEF Positions
  <2>2. /\ shifted[i].sno = first + i /\ w.from <= shifted[i].sno
        /\ i # p => shifted[i].sno < w.high
    BY <1>10
  <2>3. i = p => first + i = tsn
    BY <1>8
  <2>4. QED
    BY <1>5, <1>9, <2>1, <2>2, <2>3
<1> HIDE DEF first, from
<1>12. next \in from .. high
  BY <1>9, NextMissingOf
<1> HIDE DEF next
<1>13. /\ pduBuffer' \in [Positions -> Pdus \cup {Nothing}]
       /\ \A i \in Positions : pduBuffer'[i] # Nothing =>
            /\ pduBuffer'[i] = shifted[i] /\ pduBuffer'[i].sno = first + i
            /\ next < first + i /\ first + i < high
  <2>1. first \in Nat /\ from \in Nat /\ high \in Nat /\ first <= from /\ from <= high
    BY <1>9
  <2>2. shifted \in [Positions -> Pdus \cup {Nothing}]
    BY <1>10
  <2>3. next = NextMissing(shifted, first, from, high, 0) /\ 0 \in Nat
    BY DEF next
  <2>4. pduBuffer' = Without(shifted, from - first .. next - first - 1)
    BY <1>6
  <2>5. HeldFrom(shifted, first, from, high)
    BY <1>11, Zenon DEF HeldFrom
  <2>6. LeftOf(pduBuffer', shifted, first, next, high)
    BY <2>1, <2>2, <2>3, <2>4, <2>5, HeldAfter
  <2>7. QED
    BY <2>6, Zenon DEF LeftOf
<1>14. BufferOf(pduBuffer') \subseteq BufferOf(pduBuffer) \cup {pdu}
  BY <1>10, <1>13 DEF BufferOf
<1>15. /\ timer' \in BOOLEAN /\ (timer' <=> TimerGoesOn(first, next, high) \/ high > next)
       /\ init' \in BOOLEAN /\ (init' <=> init \/ SetsWindow)
  BY <1>7, Zenon
<1>16. timer' => reorderFrom' < reorderingSno' /\ reorderingSno' <= highestSno'
  <2>1. CASE TimerGoesOn(first, next, high)
    <3>1. next < reorderingSno /\ reorderingSno <= high
      BY <1>2, <1>9, <1>12, <2>1 DEF TimerGoesOn
    <3>2. QED
      BY <1>6, <1>7, <2>1, <3>1
  <2>2. CASE ~TimerGoesOn(first, next, high) /\ high > next
    BY <1>6, <1>7, <1>9, <1>12, <2>2
  <2>3. QED
    BY <1>15, <2>1, <2>2
<1>17. WindowSound'
  <2>1. firstSno' <= reorderFrom' /\ reorderFrom' <= highestSno'
    BY <1>6, <1>9, <1>12
  <2>2. highestSno' <= firstSno' + windowSize'
    BY <1>6, <1>9
  <2>3. \A i \in Positions : pduBuffer'[i] # Nothing =>
          /\ timer'
          /\ pduBuffer'[i].sno = firstSno' + i
          /\ reorderFrom' < firstSno' + i /\ firstSno' + i < highestSno'
    <3> SUFFICES ASSUME NEW i \in Positions, pduBuffer'[i] # Nothing
                 PROVE  /\ timer'
                        /\ pduBuffer'[i].sno = firstSno' + i
                        /\ reorderFrom' < firstSno' + i /\ firstSno' + i < highestSno'
      OBVIOUS
    <3>1. pduBuffer'[i].sno = first + i /\ next < first + i /\ first + i < high
      BY <1>13
    <3>2. i \in Nat /\ next \in Nat
      BY <1>9, <1>12 DEF Positions
    <3>3. high > next
      BY <1>9, <3>1, <3>2
    <3>4. timer'
      BY <1>15, <3>3
    <3>5. QED
      BY <1>6, <3>1, <3>4
  <2>4. QED
    BY <1>16, <2>1, <2>2, <2>3, Zenon DEF WindowSound
<1>18. WindowShape'
  <2>1. windowSize' = IF multicast' /\ init' THEN 1 ELSE RxWindowSize
    BY <1>3, <1>6, <1>15
  <2>2. highestSno' <= sno'
    <3>1. w.high <= sno
      <4>1. highestSno <= sno
        BY DEF WindowShape
      <4>2. w.high = tsn \/ w.high = highestSno
        BY DEF Window, w
      <4>3. QED
        BY <1>1, <4>1, <4>2
    <3>2. high = w.high \/ high = tsn + 1
      BY DEF high
    <3>3. QED
      BY <1>1, <1>6, <3>1, <3>2
  <2>3. ~SetsWindow'
    BY <1>6, <1>15 DEF SetsWindow
  <2>4. QED
    BY <2>1, <2>2, <2>3 DEF WindowShape
<1>19. Lined(inOrder, 0, to, w.first, w.from, BufferOf(pduBuffer) \cup {pdu})
  <2> SUFFICES ASSUME NEW i \in 0 .. to - 1
               PROVE  /\ inOrder[i] \in BufferOf(pduBuffer) \cup {pdu} \cup {Nothing}
                      /\ inOrder[i] # Nothing =>
                           inOrder[i].sno = w.first + i /\ w.from <= inOrder[i].sno
    BY DEF Lined
  <2>1. i \in Nat /\ i < n + (next - first)
    <3>1. to \in Int /\ to = n + (next - first)
      BY <1>4, <1>9, <1>12
    <3> HIDE DEF to
    <3>2. i \in Nat /\ i < to
      BY <3>1
    <3>3. QED
      BY <3>1, <3>2
  <2>2. next \in Nat /\ next <= high /\ high <= first + RxWindowSize
    BY <1>5, <1>9, <1>12, Shape
  <2>3. i < n + RxWindowSize
    BY <1>4, <1>9, <2>1, <2>2, Shape
  <2>4. i \in 0 .. n + RxWindowSize - 1
    BY <1>4, <2>1, <2>3, Shape
  <2>5. CASE i < n
    <3>1. inOrder[i] = IF i \in Positions THEN pduBuffer[i] ELSE Nothing
      BY <2>4, <2>5
    <3> HIDE DEF inOrder
    <3>2. SUFFICES ASSUME i \in Positions, pduBuffer[i] # Nothing
                   PROVE  /\ pduBuffer[i] \in BufferOf(pduBuffer)
                          /\ pduBuffer[i].sno = w.first + i /\ w.from <= pduBuffer[i].sno
      BY <3>1
    <3>3. pduBuffer[i].sno = w.first + i /\ w.from < w.first + i
      BY <1>3, <3>2 DEF Held
    <3>4. pduBuffer[i] \in BufferOf(pduBuffer)
      BY <3>2 DEF BufferOf
    <3>5. w.from <= w.first + i
      BY <1>5, <2>1, <3>3
    <3>6. QED
      BY <3>3, <3>4, <3>5
  <2>6. CASE ~(i < n)
    <3>1. inOrder[i] = shifted[i - n]
      BY <2>4, <2>6
    <3>2. i - n \in Positions /\ (w.first + n) + (i - n) = w.first + i
      BY <1>4, <1>5, <2>1, <2>3, <2>6, Shape DEF Positions
    <3>3. first = w.first + n
      BY DEF first
    <3> HIDE DEF inOrder
    <3>4. SUFFICES ASSUME shifted[i - n] # Nothing
                   PROVE  /\ shifted[i - n] \in BufferOf(pduBuffer) \cup {pdu}
                          /\ shifted[i - n].sno = w.first + i /\ w.from <= shifted[i - n].sno
      BY <3>1
    <3>5. QED
      BY <1>10, <3>2, <3>3, <3>4
  <2>7. QED
    BY <2>5, <2>6
<1>20. Reassembles(a, BufferOf(pduBuffer) \cup {pdu}, w.from, next)
  <2>1. 0 \in Int /\ to \in Int /\ w.first \in Int /\ 0 <= to
    BY <1>4, <1>5, <1>9, <1>12
  <2>2. w.first + to <= next
    BY <1>4, <1>5, <1>9, <1>12 DEF first
  <2>3. a = Reassembled(Assembly, inOrder, 0, to)
    BY DEF a
  <2> HIDE DEF to, inOrder
  <2>4. QED
    BY <1>19, <2>1, <2>2, <2>3, Zenon DEF Reassembles
<1>21. w.from \in Nat /\ reorderFrom <= w.from /\ w.from <= reorderFrom'
  BY <1>3, <1>5, <1>6, <1>9, <1>12
<1>22. reorderFrom' \in Nat /\ reorderFrom' <= sno
  BY <1>6, <1>9, <1>12, <1>17, <1>18 DEF WindowSound, WindowShape
<1>23. /\ multicast' \in BOOLEAN /\ init' \in BOOLEAN /\ timer' \in BOOLEAN
       /\ windowSize' \in {1, RxWindowSize}
       /\ firstSno' \in Nat /\ reorderingSno' \in Nat /\ highestSno' \in Nat
  BY <1>2, <1>5, <1>6, <1>7, <1>9, <1>15
<1> HIDE DEF to, inOrder
<1>24. QED
  BY <1>6, <1>13, <1>14, <1>17, <1>18, <1>20, <1>21, <1>22, <1>23, <1>t

(***************************************************************************)
(* The steps.                                                              *)
(***************************************************************************)
LEMMA InvFacts ==
  ASSUME UmIInv
  PROVE  /\ UmTxTypeOK /\ UmRxTypeOK /\ link \subseteq Pdus
         /\ away \in BOOLEAN /\ restarted \in BOOLEAN
         /\ NothingThrown /\ WindowSound /\ WindowShape /\ QueueShape
         /\ sno \in Nat /\ reorderFrom \in Nat /\ reorderFrom <= sno /\ sno + 1 \in Nat
         /\ \E begin \in [Nat -> Places] :
              Cuts(begin) /\ Seen(begin) /\ Ordered(begin, sno) /\ AllCut(begin, Outstanding)
<1>1. /\ UmTxTypeOK /\ UmRxTypeOK /\ link \subseteq Pdus
      /\ away \in BOOLEAN /\ restarted \in BOOLEAN
      /\ NothingThrown /\ WindowSound /\ WindowShape /\ QueueShape
  BY Zenon DEF UmIInv, UmTypeOK
<1>2. sno \in Nat /\ reorderFrom \in Nat /\ highestSno \in Nat /\ reorderFrom <= sno
  <2>1. sno \in Nat /\ reorderFrom \in Nat /\ highestSno \in Nat
    BY <1>1 DEF UmTxTypeOK, UmRxTypeOK
  <2>2. reorderFrom <= highestSno /\ highestSno <= sno
    BY <1>1 DEF WindowSound, WindowShape
  <2>3. QED
    BY <2>1, <2>2
<1>3. PICK begin \in [Nat -> Places] : Cuts(begin) /\ Seen(begin)
  BY Zenon DEF UmIInv
<1>4. Outstanding \subseteq Pdus
  <2>1. pduBuffer \in [Positions -> Pdus \cup {Nothing}]
    BY <1>1 DEF UmRxTypeOK
  <2>2. \A i \in Positions : pduBuffer[i] \in Pdus \cup {Nothing}
    BY <2>1
  <2>3. QED
    BY <1>1, <2>2 DEF Outstanding
<1>5. AllCut(begin, Outstanding) /\ Ordered(begin, sno)
  BY <1>3, <1>4 DEF AllCut, Cuts
<1>6. QED
  BY <1>1, <1>2, <1>3, <1>5

LEMMA SenderKept ==
  ASSUME UNCHANGED umTxVars, UmTxTypeOK, QueueShape
  PROVE  UmTxTypeOK' /\ QueueShape' /\ TxPlace' = TxPlace /\ sno' = sno /\ arrived' = arrived
BY DEF umTxVars, UmTxTypeOK, QueueShape, TxPlace

LEMMA CutsKept ==
  ASSUME NEW begin, Cuts(begin), sno' = sno, TxPlace' = TxPlace, Outstanding' \subseteq Outstanding
  PROVE  Cuts(begin)'
<1>1. begin[sno'] = TxPlace' /\ Ordered(begin, sno')
  BY DEF Cuts
<1>2. \A pdu \in Outstanding' : pdu.sno < sno' /\ CutPdu(begin, pdu)
  BY DEF Cuts
<1>3. QED
  BY <1>1, <1>2 DEF Cuts

LEMMA OutstandingIs == Outstanding = link \cup BufferOf(pduBuffer)
BY DEF Outstanding, BufferOf

LEMMA InvAgain ==
  ASSUME UmTxTypeOK', UmRxTypeOK', (link \subseteq Pdus)', (away \in BOOLEAN)',
         (restarted \in BOOLEAN)', NothingThrown', WindowSound', WindowShape', QueueShape',
         NEW begin \in [Nat -> Places], Cuts(begin)', Seen(begin)'
  PROVE  UmIInv'
<1>1. UmTypeOK'
  BY Zenon DEF UmTypeOK
<1>2. \E b \in [Nat -> Places] : Cuts(b)' /\ Seen(b)'
  BY Zenon
<1>3. QED
  BY <1>1, <1>2, Zenon DEF UmIInv

LEMMA ReceiverKept ==
  ASSUME UNCHANGED umRxVars, UmRxTypeOK, NothingThrown, WindowSound
  PROVE  /\ UmRxTypeOK' /\ NothingThrown' /\ WindowSound'
         /\ UNCHANGED <<multicast, init, windowSize, highestSno, pduBuffer, timer, reorderFrom,
                        buffered, passedUp, counted, lastSnoDelivered>>
         /\ SetsWindow' = SetsWindow
<1>1. /\ multicast' = multicast /\ init' = init /\ windowSize' = windowSize
      /\ firstSno' = firstSno /\ reorderFrom' = reorderFrom /\ reorderingSno' = reorderingSno
      /\ highestSno' = highestSno /\ pduBuffer' = pduBuffer /\ timer' = timer
      /\ buffered' = buffered /\ lastSnoDelivered' = lastSnoDelivered /\ passedUp' = passedUp
      /\ counted' = counted /\ thrown' = thrown
  BY DEF umRxVars, umRxWindow
<1>2. UmRxTypeOK'
  BY <1>1 DEF UmRxTypeOK
<1>3. NothingThrown'
  BY <1>1 DEF NothingThrown
<1>4. WindowSound'
  BY <1>1 DEF WindowSound
<1>5. SetsWindow' = SetsWindow
  BY <1>1 DEF SetsWindow
<1>6. QED
  BY <1>1, <1>2, <1>3, <1>4, <1>5

LEMMA SeenKept ==
  ASSUME NEW begin, Seen(begin), reorderFrom' = reorderFrom, buffered' = buffered,
         passedUp' = passedUp, counted' = counted, lastSnoDelivered' = lastSnoDelivered,
         restarted' = restarted, away' = away
  PROVE  Seen(begin)'
BY DEF Seen

LEMMA StepSduArrives ==
  ASSUME UmIInv, SduArrives
  PROVE  UmIInv'
<1>1. /\ UmTxTypeOK /\ UmRxTypeOK /\ link \subseteq Pdus
      /\ away \in BOOLEAN /\ restarted \in BOOLEAN
      /\ NothingThrown /\ WindowSound /\ WindowShape /\ QueueShape
  BY InvFacts
<1>2. PICK begin \in [Nat -> Places] : Cuts(begin) /\ Seen(begin)
  BY InvFacts
<1>3. /\ arrived < NumSdus /\ arrived' = arrived + 1
      /\ sduQueue' = Append(sduQueue, [sdu |-> arrived, len |-> SduSize])
      /\ UNCHANGED <<firstIsFragment, sno>>
      /\ UNCHANGED umRxVars /\ UNCHANGED <<link, away, restarted>>
  BY DEF SduArrives, Enque
<1>4. /\ arrived \in 0 .. NumSdus /\ sduQueue \in Seq(Chunks) /\ NumSdus \in Nat /\ arrived \in Nat
      /\ SduSize \in Nat \ {0} /\ firstIsFragment \in BOOLEAN /\ sno \in Nat
  BY <1>1, Shape DEF UmTxTypeOK
<1> DEFINE L == Len(sduQueue)
           c == [sdu |-> arrived, len |-> SduSize]
<1>5. c \in Chunks
  BY <1>3, <1>4 DEF Chunks, Sdus
<1>6. UmTxTypeOK'
  BY <1>3, <1>4, <1>5 DEF UmTxTypeOK
<1>7. /\ L \in Nat /\ Len(sduQueue') = L + 1
      /\ \A i \in 1 .. L : sduQueue'[i] = sduQueue[i] /\ sduQueue[i] \in Chunks
      /\ sduQueue'[L + 1] = c
  BY <1>3, <1>4, <1>5
<1>8. \A i \in 1 .. L :
        /\ sduQueue[i].sdu + L = arrived + (i - 1)
        /\ i > 1 => sduQueue[i].len = SduSize
  BY <1>1 DEF QueueShape
<1>9. \A i \in 1 .. L : sduQueue[i].sdu \in Nat /\ sduQueue[i].len \in Nat
  BY <1>4, <1>7 DEF Chunks, Sdus
<1>10. \A i \in 1 .. L + 1 :
         /\ sduQueue'[i].sdu + (L + 1) = (arrived + 1) + (i - 1)
         /\ i > 1 => sduQueue'[i].len = SduSize
  <2> HIDE DEF L
  <2> SUFFICES ASSUME NEW i \in 1 .. L + 1
               PROVE  /\ sduQueue'[i].sdu + (L + 1) = (arrived + 1) + (i - 1)
                      /\ i > 1 => sduQueue'[i].len = SduSize
    OBVIOUS
  <2>1. CASE i \in 1 .. L
    <3>1. sduQueue[i].sdu + L = arrived + (i - 1) /\ (i > 1 => sduQueue[i].len = SduSize)
      BY <1>8, <2>1
    <3>2. sduQueue[i].sdu \in Nat /\ sduQueue'[i] = sduQueue[i]
      BY <1>7, <1>9, <2>1
    <3> DEFINE x == sduQueue[i].sdu
    <3>3. x + L = arrived + (i - 1) /\ x \in Nat
      BY <3>1, <3>2
    <3> HIDE DEF x
    <3>4. x + (L + 1) = (arrived + 1) + (i - 1)
      BY <1>4, <1>7, <2>1, <3>3
    <3>5. QED
      BY <3>1, <3>2, <3>4 DEF x
  <2>2. CASE i = L + 1
    <3>1. sduQueue'[i].sdu = arrived /\ sduQueue'[i].len = SduSize
      BY <1>7, <2>2
    <3>2. QED
      BY <1>4, <1>7, <2>2, <3>1
  <2>3. QED
    BY <1>7, <2>1, <2>2
<1>11. sduQueue = <<>> <=> L = 0
  BY <1>4
<1>12. sduQueue' # <<>>
  BY <1>7
<1>13. firstIsFragment' <=> sduQueue' # <<>> /\ sduQueue'[1].len < SduSize
  <2>1. CASE sduQueue = <<>>
    <3>1. sduQueue'[1].len = SduSize
      BY <1>7, <1>11, <2>1
    <3>2. ~firstIsFragment
      BY <1>1, <2>1 DEF QueueShape
    <3>3. QED
      BY <1>3, <1>4, <3>1, <3>2
  <2>2. CASE sduQueue # <<>>
    <3>1. sduQueue'[1] = sduQueue[1]
      BY <1>7, <1>11, <2>2
    <3>2. QED
      BY <1>1, <1>3, <1>12, <2>2, <3>1 DEF QueueShape
  <2>3. QED
    BY <2>1, <2>2
<1>14. QueueShape'
  <2>1. Len(sduQueue') = L + 1 /\ arrived' = arrived + 1
    BY <1>3, <1>7
  <2> HIDE DEF L
  <2>2. QED
    BY <1>10, <1>13, <2>1 DEF QueueShape
<1>15. TxPlace' = TxPlace
  <2>1. TxPlace' = [sdu |-> sduQueue'[1].sdu, off |-> SduSize - sduQueue'[1].len]
    BY <1>12 DEF TxPlace
  <2>2. CASE sduQueue = <<>>
    <3>1. sduQueue'[1].sdu = arrived /\ sduQueue'[1].len = SduSize
      BY <1>7, <1>11, <2>2
    <3>2. SduSize - sduQueue'[1].len = 0
      BY <1>4, <3>1
    <3>3. QED
      BY <2>1, <2>2, <3>1, <3>2 DEF TxPlace
  <2>3. CASE sduQueue # <<>>
    <3>1. sduQueue'[1] = sduQueue[1]
      BY <1>7, <1>11, <2>3
    <3>2. QED
      BY <2>1, <2>3, <3>1 DEF TxPlace
  <2>4. QED
    BY <2>2, <2>3
<1>16. /\ UmRxTypeOK' /\ NothingThrown' /\ WindowSound'
       /\ UNCHANGED <<multicast, init, windowSize, highestSno, pduBuffer, timer, reorderFrom,
                      buffered, passedUp, counted, lastSnoDelivered>>
       /\ SetsWindow' = SetsWindow
  BY <1>1, <1>3, ReceiverKept
<1>17. WindowShape'
  BY <1>1, <1>3, <1>16 DEF WindowShape
<1>18. Outstanding' = Outstanding
  BY <1>3, <1>16 DEF Outstanding
<1>19. Cuts(begin)'
  BY <1>2, <1>3, <1>15, <1>18, CutsKept
<1>20. Seen(begin)'
  BY <1>2, <1>3, <1>16, SeenKept
<1>21. QED
  BY <1>1, <1>3, <1>6, <1>14, <1>16, <1>17, <1>19, <1>20, InvAgain

\* A PDU has bytes.
LEMMA EndIsLater ==
  ASSUME NEW p \in Places, NEW pdu \in Pdus, CutAt(pdu, p)
  PROVE  Upto(p, EndOf(pdu, p))
<1>1. Len(pdu.chunks) \in Nat \ {0} /\ p.sdu \in Nat /\ p.off \in Nat
  BY DEF Places, Pdus, CutAt
<1>2. pdu.chunks[Len(pdu.chunks)] \in Chunks
  BY <1>1 DEF Pdus
<1>3. pdu.chunks[Len(pdu.chunks)].len \in Nat
  BY <1>2, Shape DEF Chunks
<1> DEFINE n == Len(pdu.chunks)
           len == pdu.chunks[n].len
<1> HIDE DEF n, len
<1>4. n \in Nat \ {0} /\ len \in Nat
  BY <1>1, <1>3 DEF n, len
<1>5. CASE pdu.endFrag
  <2>1. EndOf(pdu, p) = [sdu |-> p.sdu + (n - 1), off |-> ChunkOff(p, n) + len]
    BY <1>5 DEF EndOf, n, len
  <2>2. p.sdu < p.sdu + (n - 1) \/ (p.sdu = p.sdu + (n - 1) /\ p.off <= ChunkOff(p, n) + len)
    BY <1>1, <1>4 DEF ChunkOff
  <2>3. QED
    BY <2>1, <2>2 DEF Upto
<1>6. CASE ~pdu.endFrag
  <2>1. EndOf(pdu, p) = [sdu |-> p.sdu + n, off |-> 0]
    BY <1>6 DEF EndOf, n
  <2>2. p.sdu < p.sdu + n
    BY <1>1, <1>4
  <2>3. QED
    BY <2>1, <2>2 DEF Upto
<1>7. QED
  BY <1>5, <1>6

LEMMA StepMacRequests ==
  ASSUME UmIInv, MacRequests
  PROVE  UmIInv'
<1>1. /\ UmTxTypeOK /\ UmRxTypeOK /\ link \subseteq Pdus
      /\ away \in BOOLEAN /\ restarted \in BOOLEAN
      /\ NothingThrown /\ WindowSound /\ WindowShape /\ QueueShape
      /\ sno \in Nat /\ reorderFrom \in Nat /\ reorderFrom <= sno
  BY InvFacts
<1>2. PICK begin \in [Nat -> Places] :
        Cuts(begin) /\ Seen(begin) /\ Ordered(begin, sno) /\ AllCut(begin, Outstanding)
  BY InvFacts
<1>3. PICK space \in Spaces :
        /\ ~away /\ RlcPduMake(space) /\ link' = link \cup {MadePdu(space)}
        /\ UNCHANGED umRxVars /\ UNCHANGED <<away, restarted>>
  BY DEF MacRequests
<1>4. sduQueue # <<>> /\ sno' = sno + 1
  BY <1>3 DEF RlcPduMake
<1> DEFINE pdu == MadePdu(space)
<1>5. pdu \in Pdus /\ TxPlace \in Places /\ CutAt(pdu, TxPlace)
  BY <1>1, <1>4, MadePduIsCut
<1>6. UmTxTypeOK' /\ QueueShape' /\ TxPlace' = EndOf(pdu, TxPlace)
  BY <1>1, <1>3, RlcPduMakeGoesOn
<1>7. pdu.sno = sno
  BY DEF MadePdu
<1> HIDE DEF pdu
<1>8. TxPlace' \in Places
  BY <1>5, <1>6, EndIsPlace
<1>9. begin[sno] = TxPlace
  BY <1>2 DEF Cuts
<1>10. PICK later \in [Nat -> Places] :
         later[sno + 1] = TxPlace' /\ \A n \in 0 .. sno : later[n] = begin[n]
  <2> DEFINE f == [begin EXCEPT ![sno + 1] = TxPlace']
  <2>1. f \in [Nat -> Places] /\ f[sno + 1] = TxPlace' /\ \A n \in 0 .. sno : f[n] = begin[n]
    BY <1>1, <1>8
  <2>2. QED
    BY <2>1
<1>11. Upto(TxPlace, TxPlace')
  <2>1. EndOf(pdu, TxPlace) = EndOf(pdu, TxPlace)
    OBVIOUS
  <2>2. Upto(TxPlace, EndOf(pdu, TxPlace))
    BY <1>5, EndIsLater
  <2>3. QED
    BY <1>6, <2>2
<1>12. Ordered(later, sno + 1)
  <2> SUFFICES ASSUME NEW i \in 0 .. sno + 1, NEW j \in 0 .. sno + 1, i <= j
               PROVE  Upto(later[i], later[j])
    BY <1>1 DEF Ordered
  <2>1. CASE j \in 0 .. sno
    <3>1. i \in 0 .. sno /\ Upto(begin[i], begin[j])
      BY <1>1, <1>2, <2>1 DEF Ordered
    <3>2. QED
      BY <1>10, <2>1, <3>1
  <2>2. CASE j = sno + 1
    <3>1. CASE i \in 0 .. sno
      <4>1. sno \in 0 .. sno /\ i <= sno
        BY <1>1, <3>1
      <4>2. Upto(begin[i], TxPlace) /\ begin[i] \in Places
        BY <1>2, <1>9, <3>1, <4>1 DEF Ordered
      <4>3. Upto(begin[i], TxPlace')
        BY <1>5, <1>8, <1>11, <4>2, UptoIsOrder
      <4>4. QED
        BY <1>10, <2>2, <3>1, <4>3
    <3>2. CASE i = sno + 1
      BY <1>8, <1>10, <2>2, <3>2, UptoIsOrder
    <3>3. QED
      BY <1>1, <3>1, <3>2
  <2>3. QED
    BY <1>1, <2>1, <2>2
<1>13. /\ UmRxTypeOK' /\ NothingThrown' /\ WindowSound'
       /\ UNCHANGED <<multicast, init, windowSize, highestSno, pduBuffer, timer, reorderFrom,
                      buffered, passedUp, counted, lastSnoDelivered>>
       /\ SetsWindow' = SetsWindow
  BY <1>1, <1>3, ReceiverKept
<1>14. WindowShape'
  <2>1. highestSno \in Nat /\ highestSno <= sno
    BY <1>1 DEF UmRxTypeOK, WindowShape
  <2>2. highestSno' <= sno'
    BY <1>1, <1>4, <1>13, <2>1
  <2>3. windowSize' = IF multicast' /\ init' THEN 1 ELSE RxWindowSize
    BY <1>1, <1>13 DEF WindowShape
  <2>4. (SetsWindow => highestSno = 0)'
    BY <1>1, <1>13 DEF WindowShape
  <2>5. ~away'
    BY <1>3
  <2>6. QED
    BY <2>2, <2>3, <2>4, <2>5 DEF WindowShape
<1>15. Outstanding' = Outstanding \cup {pdu}
  BY <1>3, <1>13 DEF Outstanding, pdu
<1>16. \A q \in Outstanding' : q.sno < sno' /\ CutPdu(later, q)
  <2> SUFFICES ASSUME NEW q \in Outstanding' PROVE q.sno < sno' /\ CutPdu(later, q)
    OBVIOUS
  <2>1. CASE q \in Outstanding
    <3>1. q \in Pdus /\ q.sno < sno /\ CutPdu(begin, q)
      BY <1>2, <2>1 DEF AllCut
    <3>2. q.sno \in Nat
      BY <3>1 DEF Pdus
    <3>3. q.sno \in 0 .. sno /\ q.sno + 1 \in 0 .. sno /\ q.sno < sno'
      BY <1>1, <1>4, <3>1, <3>2
    <3>4. later[q.sno] = begin[q.sno] /\ later[q.sno + 1] = begin[q.sno + 1]
      BY <1>10, <3>3
    <3>5. QED
      BY <3>1, <3>3, <3>4 DEF CutPdu
  <2>2. CASE q = pdu
    <3>1. sno \in 0 .. sno /\ sno < sno'
      BY <1>1, <1>4
    <3>2. later[sno] = TxPlace /\ later[sno + 1] = TxPlace'
      BY <1>9, <1>10, <3>1
    <3>3. Upto(TxPlace', TxPlace')
      BY <1>8, UptoIsOrder
    <3>4. CutPdu(later, pdu)
      BY <1>5, <1>6, <1>7, <3>2, <3>3 DEF CutPdu
    <3>5. QED
      BY <1>7, <2>2, <3>1, <3>4
  <2>3. QED
    BY <1>15, <2>1, <2>2
<1>17. Cuts(later)'
  <2>1. later[sno'] = TxPlace' /\ Ordered(later, sno')
    BY <1>4, <1>10, <1>12
  <2>2. QED
    BY <1>16, <2>1 DEF Cuts
<1>18. Seen(later)'
  <2>1. later[reorderFrom] = begin[reorderFrom]
    BY <1>1, <1>10
  <2>2. Seen(later)
    BY <1>2, <2>1 DEF Seen
  <2>3. QED
    BY <1>3, <1>13, <2>2, SeenKept
<1>19. (link \subseteq Pdus)'
  BY <1>1, <1>3, <1>5 DEF pdu
<1>20. QED
  BY <1>1, <1>3, <1>6, <1>10, <1>13, <1>14, <1>17, <1>18, <1>19, InvAgain

LEMMA StepPduIsLost ==
  ASSUME UmIInv, PduIsLost
  PROVE  UmIInv'
<1>1. /\ UmTxTypeOK /\ UmRxTypeOK /\ link \subseteq Pdus
      /\ away \in BOOLEAN /\ restarted \in BOOLEAN
      /\ NothingThrown /\ WindowSound /\ WindowShape /\ QueueShape
  BY InvFacts
<1>2. PICK begin \in [Nat -> Places] : Cuts(begin) /\ Seen(begin)
  BY InvFacts
<1>3. PICK pdu \in link :
        /\ link' = link \ {pdu}
        /\ UNCHANGED umTxVars /\ UNCHANGED umRxVars /\ UNCHANGED <<away, restarted>>
  BY DEF PduIsLost
<1>4. UmTxTypeOK' /\ QueueShape' /\ TxPlace' = TxPlace /\ sno' = sno
  BY <1>1, <1>3, SenderKept
<1>5. /\ UmRxTypeOK' /\ NothingThrown' /\ WindowSound'
      /\ UNCHANGED <<multicast, init, windowSize, highestSno, pduBuffer, timer, reorderFrom,
                     buffered, passedUp, counted, lastSnoDelivered>>
      /\ SetsWindow' = SetsWindow
  BY <1>1, <1>3, ReceiverKept
<1>6. WindowShape'
  BY <1>1, <1>3, <1>4, <1>5 DEF WindowShape
<1>7. Outstanding' \subseteq Outstanding
  BY <1>3, <1>5 DEF Outstanding
<1>8. Cuts(begin)'
  BY <1>2, <1>4, <1>7, CutsKept
<1>9. Seen(begin)'
  BY <1>2, <1>3, <1>5, SeenKept
<1>10. QED
  BY <1>1, <1>3, <1>4, <1>5, <1>6, <1>8, <1>9, InvAgain

\* The types of the window.
WindowTypeOK ==
  /\ multicast \in BOOLEAN /\ init \in BOOLEAN /\ timer \in BOOLEAN
  /\ windowSize \in {1, RxWindowSize}
  /\ firstSno \in Nat /\ reorderFrom \in Nat
  /\ reorderingSno \in Nat /\ highestSno \in Nat
  /\ pduBuffer \in [Positions -> Pdus \cup {Nothing}]

\* What is passed up comes behind what was passed up before.
PassedOn == arrived' = arrived /\ \E up \in Seq(Sdus) : passedUp' = passedUp \o up

LEMMA NothingPassed ==
  ASSUME passedUp \in Seq(Sdus), passedUp' = passedUp, arrived' = arrived
  PROVE  PassedOn
<1>1. <<>> \in Seq(Sdus) /\ passedUp' = passedUp \o <<>>
  OBVIOUS
<1>2. QED
  BY <1>1 DEF PassedOn

LEMMA TakenIsPassed ==
  ASSUME NEW a \in Assemblies, TakesOver(a), arrived' = arrived
  PROVE  PassedOn
<1>1. a.up \in Seq(Sdus) /\ passedUp' = passedUp \o a.up
  BY DEF Assemblies, TakesOver
<1>2. QED
  BY <1>1 DEF PassedOn

\* What PDUs that are reassembled in order leave.
LEMMA AfterReassembly ==
  ASSUME UmIInv, UNCHANGED umTxVars, UNCHANGED <<away, restarted>>, ~away, link' \subseteq link,
         WindowTypeOK', WindowSound', WindowShape', BufferOf(pduBuffer') \subseteq Outstanding,
         NEW pdus \in SUBSET Outstanding, NEW a, NEW low \in Nat, reorderFrom <= low,
         low <= reorderFrom', reorderFrom' \in Nat, reorderFrom' <= sno,
         Reassembles(a, pdus, low, reorderFrom'), TakesOver(a), ~a.failed => thrown' = "none"
  PROVE  UmIInv' /\ PassedOn
<1>1. /\ UmTxTypeOK /\ UmRxTypeOK /\ link \subseteq Pdus
      /\ away \in BOOLEAN /\ restarted \in BOOLEAN /\ QueueShape /\ sno \in Nat
  BY InvFacts
<1>2. PICK begin \in [Nat -> Places] :
        Cuts(begin) /\ Seen(begin) /\ Ordered(begin, sno) /\ AllCut(begin, Outstanding)
  BY InvFacts
<1>3. AllCut(begin, pdus)
  BY <1>2 DEF AllCut
<1>4. low <= sno
  BY <1>1
<1>5. a \in Assemblies /\ SeenUpto(a, begin[Known(reorderFrom')])
  BY <1>1, <1>2, <1>3, <1>4, SeenAll
<1>6. Known(reorderFrom') = reorderFrom'
  BY DEF Known
<1>7. /\ buffered' \in Chunks \cup {Nothing} /\ lastSnoDelivered' \in Sdus \cup {0}
      /\ passedUp' \in Seq(Sdus) /\ counted' \subseteq Sdus
      /\ RestSeen(buffered', begin[reorderFrom']) /\ UpSeen(passedUp', begin[reorderFrom'])
      /\ ~restarted => CountedSeen(passedUp', lastSnoDelivered', counted')
  BY <1>1, <1>5, <1>6, TakenOver
<1>8. thrown' = "none"
  BY <1>5 DEF SeenUpto
<1>9. UmRxTypeOK' /\ NothingThrown'
  BY <1>7, <1>8 DEF WindowTypeOK, UmRxTypeOK, NothingThrown
<1>10. UmTxTypeOK' /\ QueueShape' /\ TxPlace' = TxPlace /\ sno' = sno
  BY <1>1, SenderKept
<1>11. Outstanding' \subseteq Outstanding
  <2>1. Outstanding' = link' \cup BufferOf(pduBuffer')
    BY DEF Outstanding, BufferOf
  <2>2. link \subseteq Outstanding
    BY DEF Outstanding
  <2>3. QED
    BY <2>1, <2>2
<1>12. Cuts(begin)'
  BY <1>2, <1>10, <1>11, CutsKept
<1>13. Seen(begin)'
  BY <1>7 DEF Seen
<1>14. PassedOn
  BY <1>5, TakenIsPassed DEF umTxVars
<1>15. QED
  BY <1>1, <1>9, <1>10, <1>12, <1>13, <1>14, InvAgain

LEMMA StepPduArrives ==
  ASSUME UmIInv, PduArrives
  PROVE  UmIInv' /\ PassedOn
<1>1. /\ UmTxTypeOK /\ UmRxTypeOK /\ link \subseteq Pdus
      /\ away \in BOOLEAN /\ restarted \in BOOLEAN
      /\ NothingThrown /\ WindowSound /\ WindowShape /\ QueueShape /\ sno \in Nat
  BY InvFacts
<1>2. PICK begin \in [Nat -> Places] : Cuts(begin) /\ Seen(begin) /\ AllCut(begin, Outstanding)
  BY InvFacts
<1>3. PICK pdu \in link :
        /\ link' = link \ {pdu} /\ EnquePdu(pdu)
        /\ UNCHANGED umTxVars /\ UNCHANGED <<away, restarted>>
  BY DEF PduArrives
<1>4. UmTxTypeOK' /\ QueueShape' /\ TxPlace' = TxPlace /\ sno' = sno /\ arrived' = arrived
  BY <1>1, <1>3, SenderKept
<1>5. ~away
  BY <1>1, <1>3 DEF WindowShape
<1>6. pdu \in Pdus /\ pdu \in Outstanding /\ pdu.sno < sno
  BY <1>2, <1>3 DEF AllCut, Outstanding
<1>7. CASE EnqueDiscards(pdu)
  <2>1. UNCHANGED umRxVars
    BY <1>7, Zenon DEF EnqueDiscards
  <2>2. /\ UmRxTypeOK' /\ NothingThrown' /\ WindowSound'
        /\ UNCHANGED <<multicast, init, windowSize, highestSno, pduBuffer, timer, reorderFrom,
                       buffered, passedUp, counted, lastSnoDelivered>>
        /\ SetsWindow' = SetsWindow
    BY <1>1, <2>1, ReceiverKept
  <2>3. WindowShape'
    BY <1>1, <1>3, <1>4, <2>2 DEF WindowShape
  <2>4. Outstanding' \subseteq Outstanding
    BY <1>3, <2>2 DEF Outstanding
  <2>5. Cuts(begin)'
    BY <1>2, <1>4, <2>4, CutsKept
  <2>6. Seen(begin)'
    BY <1>2, <1>3, <2>2, SeenKept
  <2>7. PassedOn
    BY <1>1, <1>4, <2>2, NothingPassed DEF UmRxTypeOK
  <2>8. QED
    BY <1>1, <1>3, <1>4, <2>2, <2>3, <2>5, <2>6, <2>7, InvAgain
<1>8. CASE /\ SetsWindow \/ ~(Considered(pdu.sno) \/ AlreadyReceived(pdu.sno))
           /\ EnqueBuffers(pdu, Window(pdu.sno), Shift(Window(pdu.sno), pdu.sno))
  <2>1. /\ multicast' \in BOOLEAN /\ init' \in BOOLEAN /\ timer' \in BOOLEAN
        /\ windowSize' \in {1, RxWindowSize}
        /\ firstSno' \in Nat /\ reorderFrom' \in Nat
        /\ reorderingSno' \in Nat /\ highestSno' \in Nat
        /\ pduBuffer' \in [Positions -> Pdus \cup {Nothing}]
        /\ WindowSound' /\ WindowShape'
        /\ BufferOf(pduBuffer') \subseteq BufferOf(pduBuffer) \cup {pdu}
        /\ reorderFrom' \in Nat /\ reorderFrom' <= sno
        /\ \E a : \E low \in Nat :
             /\ reorderFrom <= low /\ low <= reorderFrom'
             /\ Reassembles(a, BufferOf(pduBuffer) \cup {pdu}, low, reorderFrom')
             /\ TakesOver(a)
             /\ thrown' = IF a.failed THEN "reassembly" ELSE "none"
    BY <1>1, <1>3, <1>4, <1>5, <1>6, <1>8, BuffersWindow
  <2>2. PICK a : \E low \in Nat :
             /\ reorderFrom <= low /\ low <= reorderFrom'
             /\ Reassembles(a, BufferOf(pduBuffer) \cup {pdu}, low, reorderFrom')
             /\ TakesOver(a)
             /\ thrown' = IF a.failed THEN "reassembly" ELSE "none"
    BY <2>1, Zenon
  <2>3. PICK low \in Nat :
             /\ reorderFrom <= low /\ low <= reorderFrom'
             /\ Reassembles(a, BufferOf(pduBuffer) \cup {pdu}, low, reorderFrom')
             /\ TakesOver(a)
             /\ thrown' = IF a.failed THEN "reassembly" ELSE "none"
    BY <2>2, Zenon
  <2>4. BufferOf(pduBuffer) \cup {pdu} \in SUBSET Outstanding
    BY <1>6, OutstandingIs
  <2>5. BufferOf(pduBuffer') \subseteq Outstanding
    BY <2>1, <2>4
  <2>6. WindowTypeOK'
    BY <2>1, Zenon DEF WindowTypeOK
  <2>7. ~a.failed => thrown' = "none"
    BY <2>3
  <2>8. WindowSound' /\ WindowShape' /\ reorderFrom' \in Nat /\ reorderFrom' <= sno
    BY <2>1
  <2>9. link' \subseteq link
    BY <1>3
  <2>10. QED
    BY <1>3, <1>5, <2>3, <2>4, <2>5, <2>6, <2>7, <2>8, <2>9, AfterReassembly
<1>9. CASE /\ SetsWindow \/ ~(Considered(pdu.sno) \/ AlreadyReceived(pdu.sno))
           /\ EnqueFails(pdu, Window(pdu.sno), Shift(Window(pdu.sno), pdu.sno))
  <2>1. ~EnqueFails(pdu, Window(pdu.sno), Shift(Window(pdu.sno), pdu.sno))
    BY <1>1, <1>6, <1>9, PositionOf
  <2>2. QED
    BY <1>9, <2>1
<1>10. \/ EnqueDiscards(pdu)
       \/ /\ SetsWindow \/ ~(Considered(pdu.sno) \/ AlreadyReceived(pdu.sno))
          /\ \/ EnqueFails(pdu, Window(pdu.sno), Shift(Window(pdu.sno), pdu.sno))
             \/ EnqueBuffers(pdu, Window(pdu.sno), Shift(Window(pdu.sno), pdu.sno))
  BY <1>3, Zenon DEF EnquePdu
<1>11. QED
  BY <1>7, <1>8, <1>9, <1>10

LEMMA StepReorderingExpires ==
  ASSUME UmIInv, ReorderingExpires
  PROVE  UmIInv' /\ PassedOn
<1> DEFINE from == reorderFrom - firstSno
           next == NextMissing(pduBuffer, firstSno, reorderFrom, highestSno, reorderingSno)
           to == next - firstSno
           a == Reassembled(Assembly, pduBuffer, from, to)
<1>1. /\ UmTxTypeOK /\ UmRxTypeOK
      /\ NothingThrown /\ WindowSound /\ WindowShape /\ QueueShape /\ sno \in Nat
  BY InvFacts
<1>2. /\ timer /\ reorderFrom' = next
      /\ UNCHANGED umTxVars /\ UNCHANGED <<link, away, restarted>>
      /\ UNCHANGED <<multicast, init, windowSize, firstSno, highestSno>>
  BY Zenon DEF ReorderingExpires, TimerExpires, ReordersFrom
<1>3. /\ pduBuffer' = Without(pduBuffer, reorderFrom - firstSno .. reorderFrom' - firstSno - 1)
      /\ TakesOver(Reassembled(Assembly, pduBuffer, reorderFrom - firstSno, reorderFrom' - firstSno))
      /\ thrown' = IF Reassembled(Assembly, pduBuffer, reorderFrom - firstSno,
                                  reorderFrom' - firstSno).failed
                   THEN "reassembly" ELSE thrown
      /\ timer' = RestartsTimer(highestSno, reorderFrom')
      /\ reorderingSno' = IF timer' THEN highestSno ELSE reorderingSno
  BY Zenon DEF ReorderingExpires, TimerExpires
<1>4. TakesOver(a) /\ thrown' = IF a.failed THEN "reassembly" ELSE thrown
  BY <1>2, <1>3
<1>5. pduBuffer' = Without(pduBuffer, reorderFrom - firstSno .. next - firstSno - 1)
  BY <1>2, <1>3
<1>6. /\ firstSno \in Nat /\ reorderFrom \in Nat /\ reorderingSno \in Nat /\ highestSno \in Nat
      /\ windowSize \in {1, RxWindowSize} /\ pduBuffer \in [Positions -> Pdus \cup {Nothing}]
      /\ multicast \in BOOLEAN /\ init \in BOOLEAN
  BY <1>1 DEF UmRxTypeOK
<1>7. /\ firstSno <= reorderFrom /\ reorderFrom <= highestSno
      /\ highestSno <= firstSno + windowSize
      /\ \A i \in Positions : pduBuffer[i] # Nothing =>
           /\ pduBuffer[i].sno = firstSno + i
           /\ reorderFrom < firstSno + i /\ firstSno + i < highestSno
  BY <1>1 DEF WindowSound
<1>8. next \in reorderFrom .. highestSno
  BY <1>6, <1>7, NextMissingOf
<1> HIDE DEF next, a
<1>9. \A i \in Positions : i \in Nat /\ i < RxWindowSize
  BY Shape DEF Positions
<1>10. \A i \in Positions : pduBuffer[i] # Nothing =>
         pduBuffer[i].sno = firstSno + i /\ reorderFrom <= firstSno + i /\ firstSno + i < highestSno
  BY <1>6, <1>7, <1>9
<1>11. /\ pduBuffer' \in [Positions -> Pdus \cup {Nothing}]
       /\ \A i \in Positions : pduBuffer'[i] # Nothing =>
            /\ pduBuffer'[i] = pduBuffer[i] /\ pduBuffer'[i].sno = firstSno + i
            /\ next < firstSno + i /\ firstSno + i < highestSno
  <2>1. next = NextMissing(pduBuffer, firstSno, reorderFrom, highestSno, reorderingSno)
    BY DEF next
  <2>2. firstSno <= reorderFrom /\ reorderFrom <= highestSno
    BY <1>7
  <2>3. HeldFrom(pduBuffer, firstSno, reorderFrom, highestSno)
    BY <1>10, Zenon DEF HeldFrom
  <2>4. LeftOf(pduBuffer', pduBuffer, firstSno, next, highestSno)
    BY <1>5, <1>6, <2>1, <2>2, <2>3, HeldAfter
  <2>5. QED
    BY <2>4, Zenon DEF LeftOf
<1>12. timer' = (highestSno > next)
  BY <1>2, <1>3, Zenon DEF RestartsTimer
<1>13. timer' \in BOOLEAN /\ (timer' <=> highestSno > next)
  <2>1. (highestSno > next) \in BOOLEAN
    BY <1>6, <1>8
  <2>2. QED
    BY <1>12, <2>1, Zenon
<1>14. reorderingSno' \in Nat /\ next \in Nat
  BY <1>3, <1>6, <1>8
<1>15. WindowTypeOK'
  <2>1. firstSno' \in Nat /\ highestSno' \in Nat /\ reorderFrom' \in Nat /\ reorderingSno' \in Nat
    BY <1>2, <1>6, <1>14
  <2>2. windowSize' \in {1, RxWindowSize} /\ multicast' \in BOOLEAN /\ init' \in BOOLEAN
    BY <1>2, <1>6
  <2>3. QED
    BY <1>11, <1>13, <2>1, <2>2, Zenon DEF WindowTypeOK
<1>16. WindowSound'
  <2>1. /\ firstSno' <= reorderFrom' /\ reorderFrom' <= highestSno'
        /\ highestSno' <= firstSno' + windowSize'
    BY <1>2, <1>6, <1>7, <1>8
  <2>2. timer' => reorderFrom' < reorderingSno' /\ reorderingSno' <= highestSno'
    BY <1>2, <1>3, <1>6, <1>13, <1>14
  <2>3. \A i \in Positions : pduBuffer'[i] # Nothing =>
          /\ timer'
          /\ pduBuffer'[i].sno = firstSno' + i
          /\ reorderFrom' < firstSno' + i /\ firstSno' + i < highestSno'
    <3> SUFFICES ASSUME NEW i \in Positions, pduBuffer'[i] # Nothing
                 PROVE  /\ timer'
                        /\ pduBuffer'[i].sno = firstSno' + i
                        /\ reorderFrom' < firstSno' + i /\ firstSno' + i < highestSno'
      OBVIOUS
    <3>1. /\ pduBuffer'[i].sno = firstSno + i
          /\ next < firstSno + i /\ firstSno + i < highestSno /\ i \in Nat
      BY <1>9, <1>11
    <3>2. highestSno > next
      BY <1>6, <1>14, <3>1
    <3>3. QED
      BY <1>2, <1>13, <3>1, <3>2
  <2>4. QED
    BY <2>1, <2>2, <2>3, Zenon DEF WindowSound
<1>17. ~away
  BY <1>1, <1>2 DEF WindowShape
<1>18. SetsWindow' = SetsWindow /\ sno' = sno
  BY <1>2 DEF SetsWindow, umTxVars
<1>19. WindowShape'
  BY <1>1, <1>2, <1>17, <1>18 DEF WindowShape
<1>20. BufferOf(pduBuffer') \subseteq BufferOf(pduBuffer)
  BY <1>11 DEF BufferOf
<1>21. BufferOf(pduBuffer) \in SUBSET Outstanding /\ BufferOf(pduBuffer') \subseteq Outstanding
  BY <1>20, OutstandingIs
<1>22. Lined(pduBuffer, from, to, firstSno, reorderFrom, BufferOf(pduBuffer))
  <2> SUFFICES ASSUME NEW p \in from .. to - 1
               PROVE  /\ pduBuffer[p] \in BufferOf(pduBuffer) \cup {Nothing}
                      /\ pduBuffer[p] # Nothing =>
                           pduBuffer[p].sno = firstSno + p /\ reorderFrom <= pduBuffer[p].sno
    BY DEF Lined
  <2>1. from \in Nat /\ to \in Nat /\ to <= windowSize /\ windowSize <= RxWindowSize
    BY <1>6, <1>7, <1>8, <1>14, Shape
  <2>2. p \in Nat /\ p < RxWindowSize
    <3> HIDE DEF from, to
    <3>1. QED
      BY <1>6, <2>1, Shape
  <2>3. p \in Positions
    BY <2>2, Shape DEF Positions
  <2>4. QED
    BY <1>10, <2>3 DEF BufferOf
<1>23. Reassembles(a, BufferOf(pduBuffer), reorderFrom, reorderFrom')
  <2>1. firstSno \in Int /\ from \in Int /\ to \in Int /\ from <= to /\ firstSno + to <= reorderFrom'
    BY <1>2, <1>6, <1>8
  <2>2. a = Reassembled(Assembly, pduBuffer, from, to)
    BY DEF a
  <2> HIDE DEF from, to
  <2>3. QED
    BY <1>22, <2>1, <2>2, Zenon DEF Reassembles
<1>24. reorderFrom' \in Nat /\ reorderFrom <= reorderFrom' /\ reorderFrom' <= sno
  <2>1. highestSno <= sno
    BY <1>1 DEF WindowShape
  <2>2. QED
    BY <1>1, <1>2, <1>6, <1>8, <2>1
<1>25. ~a.failed => thrown' = "none"
  BY <1>1, <1>4 DEF NothingThrown
<1>26. link' \subseteq link /\ UNCHANGED <<away, restarted>> /\ reorderFrom <= reorderFrom
  BY <1>2, <1>6
<1>27. QED
  BY <1>2, <1>4, <1>6, <1>15, <1>16, <1>17, <1>19, <1>21, <1>23, <1>24, <1>25, <1>26, AfterReassembly

LEMMA EmptyHoldsNothing ==
  /\ EmptyBuffer \in [Positions -> Pdus \cup {Nothing}]
  /\ BufferOf(EmptyBuffer) = {}
  /\ \A i \in Positions : EmptyBuffer[i] = Nothing
BY DEF EmptyBuffer, BufferOf

\* From where the sender is on, nothing was seen wherever it begins again.
LEMMA SeenWhole ==
  ASSUME NEW begin \in [Nat -> Places], \A n \in Nat : begin[n] = TxPlace', sno' \in Nat,
         TxPlace' \in Places, Outstanding' = {}
  PROVE  Cuts(begin)'
<1>1. Ordered(begin, sno')
  <2>1. Upto(TxPlace', TxPlace')
    BY UptoIsOrder
  <2>2. QED
    BY <2>1 DEF Ordered
<1>2. QED
  BY <1>1 DEF Cuts

LEMMA TxPlaceType ==
  ASSUME UmTxTypeOK, QueueShape
  PROVE  TxPlace \in Places /\ TxPlace.sdu <= arrived
<1>1. sduQueue \in Seq(Chunks) /\ arrived \in Nat /\ SduSize \in Nat
  BY Shape DEF UmTxTypeOK
<1>2. CASE sduQueue = <<>>
  BY <1>1, <1>2 DEF TxPlace, Places
<1>3. CASE sduQueue # <<>>
  <2>1. Len(sduQueue) \in Nat \ {0} /\ sduQueue[1] \in Chunks
    BY <1>1, <1>3
  <2>2. sduQueue[1].sdu \in Nat /\ SduSize - sduQueue[1].len \in Nat
    BY <1>1, <2>1, Shape DEF Chunks, Sdus
  <2>3. sduQueue[1].sdu + Len(sduQueue) = arrived + (1 - 1)
    BY <2>1 DEF QueueShape
  <2>4. sduQueue[1].sdu <= arrived
    BY <1>1, <2>1, <2>2, <2>3
  <2>5. QED
    BY <1>3, <2>2, <2>4 DEF TxPlace, Places
<1>4. QED
  BY <1>2, <1>3

\* A sender whose queue is dropped goes on behind it.
LEMMA NothingQueued ==
  ASSUME UmTxTypeOK, QueueShape, sduQueue' = <<>>, firstIsFragment' = FALSE, arrived' = arrived,
         sno' \in Nat
  PROVE  /\ UmTxTypeOK' /\ QueueShape' /\ TxPlace \in Places /\ TxPlace' \in Places
         /\ Upto(TxPlace, TxPlace')
<1>6. arrived \in 0 .. NumSdus /\ NumSdus \in Nat
  BY Shape DEF UmTxTypeOK
<1>7. UmTxTypeOK' /\ QueueShape'
  <2>1. Len(sduQueue') = 0 /\ sduQueue' \in Seq(Chunks) /\ ~firstIsFragment'
    OBVIOUS
  <2>2. \A i \in 1 .. Len(sduQueue') : FALSE
    BY <2>1
  <2>3. QueueShape'
    BY <2>1, <2>2, Zenon DEF QueueShape
  <2>4. UmTxTypeOK'
    BY <2>1 DEF UmTxTypeOK
  <2>5. QED
    BY <2>3, <2>4
<1>8. TxPlace' = [sdu |-> arrived, off |-> 0] /\ TxPlace' \in Places
  BY <1>6 DEF TxPlace, Places
<1>9. Upto(TxPlace, TxPlace') /\ TxPlace \in Places
  <2>1. TxPlace \in Places /\ TxPlace.sdu <= arrived
    BY TxPlaceType
  <2>2. sduQueue # <<>> => TxPlace.sdu < arrived
    <3>1. SUFFICES ASSUME sduQueue # <<>> PROVE TxPlace.sdu < arrived
      OBVIOUS
    <3>2. Len(sduQueue) \in Nat \ {0} /\ sduQueue \in Seq(Chunks)
      BY <3>1 DEF UmTxTypeOK
    <3>3. sduQueue[1].sdu + Len(sduQueue) = arrived + (1 - 1)
      BY <3>2 DEF QueueShape
    <3>4. TxPlace.sdu = sduQueue[1].sdu
      BY <3>1 DEF TxPlace
    <3> DEFINE L == Len(sduQueue)
               x == TxPlace.sdu
    <3>5. x + L = arrived + (1 - 1) /\ L \in Nat \ {0} /\ x \in Nat
      BY <2>1, <3>2, <3>3, <3>4 DEF Places
    <3> HIDE DEF L, x
    <3>6. x < arrived
      BY <1>6, <3>5
    <3>7. QED
      BY <3>6 DEF x
  <2>3. sduQueue = <<>> => TxPlace = [sdu |-> arrived, off |-> 0]
    BY DEF TxPlace
  <2>4. QED
    BY <1>6, <1>8, <2>1, <2>2, <2>3 DEF Upto
<1>10. QED
  BY <1>7, <1>8, <1>9

LEMMA StepLeaveMode ==
  ASSUME UmIInv, LeaveMode
  PROVE  UmIInv' /\ PassedOn
<1> DEFINE a == Reassembled(Assembly, pduBuffer, 0, RxWindowSize)
           b == [a EXCEPT !.buffered = Nothing]
<1>1. /\ UmTxTypeOK /\ UmRxTypeOK
      /\ restarted \in BOOLEAN
      /\ NothingThrown /\ WindowSound /\ WindowShape /\ QueueShape
      /\ sno \in Nat /\ reorderFrom \in Nat /\ reorderFrom <= sno
  BY InvFacts
<1>2. PICK begin \in [Nat -> Places] :
        Cuts(begin) /\ Seen(begin) /\ Ordered(begin, sno) /\ AllCut(begin, Outstanding)
  BY InvFacts
<1>3. /\ ~multicast /\ ~away
      /\ sduQueue' = <<>> /\ firstIsFragment' = FALSE /\ arrived' = arrived /\ sno' = sno
      /\ link' = {} /\ away' = TRUE /\ restarted' = restarted
      /\ TakesOver(b) /\ thrown' = IF a.failed THEN "reassembly" ELSE thrown
      /\ pduBuffer' = EmptyBuffer /\ timer' = FALSE
      /\ UNCHANGED <<multicast, init, umRxWindow>>
  BY Zenon DEF LeaveMode, UmTxOldMode, UmRxOldMode
<1>4. UNCHANGED <<windowSize, firstSno, reorderFrom, reorderingSno, highestSno>>
  BY <1>3 DEF umRxWindow
<1>5. /\ firstSno \in Nat /\ reorderFrom \in Nat /\ reorderingSno \in Nat /\ highestSno \in Nat
      /\ windowSize \in {1, RxWindowSize} /\ pduBuffer \in [Positions -> Pdus \cup {Nothing}]
      /\ multicast \in BOOLEAN /\ init \in BOOLEAN
  BY <1>1 DEF UmRxTypeOK
<1> HIDE DEF a
<1>6. /\ UmTxTypeOK' /\ QueueShape' /\ TxPlace \in Places /\ TxPlace' \in Places
      /\ Upto(TxPlace, TxPlace')
  BY <1>1, <1>3, NothingQueued
<1>10. Reassembles(a, Outstanding, reorderFrom, firstSno + RxWindowSize)
  <2>1. Lined(pduBuffer, 0, RxWindowSize, firstSno, reorderFrom, Outstanding)
    <3> SUFFICES ASSUME NEW p \in 0 .. RxWindowSize - 1
                 PROVE  /\ pduBuffer[p] \in Outstanding \cup {Nothing}
                        /\ pduBuffer[p] # Nothing =>
                             pduBuffer[p].sno = firstSno + p /\ reorderFrom <= pduBuffer[p].sno
      BY DEF Lined
    <3>1. p \in Positions /\ p \in Nat
      BY Shape DEF Positions
    <3>2. pduBuffer[p] # Nothing =>
            pduBuffer[p].sno = firstSno + p /\ reorderFrom < firstSno + p
      BY <1>1, <3>1 DEF WindowSound
    <3>3. reorderFrom < firstSno + p => reorderFrom <= firstSno + p
      BY <1>5, <3>1
    <3>4. pduBuffer[p] \in Outstanding \cup {Nothing}
      BY <3>1 DEF Outstanding
    <3>5. QED
      BY <3>2, <3>3, <3>4
  <2>2. /\ 0 \in Int /\ RxWindowSize \in Int /\ firstSno \in Int /\ 0 <= RxWindowSize
        /\ firstSno + RxWindowSize <= firstSno + RxWindowSize
    BY <1>5, Shape
  <2>3. a = Reassembled(Assembly, pduBuffer, 0, RxWindowSize)
    BY DEF a
  <2>4. QED
    BY <2>1, <2>2, <2>3, Zenon DEF Reassembles
<1> DEFINE next == firstSno + RxWindowSize
<1>11. next \in Nat /\ reorderFrom <= next
  <2>1. /\ firstSno <= reorderFrom /\ reorderFrom <= highestSno
        /\ highestSno <= firstSno + windowSize
    BY <1>1 DEF WindowSound
  <2>2. QED
    BY <1>5, <2>1, Shape
<1> HIDE DEF next
<1>12. a \in Assemblies /\ SeenUpto(a, begin[Known(next)])
  <2>1. Reassembles(a, Outstanding, reorderFrom, next)
    BY <1>10 DEF next
  <2>2. reorderFrom <= reorderFrom
    BY <1>5
  <2>3. QED
    BY <1>1, <1>2, <1>5, <1>11, <2>1, <2>2, SeenAll
<1>13. Known(next) \in 0 .. sno
  BY <1>1, <1>11 DEF Known
<1>14. passedUp \in Seq(Sdus)
  BY <1>1 DEF UmRxTypeOK
<1>15. SeenUpto(a, TxPlace')
  <2>1. Upto(begin[Known(next)], begin[sno])
    BY <1>1, <1>2, <1>13 DEF Ordered
  <2>2. begin[Known(next)] \in Places /\ begin[sno] = TxPlace
    BY <1>2, <1>13 DEF Cuts
  <2>3. Upto(begin[Known(next)], TxPlace')
    BY <1>6, <2>1, <2>2, UptoIsOrder
  <2>4. QED
    BY <1>6, <1>12, <1>14, <2>2, <2>3, SeenLater
<1>16. b \in Assemblies /\ SeenUpto(b, TxPlace') /\ b.buffered = Nothing
  <2>1. SeenUpto(Dropped(a), TxPlace')
    BY <1>12, <1>15, SeenDropped
  <2>2. b = Dropped(a)
    BY DEF Dropped
  <2>3. b \in Assemblies /\ b.buffered = Nothing
    BY <1>12 DEF Assemblies
  <2>4. QED
    BY <2>1, <2>2, <2>3
<1> HIDE DEF b
<1>17. /\ buffered' \in Chunks \cup {Nothing} /\ lastSnoDelivered' \in Sdus \cup {0}
       /\ passedUp' \in Seq(Sdus) /\ counted' \subseteq Sdus
       /\ RestSeen(buffered', TxPlace') /\ UpSeen(passedUp', TxPlace')
       /\ ~restarted => CountedSeen(passedUp', lastSnoDelivered', counted')
  BY <1>1, <1>3, <1>16, TakenOver
<1>18. buffered' = Nothing
  BY <1>3, <1>16 DEF TakesOver
<1>19. thrown' = "none"
  BY <1>1, <1>3, <1>15 DEF SeenUpto, NothingThrown
<1>20. UmRxTypeOK' /\ NothingThrown'
  <2>1. /\ windowSize' \in {1, RxWindowSize} /\ firstSno' \in Nat /\ reorderFrom' \in Nat
        /\ reorderingSno' \in Nat /\ highestSno' \in Nat /\ multicast' \in BOOLEAN
        /\ init' \in BOOLEAN /\ timer' \in BOOLEAN
    BY <1>3, <1>4, <1>5
  <2>2. pduBuffer' \in [Positions -> Pdus \cup {Nothing}]
    BY <1>3, EmptyHoldsNothing
  <2>3. QED
    BY <1>17, <1>19, <2>1, <2>2 DEF UmRxTypeOK, NothingThrown
<1>21. WindowSound'
  <2>1. /\ firstSno <= reorderFrom /\ reorderFrom <= highestSno
        /\ highestSno <= firstSno + windowSize
    BY <1>1 DEF WindowSound
  <2>2. \A i \in Positions : pduBuffer'[i] = Nothing
    BY <1>3, EmptyHoldsNothing
  <2>3. QED
    BY <1>3, <1>4, <2>1, <2>2 DEF WindowSound
<1>22. WindowShape'
  <2>1. SetsWindow' = SetsWindow
    BY <1>3 DEF SetsWindow
  <2>2. QED
    BY <1>1, <1>3, <1>4, <2>1 DEF WindowShape
<1>23. PICK whole \in [Nat -> Places] : \A n \in Nat : whole[n] = TxPlace'
  <2>1. [n \in Nat |-> TxPlace'] \in [Nat -> Places]
    BY <1>6
  <2>2. \A n \in Nat : [m \in Nat |-> TxPlace'][n] = TxPlace'
    OBVIOUS
  <2>3. QED
    BY <2>1, <2>2, Zenon
<1>24. Outstanding' = {}
  <2>1. Outstanding' = link' \cup BufferOf(pduBuffer')
    BY DEF Outstanding, BufferOf
  <2>2. QED
    BY <1>3, <2>1, EmptyHoldsNothing
<1>25. Cuts(whole)'
  BY <1>1, <1>3, <1>6, <1>23, <1>24, SeenWhole
<1>26. Seen(whole)'
  <2>1. whole[reorderFrom'] = TxPlace'
    BY <1>4, <1>5, <1>23
  <2>2. QED
    BY <1>3, <1>17, <1>18, <2>1 DEF Seen
<1>27. (link \subseteq Pdus)' /\ (away \in BOOLEAN)' /\ (restarted \in BOOLEAN)'
  BY <1>1, <1>3
<1>28. PassedOn
  BY <1>3, <1>16, TakenIsPassed
<1>29. QED
  BY <1>6, <1>20, <1>21, <1>22, <1>25, <1>26, <1>27, <1>28, InvAgain

LEMMA UpLater ==
  ASSUME NEW u \in Seq(Sdus), NEW p \in Places, NEW q \in Places, UpSeen(u, p), Upto(p, q)
  PROVE  UpSeen(u, q)
<1>1. \A i \in 1 .. Len(u) : u[i] \in Sdus
  OBVIOUS
<1>2. \A i \in 1 .. Len(u) : u[i] \in Nat
  BY <1>1, Shape DEF Sdus
<1>3. p.sdu \in Nat /\ q.sdu \in Nat /\ p.sdu <= q.sdu
  BY DEF Places, Upto
<1>4. QED
  BY <1>2, <1>3 DEF UpSeen

\* Both begin anew where the sender is.
LEMMA BothAnew ==
  ASSUME UmIInv, UmTxTypeOK', QueueShape', TxPlace' \in Places, Upto(TxPlace, TxPlace'),
         sno' = 0, link' = {}, pduBuffer' = EmptyBuffer, timer' = FALSE, buffered' = Nothing,
         UNCHANGED <<multicast, passedUp, counted, thrown>>, ~multicast, init' \in BOOLEAN,
         windowSize' = RxWindowSize, firstSno' = 0, reorderFrom' = 0, reorderingSno' = 0,
         highestSno' = 0, lastSnoDelivered' = 0, away' = FALSE, restarted' = TRUE
  PROVE  UmIInv'
<1>1. /\ UmTxTypeOK /\ UmRxTypeOK /\ NothingThrown /\ QueueShape
      /\ sno \in Nat /\ reorderFrom \in Nat /\ reorderFrom <= sno
  BY InvFacts
<1>2. PICK begin \in [Nat -> Places] : Cuts(begin) /\ Seen(begin) /\ Ordered(begin, sno)
  BY InvFacts
<1>3. PICK whole \in [Nat -> Places] : \A n \in Nat : whole[n] = TxPlace'
  <2>1. [n \in Nat |-> TxPlace'] \in [Nat -> Places]
    OBVIOUS
  <2>2. \A n \in Nat : [m \in Nat |-> TxPlace'][n] = TxPlace'
    OBVIOUS
  <2>3. QED
    BY <2>1, <2>2, Zenon
<1>4. Outstanding' = {}
  <2>1. Outstanding' = link' \cup BufferOf(pduBuffer')
    BY DEF Outstanding, BufferOf
  <2>2. QED
    BY <2>1, EmptyHoldsNothing
<1>5. Cuts(whole)'
  BY <1>3, <1>4, SeenWhole
<1>6. passedUp \in Seq(Sdus) /\ multicast \in BOOLEAN /\ counted \subseteq Sdus /\ thrown = "none"
  BY <1>1 DEF UmRxTypeOK, NothingThrown
<1>7. UpSeen(passedUp, TxPlace')
  <2>1. begin[sno] = TxPlace /\ begin[reorderFrom] \in Places /\ TxPlace \in Places
    BY <1>1, <1>2 DEF Cuts
  <2>2. Upto(begin[reorderFrom], TxPlace)
    BY <1>1, <1>2, <2>1 DEF Ordered
  <2>3. Upto(begin[reorderFrom], TxPlace')
    BY <2>1, <2>2, UptoIsOrder
  <2>4. UpSeen(passedUp, begin[reorderFrom])
    BY <1>2 DEF Seen
  <2>5. QED
    BY <1>6, <2>1, <2>3, <2>4, UpLater
<1>8. Seen(whole)'
  <2>1. whole[reorderFrom'] = TxPlace'
    BY <1>3
  <2>2. RestSeen(buffered', TxPlace')
    BY DEF RestSeen
  <2>3. UpSeen(passedUp', TxPlace')
    BY <1>7
  <2>4. QED
    BY <2>1, <2>2, <2>3 DEF Seen
<1>9. UmRxTypeOK' /\ NothingThrown'
  <2>1. pduBuffer' \in [Positions -> Pdus \cup {Nothing}]
    BY EmptyHoldsNothing
  <2>2. /\ passedUp' \in Seq(Sdus) /\ multicast' \in BOOLEAN /\ counted' \subseteq Sdus
        /\ thrown' = "none"
    BY <1>6
  <2>3. QED
    BY <2>1, <2>2 DEF UmRxTypeOK, NothingThrown
<1>10. WindowSound'
  <2>1. \A i \in Positions : pduBuffer'[i] = Nothing
    BY EmptyHoldsNothing
  <2>2. QED
    BY <2>1, Shape DEF WindowSound
<1>11. WindowShape'
  BY DEF WindowShape
<1>12. (link \subseteq Pdus)' /\ (away \in BOOLEAN)' /\ (restarted \in BOOLEAN)'
  OBVIOUS
<1>13. QED
  BY <1>3, <1>5, <1>8, <1>9, <1>10, <1>11, <1>12, InvAgain

LEMMA StepReturnToMode ==
  ASSUME UmIInv, ReturnToMode
  PROVE  UmIInv'
<1>1. UmTxTypeOK /\ QueueShape /\ WindowShape /\ UmRxTypeOK
  BY InvFacts
<1>2. PICK begin \in [Nat -> Places] : Seen(begin)
  BY InvFacts
<1>3. /\ away /\ sno' = 0 /\ UNCHANGED <<arrived, sduQueue, firstIsFragment>>
      /\ firstSno' = 0 /\ reorderFrom' = 0 /\ reorderingSno' = 0 /\ highestSno' = 0
      /\ lastSnoDelivered' = 0 /\ away' = FALSE /\ restarted' = TRUE
      /\ UNCHANGED <<multicast, init, windowSize, pduBuffer, timer, buffered, passedUp, counted,
                     thrown>>
      /\ UNCHANGED link
  BY Zenon DEF ReturnToMode, UmTxNewMode, UmRxNewMode
<1>4. ~multicast /\ ~timer /\ link = {} /\ pduBuffer = EmptyBuffer /\ windowSize = RxWindowSize
  BY <1>1, <1>3 DEF WindowShape
<1>5. buffered = Nothing
  BY <1>2, <1>3 DEF Seen
<1>6. timer' = FALSE /\ init' \in BOOLEAN
  BY <1>1, <1>3, <1>4 DEF UmRxTypeOK
<1>7. UmTxTypeOK' /\ QueueShape' /\ TxPlace' = TxPlace
  BY <1>1, <1>3 DEF UmTxTypeOK, QueueShape, TxPlace
<1>8. TxPlace' \in Places /\ Upto(TxPlace, TxPlace')
  BY <1>1, <1>7, TxPlaceType, UptoIsOrder
<1>9. link' = {} /\ pduBuffer' = EmptyBuffer /\ windowSize' = RxWindowSize /\ buffered' = Nothing
  BY <1>3, <1>4, <1>5
<1>10. UNCHANGED <<multicast, passedUp, counted, thrown>>
  BY <1>3
<1>11. QED
  BY <1>3, <1>4, <1>6, <1>7, <1>8, <1>9, <1>10, BothAnew

LEMMA StepHandOver ==
  ASSUME UmIInv, HandOver
  PROVE  UmIInv'
<1>1. UmTxTypeOK /\ QueueShape
  BY InvFacts
<1>2. /\ ~multicast
      /\ sduQueue' = <<>> /\ firstIsFragment' = FALSE /\ sno' = 0 /\ arrived' = arrived
      /\ init' = FALSE /\ windowSize' = RxWindowSize
      /\ firstSno' = 0 /\ reorderFrom' = 0 /\ reorderingSno' = 0 /\ highestSno' = 0
      /\ pduBuffer' = EmptyBuffer /\ timer' = FALSE /\ buffered' = Nothing
      /\ lastSnoDelivered' = 0
      /\ UNCHANGED <<multicast, passedUp, counted, thrown>>
      /\ link' = {} /\ away' = FALSE /\ restarted' = TRUE
  BY Zenon DEF HandOver, UmTxDeleted, UmRxDeleted
<1>3. UmTxTypeOK' /\ QueueShape' /\ TxPlace' \in Places /\ Upto(TxPlace, TxPlace')
  BY <1>1, <1>2, NothingQueued
<1>4. init' \in BOOLEAN
  BY <1>2
<1>5. QED
  BY <1>2, <1>3, <1>4, BothAnew

(***************************************************************************)
(* The inductive invariant.                                                *)
(***************************************************************************)
LEMMA InitInv ==
  ASSUME Init
  PROVE  UmIInv
<1>1. /\ arrived = 0 /\ sduQueue = <<>> /\ firstIsFragment = FALSE /\ sno = 0
      /\ multicast \in BOOLEAN /\ init = FALSE /\ windowSize = RxWindowSize
      /\ firstSno = 0 /\ reorderFrom = 0 /\ reorderingSno = 0 /\ highestSno = 0
      /\ pduBuffer = EmptyBuffer /\ timer = FALSE /\ buffered = Nothing /\ lastSnoDelivered = 0
      /\ passedUp = <<>> /\ counted = {} /\ thrown = "none"
      /\ link = {} /\ away = FALSE /\ restarted = FALSE
  BY DEF Init, UmTxInit, UmRxInit
<1>2. Len(sduQueue) = 0 /\ sduQueue \in Seq(Chunks)
  BY <1>1
<1>3. UmTxTypeOK
  <2>1. arrived = 0 /\ sno = 0 /\ firstIsFragment \in BOOLEAN
    BY <1>1, Zenon
  <2>2. arrived \in 0 .. NumSdus /\ sno \in Nat
    BY <2>1, Shape
  <2>3. QED
    BY <1>2, <2>1, <2>2, Zenon DEF UmTxTypeOK
<1>4. UmRxTypeOK
  <2>1. pduBuffer \in [Positions -> Pdus \cup {Nothing}]
    BY <1>1, EmptyHoldsNothing
  <2>2. /\ firstSno \in Nat /\ reorderFrom \in Nat /\ reorderingSno \in Nat /\ highestSno \in Nat
        /\ windowSize \in {1, RxWindowSize} /\ lastSnoDelivered \in Sdus \cup {0}
    BY <1>1
  <2>3. buffered \in Chunks \cup {Nothing} /\ passedUp \in Seq(Sdus) /\ counted \subseteq Sdus
    BY <1>1
  <2>4. init \in BOOLEAN /\ multicast \in BOOLEAN /\ timer \in BOOLEAN
    BY <1>1, Zenon
  <2>5. thrown \in {"none", "reassembly", "busyPosition", "outOfRange"}
    BY <1>1
  <2>6. QED
    BY <2>1, <2>2, <2>3, <2>4, <2>5, Zenon DEF UmRxTypeOK
<1>5. UmTypeOK /\ NothingThrown
  BY <1>1, <1>3, <1>4 DEF UmTypeOK, NothingThrown
<1>6. WindowSound
  <2>1. \A i \in Positions : pduBuffer[i] = Nothing
    BY <1>1, EmptyHoldsNothing
  <2>2. QED
    BY <1>1, <2>1, Shape DEF WindowSound
<1>7. WindowShape
  BY <1>1 DEF WindowShape
<1>8. QueueShape
  <2>1. \A i \in 1 .. Len(sduQueue) : FALSE
    BY <1>2
  <2>2. QED
    BY <1>1, <2>1, Zenon DEF QueueShape
<1> DEFINE p == [sdu |-> 0, off |-> 0]
           begin == [n \in Nat |-> p]
<1>9. begin \in [Nat -> Places] /\ \A n \in Nat : begin[n] = p
  BY DEF Places
<1> HIDE DEF begin
<1>10. TxPlace = p
  BY <1>1 DEF TxPlace
<1>11. Outstanding = {}
  BY <1>1, OutstandingIs, EmptyHoldsNothing
<1>12. Cuts(begin)
  <2>1. Ordered(begin, sno)
    BY <1>1, <1>9 DEF Ordered, Upto
  <2>2. begin[sno] = TxPlace
    BY <1>1, <1>9, <1>10
  <2>3. QED
    BY <1>11, <2>1, <2>2 DEF Cuts
<1>13. Seen(begin)
  <2>1. \A i \in 1 .. Len(passedUp) : FALSE
    BY <1>1
  <2>2. UpSeen(passedUp, begin[reorderFrom])
    BY <2>1 DEF UpSeen
  <2>3. RestSeen(buffered, begin[reorderFrom])
    BY <1>1 DEF RestSeen
  <2>4. CountedSeen(passedUp, lastSnoDelivered, counted)
    BY <1>1 DEF CountedSeen
  <2>5. QED
    BY <1>1, <2>2, <2>3, <2>4 DEF Seen
<1>14. QED
  BY <1>5, <1>6, <1>7, <1>8, <1>9, <1>12, <1>13, Zenon DEF UmIInv

LEMMA InvKept ==
  ASSUME UmIInv, UNCHANGED vars
  PROVE  UmIInv'
<1>1. /\ UmTxTypeOK /\ UmRxTypeOK /\ link \subseteq Pdus
      /\ away \in BOOLEAN /\ restarted \in BOOLEAN
      /\ NothingThrown /\ WindowSound /\ WindowShape /\ QueueShape
  BY InvFacts
<1>2. PICK begin \in [Nat -> Places] : Cuts(begin) /\ Seen(begin)
  BY InvFacts
<1>3. /\ UNCHANGED umTxVars /\ UNCHANGED umRxVars
      /\ link' = link /\ away' = away /\ restarted' = restarted
  BY DEF vars
<1>4. UmTxTypeOK' /\ QueueShape' /\ TxPlace' = TxPlace /\ sno' = sno
  BY <1>1, <1>3, SenderKept
<1>5. /\ UmRxTypeOK' /\ NothingThrown' /\ WindowSound'
      /\ UNCHANGED <<multicast, init, windowSize, highestSno, pduBuffer, timer, reorderFrom,
                     buffered, passedUp, counted, lastSnoDelivered>>
      /\ SetsWindow' = SetsWindow
  BY <1>1, <1>3, ReceiverKept
<1>6. WindowShape'
  BY <1>1, <1>3, <1>4, <1>5 DEF WindowShape
<1>7. Outstanding' \subseteq Outstanding
  BY <1>3, <1>5 DEF Outstanding
<1>8. Cuts(begin)'
  BY <1>2, <1>4, <1>7, CutsKept
<1>9. Seen(begin)'
  BY <1>2, <1>3, <1>5, SeenKept
<1>10. QED
  BY <1>1, <1>3, <1>4, <1>5, <1>6, <1>8, <1>9, InvAgain

\* UmIInv is inductive: the sender cuts the stream of SDUs into PDUs, and the
\* receiver has seen it up to where it reorders from, at every step of either,
\* of the MAC, of a mode switch and of a handover.
THEOREM UmInductive == Spec => []UmIInv
<1>1. Init => UmIInv
  BY InitInv
<1>2. UmIInv /\ [Next]_vars => UmIInv'
  <2> SUFFICES ASSUME UmIInv, [Next]_vars PROVE UmIInv'
    OBVIOUS
  <2>1. CASE SduArrives
    BY <2>1, StepSduArrives
  <2>2. CASE MacRequests
    BY <2>2, StepMacRequests
  <2>3. CASE PduIsLost
    BY <2>3, StepPduIsLost
  <2>4. CASE PduArrives
    BY <2>4, StepPduArrives
  <2>5. CASE ReorderingExpires
    BY <2>5, StepReorderingExpires
  <2>6. CASE LeaveMode
    BY <2>6, StepLeaveMode
  <2>7. CASE ReturnToMode
    BY <2>7, StepReturnToMode
  <2>8. CASE HandOver
    BY <2>8, StepHandOver
  <2>9. CASE UNCHANGED vars
    BY <2>9, InvKept
  <2>10. QED
    BY <2>1, <2>2, <2>3, <2>4, <2>5, <2>6, <2>7, <2>8, <2>9 DEF Next
<1>3. QED
  BY <1>1, <1>2, PTL DEF Spec

\* Every variable of a UM connection keeps its type.
THEOREM UmTypes == Spec => []UmTypeOK
<1>1. UmIInv => UmTypeOK
  BY Zenon DEF UmIInv
<1>2. QED
  BY <1>1, UmInductive, PTL

\* No check of the receiver, on the size of what it reassembles or on the
\* position of a PDU, ever fails, for whatever sizes the MAC asks for.
THEOREM UmNothingThrown == Spec => []NothingThrown
<1>1. UmIInv => NothingThrown
  BY Zenon DEF UmIInv
<1>2. QED
  BY <1>1, UmInductive, PTL

\* The receiver's window keeps its variables in order, holds PDUs at their
\* own positions, and never without the timer.
THEOREM UmWindowSound == Spec => []WindowSound
<1>1. UmIInv => WindowSound
  BY Zenon DEF UmIInv
<1>2. QED
  BY <1>1, UmInductive, PTL

\* An SDU is counted as lost exactly when a later one was passed up without it.
THEOREM UmLossesAreExact == Spec => []LossesAreExact
<1>1. UmIInv => LossesAreExact
  <2> SUFFICES ASSUME UmIInv, ~restarted PROVE
          counted = {k \in 1 .. lastSnoDelivered : \A i \in DOMAIN passedUp : passedUp[i] # k}
    BY DEF LossesAreExact
  <2>1. CountedSeen(passedUp, lastSnoDelivered, counted)
    BY Zenon DEF UmIInv, Seen
  <2>2. DOMAIN passedUp = 1 .. Len(passedUp)
    BY InvFacts DEF UmRxTypeOK
  <2>3. QED
    BY <2>1, <2>2 DEF CountedSeen
<1>2. QED
  BY <1>1, UmInductive, PTL

(***************************************************************************)
(* The service.                                                            *)
(***************************************************************************)
\* What is passed up arrived at the sender, and in that order.
UpInOrder ==
  /\ passedUp \in Seq(Sdus) /\ arrived \in Nat
  /\ \A i \in 1 .. Len(passedUp) :
       passedUp[i] \in 0 .. arrived - 1 /\ \A j \in 1 .. i - 1 : passedUp[j] < passedUp[i]

LEMMA PassedArrived ==
  ASSUME UmIInv
  PROVE  UpInOrder
<1>1. UmTxTypeOK /\ UmRxTypeOK /\ QueueShape /\ sno \in Nat /\ reorderFrom \in Nat /\ reorderFrom <= sno
  BY InvFacts
<1>2. PICK begin \in [Nat -> Places] : Cuts(begin) /\ Seen(begin) /\ Ordered(begin, sno)
  BY InvFacts
<1>3. begin[sno] = TxPlace /\ begin[reorderFrom] \in Places
  BY <1>1, <1>2 DEF Cuts
<1>4. Upto(begin[reorderFrom], TxPlace)
  BY <1>1, <1>2, <1>3 DEF Ordered
<1>5. TxPlace \in Places /\ TxPlace.sdu <= arrived
  BY <1>1, TxPlaceType
<1>6. passedUp \in Seq(Sdus) /\ arrived \in Nat
  BY <1>1, Shape DEF UmTxTypeOK, UmRxTypeOK
<1>7. UpSeen(passedUp, TxPlace)
  <2>1. UpSeen(passedUp, begin[reorderFrom])
    BY <1>2 DEF Seen
  <2>2. QED
    BY <1>3, <1>4, <1>5, <1>6, <2>1, UpLater
<1>8. \A i \in 1 .. Len(passedUp) : passedUp[i] \in Nat
  <2>1. \A i \in 1 .. Len(passedUp) : passedUp[i] \in Sdus
    BY <1>6
  <2>2. QED
    BY <2>1, Shape DEF Sdus
<1>9. ASSUME NEW i \in 1 .. Len(passedUp)
      PROVE  passedUp[i] \in 0 .. arrived - 1 /\ \A j \in 1 .. i - 1 : passedUp[j] < passedUp[i]
  <2>1. passedUp[i] < TxPlace.sdu /\ \A j \in 1 .. i - 1 : passedUp[j] < passedUp[i]
    BY <1>7 DEF UpSeen
  <2>2. passedUp[i] \in Nat /\ TxPlace.sdu \in Nat
    BY <1>5, <1>8 DEF Places
  <2>3. passedUp[i] \in 0 .. arrived - 1
    BY <1>5, <1>6, <2>1, <2>2
  <2>4. QED
    BY <2>1, <2>3
<1>10. QED
  BY <1>6, <1>9 DEF UpInOrder

LEMMA PassesOn ==
  ASSUME UmIInv, [Next]_vars
  PROVE  Service!Send \/ PassedOn
<1>1. passedUp \in Seq(Sdus)
  BY InvFacts DEF UmRxTypeOK
<1>2. CASE SduArrives
  <2>1. arrived < NumSdus /\ arrived' = arrived + 1
    BY <1>2, Zenon DEF SduArrives, Enque
  <2>2. passedUp' = passedUp
    BY <1>2 DEF SduArrives, umRxVars
  <2>3. QED
    BY <2>1, <2>2 DEF Service!Send
<1>3. CASE MacRequests \/ PduIsLost \/ UNCHANGED vars
  <2>1. passedUp' = passedUp /\ arrived' = arrived
    BY <1>3 DEF MacRequests, PduIsLost, vars, umRxVars, umTxVars, RlcPduMake
  <2>2. QED
    BY <1>1, <2>1, NothingPassed
<1>4. CASE ReturnToMode \/ HandOver
  <2>1. passedUp' = passedUp /\ arrived' = arrived
    BY <1>4 DEF ReturnToMode, HandOver, UmTxNewMode, UmRxNewMode, UmTxDeleted, UmRxDeleted
  <2>2. QED
    BY <1>1, <2>1, NothingPassed
<1>5. CASE PduArrives
  BY <1>5, StepPduArrives
<1>6. CASE ReorderingExpires
  BY <1>6, StepReorderingExpires
<1>7. CASE LeaveMode
  BY <1>7, StepLeaveMode
<1>8. QED
  BY <1>2, <1>3, <1>4, <1>5, <1>6, <1>7, Zenon DEF Next

LEMMA StepPasses ==
  ASSUME UpInOrder, UpInOrder', PassedOn
  PROVE  Service!Pass
<1>1. passedUp \in Seq(Sdus) /\ arrived' = arrived /\ arrived \in Nat
  BY DEF UpInOrder, PassedOn
<1>2. PICK up \in Seq(Sdus) : passedUp' = passedUp \o up
  BY DEF PassedOn
<1>3. Service!IsPrefix(passedUp, passedUp')
  <2>1. /\ Len(passedUp) \in Nat /\ Len(up) \in Nat /\ passedUp' \in Seq(Sdus)
        /\ Len(passedUp') = Len(passedUp) + Len(up)
    BY <1>1, <1>2
  <2>2. Len(passedUp) <= Len(passedUp')
    BY <2>1
  <2>3. \A i \in 1 .. Len(passedUp) : passedUp'[i] = passedUp[i]
    BY <1>1, <1>2
  <2>4. SubSeq(passedUp, 1, Len(passedUp)) = SubSeq(passedUp', 1, Len(passedUp))
    BY <1>1, <2>1, <2>2, <2>3
  <2>5. QED
    BY <2>2, <2>4 DEF Service!IsPrefix
<1>4. \A i \in 1 .. Len(passedUp') :
        passedUp'[i] \in 0 .. arrived - 1 /\ \A j \in 1 .. i - 1 : passedUp'[j] < passedUp'[i]
  BY <1>1 DEF UpInOrder
<1>5. \A i \in Len(passedUp) + 1 .. Len(passedUp') : i \in 1 .. Len(passedUp')
  BY <1>1
<1>6. QED
  BY <1>1, <1>3, <1>4, <1>5 DEF Service!Pass

\* Whatever is lost, late or cut in pieces, and across mode switches and
\* handovers, the SDUs that UM passes up are some of those sent, in their
\* order and none twice.
THEOREM UmImplementsService == Spec => ImplementsService
<1>1. Init => Service!Init
  BY DEF Init, UmTxInit, UmRxInit, Service!Init
<1>2. UmIInv => UpInOrder
  BY PassedArrived
<1>3. UmIInv /\ UpInOrder' /\ [Next]_vars => [Service!Next]_(Service!vars)
  <2> SUFFICES ASSUME UmIInv, UpInOrder', [Next]_vars PROVE [Service!Next]_(Service!vars)
    OBVIOUS
  <2>1. Service!Send \/ PassedOn
    BY PassesOn
  <2>2. PassedOn => Service!Pass
    BY <1>2, StepPasses
  <2>3. QED
    BY <2>1, <2>2 DEF Service!Next
<1>4. QED
  BY <1>1, <1>2, <1>3, UmInductive, PTL DEF Spec, ImplementsService, Service!Spec
=============================================================================
