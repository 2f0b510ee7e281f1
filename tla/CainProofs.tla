----------------------------- MODULE CainProofs -----------------------------
(***************************************************************************)
(* Proofs about Cain, for every number of UEs, cells, requests, feedbacks  *)
(* and handovers: CainIInv is inductive, so the types and the count of the *)
(* binder are right, and every step is one that CainService allows.        *)
(***************************************************************************)
EXTENDS Cain, FunctionTheorems, FiniteSetTheorems, TLAPS

\* All frames under way, those of this TTI first; and those that ended a request.
Flow == air \o sent
Ended == counted \cup lost

\* The types, but for the bounds of the count of the binder.
CountTyped == qtdRelay \in [Ues -> Int]
OtherTypes ==
  /\ CellsTypeOK
  /\ networkType \in NetworkTypes
  /\ backlog \subseteq Senders /\ racRequested \subseteq Ues
  /\ raRespTimer \in [Ues -> 0 .. RaRespWin]
  /\ allocated \subseteq Ues
  /\ air \in Seq(Messages) /\ sent \in Seq(Messages)
  /\ asked \in Seq(Ues) /\ Len(asked) <= MaxRequests
  /\ ran \in 0 .. NumSenders
  /\ counted \subseteq Messages /\ lost \subseteq Messages
  /\ moved \in BOOLEAN

\* A frame serves a request that was made, unless it is a feedback.
Serves(m) ==
  /\ m.type = "FEEDBACK" <=> m.request = 0
  /\ m.request <= Len(asked)

Numbered ==
  /\ \A m \in Range(Flow) : Serves(m)
  /\ \A m \in Ended : Serves(m) /\ m.request # 0

\* A request has one frame, which is under way or has ended it.
Unique(s) == \A i, j \in DOMAIN s :
  s[i].request = s[j].request /\ s[i].request # 0 => i = j

OneFrameEach ==
  /\ Unique(Flow)
  /\ \A m \in Ended, f \in Range(Flow) : m.request # f.request
  /\ \A m, n \in Ended : m.request = n.request => m = n

\* Who relays a request has had its blocks granted when the request was made.
Granted(m) ==
  /\ m.type \in {"FWD", "HOP_FWD", "SOC_FWD"} => m.src \in allocated
  /\ m.type \in {"NOTIFY", "HOP_REL", "SOC_NTF"} => m.dst \in allocated
  /\ m.type = "HOP_NTF" => m.relay \in allocated
  /\ m.type \in ReplyTypes => m.ok

RelaysGranted == \A m \in Range(Flow) : Granted(m)

\* Until a UE finds another cell nearer, everything happens in the first one.
AtFirst(m) ==
  /\ m.type \in UpTypes => m.dst = FirstEnb
  /\ m.type \in ReplyTypes => m.src = FirstEnb
  /\ m.type \in {"NOTIFY", "HOP_REL", "SOC_NTF", "HOP_NTF"} => m.enb = FirstEnb

OneCell ==
  ~moved =>
    /\ enbOf = [u \in Ues |-> FirstEnb]
    /\ nextHop = [u \in Ues |-> FirstEnb]
    /\ triggers = [u \in Ues |-> 0]
    /\ \A m \in Range(Flow) : AtFirst(m)

\* What holds of the frames, whatever the binder counts.
FramesInv == OtherTypes /\ Numbered /\ OneFrameEach /\ RelaysGranted /\ OneCell

CainIInv == FramesInv /\ CountTyped /\ RelayCountExact

-----------------------------------------------------------------------------
(***************************************************************************)
(* Sequences of frames.                                                    *)
(***************************************************************************)
LEMMA ConcatRange ==
  ASSUME NEW a \in Seq(Messages), NEW s \in Seq(Messages)
  PROVE  /\ a \o s \in Seq(Messages)
         /\ Range(a \o s) = Range(a) \cup Range(s)
<1>1. a \o s \in Seq(Messages)
  OBVIOUS
<1>2. ASSUME NEW i \in DOMAIN (a \o s)
      PROVE  (a \o s)[i] \in Range(a) \cup Range(s)
  <2>1. i \in 1 .. Len(a) + Len(s)
    OBVIOUS
  <2>2. CASE i <= Len(a)
    BY <2>1, <2>2 DEF Range
  <2>3. CASE i > Len(a)
    <3>1. (a \o s)[i] = s[i - Len(a)] /\ i - Len(a) \in DOMAIN s
      BY <2>1, <2>3
    <3>2. QED
      BY <3>1 DEF Range
  <2>4. QED
    BY <2>1, <2>2, <2>3
<1>3. ASSUME NEW i \in DOMAIN a
      PROVE  a[i] \in Range(a \o s)
  <2>1. i \in DOMAIN (a \o s) /\ (a \o s)[i] = a[i]
    OBVIOUS
  <2>2. QED
    BY <2>1 DEF Range
<1>4. ASSUME NEW i \in DOMAIN s
      PROVE  s[i] \in Range(a \o s)
  <2>1. i + Len(a) \in DOMAIN (a \o s) /\ (a \o s)[i + Len(a)] = s[i]
    OBVIOUS
  <2>2. QED
    BY <2>1 DEF Range
<1>5. QED
  BY <1>1, <1>2, <1>3, <1>4 DEF Range

LEMMA ConcatTail ==
  ASSUME NEW a \in Seq(Messages), NEW s \in Seq(Messages), a # <<>>
  PROVE  /\ a \o s # <<>> /\ Head(a \o s) = Head(a)
         /\ Tail(a) \o s = Tail(a \o s) /\ Tail(a) \in Seq(Messages)
OBVIOUS

LEMMA ConcatAppend ==
  ASSUME NEW a \in Seq(Messages), NEW s \in Seq(Messages), NEW n \in Messages
  PROVE  a \o Append(s, n) = Append(a \o s, n) /\ Append(s, n) \in Seq(Messages)
OBVIOUS

LEMMA ConcatEmpty ==
  ASSUME NEW s \in Seq(Messages)
  PROVE  s \o <<>> = <<>> \o s /\ <<>> \in Seq(Messages)
OBVIOUS

LEMMA TailRange ==
  ASSUME NEW s \in Seq(Messages), s # <<>>, Unique(s)
  PROVE  /\ Unique(Tail(s))
         /\ Head(s) \in Messages
         /\ Range(s) = Range(Tail(s)) \cup {Head(s)}
         /\ Head(s).request # 0 =>
              \A f \in Range(Tail(s)) : f.request # Head(s).request
<1>1. /\ DOMAIN Tail(s) = 1 .. Len(s) - 1 /\ DOMAIN s = 1 .. Len(s)
      /\ Len(s) \in Nat \ {0}
      /\ \A i \in 1 .. Len(s) - 1 : Tail(s)[i] = s[i + 1]
      /\ Head(s) = s[1]
  OBVIOUS
<1>2. Unique(Tail(s))
  BY <1>1 DEF Unique
<1>3. Range(s) = Range(Tail(s)) \cup {Head(s)}
  <2>1. ASSUME NEW i \in DOMAIN s
        PROVE  s[i] \in Range(Tail(s)) \cup {Head(s)}
    <3>1. CASE i = 1
      BY <1>1, <3>1
    <3>2. CASE i # 1
      <4>1. i - 1 \in DOMAIN Tail(s) /\ Tail(s)[i - 1] = s[i]
        BY <1>1, <3>2
      <4>2. QED
        BY <4>1 DEF Range
    <3>3. QED
      BY <3>1, <3>2
  <2>2. ASSUME NEW i \in DOMAIN Tail(s)
        PROVE  Tail(s)[i] \in Range(s)
    <3>1. i + 1 \in DOMAIN s /\ Tail(s)[i] = s[i + 1]
      BY <1>1
    <3>2. QED
      BY <3>1 DEF Range
  <2>3. Head(s) \in Range(s)
    BY <1>1 DEF Range
  <2>4. QED
    BY <2>1, <2>2, <2>3 DEF Range
<1>4. ASSUME Head(s).request # 0, NEW f \in Range(Tail(s))
      PROVE  f.request # Head(s).request
  <2>1. PICK i \in DOMAIN Tail(s) : f = Tail(s)[i]
    BY DEF Range
  <2>2. f = s[i + 1] /\ i + 1 \in DOMAIN s /\ i + 1 # 1 /\ 1 \in DOMAIN s
    BY <1>1, <2>1
  <2>3. QED
    BY <1>1, <1>4, <2>2 DEF Unique
<1>5. QED
  BY <1>1, <1>2, <1>3, <1>4

LEMMA AppendRange ==
  ASSUME NEW s \in Seq(Messages), NEW n \in Messages, Unique(s),
         n.request = 0 \/ \A f \in Range(s) : f.request # n.request
  PROVE  /\ Unique(Append(s, n))
         /\ Range(Append(s, n)) = Range(s) \cup {n}
<1>1. /\ DOMAIN Append(s, n) = 1 .. Len(s) + 1 /\ DOMAIN s = 1 .. Len(s)
      /\ Len(s) \in Nat
      /\ \A i \in 1 .. Len(s) : Append(s, n)[i] = s[i]
      /\ Append(s, n)[Len(s) + 1] = n
  OBVIOUS
<1>2. \A i \in 1 .. Len(s) : s[i] \in Range(s)
  BY <1>1 DEF Range
<1>3. Unique(Append(s, n))
  <2> SUFFICES ASSUME NEW i \in 1 .. Len(s) + 1, NEW j \in 1 .. Len(s) + 1,
                      Append(s, n)[i].request = Append(s, n)[j].request,
                      Append(s, n)[i].request # 0
               PROVE  i = j
    BY <1>1 DEF Unique
  <2>1. CASE i \in 1 .. Len(s) /\ j \in 1 .. Len(s)
    BY <1>1, <2>1 DEF Unique
  <2>2. CASE i = Len(s) + 1 /\ j \in 1 .. Len(s)
    BY <1>1, <1>2, <2>2
  <2>3. CASE i \in 1 .. Len(s) /\ j = Len(s) + 1
    BY <1>1, <1>2, <2>3
  <2>4. QED
    BY <1>1, <2>1, <2>2, <2>3
<1>4. Range(Append(s, n)) = Range(s) \cup {n}
  <2>1. \A i \in 1 .. Len(s) + 1 : Append(s, n)[i] \in Range(s) \cup {n}
    BY <1>1, <1>2
  <2>2. \A i \in 1 .. Len(s) : s[i] \in Range(Append(s, n))
    BY <1>1 DEF Range
  <2>3. n \in Range(Append(s, n))
    <3>1. Len(s) + 1 \in DOMAIN Append(s, n)
      BY <1>1
    <3>2. QED
      BY <1>1, <3>1 DEF Range
  <2>4. QED
    BY <1>1, <2>1, <2>2, <2>3 DEF Range
<1>5. QED
  BY <1>3, <1>4

-----------------------------------------------------------------------------
(***************************************************************************)
(* What a frame holds, and what a step does to the frames under way.       *)
(***************************************************************************)
LEMMA MessageShape ==
  ASSUME NEW m \in Messages
  PROVE  /\ m.type \in UpTypes \cup ReplyTypes
                       \cup {"FEEDBACK", "NOTIFY", "HOP_REL", "SOC_NTF", "HOP_NTF"}
         /\ m.request \in 0 .. MaxRequests
         /\ m.type \in UpTypes \cup {"FEEDBACK"} => m.src \in Ues /\ m.dst \in Enbs
         /\ m.type \in ReplyTypes => m.src \in Enbs /\ m.dst \in Ues /\ m.ok \in BOOLEAN
         /\ m.type \in {"NOTIFY", "HOP_REL", "SOC_NTF", "HOP_NTF"} =>
              m.src \in Ues /\ m.dst \in Ues /\ m.enb \in Enbs
         /\ m.type = "HOP_NTF" => m.relay \in Ues
BY CainMacAssumption DEF Messages, UpTypes, ReplyTypes, Requests

LEMMA ToEnbShape ==
  ASSUME NEW type \in UpTypes \cup {"FEEDBACK"}, NEW u \in Ues, NEW e \in Enbs,
         NEW q \in 0 .. MaxRequests
  PROVE  ToEnb(type, u, e, q) \in Messages
BY DEF Messages, ToEnb

LEMMA Flows ==
  ASSUME OtherTypes
  PROVE  Flow \in Seq(Messages) /\ Frames = Range(Flow) /\ Range(Flow) \subseteq Messages
<1>1. Flow \in Seq(Messages) /\ Frames = Range(Flow)
  BY ConcatRange DEF OtherTypes, Flow, Frames
<1>2. Range(Flow) \subseteq Messages
  BY <1>1 DEF Range
<1>3. QED
  BY <1>1, <1>2

\* A frame arrives, and none is sent.
LEMMA Consumed ==
  ASSUME OtherTypes, Unique(Flow), air # <<>>, air' = Tail(air), sent' = sent
  PROVE  /\ air' \in Seq(Messages) /\ sent' \in Seq(Messages)
         /\ Frame \in Messages /\ Frame \in Range(Flow)
         /\ Frames' = Range(Flow') /\ Unique(Flow')
         /\ Range(Flow) = Range(Flow') \cup {Frame}
         /\ Frame.request # 0 => \A f \in Range(Flow') : f.request # Frame.request
<1>1. air \in Seq(Messages) /\ sent \in Seq(Messages) /\ Flow \in Seq(Messages)
  BY Flows DEF OtherTypes
<1>2. Flow # <<>> /\ Head(Flow) = Frame /\ Flow' = Tail(Flow) /\ Tail(air) \in Seq(Messages)
  BY <1>1, ConcatTail DEF Flow, Frame
<1>3. Frames' = Range(Flow')
  BY <1>1, <1>2, ConcatRange DEF Frames, Flow
<1>4. QED
  BY <1>1, <1>2, <1>3, TailRange

\* A frame arrives, and one is sent for the same request.
LEMMA Replaced ==
  ASSUME OtherTypes, Unique(Flow), air # <<>>, air' = Tail(air),
         NEW n \in Messages, sent' = Append(sent, n),
         n.request = Frame.request, Frame.request # 0
  PROVE  /\ air' \in Seq(Messages) /\ sent' \in Seq(Messages)
         /\ Frame \in Messages /\ Frame \in Range(Flow)
         /\ Frames' = Range(Flow') /\ Unique(Flow')
         /\ Range(Flow') = (Range(Flow) \ {Frame}) \cup {n}
         /\ \A f \in Range(Flow) \ {Frame} : f.request # Frame.request
<1>1. air \in Seq(Messages) /\ sent \in Seq(Messages) /\ Flow \in Seq(Messages)
  BY Flows DEF OtherTypes
<1>2. /\ Flow # <<>> /\ Head(Flow) = Frame /\ Tail(air) \in Seq(Messages)
      /\ Tail(air) \o sent = Tail(Flow)
  BY <1>1, ConcatTail DEF Flow, Frame
<1>3. Flow' = Append(Tail(Flow), n) /\ sent' \in Seq(Messages)
  <2>1. /\ Tail(air) \o Append(sent, n) = Append(Tail(air) \o sent, n)
        /\ Append(sent, n) \in Seq(Messages)
    BY <1>1, <1>2, ConcatAppend
  <2>2. Flow' = Tail(air) \o Append(sent, n)
    BY DEF Flow
  <2>3. QED
    BY <1>2, <2>1, <2>2
<1>4. Frames' = Range(Flow')
  BY <1>2, <1>3, ConcatRange DEF Frames, Flow
<1>5. Tail(Flow) \in Seq(Messages)
  BY <1>1, <1>2
<1>6. /\ Unique(Tail(Flow)) /\ Frame \in Messages
      /\ Range(Flow) = Range(Tail(Flow)) \cup {Frame}
      /\ \A f \in Range(Tail(Flow)) : f.request # Frame.request
  BY <1>1, <1>2, TailRange
<1>7. Unique(Flow') /\ Range(Flow') = Range(Tail(Flow)) \cup {n}
  <2>1. \A f \in Range(Tail(Flow)) : f.request # n.request
    BY <1>6
  <2>2. /\ Unique(Append(Tail(Flow), n))
        /\ Range(Append(Tail(Flow), n)) = Range(Tail(Flow)) \cup {n}
    BY <1>5, <1>6, <2>1, AppendRange
  <2>3. QED
    BY <1>3, <2>2
<1>8. Range(Tail(Flow)) = Range(Flow) \ {Frame}
  BY <1>6
<1>9. QED
  BY <1>2, <1>3, <1>4, <1>6, <1>7, <1>8

\* A frame is sent.
LEMMA Added ==
  ASSUME OtherTypes, Unique(Flow), air' = air, NEW n \in Messages, sent' = Append(sent, n),
         n.request = 0 \/ \A f \in Range(Flow) : f.request # n.request
  PROVE  /\ air' \in Seq(Messages) /\ sent' \in Seq(Messages)
         /\ Frames' = Range(Flow') /\ Unique(Flow')
         /\ Range(Flow') = Range(Flow) \cup {n}
<1>1. air \in Seq(Messages) /\ sent \in Seq(Messages) /\ Flow \in Seq(Messages)
  BY Flows DEF OtherTypes
<1>2. Flow' = Append(Flow, n) /\ sent' \in Seq(Messages)
  BY <1>1, ConcatAppend DEF Flow
<1>3. Frames' = Range(Flow')
  BY <1>1, <1>2, ConcatRange DEF Frames, Flow
<1>4. QED
  BY <1>1, <1>2, <1>3, AppendRange

LEMMA FrameUnderWay ==
  ASSUME OtherTypes, Unique(Flow), air # <<>>
  PROVE  Frame \in Range(Flow) /\ Frame \in Messages
<1>1. air \in Seq(Messages) /\ sent \in Seq(Messages) /\ Flow \in Seq(Messages)
  BY Flows DEF OtherTypes
<1>2. Flow # <<>> /\ Head(Flow) = Frame
  BY <1>1, ConcatTail DEF Flow, Frame
<1>3. QED
  BY <1>1, <1>2, TailRange

LEMMA NotSent ==
  ASSUME OtherTypes, air' = air, sent' = sent
  PROVE  Flow' = Flow /\ Frames' = Frames
BY DEF Flow, Frames

-----------------------------------------------------------------------------
(***************************************************************************)
(* The two sets the count of a relay is about.                             *)
(***************************************************************************)
Relayed(r) == {m \in Frames \cup lost : Relaying(m, r)}
Answers(m, r) == m.type = "SOC_ANSW" /\ m.src = r
AnsweredBy(r) == {m \in Frames \cup lost \cup counted : Answers(m, r)}

One(b) == IF b THEN 1 ELSE 0

LEMMA CountBySets == RelayCountExact <=>
  \A r \in Ues : qtdRelay[r] = Cardinality(Relayed(r)) - Cardinality(AnsweredBy(r))
BY DEF RelayCountExact, Relayed, AnsweredBy, Answers

\* No more frames than requests, the feedbacks apart.
LEMMA FewFrames ==
  ASSUME FramesInv, NEW S \in SUBSET (Frames \cup Ended),
         \A m \in S : m.type # "FEEDBACK"
  PROVE  IsFiniteSet(S) /\ Cardinality(S) \in 0 .. MaxRequests
<1>1. /\ Frames = Range(Flow) /\ Range(Flow) \subseteq Messages /\ Ended \subseteq Messages
      /\ Len(asked) \in 0 .. MaxRequests
  BY Flows DEF FramesInv, OtherTypes, Ended
<1>2. \A m \in S : m.request \in 1 .. MaxRequests
  BY <1>1, MessageShape DEF FramesInv, Numbered, Serves
<1>3. \A m, n \in S : m.request = n.request => m = n
  <2> SUFFICES ASSUME NEW m \in S, NEW n \in S, m.request = n.request
               PROVE  m = n
    OBVIOUS
  <2>1. m.request # 0
    BY <1>2
  <2>2. CASE m \in Ended \/ n \in Ended
    BY <1>1, <2>2 DEF FramesInv, OneFrameEach
  <2>3. CASE m \in Range(Flow) /\ n \in Range(Flow)
    <3>1. PICK i \in DOMAIN Flow : m = Flow[i]
      BY <2>3 DEF Range
    <3>2. PICK j \in DOMAIN Flow : n = Flow[j]
      BY <2>3 DEF Range
    <3>3. QED
      BY <2>1, <3>1, <3>2 DEF FramesInv, OneFrameEach, Unique
  <2>4. QED
    BY <1>1, <2>2, <2>3
<1>4. MaxRequests \in Nat
  BY CainMacAssumption
<1> DEFINE f == [m \in S |-> m.request]
<1>5. f \in Injection(S, 1 .. MaxRequests)
  <2>1. f \in [S -> 1 .. MaxRequests]
    BY <1>2
  <2>2. \A m, n \in S : f[m] = f[n] => m = n
    BY <1>3
  <2>3. QED
    BY <2>1, <2>2 DEF Injection, IsInjective
<1>6. IsFiniteSet(1 .. MaxRequests) /\ Cardinality(1 .. MaxRequests) = MaxRequests
  BY <1>4, FS_Interval
<1>7. IsFiniteSet(S) /\ Cardinality(S) <= MaxRequests
  BY <1>5, <1>6, FS_Injection
<1>8. QED
  BY <1>4, <1>7, FS_CardinalityType

LEMMA CountedSets ==
  ASSUME FramesInv, NEW r \in Ues
  PROVE  /\ IsFiniteSet(Relayed(r)) /\ IsFiniteSet(AnsweredBy(r))
         /\ Cardinality(Relayed(r)) \in 0 .. MaxRequests
         /\ Cardinality(AnsweredBy(r)) \in 0 .. MaxRequests
<1>1. Relayed(r) \in SUBSET (Frames \cup Ended)
  BY DEF Relayed, Ended
<1>2. \A m \in Relayed(r) : m.type # "FEEDBACK"
  BY DEF Relayed, Relaying
<1>3. AnsweredBy(r) \in SUBSET (Frames \cup Ended)
  BY DEF AnsweredBy, Ended
<1>4. \A m \in AnsweredBy(r) : m.type # "FEEDBACK"
  BY DEF AnsweredBy, Answers
<1>5. QED
  BY <1>1, <1>2, <1>3, <1>4, FewFrames

\* What replacing an element does to a cardinality.
LEMMA SwapCardinality ==
  ASSUME NEW S, IsFiniteSet(S), NEW T, NEW m, NEW n, NEW out \in BOOLEAN, NEW in \in BOOLEAN,
         out <=> m \in S, n \notin S \ {m},
         T = (S \ {m}) \cup (IF in THEN {n} ELSE {})
  PROVE  Cardinality(T) = Cardinality(S) - One(out) + One(in)
<1>1. /\ IsFiniteSet(S \ {m})
      /\ Cardinality(S \ {m}) = Cardinality(S) - One(out)
      /\ Cardinality(S) \in Nat
  BY FS_RemoveElement, FS_CardinalityType DEF One
<1>2. CASE in
  <2>1. T = (S \ {m}) \cup {n}
    BY <1>2
  <2>2. Cardinality(T) = Cardinality(S \ {m}) + 1
    <3>1. Cardinality((S \ {m}) \cup {n}) = IF n \in S \ {m} THEN Cardinality(S \ {m})
                                            ELSE Cardinality(S \ {m}) + 1
      BY <1>1, FS_AddElement
    <3>2. QED
      BY <2>1, <3>1
  <2>3. QED
    BY <1>1, <1>2, <2>2 DEF One
<1>3. CASE ~in
  <2>1. T = S \ {m}
    BY <1>3
  <2>2. QED
    BY <1>1, <1>3, <2>1 DEF One
<1>4. QED
  BY <1>2, <1>3

-----------------------------------------------------------------------------
(***************************************************************************)
(* Steps, by what they do to the frames.                                   *)
(***************************************************************************)
\* What every step is to do in the service.
ServiceStep == [Service!Next]_(Service!vars)

LEMMA TypedInv == CainIInv => OtherTypes /\ Unique(Flow)
BY DEF CainIInv, FramesInv, OneFrameEach

\* Nothing happens to the frames.
LEMMA QuietStep ==
  ASSUME CainIInv, OtherTypes', OneCell',
         UNCHANGED <<air, sent, asked, counted, lost, allocated, qtdRelay>>
  PROVE  CainIInv'
<1>1. Flow' = Flow /\ Frames' = Frames /\ Ended' = Ended
  BY TypedInv, NotSent DEF Ended
<1>2. Numbered' /\ OneFrameEach' /\ RelaysGranted'
  BY <1>1 DEF CainIInv, FramesInv, Numbered, Serves, OneFrameEach, RelaysGranted, Granted
<1>3. RelayCountExact' /\ CountTyped'
  BY <1>1 DEF CainIInv, RelayCountExact, CountTyped
<1>4. QED
  BY <1>2, <1>3 DEF CainIInv, FramesInv

\* Somebody answers for a request in another's place.
LEMMA ReplaceStep ==
  ASSUME CainIInv, air # <<>>, air' = Tail(air),
         NEW n \in Messages, sent' = Append(sent, n),
         n.request = Frame.request, n.type # "FEEDBACK", Frame.type # "FEEDBACK",
         Granted(n), ~moved => AtFirst(n), CountTyped',
         UNCHANGED <<cellVars, networkType, ueVars, allocated, asked, ran, counted, lost, moved>>,
         \A r \in Ues : qtdRelay'[r] = qtdRelay[r]
           - One(Relaying(Frame, r)) + One(Relaying(n, r))
           + One(Answers(Frame, r)) - One(Answers(n, r))
  PROVE  CainIInv' /\ UNCHANGED Service!vars
<1>1. OtherTypes /\ Unique(Flow) /\ FramesInv
  BY TypedInv DEF CainIInv
<1>2. air \in Seq(Messages) /\ Frame \in Range(Flow)
  BY <1>1, FrameUnderWay DEF OtherTypes
<1>3. Frame.request # 0
  BY <1>1, <1>2 DEF FramesInv, Numbered, Serves
<1>4. /\ air' \in Seq(Messages) /\ sent' \in Seq(Messages) /\ Frame \in Messages
      /\ Frames' = Range(Flow') /\ Unique(Flow')
      /\ Range(Flow') = (Range(Flow) \ {Frame}) \cup {n}
      /\ \A f \in Range(Flow) \ {Frame} : f.request # Frame.request
  BY <1>1, <1>3, Replaced
<1>5. Frames = Range(Flow) /\ Range(Flow) \subseteq Messages /\ Ended' = Ended
  BY <1>1, Flows DEF Ended
<1>6. OtherTypes'
  BY <1>1, <1>4 DEF OtherTypes, CellsTypeOK, cellVars, ueVars
<1>7. Numbered'
  BY <1>1, <1>2, <1>3, <1>4, <1>5 DEF FramesInv, Numbered, Serves
<1>8. OneFrameEach'
  BY <1>1, <1>2, <1>4, <1>5 DEF FramesInv, OneFrameEach
<1>9. RelaysGranted'
  BY <1>1, <1>4 DEF FramesInv, RelaysGranted, Granted
<1>10. OneCell'
  BY <1>1, <1>4 DEF FramesInv, OneCell, AtFirst, cellVars
<1>11. FramesInv'
  BY <1>6, <1>7, <1>8, <1>9, <1>10 DEF FramesInv
<1>12. Frame \notin Ended /\ n \notin Ended /\ n \notin Range(Flow) \ {Frame}
  BY <1>1, <1>2, <1>4 DEF FramesInv, OneFrameEach
<1>13. ASSUME NEW r \in Ues
       PROVE  qtdRelay'[r] = Cardinality(Relayed(r)') - Cardinality(AnsweredBy(r)')
  <2>1. IsFiniteSet(Relayed(r)) /\ IsFiniteSet(AnsweredBy(r))
    BY <1>1, CountedSets
  <2>2. Relayed(r)' = (Relayed(r) \ {Frame}) \cup (IF Relaying(n, r) THEN {n} ELSE {})
    BY <1>4, <1>5, <1>12 DEF Relayed, Ended
  <2>3. AnsweredBy(r)' = (AnsweredBy(r) \ {Frame}) \cup (IF Answers(n, r) THEN {n} ELSE {})
    BY <1>4, <1>5, <1>12 DEF AnsweredBy, Ended
  <2>4. Relaying(Frame, r) <=> Frame \in Relayed(r)
    BY <1>2, <1>5 DEF Relayed
  <2>5. Answers(Frame, r) <=> Frame \in AnsweredBy(r)
    BY <1>2, <1>5 DEF AnsweredBy
  <2>6. n \notin Relayed(r) \ {Frame} /\ n \notin AnsweredBy(r) \ {Frame}
    BY <1>5, <1>12 DEF Relayed, AnsweredBy, Ended
  <2>7. Relaying(Frame, r) \in BOOLEAN /\ Relaying(n, r) \in BOOLEAN
        /\ Answers(Frame, r) \in BOOLEAN /\ Answers(n, r) \in BOOLEAN
    BY DEF Relaying, Answers
  <2>8. Cardinality(Relayed(r)')
          = Cardinality(Relayed(r)) - One(Relaying(Frame, r)) + One(Relaying(n, r))
    BY <2>1, <2>2, <2>4, <2>6, <2>7, SwapCardinality
  <2>9. Cardinality(AnsweredBy(r)')
          = Cardinality(AnsweredBy(r)) - One(Answers(Frame, r)) + One(Answers(n, r))
    BY <2>1, <2>3, <2>5, <2>6, <2>7, SwapCardinality
  <2>10. Cardinality(Relayed(r)) \in Nat /\ Cardinality(AnsweredBy(r)) \in Nat
    BY <2>1, FS_CardinalityType
  <2>11. qtdRelay[r] = Cardinality(Relayed(r)) - Cardinality(AnsweredBy(r))
    BY CountBySets DEF CainIInv
  <2>12. QED
    BY <2>8, <2>9, <2>10, <2>11 DEF One
<1>14. RelayCountExact'
  BY <1>13 DEF RelayCountExact, Relayed, AnsweredBy, Answers
<1>15. UNCHANGED Service!vars
  <2>1. RequestsOf(Frames)' = RequestsOf(Frames)
    BY <1>2, <1>4, <1>5 DEF RequestsOf
  <2>2. QED
    BY <2>1 DEF Service!vars, RequestsOf
<1>16. QED
  BY <1>11, <1>14, <1>15 DEF CainIInv

\* A UE makes a new request.
LEMMA AskStep ==
  ASSUME CainIInv, air' = air, NEW n \in Messages, sent' = Append(sent, n),
         NEW u \in Ues, asked' = Append(asked, u), Len(asked) + 1 <= MaxRequests,
         n.request = Len(asked) + 1,
         n.type \in {"DIR", "LTE", "NOTIFY", "SOC_NTF", "HOP_NTF"},
         allocated \subseteq allocated', allocated' \subseteq Ues,
         Granted(n)', ~moved => AtFirst(n),
         racRequested' \subseteq Ues, raRespTimer' \in [Ues -> 0 .. RaRespWin],
         ran' \in 0 .. NumSenders,
         UNCHANGED <<cellVars, networkType, backlog, qtdRelay, counted, lost, moved>>
  PROVE  CainIInv' /\ Service!Ask
<1>1. OtherTypes /\ Unique(Flow) /\ FramesInv
  BY TypedInv DEF CainIInv
<1>2. /\ Frames = Range(Flow) /\ Range(Flow) \subseteq Messages /\ Ended' = Ended
      /\ Ended \subseteq Messages
  BY <1>1, Flows DEF Ended, OtherTypes
<1>3. /\ asked' \in Seq(Ues) /\ Len(asked') = Len(asked) + 1 /\ Len(asked) \in Nat
  BY <1>1 DEF OtherTypes
<1>4. \A f \in Range(Flow) \cup Ended : f.request \in Nat /\ f.request <= Len(asked)
  BY <1>1, <1>2, MessageShape DEF FramesInv, Numbered, Serves
<1>5. \A f \in Range(Flow) \cup Ended : f.request # n.request
  BY <1>3, <1>4
<1>6. /\ air' \in Seq(Messages) /\ sent' \in Seq(Messages)
      /\ Frames' = Range(Flow') /\ Unique(Flow')
      /\ Range(Flow') = Range(Flow) \cup {n}
  BY <1>1, <1>5, Added
<1>7. OtherTypes'
  BY <1>1, <1>3, <1>6 DEF OtherTypes, CellsTypeOK, cellVars
<1>8. Numbered'
  <2>1. \A f \in Range(Flow') : Serves(f)'
    BY <1>1, <1>3, <1>4, <1>6 DEF FramesInv, Numbered, Serves
  <2>2. \A f \in Ended' : Serves(f)' /\ f.request # 0
    BY <1>1, <1>2, <1>3, <1>4 DEF FramesInv, Numbered, Serves
  <2>3. QED
    BY <2>1, <2>2 DEF Numbered
<1>9. OneFrameEach'
  BY <1>1, <1>2, <1>5, <1>6 DEF FramesInv, OneFrameEach
<1>10. RelaysGranted'
  BY <1>1, <1>6 DEF FramesInv, RelaysGranted, Granted
<1>11. OneCell'
  BY <1>1, <1>6 DEF FramesInv, OneCell, AtFirst, cellVars
<1>12. FramesInv'
  BY <1>7, <1>8, <1>9, <1>10, <1>11 DEF FramesInv
<1>13. ASSUME NEW r \in Ues
       PROVE  Relayed(r)' = Relayed(r) /\ AnsweredBy(r)' = AnsweredBy(r)
  BY <1>2, <1>6 DEF Relayed, Relaying, AnsweredBy, Answers
<1>14. RelayCountExact' /\ CountTyped'
  BY <1>13 DEF CainIInv, RelayCountExact, CountTyped, Relayed, AnsweredBy, Answers
<1>15. Service!Ask
  <2>1. n.request \in Requests \ (RequestsOf(Frames) \cup RequestsOf(counted) \cup RequestsOf(lost))
    BY <1>2, <1>3, <1>5 DEF Requests, RequestsOf, Ended
  <2>2. RequestsOf(Frames)' = RequestsOf(Frames) \cup {n.request}
    BY <1>2, <1>3, <1>6 DEF RequestsOf
  <2>3. QED
    BY <2>1, <2>2 DEF Service!Ask, RequestsOf
<1>16. QED
  BY <1>12, <1>14, <1>15 DEF CainIInv

\* A request ends: it is counted, or lost once UEs move.
LEMMA EndStep ==
  ASSUME CainIInv, air # <<>>, air' = Tail(air), sent' = sent, Frame.type # "FEEDBACK",
         \/ counted' = counted \cup {Frame} /\ lost' = lost /\ Counts(Frame)
         \/ counted' = counted /\ lost' = lost \cup {Frame} /\ moved,
         UNCHANGED <<cellVars, networkType, ueVars, relayVars, asked, ran, moved>>
  PROVE  CainIInv' /\ ServiceStep
<1>1. OtherTypes /\ Unique(Flow) /\ FramesInv
  BY TypedInv DEF CainIInv
<1>2. /\ air' \in Seq(Messages) /\ sent' \in Seq(Messages)
      /\ Frame \in Messages /\ Frame \in Range(Flow)
      /\ Frames' = Range(Flow') /\ Unique(Flow')
      /\ Range(Flow) = Range(Flow') \cup {Frame}
      /\ Frame.request # 0 => \A f \in Range(Flow') : f.request # Frame.request
  BY <1>1, Consumed
<1>3. /\ Frames = Range(Flow) /\ Range(Flow) \subseteq Messages
      /\ Ended' = Ended \cup {Frame}
  BY <1>1, Flows DEF Ended
<1>4. Frame.request # 0 /\ Frame.request \in Requests
  BY <1>1, <1>2, MessageShape DEF FramesInv, Numbered, Serves, Requests
<1>5. OtherTypes'
  BY <1>1, <1>2 DEF OtherTypes, CellsTypeOK, cellVars, ueVars, relayVars
<1>6. Numbered'
  BY <1>1, <1>2, <1>3, <1>4 DEF FramesInv, Numbered, Serves
<1>7. OneFrameEach'
  BY <1>1, <1>2, <1>3, <1>4 DEF FramesInv, OneFrameEach
<1>8. RelaysGranted'
  BY <1>1, <1>2 DEF FramesInv, RelaysGranted, Granted, relayVars
<1>9. OneCell'
  BY <1>1, <1>2 DEF FramesInv, OneCell, AtFirst, cellVars
<1>10. ASSUME NEW r \in Ues
       PROVE  Relayed(r)' = Relayed(r) /\ AnsweredBy(r)' = AnsweredBy(r)
  <2>1. AnsweredBy(r)' = AnsweredBy(r)
    BY <1>2, <1>3 DEF AnsweredBy, Answers
  <2>2. Relayed(r)' = Relayed(r)
    BY <1>2, <1>3 DEF Relayed, Relaying, Counts
  <2>3. QED
    BY <2>1, <2>2
<1>11. RelayCountExact' /\ CountTyped'
  BY <1>10 DEF CainIInv, RelayCountExact, CountTyped, Relayed, AnsweredBy, Answers, relayVars
<1>12. RequestsOf(Frames)' = RequestsOf(Frames) \ {Frame.request}
  BY <1>2, <1>3, <1>4 DEF RequestsOf
<1>13. Frame.request \in RequestsOf(Frames)
  BY <1>2, <1>3, <1>4 DEF RequestsOf
<1>14. CASE counted' = counted \cup {Frame} /\ lost' = lost
  <2>1. RequestsOf(counted)' = RequestsOf(counted) \cup {Frame.request}
    BY <1>4, <1>14 DEF RequestsOf
  <2>2. Service!Count(Frame.request)
    BY <1>12, <1>13, <1>14, <2>1 DEF Service!Count, RequestsOf
  <2>3. QED
    BY <1>1, <1>4, <1>5, <1>6, <1>7, <1>8, <1>9, <1>11, <2>2
    DEF ServiceStep, Service!Next, CainIInv, FramesInv
<1>15. CASE counted' = counted /\ lost' = lost \cup {Frame} /\ moved
  <2>1. RequestsOf(lost)' = RequestsOf(lost) \cup {Frame.request}
    BY <1>4, <1>15 DEF RequestsOf
  <2>2. Service!Lose(Frame.request)
    BY <1>12, <1>13, <1>15, <2>1 DEF Service!Lose, RequestsOf
  <2>3. QED
    BY <1>1, <1>4, <1>5, <1>6, <1>7, <1>8, <1>9, <1>11, <2>2
    DEF ServiceStep, Service!Next, CainIInv, FramesInv
<1>16. QED
  BY <1>14, <1>15

-----------------------------------------------------------------------------
(***************************************************************************)
(* One lemma per action.                                                   *)
(***************************************************************************)
LEMMA Constants ==
  /\ Senders \subseteq Ues /\ FirstEnb \in Enbs /\ NumSenders \in Nat
  /\ \A u \in Ues : u \notin Enbs
BY CainCellsAssumption, CainMacAssumption DEF Senders, Ues

\* Cells that do not change, or change within OneCell.
LEMMA DataArrivesOk ==
  ASSUME CainIInv, DataArrives
  PROVE  CainIInv' /\ ServiceStep
<1>1. OtherTypes' /\ OneCell'
  BY Constants DEF CainIInv, FramesInv, OtherTypes, OneCell, AtFirst, DataArrives,
     CellsTypeOK, cellVars, relayVars, Flow
<1>2. UNCHANGED <<air, sent, asked, counted, lost, allocated, qtdRelay, moved>>
  BY DEF DataArrives, relayVars
<1>3. CainIInv'
  BY <1>1, <1>2, QuietStep
<1>4. UNCHANGED Service!vars
  BY <1>2 DEF Service!vars, RequestsOf, Frames
<1>5. QED
  BY <1>3, <1>4 DEF ServiceStep

LEMMA DoHandoverOk ==
  ASSUME CainIInv, DoHandover
  PROVE  CainIInv' /\ ServiceStep
<1>1. PICK u \in Ues :
        /\ CellsDoHandover(u) /\ backlog' = backlog \ {u}
        /\ UNCHANGED <<networkType, racRequested, raRespTimer, relayVars, air, sent, asked,
                       ran, counted, lost, moved>>
  BY DEF DoHandover
<1>2. OtherTypes'
  <2>1. CellsTypeOK /\ OtherTypes
    BY DEF CainIInv, FramesInv, OtherTypes
  <2>2. triggers' \in [Ues -> 0 .. MaxTriggers]
    BY <1>1, <2>1, CainCellsAssumption DEF CellsTypeOK, CellsDoHandover
  <2>3. nextHop' \in [Ues -> Enbs]
    BY <1>1, <2>1 DEF CellsTypeOK, CellsDoHandover
  <2>4. CellsTypeOK'
    BY <1>1, <2>1, <2>2, <2>3 DEF CellsTypeOK, CellsDoHandover
  <2>5. QED
    BY <1>1, <2>1, <2>4 DEF OtherTypes, relayVars
<1>3. OneCell'
  BY <1>1 DEF CainIInv, FramesInv, OneCell, CellsDoHandover
<1>4. CainIInv'
  BY <1>1, <1>2, <1>3, QuietStep DEF relayVars
<1>5. UNCHANGED Service!vars
  BY <1>1 DEF Service!vars, RequestsOf, Frames
<1>6. QED
  BY <1>4, <1>5 DEF ServiceStep

\* A UE that finds another cell nearer is the Move of the service.
LEMMA FeedbackOk ==
  ASSUME CainIInv, Feedback
  PROVE  CainIInv' /\ ServiceStep
<1>1. PICK u \in Movers, e \in Enbs :
        /\ SendFeedback(u, e)
        /\ sent' = Append(sent, ToEnb("FEEDBACK", u, e, 0))
        /\ moved' = (moved \/ e # enbOf[u])
        /\ UNCHANGED <<networkType, ueVars, relayVars, air, asked, ran, counted, lost>>
  BY DEF Feedback
<1> DEFINE n == ToEnb("FEEDBACK", u, e, 0)
<1>2. OtherTypes /\ Unique(Flow) /\ FramesInv /\ u \in Ues
  BY TypedInv, CainCellsAssumption DEF CainIInv
<1>3. n \in Messages /\ n.request = 0 /\ n.type = "FEEDBACK"
  BY <1>2, ToEnbShape, CainMacAssumption DEF ToEnb
<1>4. /\ air' \in Seq(Messages) /\ sent' \in Seq(Messages)
      /\ Frames' = Range(Flow') /\ Unique(Flow')
      /\ Range(Flow') = Range(Flow) \cup {n}
  BY <1>1, <1>2, <1>3, Added
<1>5. Frames = Range(Flow) /\ Ended' = Ended
  BY <1>1, <1>2, Flows DEF Ended
<1>6. OtherTypes'
  <2>1. CellsTypeOK'
    <3>1. enbOf' \in [Ues -> Enbs] /\ phyFrames' \in 0 .. MaxPhyFrames
      BY <1>1, <1>2, CainCellsAssumption DEF OtherTypes, CellsTypeOK, SendFeedback
    <3>2. candidate' \in [Ues -> Enbs]
      BY <1>1, <1>2 DEF OtherTypes, CellsTypeOK, SendFeedback
    <3>3. triggers' \in [Ues -> 0 .. MaxTriggers]
      <4>1. triggers \in [Ues -> 0 .. MaxTriggers] /\ MaxTriggers \in Nat
        BY <1>2, CainCellsAssumption DEF OtherTypes, CellsTypeOK
      <4>2. CASE triggers[u] < MaxTriggers /\ triggers' = [triggers EXCEPT ![u] = @ + 1]
        <5>1. triggers[u] + 1 \in 0 .. MaxTriggers
          BY <1>2, <4>1, <4>2
        <5>2. QED
          BY <4>1, <4>2, <5>1
      <4>3. QED
        BY <1>1, <4>1, <4>2 DEF SendFeedback
    <3>4. QED
      BY <1>1, <1>2, <3>1, <3>2, <3>3 DEF OtherTypes, CellsTypeOK, SendFeedback
  <2>2. moved' \in BOOLEAN
    BY <1>1
  <2>3. QED
    BY <1>1, <1>2, <1>4, <2>1, <2>2 DEF OtherTypes, ueVars, relayVars
<1>7. Numbered'
  BY <1>1, <1>2, <1>3, <1>4, <1>5, CainMacAssumption DEF FramesInv, OtherTypes, Numbered, Serves
<1>8. OneFrameEach'
  BY <1>2, <1>3, <1>4, <1>5 DEF FramesInv, OneFrameEach, Numbered
<1>9. RelaysGranted'
  BY <1>1, <1>2, <1>3, <1>4 DEF FramesInv, RelaysGranted, Granted, relayVars, ReplyTypes
<1>10. OneCell'
  <2> SUFFICES ASSUME ~moved' PROVE OneCell'
    BY DEF OneCell
  <2>1. ~moved /\ e = enbOf[u]
    BY <1>1
  <2>2. /\ enbOf = [v \in Ues |-> FirstEnb] /\ nextHop = [v \in Ues |-> FirstEnb]
        /\ triggers = [v \in Ues |-> 0]
        /\ \A m \in Range(Flow) : AtFirst(m)
    BY <1>2, <2>1 DEF FramesInv, OneCell
  <2>3. e = nextHop[u]
    BY <1>2, <2>1, <2>2
  <2>4. UNCHANGED <<enbOf, nextHop, triggers>>
    BY <1>1, <1>2, <2>1, <2>2, <2>3 DEF SendFeedback
  <2>5. AtFirst(n)
    BY <1>3 DEF AtFirst, UpTypes, ReplyTypes
  <2>6. QED
    BY <1>4, <2>2, <2>4, <2>5 DEF OneCell
<1>11. ASSUME NEW r \in Ues
       PROVE  Relayed(r)' = Relayed(r) /\ AnsweredBy(r)' = AnsweredBy(r)
  BY <1>1, <1>3, <1>4, <1>5 DEF Relayed, Relaying, AnsweredBy, Answers
<1>12. RelayCountExact' /\ CountTyped'
  BY <1>1, <1>11 DEF CainIInv, RelayCountExact, CountTyped, Relayed, AnsweredBy, Answers, relayVars
<1>13. RequestsOf(Frames)' = RequestsOf(Frames)
  BY <1>3, <1>4, <1>5 DEF RequestsOf
<1>14. ServiceStep
  <2>1. CASE moved' = moved
    BY <1>1, <1>13, <2>1 DEF ServiceStep, Service!vars, RequestsOf
  <2>2. CASE moved' = TRUE
    BY <1>1, <1>13, <2>2 DEF ServiceStep, Service!Next, Service!Move, RequestsOf
  <2>3. QED
    BY <1>1, <1>2, <2>1, <2>2 DEF OtherTypes
<1>15. QED
  BY <1>6, <1>7, <1>8, <1>9, <1>10, <1>12, <1>14 DEF CainIInv, FramesInv

LEMMA MeasureTyped ==
  ASSUME NEW u, CellsTypeOK, Measure(u), phyFrames' \in 0 .. MaxPhyFrames
  PROVE  CellsTypeOK'
<1>1. area \in [Enbs -> [Ues -> 0 .. 2]]
  BY DEF CellsTypeOK
<1>2. PICK a \in 1 .. 2 : area' = [area EXCEPT ![enbOf[u]][u] = a]
  BY DEF Measure
<1>3. ASSUME NEW e \in Enbs
      PROVE  area'[e] \in [Ues -> 0 .. 2]
  <2>1. area[e] \in [Ues -> 0 .. 2] /\ a \in 0 .. 2
    BY <1>1
  <2>2. area'[e] = IF e = enbOf[u] THEN [area[e] EXCEPT ![u] = a] ELSE area[e]
    BY <1>1, <1>2
  <2>3. QED
    BY <2>1, <2>2
<1>4. area' = [e \in Enbs |-> area'[e]]
  BY <1>1, <1>2
<1>5. area' \in [Enbs -> [Ues -> 0 .. 2]]
  BY <1>3, <1>4
<1>6. QED
  BY <1>5 DEF CellsTypeOK, Measure

LEMMA FeedbackArrivesOk ==
  ASSUME CainIInv, FeedbackArrives
  PROVE  CainIInv' /\ ServiceStep
<1>1. /\ air # <<>> /\ Frame.type = "FEEDBACK" /\ air' = Tail(air)
      /\ UNCHANGED <<networkType, ueVars, relayVars, sent, asked, ran, counted, lost, moved>>
      /\ (Measure(Frame.src) /\ UNCHANGED phyFrames) \/ UNCHANGED cellVars
  BY DEF FeedbackArrives
<1>2. OtherTypes /\ Unique(Flow) /\ FramesInv
  BY TypedInv DEF CainIInv
<1>3. /\ air' \in Seq(Messages) /\ sent' \in Seq(Messages)
      /\ Frame \in Messages /\ Frame \in Range(Flow)
      /\ Frames' = Range(Flow') /\ Unique(Flow')
      /\ Range(Flow) = Range(Flow') \cup {Frame}
  BY <1>1, <1>2, Consumed
<1>4. Frames = Range(Flow) /\ Ended' = Ended /\ Frame.request = 0
  BY <1>1, <1>2, <1>3, Flows DEF Ended, FramesInv, Numbered, Serves
<1>5. OtherTypes'
  <2>1. CASE Measure(Frame.src) /\ UNCHANGED phyFrames
    <3>1. CellsTypeOK'
      BY <1>2, <2>1, MeasureTyped DEF OtherTypes, CellsTypeOK
    <3>2. QED
      BY <1>1, <1>2, <1>3, <3>1 DEF OtherTypes, ueVars, relayVars
  <2>2. CASE UNCHANGED cellVars
    BY <1>1, <1>2, <1>3, <2>2 DEF OtherTypes, CellsTypeOK, cellVars, ueVars, relayVars
  <2>3. QED
    BY <1>1, <2>1, <2>2
<1>6. UNCHANGED <<enbOf, nextHop, triggers>>
  BY <1>1 DEF Measure, cellVars
<1>7. Numbered' /\ OneFrameEach' /\ RelaysGranted' /\ OneCell'
  BY <1>1, <1>2, <1>3, <1>4, <1>6
  DEF FramesInv, Numbered, Serves, OneFrameEach, RelaysGranted, Granted, OneCell, AtFirst, relayVars
<1>8. ASSUME NEW r \in Ues
      PROVE  Relayed(r)' = Relayed(r) /\ AnsweredBy(r)' = AnsweredBy(r)
  BY <1>1, <1>3, <1>4 DEF Relayed, Relaying, AnsweredBy, Answers
<1>9. RelayCountExact' /\ CountTyped'
  BY <1>1, <1>8 DEF CainIInv, RelayCountExact, CountTyped, Relayed, AnsweredBy, Answers, relayVars
<1>10. UNCHANGED Service!vars
  BY <1>1, <1>3, <1>4 DEF Service!vars, RequestsOf
<1>11. QED
  BY <1>5, <1>7, <1>9, <1>10 DEF CainIInv, FramesInv, ServiceStep

LEMMA OtherFrameArrivesOk ==
  ASSUME CainIInv, OtherFrameArrives
  PROVE  CainIInv' /\ ServiceStep
<1>1. PICK u \in Ues :
        /\ MeasureOther(u)
        /\ UNCHANGED <<networkType, ueVars, relayVars, air, sent, asked, ran, counted, lost,
                       moved>>
  BY DEF OtherFrameArrives
<1>2. OtherTypes'
  <2>1. CellsTypeOK /\ OtherTypes
    BY DEF CainIInv, FramesInv, OtherTypes
  <2>2. phyFrames' \in 0 .. MaxPhyFrames
    BY <1>1, <2>1, CainCellsAssumption DEF CellsTypeOK, MeasureOther
  <2>3. CellsTypeOK'
    BY <1>1, <2>1, <2>2, MeasureTyped DEF MeasureOther
  <2>4. QED
    BY <1>1, <2>1, <2>3 DEF OtherTypes, ueVars, relayVars
<1>3. OneCell'
  BY <1>1 DEF CainIInv, FramesInv, OneCell, AtFirst, Flow, MeasureOther, Measure
<1>4. CainIInv'
  BY <1>1, <1>2, <1>3, QuietStep DEF relayVars
<1>5. UNCHANGED Service!vars
  BY <1>1 DEF Service!vars, RequestsOf, Frames
<1>6. QED
  BY <1>4, <1>5 DEF ServiceStep

LEMMA NextTtiOk ==
  ASSUME CainIInv, NextTti
  PROVE  CainIInv' /\ ServiceStep
<1>1. OtherTypes /\ FramesInv
  BY TypedInv DEF CainIInv
<1>2. /\ air = <<>> /\ air' = sent /\ sent' = <<>> /\ ran' = 0
      /\ UNCHANGED <<cellVars, networkType, ueVars, relayVars, asked, counted, lost, moved>>
  BY DEF NextTti
<1>3. Flow' = Flow /\ sent' \in Seq(Messages) /\ air' \in Seq(Messages)
  BY <1>1, <1>2, ConcatEmpty DEF OtherTypes, Flow
<1>4. Frames' = Frames /\ Ended' = Ended
  <2>1. Frames = Range(Flow)
    BY <1>1, Flows
  <2>2. Frames' = Range(Flow')
    BY <1>3, ConcatRange DEF Frames, Flow
  <2>3. QED
    BY <1>2, <1>3, <2>1, <2>2 DEF Ended
<1>5. OtherTypes'
  BY <1>1, <1>2, <1>3, Constants DEF OtherTypes, CellsTypeOK, cellVars, ueVars, relayVars
<1>6. Numbered' /\ OneFrameEach' /\ RelaysGranted' /\ OneCell'
  BY <1>1, <1>2, <1>3, <1>4
  DEF FramesInv, Numbered, Serves, OneFrameEach, RelaysGranted, Granted, OneCell, AtFirst,
      cellVars, relayVars
<1>7. RelayCountExact' /\ CountTyped'
  BY <1>2, <1>4 DEF CainIInv, RelayCountExact, CountTyped, relayVars
<1>8. UNCHANGED Service!vars
  BY <1>2, <1>4 DEF Service!vars, RequestsOf
<1>9. QED
  BY <1>5, <1>6, <1>7, <1>8 DEF CainIInv, FramesInv, ServiceStep

\* What a request is, whichever way it goes: one for the next number, whose relay
\* is granted blocks, and sent within the cell of the UE.
Shaped(u, choice) ==
  /\ choice.frame \in Messages
  /\ choice.frame.request = Len(asked) + 1
  /\ choice.frame.type \in {"DIR", "LTE", "NOTIFY", "SOC_NTF", "HOP_NTF"}
  /\ Allocates(u, choice) \subseteq Ues
  /\ choice.frame.type \in {"NOTIFY", "SOC_NTF"} => choice.frame.dst \in Allocates(u, choice)
  /\ choice.frame.type = "HOP_NTF" => choice.frame.relay \in Allocates(u, choice)
  /\ ~moved => AtFirst(choice.frame)

LEMMA DirectShaped ==
  ASSUME OtherTypes, OneCell, NEW u \in Ues, Request \in Requests, NEW type \in {"DIR", "LTE"}
  PROVE  Shaped(u, Direct(u, type))
<1> DEFINE f == ToEnb(type, u, nextHop[u], Request)
<1>1. Direct(u, type).frame = f /\ Direct(u, type).relay = u
  BY DEF Direct
<1>2. f.type = type /\ f.request = Len(asked) + 1 /\ f.dst = nextHop[u]
  BY DEF ToEnb, Request
<1>3. f \in Messages
  <2>1. type \in UpTypes \cup {"FEEDBACK"} /\ nextHop[u] \in Enbs /\ Request \in 0 .. MaxRequests
    BY DEF UpTypes, OtherTypes, CellsTypeOK, Requests
  <2>2. QED
    BY <2>1, ToEnbShape
<1>4. ~moved => AtFirst(f)
  BY <1>2 DEF OneCell, AtFirst, UpTypes, ReplyTypes
<1>5. Allocates(u, Direct(u, type)) = {}
  BY <1>1 DEF Allocates
<1>6. QED
  BY <1>1, <1>2, <1>3, <1>4, <1>5 DEF Shaped

LEMMA ViaShaped ==
  ASSUME OtherTypes, OneCell, NEW u \in Ues, Request \in Requests,
         NEW type \in {"NOTIFY", "SOC_NTF"}, NEW r \in Relays(u)
  PROVE  Shaped(u, Via(u, type, r))
<1>1. r \in Ues /\ r # u
  BY DEF Relays
<1>2. /\ Via(u, type, r).relay = r
      /\ Via(u, type, r).frame = [type |-> type, src |-> u, dst |-> r, request |-> Request,
                                  enb |-> enbOf[u]]
  BY DEF Via
<1>3. Via(u, type, r).frame \in Messages
  BY <1>1, <1>2 DEF Messages, OtherTypes, CellsTypeOK
<1>4. ~moved => AtFirst(Via(u, type, r).frame)
  BY <1>2 DEF OneCell, AtFirst, UpTypes, ReplyTypes
<1>5. Allocates(u, Via(u, type, r)) = {r}
  BY <1>1, <1>2 DEF Allocates
<1>6. QED
  BY <1>1, <1>2, <1>3, <1>4, <1>5 DEF Shaped, Request

LEMMA ViaHopShaped ==
  ASSUME OtherTypes, OneCell, NEW u \in Ues, Request \in Requests,
         NEW r \in Relays(u), NEW h \in Ues
  PROVE  Shaped(u, ViaHop(u, h, r))
<1>1. r \in Ues /\ r # u
  BY DEF Relays
<1>2. /\ ViaHop(u, h, r).relay = r
      /\ ViaHop(u, h, r).frame = [type |-> "HOP_NTF", src |-> u, dst |-> h,
                                  request |-> Request, relay |-> r, enb |-> enbOf[u]]
  BY DEF ViaHop
<1>3. ViaHop(u, h, r).frame \in Messages
  BY <1>1, <1>2 DEF Messages, OtherTypes, CellsTypeOK
<1>4. ~moved => AtFirst(ViaHop(u, h, r).frame)
  BY <1>2 DEF OneCell, AtFirst, UpTypes, ReplyTypes
<1>5. Allocates(u, ViaHop(u, h, r)) = {r}
  BY <1>1, <1>2 DEF Allocates
<1>6. QED
  BY <1>1, <1>2, <1>3, <1>4, <1>5 DEF Shaped, Request

LEMMA ChoicesShaped ==
  ASSUME OtherTypes, OneCell, NEW u \in Ues, Request \in Requests, NEW choice \in Choices(u)
  PROVE  Shaped(u, choice)
<1>1. CASE networkType = "CAIN"
  <2>1. \/ choice = Direct(u, "DIR")
        \/ \E r \in Relays(u) : choice = Via(u, "NOTIFY", r)
        \/ \E r \in Relays(u), h \in Ues : choice = ViaHop(u, h, r)
    BY <1>1 DEF Choices, CheckCAINType
  <2>2. QED
    BY <2>1, DirectShaped, ViaShaped, ViaHopShaped
<1>2. CASE networkType = "Social"
  <2>1. choice = Direct(u, "DIR") \/ \E r \in Relays(u) : choice = Via(u, "SOC_NTF", r)
    BY <1>2 DEF Choices, CheckSocialId
  <2>2. QED
    BY <2>1, DirectShaped, ViaShaped
<1>3. CASE networkType = "4G"
  <2>1. choice = Direct(u, "DIR") \/ choice = Direct(u, "LTE")
    BY <1>3 DEF Choices, CheckLteMsg
  <2>2. QED
    BY <2>1, DirectShaped
<1>4. QED
  BY <1>1, <1>2, <1>3, CainMacAssumption DEF OtherTypes

LEMMA MainLoopOk ==
  ASSUME CainIInv, MainLoop
  PROVE  CainIInv' /\ ServiceStep
<1> DEFINE u == ran + 1
<1>1. OtherTypes /\ OneCell
  BY DEF CainIInv, FramesInv
<1>2. u \in Senders /\ u \in Ues /\ ran' \in 0 .. NumSenders
  BY <1>1, Constants DEF MainLoop, OtherTypes, Senders
<1>3. /\ WaitsForResponse(u) \/ ClearsRequest(u) \/ RequestsRac(u) \/ NothingToRequest(u)
      /\ UNCHANGED <<networkType, backlog, qtdRelay, air, cellVars, counted, lost, moved>>
  BY DEF MainLoop, CheckRac
<1>4. CASE ~RequestsRac(u)
  <2>1. UNCHANGED <<sent, allocated, asked>>
    BY <1>3, <1>4 DEF WaitsForResponse, ClearsRequest, NothingToRequest
  <2>2. raRespTimer' \in [Ues -> 0 .. RaRespWin] /\ racRequested' \subseteq Ues
    <3>1. raRespTimer \in [Ues -> 0 .. RaRespWin] /\ racRequested \subseteq Ues /\ RaRespWin \in Nat
      BY <1>1, CainMacAssumption DEF OtherTypes
    <3>2. CASE WaitsForResponse(u)
      <4>1. raRespTimer[u] - 1 \in 0 .. RaRespWin
        BY <1>2, <3>1, <3>2 DEF WaitsForResponse
      <4>2. QED
        BY <3>1, <3>2, <4>1 DEF WaitsForResponse
    <3>3. QED
      BY <1>3, <1>4, <3>1, <3>2 DEF ClearsRequest, NothingToRequest
  <2>3. OtherTypes'
    BY <1>1, <1>2, <1>3, <2>1, <2>2 DEF OtherTypes, CellsTypeOK, cellVars
  <2>4. OneCell'
    BY <1>1, <1>3, <2>1 DEF OneCell, cellVars, Flow, AtFirst
  <2>5. CainIInv'
    BY <1>3, <2>1, <2>3, <2>4, QuietStep
  <2>6. UNCHANGED Service!vars
    BY <1>3, <2>1 DEF Service!vars, RequestsOf, Frames
  <2>7. QED
    BY <2>5, <2>6 DEF ServiceStep
<1>5. CASE RequestsRac(u)
  <2>1. PICK choice \in Choices(u) :
          /\ sent' = Append(sent, choice.frame)
          /\ allocated' = allocated \cup Allocates(u, choice)
    BY <1>5 DEF RequestsRac
  <2>2. /\ Request \in Requests /\ asked' = Append(asked, u)
        /\ racRequested' = racRequested \cup {u}
        /\ raRespTimer' = [raRespTimer EXCEPT ![u] = RaRespWin]
    BY <1>5 DEF RequestsRac
  <2>3. Shaped(u, choice)
    BY <1>1, <1>2, <2>2, ChoicesShaped
  <2>4. Granted(choice.frame)'
    BY <2>1, <2>3 DEF Granted, Shaped, ReplyTypes
  <2>5. raRespTimer' \in [Ues -> 0 .. RaRespWin] /\ racRequested' \subseteq Ues
    BY <1>1, <1>2, <2>2, CainMacAssumption DEF OtherTypes
  <2>6. allocated \subseteq allocated' /\ allocated' \subseteq Ues
    BY <1>1, <2>1, <2>3 DEF OtherTypes, Shaped
  <2>7. Len(asked) + 1 <= MaxRequests
    BY <2>2 DEF Request, Requests
  <2>8. CainIInv' /\ Service!Ask
    BY <1>2, <1>3, <2>1, <2>2, <2>3, <2>4, <2>5, <2>6, <2>7, AskStep DEF Shaped
  <2>9. QED
    BY <2>8 DEF ServiceStep, Service!Next
<1>6. QED
  BY <1>4, <1>5

\* UEs relay a request, and the answer to it; no reply is ever a refusal.
LEMMA ArrivesAtUeOk ==
  ASSUME CainIInv, ArrivesAtUe
  PROVE  CainIInv' /\ ServiceStep
<1>1. OtherTypes /\ Unique(Flow) /\ FramesInv /\ OneCell /\ qtdRelay \in [Ues -> Int]
  BY TypedInv DEF CainIInv, FramesInv, CountTyped
<1>2. /\ air # <<>> /\ air' = Tail(air) /\ Frame.dst \in Ues
      /\ HandleForward(Frame) \/ HandleSocial(Frame) \/ HandleHop(Frame) \/ HandleReply(Frame)
      /\ UNCHANGED <<networkType, ueVars, allocated, asked, cellVars, ran, counted, moved>>
      /\ lost' = IF Refuses(Frame) THEN lost \cup {Frame} ELSE lost
  BY DEF ArrivesAtUe, HandleCainMsg
<1>3. Frame \in Range(Flow) /\ Frame \in Messages
  BY <1>1, <1>2, FrameUnderWay
<1>4. Granted(Frame) /\ (~moved => AtFirst(Frame))
  BY <1>1, <1>3 DEF FramesInv, RelaysGranted, OneCell
<1>5. lost' = lost
  BY <1>2, <1>4 DEF Granted, Refuses
<1>6. Frame.request \in 0 .. MaxRequests /\ Frame.request \in Nat
  BY <1>3, MessageShape, CainMacAssumption
<1>7. ASSUME NEW n \in Messages, sent' = Append(sent, n), n.request = Frame.request,
             n.type # "FEEDBACK", Frame.type # "FEEDBACK", Granted(n), ~moved => AtFirst(n),
             CountTyped',
             \A r \in Ues : qtdRelay'[r] = qtdRelay[r]
               - One(Relaying(Frame, r)) + One(Relaying(n, r))
               + One(Answers(Frame, r)) - One(Answers(n, r))
      PROVE  CainIInv' /\ ServiceStep
  <2>1. CainIInv' /\ UNCHANGED Service!vars
    BY <1>2, <1>5, <1>7, ReplaceStep
  <2>2. QED
    BY <2>1 DEF ServiceStep
<1>8. CASE HandleForward(Frame)
  <2> DEFINE n == Forward(Frame)
  <2>1. Frame.type \in {"NOTIFY", "HOP_REL"} /\ Frame.enb \in Enbs
    BY <1>3, <1>8, MessageShape DEF HandleForward
  <2>2. /\ n.type = IF Frame.type = "NOTIFY" THEN "FWD" ELSE "HOP_FWD"
        /\ n.src = Frame.dst /\ n.dst = Frame.enb /\ n.request = Frame.request
        /\ n \in Messages
    <3>1. n = ToEnb(IF Frame.type = "NOTIFY" THEN "FWD" ELSE "HOP_FWD",
                    Frame.dst, Frame.enb, Frame.request)
      BY <2>1 DEF Forward
    <3>2. n \in Messages
      BY <1>2, <1>6, <2>1, <3>1, ToEnbShape DEF UpTypes
    <3>3. QED
      BY <3>1, <3>2 DEF ToEnb
  <2>3. Granted(n) /\ (~moved => AtFirst(n))
    BY <1>4, <2>1, <2>2 DEF Granted, AtFirst, ReplyTypes, UpTypes
  <2>4. /\ sent' = Append(sent, n) /\ qtdRelay' = [qtdRelay EXCEPT ![Frame.dst] = @ + 1]
    BY <1>8 DEF HandleForward, IncreaseRelay
  <2>5. CountTyped'
    BY <1>1, <1>2, <2>4 DEF CountTyped
  <2>6. ASSUME NEW r \in Ues
        PROVE  qtdRelay'[r] = qtdRelay[r]
               - One(Relaying(Frame, r)) + One(Relaying(n, r))
               + One(Answers(Frame, r)) - One(Answers(n, r))
    <3>1. One(Relaying(Frame, r)) = 0 /\ One(Answers(Frame, r)) = 0 /\ One(Answers(n, r)) = 0
      BY <2>1, <2>2 DEF One, Relaying, Answers
    <3>2. One(Relaying(n, r)) = IF r = Frame.dst THEN 1 ELSE 0
      BY <2>2 DEF One, Relaying
    <3>3. QED
      BY <1>1, <1>2, <2>4, <3>1, <3>2
  <2>7. n.type # "FEEDBACK" /\ Frame.type # "FEEDBACK"
    BY <2>1, <2>2
  <2>8. QED
    BY <1>7, <2>2, <2>3, <2>4, <2>5, <2>6, <2>7
<1>9. CASE HandleSocial(Frame)
  <2> DEFINE n == Forward(Frame)
  <2>1. Frame.type = "SOC_NTF" /\ sent' = Append(sent, n) /\ qtdRelay' = qtdRelay
    BY <1>9 DEF HandleSocial
  <2>2. /\ n.type = "SOC_FWD" /\ n.src = Frame.dst /\ n.dst = enbOf[Frame.dst]
        /\ n.request = Frame.request /\ n \in Messages
    <3>1. n = ToEnb("SOC_FWD", Frame.dst, enbOf[Frame.dst], Frame.request)
      BY <2>1 DEF Forward
    <3>2. enbOf[Frame.dst] \in Enbs
      BY <1>1, <1>2 DEF OtherTypes, CellsTypeOK
    <3>3. n \in Messages
      BY <1>2, <1>6, <3>1, <3>2, ToEnbShape DEF UpTypes
    <3>4. QED
      BY <3>1, <3>3 DEF ToEnb
  <2>3. Granted(n) /\ (~moved => AtFirst(n))
    BY <1>1, <1>2, <1>4, <2>1, <2>2 DEF Granted, AtFirst, ReplyTypes, UpTypes, OneCell
  <2>4. CountTyped'
    BY <1>1, <2>1 DEF CountTyped
  <2>5. ASSUME NEW r \in Ues
        PROVE  qtdRelay'[r] = qtdRelay[r]
               - One(Relaying(Frame, r)) + One(Relaying(n, r))
               + One(Answers(Frame, r)) - One(Answers(n, r))
    <3>1. /\ One(Relaying(Frame, r)) = 0 /\ One(Answers(Frame, r)) = 0
          /\ One(Relaying(n, r)) = 0 /\ One(Answers(n, r)) = 0
      BY <2>1, <2>2 DEF One, Relaying, Answers
    <3>2. QED
      BY <1>1, <2>1, <3>1
  <2>6. n.type # "FEEDBACK" /\ Frame.type # "FEEDBACK"
    BY <2>1, <2>2
  <2>7. QED
    BY <1>7, <2>1, <2>2, <2>3, <2>4, <2>5, <2>6
<1>10. CASE HandleHop(Frame)
  <2> DEFINE n == [type |-> "HOP_REL", src |-> Frame.dst, dst |-> Frame.relay,
                   request |-> Frame.request, enb |-> Frame.enb]
  <2>1. Frame.type = "HOP_NTF" /\ sent' = Append(sent, n) /\ qtdRelay' = qtdRelay
    BY <1>10 DEF HandleHop
  <2>2. /\ n.type = "HOP_REL" /\ n.src = Frame.dst /\ n.dst = Frame.relay
        /\ n.request = Frame.request /\ n.enb = Frame.enb
    OBVIOUS
  <2>3. n \in Messages
    <3>1. Frame.relay \in Ues /\ Frame.enb \in Enbs
      BY <1>3, <2>1, MessageShape
    <3>2. Frame.request \in Requests
      BY <1>1, <1>3, <1>6, <2>1 DEF FramesInv, Numbered, Serves, Requests
    <3>3. QED
      BY <1>2, <3>1, <3>2 DEF Messages
  <2>4. Granted(n) /\ (~moved => AtFirst(n))
    BY <1>4, <2>1, <2>2 DEF Granted, AtFirst, ReplyTypes, UpTypes
  <2>5. CountTyped'
    BY <1>1, <2>1 DEF CountTyped
  <2>6. ASSUME NEW r \in Ues
        PROVE  qtdRelay'[r] = qtdRelay[r]
               - One(Relaying(Frame, r)) + One(Relaying(n, r))
               + One(Answers(Frame, r)) - One(Answers(n, r))
    <3>1. /\ One(Relaying(Frame, r)) = 0 /\ One(Answers(Frame, r)) = 0
          /\ One(Relaying(n, r)) = 0 /\ One(Answers(n, r)) = 0
      BY <2>1, <2>2 DEF One, Relaying, Answers
    <3>2. QED
      BY <1>1, <2>1, <3>1
  <2>7. n.type # "FEEDBACK" /\ Frame.type # "FEEDBACK"
    BY <2>1, <2>2
  <2>8. QED
    <3> HIDE DEF n
    <3>1. QED
      BY <1>7, <2>1, <2>2, <2>3, <2>4, <2>5, <2>6, <2>7
<1>11. CASE HandleReply(Frame)
  <2> DEFINE n == Answer(Frame)
  <2>1. /\ Frame.type \in ReplyTypes /\ Frame.ok /\ sent' = Append(sent, n)
        /\ qtdRelay' = [qtdRelay EXCEPT ![Frame.dst] = @ - 1]
    BY <1>4, <1>11 DEF HandleReply, DecreaseRelay, Granted
  <2>2. Frame.src \in Enbs /\ enbOf[Frame.dst] \in Enbs
    BY <1>1, <1>2, <1>3, <2>1, MessageShape DEF OtherTypes, CellsTypeOK
  <2>3. /\ n.type = CASE Frame.type = "REP" -> "ANSW" [] Frame.type = "HOP_REP" -> "HOP_ANSW"
                      [] Frame.type = "SOC_REP" -> "SOC_ANSW"
        /\ n.src = Frame.dst /\ n.request = Frame.request
        /\ n.dst = IF Frame.type = "SOC_REP" THEN enbOf[Frame.dst] ELSE Frame.src
        /\ n \in Messages
    <3>1. CASE Frame.type = "REP"
      <4>1. n = ToEnb("ANSW", Frame.dst, Frame.src, Frame.request)
        BY <3>1 DEF Answer
      <4>2. n \in Messages
        BY <1>2, <1>6, <2>2, <4>1, ToEnbShape DEF UpTypes
      <4>3. QED
        BY <3>1, <4>1, <4>2 DEF ToEnb
    <3>2. CASE Frame.type = "HOP_REP"
      <4>1. n = ToEnb("HOP_ANSW", Frame.dst, Frame.src, Frame.request)
        BY <3>2 DEF Answer
      <4>2. n \in Messages
        BY <1>2, <1>6, <2>2, <4>1, ToEnbShape DEF UpTypes
      <4>3. QED
        BY <3>2, <4>1, <4>2 DEF ToEnb
    <3>3. CASE Frame.type = "SOC_REP"
      <4>1. n = ToEnb("SOC_ANSW", Frame.dst, enbOf[Frame.dst], Frame.request)
        BY <3>3 DEF Answer
      <4>2. n \in Messages
        BY <1>2, <1>6, <2>2, <4>1, ToEnbShape DEF UpTypes
      <4>3. QED
        BY <3>3, <4>1, <4>2 DEF ToEnb
    <3>4. QED
      BY <2>1, <3>1, <3>2, <3>3 DEF ReplyTypes
  <2>4. n.type \in {"ANSW", "HOP_ANSW", "SOC_ANSW"}
    BY <2>1, <2>3 DEF ReplyTypes
  <2>5. Granted(n) /\ (~moved => AtFirst(n))
    BY <1>1, <1>2, <1>4, <2>1, <2>3, <2>4 DEF Granted, AtFirst, ReplyTypes, UpTypes, OneCell
  <2>6. CountTyped'
    BY <1>1, <1>2, <2>1 DEF CountTyped
  <2>7. ASSUME NEW r \in Ues
        PROVE  qtdRelay'[r] = qtdRelay[r]
               - One(Relaying(Frame, r)) + One(Relaying(n, r))
               + One(Answers(Frame, r)) - One(Answers(n, r))
    <3>1. One(Relaying(n, r)) = 0 /\ One(Answers(Frame, r)) = 0
      BY <2>1, <2>4 DEF One, Relaying, Answers, ReplyTypes
    <3>2. One(Relaying(Frame, r)) = IF r = Frame.dst /\ Frame.type # "SOC_REP" THEN 1 ELSE 0
      BY <2>1 DEF One, Relaying, ReplyTypes
    <3>3. One(Answers(n, r)) = IF r = Frame.dst /\ Frame.type = "SOC_REP" THEN 1 ELSE 0
      BY <2>1, <2>3 DEF One, Answers, ReplyTypes
    <3>4. QED
      BY <1>1, <1>2, <2>1, <3>1, <3>2, <3>3
  <2>8. n.type # "FEEDBACK" /\ Frame.type # "FEEDBACK"
    BY <2>1, <2>4 DEF ReplyTypes
  <2>9. QED
    BY <1>7, <2>1, <2>3, <2>5, <2>6, <2>7, <2>8
<1>12. QED
  BY <1>2, <1>8, <1>9, <1>10, <1>11

\* An eNodeB replies to the relay, counts the request, or does not know the UE.
LEMMA ArrivesAtEnbOk ==
  ASSUME CainIInv, ArrivesAtEnb
  PROVE  CainIInv' /\ ServiceStep
<1>1. OtherTypes /\ Unique(Flow) /\ FramesInv /\ OneCell /\ qtdRelay \in [Ues -> Int]
  BY TypedInv DEF CainIInv, FramesInv, CountTyped
<1>2. /\ air # <<>> /\ air' = Tail(air) /\ Frame.dst \in Enbs /\ Frame.type # "FEEDBACK"
      /\ sent' = IF Taken(Frame) THEN sent \o Replies(Frame) ELSE sent
      /\ counted' = IF Taken(Frame) /\ Counts(Frame) THEN counted \cup {Frame} ELSE counted
      /\ lost' = IF Taken(Frame) THEN lost ELSE lost \cup {Frame}
      /\ UNCHANGED <<networkType, ueVars, relayVars, asked, cellVars, ran, moved>>
  BY DEF ArrivesAtEnb, MacHandleRac, Taken
<1>3. Frame \in Range(Flow) /\ Frame \in Messages /\ sent \in Seq(Messages)
  BY <1>1, <1>2, FrameUnderWay DEF OtherTypes
<1>4. Granted(Frame) /\ (~moved => AtFirst(Frame))
  BY <1>1, <1>3 DEF FramesInv, RelaysGranted, OneCell
<1>5. Frame.type \in UpTypes /\ Frame.src \in Ues
  BY <1>2, <1>3, MessageShape, Constants
<1>6. CASE ~Taken(Frame)
  <2>1. moved
    BY <1>1, <1>4, <1>5, <1>6 DEF OneCell, AtFirst, Taken, Takes, OtherTypes
  <2>2. sent' = sent /\ counted' = counted /\ lost' = lost \cup {Frame}
    BY <1>2, <1>6
  <2>3. QED
    BY <1>2, <2>1, <2>2, EndStep
<1>7. CASE Taken(Frame) /\ Counts(Frame)
  <2>1. Replies(Frame) = <<>>
    BY <1>7 DEF Counts, Replies
  <2>2. sent' = sent
    BY <1>2, <1>3, <1>7, <2>1
  <2>3. QED
    BY <1>2, <1>7, <2>2, EndStep
<1>8. CASE Taken(Frame) /\ ~Counts(Frame)
  <2>1. Frame.type \in {"FWD", "HOP_FWD", "SOC_FWD"}
    BY <1>5, <1>8 DEF Counts, UpTypes
  <2> DEFINE type == CASE Frame.type = "FWD" -> "REP" [] Frame.type = "HOP_FWD" -> "HOP_REP"
                       [] OTHER -> "SOC_REP"
             n == Reply(Frame, type)
  <2>2. type \in ReplyTypes /\ (Frame.type = "SOC_FWD" <=> type = "SOC_REP")
    BY <2>1 DEF ReplyTypes
  <2>3. Replies(Frame) = <<n>>
    BY <2>1 DEF Replies
  <2>4. /\ n.type = type /\ n.src = Frame.dst /\ n.dst = Frame.src
        /\ n.request = Frame.request /\ n.ok = (Frame.src \in allocated)
    BY DEF Reply
  <2>5. n \in Messages
    <3>1. Frame.request \in Requests
      <4>1. Frame.request \in 0 .. MaxRequests /\ Frame.request # 0
        BY <1>1, <1>2, <1>3, MessageShape DEF FramesInv, Numbered, Serves
      <4>2. QED
        BY <4>1, CainMacAssumption DEF Requests
    <3>2. QED
      BY <1>2, <1>5, <2>2, <3>1 DEF Reply, Messages
  <2>6. sent' = Append(sent, n) /\ counted' = counted /\ lost' = lost /\ qtdRelay' = qtdRelay
    BY <1>2, <1>3, <1>8, <2>3 DEF relayVars
  <2> HIDE DEF n, type
  <2>7. Granted(n) /\ (~moved => AtFirst(n))
    BY <1>4, <1>5, <2>1, <2>2, <2>4 DEF Granted, AtFirst, ReplyTypes, UpTypes
  <2>8. CountTyped'
    BY <1>1, <2>6 DEF CountTyped
  <2>9. ASSUME NEW r \in Ues
        PROVE  qtdRelay'[r] = qtdRelay[r]
               - One(Relaying(Frame, r)) + One(Relaying(n, r))
               + One(Answers(Frame, r)) - One(Answers(n, r))
    <3>1. One(Answers(Frame, r)) = 0 /\ One(Answers(n, r)) = 0
      BY <2>1, <2>2, <2>4 DEF One, Answers, ReplyTypes
    <3>2. One(Relaying(Frame, r)) = IF r = Frame.src /\ Frame.type # "SOC_FWD" THEN 1 ELSE 0
      BY <2>1 DEF One, Relaying
    <3>3. One(Relaying(n, r)) = IF r = Frame.src /\ Frame.type # "SOC_FWD" THEN 1 ELSE 0
      BY <2>2, <2>4 DEF One, Relaying, ReplyTypes
    <3>4. QED
      BY <1>1, <2>6, <3>1, <3>2, <3>3
  <2>10. n.type # "FEEDBACK"
    BY <2>2, <2>4 DEF ReplyTypes
  <2>11. CainIInv' /\ UNCHANGED Service!vars
    BY <1>2, <2>4, <2>5, <2>6, <2>7, <2>8, <2>9, <2>10, ReplaceStep DEF relayVars
  <2>12. QED
    BY <2>11 DEF ServiceStep
<1>9. QED
  BY <1>6, <1>7, <1>8

LEMMA NextOk ==
  ASSUME CainIInv, [Next]_vars
  PROVE  CainIInv' /\ ServiceStep
<1>1. CASE UNCHANGED vars
  <2>1. OtherTypes' /\ OneCell'
    BY <1>1 DEF CainIInv, FramesInv, OtherTypes, OneCell, AtFirst, CellsTypeOK, Flow, vars,
       cellVars, macVars, ueVars, relayVars
  <2>2. CainIInv'
    BY <1>1, <2>1, QuietStep DEF vars, macVars, relayVars
  <2>3. UNCHANGED Service!vars
    BY <1>1 DEF Service!vars, RequestsOf, Frames, vars, macVars
  <2>4. QED
    BY <2>2, <2>3 DEF ServiceStep
<1>2. CASE Next
  BY <1>2, DataArrivesOk, FeedbackOk, DoHandoverOk, MainLoopOk, ArrivesAtUeOk, ArrivesAtEnbOk,
     FeedbackArrivesOk, OtherFrameArrivesOk, NextTtiOk DEF Next, Tick
<1>3. QED
  BY <1>1, <1>2

LEMMA InitOk ==
  ASSUME Init
  PROVE  CainIInv /\ Service!Init
<1>1. /\ air = <<>> /\ sent = <<>> /\ asked = <<>> /\ counted = {} /\ lost = {} /\ ran = 0
      /\ networkType \in NetworkTypes /\ backlog = {} /\ racRequested = {} /\ allocated = {}
      /\ raRespTimer = [u \in Ues |-> 0] /\ qtdRelay = [u \in Ues |-> 0] /\ moved = FALSE
      /\ enbOf = [u \in Ues |-> FirstEnb] /\ nextHop = enbOf /\ candidate = enbOf
      /\ triggers = [u \in Ues |-> 0] /\ phyFrames = 0 /\ area \in [Enbs -> [Ues -> 0 .. 2]]
  BY DEF Init, CellsInit, MacInit
<1>2. OtherTypes
  <2>1. CellsTypeOK
    BY <1>1, CainCellsAssumption DEF CellsTypeOK
  <2>2. air \in Seq(Messages) /\ sent \in Seq(Messages) /\ asked \in Seq(Ues) /\ Len(asked) = 0
    BY <1>1
  <2>3. raRespTimer \in [Ues -> 0 .. RaRespWin] /\ ran \in 0 .. NumSenders
    BY <1>1, Constants, CainMacAssumption
  <2>4. 0 <= MaxRequests
    BY CainMacAssumption
  <2>5. QED
    BY <1>1, <2>1, <2>2, <2>3, <2>4 DEF OtherTypes
<1>3. Flow = <<>> /\ Range(Flow) = {} /\ Frames = {} /\ Ended = {}
  BY <1>1 DEF Flow, Range, Frames, Ended
<1>4. Numbered /\ OneFrameEach /\ RelaysGranted /\ OneCell
  BY <1>1, <1>3 DEF Numbered, OneFrameEach, Unique, RelaysGranted, OneCell
<1>5. RelayCountExact /\ CountTyped
  <2>1. ASSUME NEW r \in Ues
        PROVE  Relayed(r) = {} /\ AnsweredBy(r) = {}
    BY <1>1, <1>3 DEF Relayed, AnsweredBy
  <2>2. Cardinality({}) = 0
    BY FS_EmptySet
  <2>3. \A r \in Ues : qtdRelay[r] = Cardinality(Relayed(r)) - Cardinality(AnsweredBy(r))
    <3> SUFFICES ASSUME NEW r \in Ues
                 PROVE  qtdRelay[r] = Cardinality(Relayed(r)) - Cardinality(AnsweredBy(r))
      OBVIOUS
    <3>1. Cardinality(Relayed(r)) = 0 /\ Cardinality(AnsweredBy(r)) = 0
      BY <2>1, <2>2
    <3>2. qtdRelay[r] = 0
      BY <1>1
    <3>3. QED
      BY <3>1, <3>2
  <2>4. RelayCountExact
    BY <2>3 DEF RelayCountExact, Relayed, AnsweredBy, Answers
  <2>5. CountTyped
    BY <1>1 DEF CountTyped
  <2>6. QED
    BY <2>4, <2>5
<1>6. Service!Init
  BY <1>1, <1>3 DEF Service!Init, RequestsOf
<1>7. QED
  BY <1>2, <1>4, <1>5, <1>6 DEF CainIInv, FramesInv

LEMMA InvTyped ==
  ASSUME CainIInv
  PROVE  CainTypeOK
<1>1. ASSUME NEW u \in Ues
      PROVE  qtdRelay[u] \in -MaxRequests .. MaxRequests
  <2>1. /\ Cardinality(Relayed(u)) \in 0 .. MaxRequests
        /\ Cardinality(AnsweredBy(u)) \in 0 .. MaxRequests
    BY CountedSets DEF CainIInv
  <2>2. qtdRelay[u] = Cardinality(Relayed(u)) - Cardinality(AnsweredBy(u))
    BY CountBySets DEF CainIInv
  <2>3. QED
    BY <2>1, <2>2, CainMacAssumption
<1>2. QED
  BY <1>1 DEF CainIInv, FramesInv, OtherTypes, CountTyped, CainTypeOK, MacTypeOK

-----------------------------------------------------------------------------
(***************************************************************************)
(* What holds of CAIN for every number of UEs, cells and requests.         *)
(***************************************************************************)
\* What CainService promises but for its liveness, which is left to TLC.
SafeService == Service!Init /\ [][Service!Next]_(Service!vars)

LEMMA Invariant == Spec => []CainIInv
<1>1. Init => CainIInv
  BY InitOk
<1>2. CainIInv /\ [Next]_vars => CainIInv'
  BY NextOk
<1>3. QED
  BY <1>1, <1>2, PTL DEF Spec

\* The variables keep their types; the count of the binder stays within the number
\* of requests (checkRAC, handleCainMsg, macHandleRac).
THEOREM CainTypeCorrect == Spec => []CainTypeOK
<1>1. CainIInv => CainTypeOK
  BY InvTyped
<1>2. QED
  BY <1>1, Invariant, PTL

\* The binder's count of whom a UE relays for is exact (increaseRelay and
\* decreaseRelay), however requests, replies, feedbacks and handovers interleave.
THEOREM RelayCountAlwaysExact == Spec => []RelayCountExact
<1>1. CainIInv => RelayCountExact
  BY DEF CainIInv
<1>2. QED
  BY <1>1, Invariant, PTL

\* Every step of the relay protocol is one its service allows: a request is counted
\* at most once, and lost only after some UE found another cell nearer.
THEOREM CainImplementsSafeService == Spec => SafeService
<1>1. Init => Service!Init
  BY InitOk
<1>2. CainIInv /\ [Next]_vars => [Service!Next]_(Service!vars)
  BY NextOk DEF ServiceStep
<1>3. QED
  BY <1>1, <1>2, Invariant, PTL DEF Spec, SafeService

-----------------------------------------------------------------------------
(***************************************************************************)
(* The response window: how long a request has been under way is known     *)
(* from the type of its frame, and so is the timer of the UE that asked.   *)
(***************************************************************************)
Stage(m) ==
  CASE m.type \in {"NOTIFY", "SOC_NTF", "HOP_NTF", "DIR", "LTE"} -> 1
    [] m.type \in {"FWD", "SOC_FWD", "HOP_REL"} -> 2
    [] m.type \in {"REP", "SOC_REP", "HOP_FWD"} -> 3
    [] OTHER -> 4

Open(m) == m.request # 0 /\ m.type # "HOP_ANSW"
Asker(m) == asked[m.request]

\* One if the main loop of u is still to run in this TTI.
ToRun(u) == IF ran < u THEN 1 ELSE 0

\* The main loop of u has run k times since u asked.
Waits(u, k) == k <= RaRespWin => u \in racRequested /\ raRespTimer[u] = RaRespWin - k

Awaited ==
  /\ asked \in Seq(Senders)
  /\ \A m \in Range(air) : Open(m) => Waits(Asker(m), Stage(m) - ToRun(Asker(m)))
  /\ \A m \in Range(sent) : Open(m) => Waits(Asker(m), Stage(m) - 1 - ToRun(Asker(m)))

OneEach == \A m, n \in Frames : Open(m) /\ Open(n) /\ Asker(m) = Asker(n) => m = n

WaitInv == Awaited /\ OneEach

LEMMA TailSubset ==
  ASSUME NEW s \in Seq(Messages), s # <<>>
  PROVE  Range(Tail(s)) \subseteq Range(s) /\ Head(s) \in Range(s)
<1>1. ASSUME NEW i \in DOMAIN Tail(s)
      PROVE  Tail(s)[i] \in Range(s)
  <2>1. i + 1 \in DOMAIN s /\ Tail(s)[i] = s[i + 1]
    OBVIOUS
  <2>2. QED
    BY <2>1 DEF Range
<1>2. Head(s) = s[1] /\ 1 \in DOMAIN s
  OBVIOUS
<1>3. QED
  BY <1>1, <1>2 DEF Range

LEMMA AppendedRange ==
  ASSUME NEW s \in Seq(Messages), NEW n \in Messages
  PROVE  Range(Append(s, n)) = Range(s) \cup {n}
<1>1. /\ DOMAIN Append(s, n) = 1 .. Len(s) + 1 /\ DOMAIN s = 1 .. Len(s) /\ Len(s) \in Nat
      /\ \A i \in 1 .. Len(s) : Append(s, n)[i] = s[i]
      /\ Append(s, n)[Len(s) + 1] = n
  OBVIOUS
<1>2. \A i \in 1 .. Len(s) + 1 : Append(s, n)[i] \in Range(s) \cup {n}
  BY <1>1 DEF Range
<1>3. \A i \in 1 .. Len(s) : s[i] \in Range(Append(s, n))
  BY <1>1 DEF Range
<1>4. n \in Range(Append(s, n))
  <2>1. Len(s) + 1 \in DOMAIN Append(s, n)
    BY <1>1
  <2>2. QED
    BY <1>1, <2>1 DEF Range
<1>5. QED
  BY <1>1, <1>2, <1>3, <1>4 DEF Range

\* Somebody answers for a request one stage on, in the same TTI.
LEMMA HandedOn ==
  ASSUME CainIInv, WaitInv, air # <<>>, air' = Tail(air), NEW n \in Messages,
         sent' = Append(sent, n), n.request = Frame.request, Frame.type # "HOP_ANSW",
         n.type = "HOP_ANSW" \/ Stage(n) = Stage(Frame) + 1,
         UNCHANGED <<asked, ran, racRequested, raRespTimer>>
  PROVE  WaitInv'
<1>1. air \in Seq(Messages) /\ sent \in Seq(Messages)
  BY DEF CainIInv, FramesInv, OtherTypes
<1>2. /\ Range(air') \subseteq Range(air) /\ Frame \in Range(air)
      /\ Range(sent') = Range(sent) \cup {n}
  BY <1>1, TailSubset, AppendedRange DEF Frame
<1>3. Open(n) => /\ Open(Frame) /\ Stage(n) - 1 = Stage(Frame) /\ Asker(n) = Asker(Frame)
  BY <1>2 DEF Open, Asker, Stage
<1>4. Awaited'
  BY <1>2, <1>3 DEF WaitInv, Awaited, Open, Asker, Stage, Waits, ToRun
<1>5. OneEach'
  <2>1. CASE Frame.request = 0
    BY <1>2, <2>1 DEF WaitInv, OneEach, Frames, Open, Asker
  <2>2. CASE Frame.request # 0
    <3>1. /\ Frames' = Range(Flow') /\ Range(Flow') = (Range(Flow) \ {Frame}) \cup {n}
          /\ Frames = Range(Flow)
      BY <2>2, TypedInv, Replaced, Flows
    <3>2. ASSUME NEW m \in Frames', NEW k \in Frames', Open(m), Open(k), Asker(m) = Asker(k)
          PROVE  m = k
      <4>1. CASE m # n /\ k # n
        BY <3>1, <3>2, <4>1 DEF WaitInv, OneEach
      <4>2. CASE m = n /\ k # n
        <5>1. k \in Frames /\ k # Frame /\ Frame \in Frames
          BY <1>2, <3>1, <4>2 DEF Frames
        <5>2. Open(Frame) /\ Asker(Frame) = Asker(k)
          BY <1>3, <3>2, <4>2
        <5>3. QED
          BY <3>2, <5>1, <5>2 DEF WaitInv, OneEach
      <4>3. CASE m # n /\ k = n
        <5>1. m \in Frames /\ m # Frame /\ Frame \in Frames
          BY <1>2, <3>1, <4>3 DEF Frames
        <5>2. Open(Frame) /\ Asker(Frame) = Asker(m)
          BY <1>3, <3>2, <4>3
        <5>3. QED
          BY <3>2, <5>1, <5>2 DEF WaitInv, OneEach
      <4>4. QED
        BY <4>1, <4>2, <4>3
    <3>3. QED
      BY <3>2 DEF OneEach, Open, Asker
  <2>3. QED
    BY <2>1, <2>2
<1>6. QED
  BY <1>4, <1>5 DEF WaitInv

\* Frames that arrive without an answer, and feedbacks, concern no timer.
LEMMA NoneHandedOn ==
  ASSUME CainIInv, WaitInv,
         \/ air # <<>> /\ air' = Tail(air) /\ sent' = sent
         \/ air' = air /\ sent' = sent
         \/ air' = air /\ \E n \in Messages : n.request = 0 /\ sent' = Append(sent, n),
         UNCHANGED <<asked, ran, racRequested, raRespTimer>>
  PROVE  WaitInv'
<1>1. air \in Seq(Messages) /\ sent \in Seq(Messages)
  BY DEF CainIInv, FramesInv, OtherTypes
<1>2. Range(air') \subseteq Range(air)
  BY <1>1, TailSubset
<1>3. \A m \in Range(sent') : Open(m) => m \in Range(sent)
  <2>1. CASE sent' = sent
    BY <2>1
  <2>2. ASSUME NEW n \in Messages, n.request = 0, sent' = Append(sent, n)
        PROVE  \A m \in Range(sent') : Open(m) => m \in Range(sent)
    <3>1. Range(sent') = Range(sent) \cup {n}
      BY <1>1, <2>2, AppendedRange
    <3>2. QED
      BY <2>2, <3>1 DEF Open
  <2>3. QED
    BY <2>1, <2>2
<1>4. Awaited'
  BY <1>2, <1>3 DEF WaitInv, Awaited, Open, Asker, Stage, Waits, ToRun
<1>5. OneEach'
  BY <1>2, <1>3 DEF WaitInv, OneEach, Frames, Open, Asker
<1>6. QED
  BY <1>4, <1>5 DEF WaitInv

\* Who asked for what is under way.
LEMMA AskersSend ==
  ASSUME CainIInv, WaitInv, NEW m \in Frames, m.request # 0
  PROVE  m.request \in DOMAIN asked /\ Asker(m) \in Senders
<1>1. m \in Messages /\ m \in Range(Flow) /\ asked \in Seq(Senders)
  BY TypedInv, Flows DEF WaitInv, Awaited
<1>2. m.request \in Nat /\ m.request <= Len(asked)
  BY <1>1, MessageShape, CainMacAssumption DEF CainIInv, FramesInv, Numbered, Serves
<1>3. QED
  BY <1>1, <1>2 DEF Asker

LEMMA NextTtiWaits ==
  ASSUME CainIInv, WaitInv, NextTti
  PROVE  WaitInv'
<1>1. /\ ran = NumSenders /\ air = <<>> /\ air' = sent /\ sent' = <<>> /\ ran' = 0
      /\ UNCHANGED <<asked, racRequested, raRespTimer>>
  BY DEF NextTti, FramesArrive, ueVars
<1>2. Range(sent') = {} /\ Frames' = Frames
  BY <1>1 DEF Range, Frames
<1>3. ASSUME NEW m \in Range(air'), Open(m)
      PROVE  Waits(Asker(m), Stage(m) - ToRun(Asker(m)))'
  <2>1. m \in Range(sent) /\ m \in Frames
    BY <1>1, <1>3 DEF Frames
  <2>2. Asker(m) \in Senders /\ Asker(m)' = Asker(m)
    BY <1>1, <1>3, <2>1, AskersSend DEF Open, Asker
  <2>3. Asker(m) \in 1 .. NumSenders /\ NumSenders \in Nat
    BY <2>2, Constants DEF Senders
  <2>4. Waits(Asker(m), Stage(m) - 1 - ToRun(Asker(m)))
    BY <1>3, <2>1 DEF WaitInv, Awaited
  <2>5. ToRun(Asker(m)) = 0 /\ ToRun(Asker(m))' = 1 /\ Stage(m)' = Stage(m)
    BY <1>1, <2>2, <2>3 DEF ToRun, Stage
  <2>6. Stage(m) \in Nat
    BY DEF Stage
  <2>7. Stage(m) - 1 - 0 = Stage(m) - 1
    BY <2>6
  <2>8. QED
    BY <1>1, <2>2, <2>4, <2>5, <2>7 DEF Waits
<1>4. Awaited'
  BY <1>1, <1>2, <1>3 DEF WaitInv, Awaited, Open
<1>5. OneEach'
  BY <1>1, <1>2 DEF WaitInv, OneEach, Open, Asker
<1>6. QED
  BY <1>4, <1>5 DEF WaitInv

\* A UE that asks has no request under way: its timer has run out only once the
\* last frame of the request before was on its way.
LEMMA MainLoopWaits ==
  ASSUME RaRespWin >= 3, CainIInv, WaitInv, MainLoop
  PROVE  WaitInv'
<1>0. PICK u \in Senders : u = ran + 1
  BY Constants DEF MainLoop, CainIInv, FramesInv, OtherTypes, Senders
<1>1. /\ ran \in Nat /\ NumSenders \in Nat /\ RaRespWin \in Nat /\ u \in Senders
      /\ air \in Seq(Messages) /\ sent \in Seq(Messages)
      /\ raRespTimer \in [Ues -> 0 .. RaRespWin] /\ u \in Ues
  BY <1>0, Constants, CainMacAssumption DEF MainLoop, CainIInv, FramesInv, OtherTypes, Senders
<1>2. /\ ran' = u /\ air' = air
      /\ WaitsForResponse(u) \/ ClearsRequest(u) \/ RequestsRac(u) \/ NothingToRequest(u)
  BY <1>0 DEF MainLoop, CheckRac
<1>3. ASSUME NEW v \in Senders
      PROVE  /\ ToRun(v) \in {0, 1} /\ ToRun(v)' \in {0, 1}
             /\ v # u => ToRun(v)' = ToRun(v)
             /\ v = u => ToRun(v) = 1 /\ ToRun(v)' = 0
  BY <1>0, <1>1, <1>2 DEF ToRun, Senders
\* What the timers of the others, and of this one, are told.
<1>4. ASSUME NEW v \in Senders, NEW k \in Int, k <= 4,
             Waits(v, k - ToRun(v)), ~RequestsRac(u)
      PROVE  Waits(v, k - ToRun(v))'
  <2>1. v \in Ues
    BY Constants
  <2>2. CASE v # u
    <3>1. raRespTimer'[v] = raRespTimer[v] /\ (v \in racRequested' <=> v \in racRequested)
      BY <1>1, <1>2, <1>4, <2>1, <2>2 DEF WaitsForResponse, ClearsRequest, NothingToRequest
    <3>2. ToRun(v)' = ToRun(v)
      BY <1>3, <2>2
    <3>3. QED
      BY <1>4, <3>1, <3>2 DEF Waits
  <2>3. CASE v = u
    <3>1. ToRun(v) = 1 /\ ToRun(v)' = 0
      BY <1>3, <2>3
    <3>2. k - 1 <= 3 /\ k - 1 <= RaRespWin /\ k - 0 = k
      BY <1>1, <1>4
    <3>3. u \in racRequested /\ raRespTimer[u] = RaRespWin - (k - 1)
      BY <1>4, <2>3, <3>1, <3>2 DEF Waits
    <3>4. CASE WaitsForResponse(u)
      <4>1. u \in racRequested' /\ raRespTimer'[u] = raRespTimer[u] - 1
        BY <1>1, <3>3, <3>4 DEF WaitsForResponse
      <4>2. raRespTimer'[u] = RaRespWin - k
        BY <1>1, <3>3, <4>1
      <4>3. QED
        BY <2>3, <3>1, <3>2, <4>1, <4>2 DEF Waits
    <3>5. CASE ClearsRequest(u)
      <4>1. ~(k <= RaRespWin)
        BY <1>1, <1>4, <3>3, <3>5 DEF ClearsRequest
      <4>2. QED
        BY <3>1, <3>2, <4>1 DEF Waits
    <3>6. QED
      BY <1>2, <1>4, <3>3, <3>4, <3>5 DEF NothingToRequest
  <2>4. QED
    BY <2>2, <2>3
<1>5. \A m \in Messages : Stage(m) \in 1 .. 4
  BY DEF Stage
<1>6. Range(air) \subseteq Messages /\ Range(sent) \subseteq Messages
  BY <1>1 DEF Range
<1>7. CASE ~RequestsRac(u)
  <2>1. sent' = sent /\ asked' = asked
    BY <1>2, <1>7 DEF WaitsForResponse, ClearsRequest, NothingToRequest
  <2>2. ASSUME NEW m \in Range(air), Open(m)
        PROVE  Waits(Asker(m), Stage(m) - ToRun(Asker(m)))'
    <3>1. Asker(m) \in Senders /\ Asker(m)' = Asker(m) /\ Stage(m) \in 1 .. 4
      BY <1>5, <1>6, <2>1, <2>2, AskersSend DEF Open, Frames, Asker
    <3>2. Waits(Asker(m), Stage(m) - ToRun(Asker(m)))
      BY <2>2 DEF WaitInv, Awaited
    <3>3. QED
      BY <1>4, <1>7, <3>1, <3>2
  <2>3. ASSUME NEW m \in Range(sent), Open(m)
        PROVE  Waits(Asker(m), Stage(m) - 1 - ToRun(Asker(m)))'
    <3>1. Asker(m) \in Senders /\ Asker(m)' = Asker(m) /\ Stage(m) \in 1 .. 4
      BY <1>5, <1>6, <2>1, <2>3, AskersSend DEF Open, Frames, Asker
    <3>2. Waits(Asker(m), Stage(m) - 1 - ToRun(Asker(m)))
      BY <2>3 DEF WaitInv, Awaited
    <3>3. Stage(m) - 1 \in Int /\ Stage(m) - 1 <= 4
      BY <3>1
    <3>4. QED
      BY <1>4, <1>7, <3>1, <3>2, <3>3
  <2>4. Awaited'
    BY <1>2, <2>1, <2>2, <2>3 DEF WaitInv, Awaited, Open
  <2>5. OneEach'
    BY <1>2, <2>1 DEF WaitInv, OneEach, Frames, Open, Asker
  <2>6. QED
    BY <2>4, <2>5 DEF WaitInv
<1>8. CASE RequestsRac(u)
  <2>1. PICK choice \in Choices(u) : sent' = Append(sent, choice.frame)
    BY <1>8 DEF RequestsRac
  <2> DEFINE n == choice.frame
  <2>2. /\ Request \in Requests /\ asked' = Append(asked, u) /\ u \notin racRequested
        /\ racRequested' = racRequested \cup {u}
        /\ raRespTimer' = [raRespTimer EXCEPT ![u] = RaRespWin]
    BY <1>8 DEF RequestsRac
  <2>3. /\ n \in Messages /\ n.request = Len(asked) + 1
        /\ n.type \in {"DIR", "LTE", "NOTIFY", "SOC_NTF", "HOP_NTF"}
    BY <1>1, <2>2, ChoicesShaped DEF CainIInv, FramesInv, Shaped
  <2> HIDE DEF n
  <2>4. sent' = Append(sent, n) /\ Range(sent') = Range(sent) \cup {n}
    BY <1>1, <2>1, <2>3, AppendedRange DEF n
  <2>5. asked \in Seq(Senders) /\ Len(asked) \in Nat
    BY DEF WaitInv, Awaited
  <2>6. /\ asked' \in Seq(Senders) /\ \A q \in DOMAIN asked : asked'[q] = asked[q]
        /\ asked'[Len(asked) + 1] = u
    BY <1>1, <2>2, <2>5
  <2>7. Stage(n) = 1 /\ Asker(n)' = u /\ Open(n)
    BY <2>3, <2>5, <2>6 DEF Stage, Asker, Open
  \* None of the requests of u is under way.
  <2>8. ASSUME NEW m \in Frames, Open(m)
        PROVE  Asker(m) \in Senders \ {u} /\ Asker(m)' = Asker(m)
    <3>1. m.request \in DOMAIN asked /\ Asker(m) \in Senders /\ Asker(m)' = Asker(m)
      BY <2>6, <2>8, AskersSend DEF Open, Asker
    <3>2. CASE Asker(m) = u
      <4>1. ToRun(u) = 1 /\ Stage(m) \in 1 .. 4
        BY <1>1, <1>3, <1>5, <1>6 DEF Frames
      <4>2. \E k \in Int : k <= 3 /\ Waits(u, k)
        <5>1. CASE m \in Range(air)
          <6>1. Waits(u, Stage(m) - 1)
            BY <2>8, <3>2, <4>1, <5>1 DEF WaitInv, Awaited
          <6>2. QED
            BY <4>1, <6>1
        <5>2. CASE m \in Range(sent)
          <6>1. Waits(u, Stage(m) - 1 - 1)
            BY <2>8, <3>2, <4>1, <5>2 DEF WaitInv, Awaited
          <6>2. QED
            BY <4>1, <6>1
        <5>3. QED
          BY <5>1, <5>2 DEF Frames
      <4>3. QED
        BY <1>1, <2>2, <4>2 DEF Waits
    <3>3. QED
      BY <3>1, <3>2
  <2>9. ASSUME NEW v \in Senders \ {u}
        PROVE  /\ raRespTimer'[v] = raRespTimer[v] /\ (v \in racRequested' <=> v \in racRequested)
               /\ ToRun(v)' = ToRun(v)
    <3>1. v \in Ues
      BY Constants
    <3>2. QED
      BY <1>1, <1>3, <2>2, <3>1
  <2>10. ASSUME NEW m \in Range(air), Open(m)
         PROVE  Waits(Asker(m), Stage(m) - ToRun(Asker(m)))'
    <3>1. Asker(m) \in Senders \ {u} /\ Asker(m)' = Asker(m)
      BY <2>8, <2>10 DEF Frames
    <3>2. Waits(Asker(m), Stage(m) - ToRun(Asker(m)))
      BY <2>10 DEF WaitInv, Awaited
    <3>3. QED
      BY <2>9, <3>1, <3>2 DEF Waits
  <2>11. ASSUME NEW m \in Range(sent), Open(m)
         PROVE  Waits(Asker(m), Stage(m) - 1 - ToRun(Asker(m)))'
    <3>1. Asker(m) \in Senders \ {u} /\ Asker(m)' = Asker(m)
      BY <2>8, <2>11 DEF Frames
    <3>2. Waits(Asker(m), Stage(m) - 1 - ToRun(Asker(m)))
      BY <2>11 DEF WaitInv, Awaited
    <3>3. QED
      BY <2>9, <3>1, <3>2 DEF Waits
  <2>12. Waits(Asker(n), Stage(n) - 1 - ToRun(Asker(n)))'
    <3>1. ToRun(u)' = 0 /\ raRespTimer'[u] = RaRespWin /\ u \in racRequested'
      BY <1>1, <1>3, <2>2
    <3>2. (Stage(n) - 1 - ToRun(Asker(n)))' = 0
      BY <2>7, <3>1 DEF ToRun, Stage
    <3>3. QED
      BY <1>1, <2>7, <3>1, <3>2 DEF Waits
  <2>13. Awaited'
    BY <1>2, <2>4, <2>6, <2>10, <2>11, <2>12 DEF Awaited, Open
  <2>14. OneEach'
    <3>1. Frames' = Frames \cup {n}
      BY <1>2, <2>4 DEF Frames
    <3>2. ASSUME NEW m \in Frames', NEW k \in Frames', Open(m), Open(k), Asker(m)' = Asker(k)'
          PROVE  m = k
      BY <2>7, <2>8, <3>1, <3>2 DEF WaitInv, OneEach
    <3>3. QED
      BY <3>2 DEF OneEach, Open
  <2>15. QED
    BY <2>13, <2>14 DEF WaitInv
<1>9. QED
  BY <1>7, <1>8

LEMMA SentIsMessage ==
  ASSUME sent \in Seq(Messages), NEW n, Append(sent, n) \in Seq(Messages)
  PROVE  n \in Messages
<1>1. Len(sent) + 1 \in DOMAIN Append(sent, n) /\ Append(sent, n)[Len(sent) + 1] = n
  OBVIOUS
<1>2. QED
  BY <1>1

LEMMA ArrivesAtUeWaits ==
  ASSUME CainIInv, WaitInv, ArrivesAtUe
  PROVE  WaitInv'
<1>1. /\ air # <<>> /\ air' = Tail(air)
      /\ HandleForward(Frame) \/ HandleSocial(Frame) \/ HandleHop(Frame) \/ HandleReply(Frame)
      /\ UNCHANGED <<asked, ran, racRequested, raRespTimer>>
  BY DEF ArrivesAtUe, HandleCainMsg, ueVars
<1>2. sent \in Seq(Messages) /\ sent' \in Seq(Messages) /\ Frame \in Range(Flow)
  BY ArrivesAtUeOk, TypedInv, <1>1, FrameUnderWay DEF CainIInv, FramesInv, OtherTypes
<1>3. Granted(Frame)
  BY <1>2 DEF CainIInv, FramesInv, RelaysGranted
<1>4. ASSUME NEW n, sent' = Append(sent, n), n.request = Frame.request,
             Frame.type # "HOP_ANSW", n.type = "HOP_ANSW" \/ Stage(n) = Stage(Frame) + 1
      PROVE  WaitInv'
  <2>1. n \in Messages
    BY <1>2, <1>4, SentIsMessage
  <2>2. QED
    BY <1>1, <1>4, <2>1, HandedOn
<1>5. CASE HandleForward(Frame)
  <2> DEFINE n == Forward(Frame)
  <2>1. sent' = Append(sent, n) /\ Frame.type \in {"NOTIFY", "HOP_REL"}
    BY <1>5 DEF HandleForward
  <2>2. n.request = Frame.request /\ Stage(n) = Stage(Frame) + 1
    BY <2>1 DEF Forward, ToEnb, Stage
  <2> HIDE DEF n
  <2>3. QED
    BY <1>4, <2>1, <2>2
<1>6. CASE HandleSocial(Frame)
  <2> DEFINE n == Forward(Frame)
  <2>1. sent' = Append(sent, n) /\ Frame.type = "SOC_NTF"
    BY <1>6 DEF HandleSocial
  <2>2. n.request = Frame.request /\ Stage(n) = Stage(Frame) + 1
    BY <2>1 DEF Forward, ToEnb, Stage
  <2> HIDE DEF n
  <2>3. QED
    BY <1>4, <2>1, <2>2
<1>7. CASE HandleHop(Frame)
  <2> DEFINE n == [type |-> "HOP_REL", src |-> Frame.dst, dst |-> Frame.relay,
                   request |-> Frame.request, enb |-> Frame.enb]
  <2>1. sent' = Append(sent, n) /\ Frame.type = "HOP_NTF"
    BY <1>7 DEF HandleHop
  <2>2. n.request = Frame.request /\ Stage(n) = Stage(Frame) + 1
    BY <2>1 DEF Stage
  <2> HIDE DEF n
  <2>3. QED
    BY <1>4, <2>1, <2>2
<1>8. CASE HandleReply(Frame)
  <2> DEFINE n == Answer(Frame)
  <2>1. sent' = Append(sent, n) /\ Frame.type \in {"REP", "HOP_REP", "SOC_REP"}
    BY <1>3, <1>8 DEF HandleReply, Granted, ReplyTypes
  <2>2. /\ n.request = Frame.request
        /\ n.type = "HOP_ANSW" \/ Stage(n) = Stage(Frame) + 1
    BY <2>1 DEF Answer, ToEnb, Stage
  <2> HIDE DEF n
  <2>3. QED
    BY <1>4, <2>1, <2>2
<1>9. QED
  BY <1>1, <1>5, <1>6, <1>7, <1>8

LEMMA ArrivesAtEnbWaits ==
  ASSUME CainIInv, WaitInv, ArrivesAtEnb
  PROVE  WaitInv'
<1>1. /\ air # <<>> /\ air' = Tail(air)
      /\ sent' = IF Taken(Frame) THEN sent \o Replies(Frame) ELSE sent
      /\ UNCHANGED <<asked, ran, racRequested, raRespTimer>>
  BY DEF ArrivesAtEnb, MacHandleRac, ueVars, Taken
<1>2. sent \in Seq(Messages) /\ sent' \in Seq(Messages)
  BY ArrivesAtEnbOk DEF CainIInv, FramesInv, OtherTypes
<1>3. CASE Taken(Frame) /\ Frame.type \in {"FWD", "HOP_FWD", "SOC_FWD"}
  <2> DEFINE type == CASE Frame.type = "FWD" -> "REP" [] Frame.type = "HOP_FWD" -> "HOP_REP"
                       [] OTHER -> "SOC_REP"
             n == Reply(Frame, type)
  <2>1. Replies(Frame) = <<n>>
    BY <1>3 DEF Replies
  <2>2. n.request = Frame.request /\ Stage(n) = Stage(Frame) + 1
    BY <1>3 DEF Reply, Stage
  <2> HIDE DEF n
  <2>3. sent' = Append(sent, n)
    BY <1>1, <1>2, <1>3, <2>1
  <2>4. n \in Messages
    BY <1>2, <2>3, SentIsMessage
  <2>5. QED
    BY <1>1, <1>3, <2>2, <2>3, <2>4, HandedOn
<1>4. CASE ~(Taken(Frame) /\ Frame.type \in {"FWD", "HOP_FWD", "SOC_FWD"})
  <2>1. CASE Taken(Frame)
    <3>1. Replies(Frame) = <<>>
      BY <1>4, <2>1 DEF Replies
    <3>2. QED
      BY <1>1, <1>2, <2>1, <3>1, NoneHandedOn
  <2>2. CASE ~Taken(Frame)
    BY <1>1, <2>2, NoneHandedOn
  <2>3. QED
    BY <2>1, <2>2
<1>5. QED
  BY <1>3, <1>4

LEMMA NextWaits ==
  ASSUME RaRespWin >= 3, CainIInv, WaitInv, [Next]_vars
  PROVE  WaitInv'
<1>1. CASE UNCHANGED vars \/ DataArrives \/ DoHandover \/ OtherFrameArrives
  <2>1. UNCHANGED <<air, sent, asked, ran, racRequested, raRespTimer>>
    BY <1>1 DEF vars, macVars, ueVars, DataArrives, DoHandover, OtherFrameArrives
  <2>2. QED
    BY <2>1, NoneHandedOn
<1>2. CASE Feedback
  <2>1. PICK u \in Movers, e \in Enbs :
          /\ sent' = Append(sent, ToEnb("FEEDBACK", u, e, 0))
          /\ UNCHANGED <<ueVars, air, asked, ran>>
    BY <1>2 DEF Feedback
  <2>2. /\ ToEnb("FEEDBACK", u, e, 0) \in Messages
        /\ ToEnb("FEEDBACK", u, e, 0).request = 0
    BY CainCellsAssumption, CainMacAssumption, ToEnbShape DEF ToEnb
  <2>3. QED
    BY <2>1, <2>2, NoneHandedOn DEF ueVars
<1>3. CASE FeedbackArrives
  <2>1. air # <<>> /\ air' = Tail(air) /\ UNCHANGED <<sent, asked, ran, racRequested, raRespTimer>>
    BY <1>3 DEF FeedbackArrives, ueVars
  <2>2. QED
    BY <2>1, NoneHandedOn
<1>4. CASE MainLoop
  BY <1>4, MainLoopWaits
<1>5. QED
  BY <1>1, <1>2, <1>3, <1>4, ArrivesAtUeWaits, ArrivesAtEnbWaits, NextTtiWaits DEF Next, Tick

LEMMA WaitInvOne ==
  ASSUME FramesInv, WaitInv
  PROVE  OneRequestUnderWay
<1> SUFFICES ASSUME NEW u \in Ues
             PROVE  Cardinality({m \in Frames : m.request # 0 /\ asked[m.request] = u
                                                  /\ m.type # "HOP_ANSW"}) <= 1
  BY DEF OneRequestUnderWay
<1> DEFINE S == {m \in Frames : m.request # 0 /\ asked[m.request] = u /\ m.type # "HOP_ANSW"}
<1>1. \A m, n \in S : m = n
  BY DEF WaitInv, OneEach, Open, Asker
<1>2. CASE S = {}
  BY <1>2, FS_EmptySet
<1>3. CASE S # {}
  <2>1. PICK m : S = {m}
    BY <1>1, <1>3
  <2>2. Cardinality(S) = 1
    BY <2>1, FS_Singleton
  <2>3. QED
    BY <2>2
<1>4. QED
  BY <1>2, <1>3

\* With a response window of at least three TTIs no UE asks again while its request
\* is under way, but for the last frame of one with a hop (checkRAC).
THEOREM OneRequestAtATime ==
  ASSUME RaRespWin >= 3
  PROVE  Spec => []OneRequestUnderWay
<1>1. Init => WaitInv
  <2> SUFFICES ASSUME Init PROVE WaitInv
    OBVIOUS
  <2>1. air = <<>> /\ sent = <<>> /\ asked = <<>>
    BY DEF Init, MacInit
  <2>2. asked \in Seq(Senders) /\ Range(air) = {} /\ Range(sent) = {}
    BY <2>1 DEF Range
  <2>3. QED
    BY <2>2 DEF WaitInv, Awaited, OneEach, Frames
<1>2. CainIInv /\ WaitInv /\ [Next]_vars => WaitInv'
  BY NextWaits
<1>3. CainIInv /\ WaitInv => OneRequestUnderWay
  BY WaitInvOne DEF CainIInv
<1>4. QED
  BY <1>1, <1>2, <1>3, Invariant, PTL DEF Spec
=============================================================================
