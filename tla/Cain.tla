-------------------------------- MODULE Cain --------------------------------
(***************************************************************************)
(* A CAIN network, TTI by TTI: first the timers of the UEs expire          *)
(* (feedbacks, handovers), then the main loop of every UE runs, and last   *)
(* the frames arrive that were sent in the TTI before.                     *)
(***************************************************************************)
EXTENDS CainMac, Functions

VARIABLES
  ran,                 \* senders whose main loop has run in this TTI: 1 .. ran
  counted,             \* frames an eNodeB counted as the end of a request
  lost,                \* frames whose request ended without
  moved                \* did any UE ever find another cell nearer

vars == <<cellVars, macVars, ran, counted, lost, moved>>

CainTypeOK ==
  /\ CellsTypeOK
  /\ MacTypeOK
  /\ ran \in 0 .. NumSenders
  /\ counted \subseteq Messages /\ lost \subseteq Messages
  /\ moved \in BOOLEAN

Init ==
  /\ CellsInit
  /\ MacInit
  /\ ran = 0
  /\ counted = {} /\ lost = {}
  /\ moved = FALSE

TimersExpire == ran = 0
FramesArrive == ran = NumSenders

Frames == Range(air) \cup Range(sent)

-----------------------------------------------------------------------------
DataArrives == \E u \in Senders \ backlog :
  /\ TimersExpire
  /\ backlog' = backlog \cup {u}
  /\ UNCHANGED <<cellVars, networkType, racRequested, raRespTimer, relayVars, air, sent,
                 asked, ran, counted, lost, moved>>

Feedback == \E u \in Movers, e \in Enbs :
  /\ TimersExpire
  /\ \A m \in Frames : m.type = "FEEDBACK" => m.src # u
  /\ SendFeedback(u, e)
  /\ sent' = Append(sent, ToEnb("FEEDBACK", u, e, 0))
  /\ moved' = (moved \/ e # enbOf[u])
  /\ UNCHANGED <<networkType, ueVars, relayVars, air, asked, ran, counted, lost>>

\* doHandover empties the queues of the UE, and does so each time it is executed.
DoHandover == \E u \in Ues :
  /\ TimersExpire
  /\ CellsDoHandover(u)
  /\ backlog' = backlog \ {u}
  /\ UNCHANGED <<networkType, racRequested, raRespTimer, relayVars, air, sent, asked, ran,
                 counted, lost, moved>>

\* Ticks of the same time come in the order in which the modules were made; the
\* main loop of a UE that never sends does nothing here.
MainLoop ==
  /\ ran < NumSenders
  /\ CheckRac(ran + 1)
  /\ ran' = ran + 1
  /\ UNCHANGED <<cellVars, counted, lost, moved>>

\* Frames of the same time arrive in the order in which they were sent.
Frame == Head(air)
Taken(m) == Takes(m.dst, m.src)
Refuses(m) == m.type \in ReplyTypes /\ ~m.ok

ArrivesAtUe ==
  /\ FramesArrive /\ air # <<>>
  /\ HandleCainMsg(Frame)
  /\ air' = Tail(air)
  /\ lost' = IF Refuses(Frame) THEN lost \cup {Frame} ELSE lost
  /\ UNCHANGED <<cellVars, ran, counted, moved>>

ArrivesAtEnb ==
  /\ FramesArrive /\ air # <<>>
  /\ MacHandleRac(Frame)
  /\ air' = Tail(air)
  /\ counted' = IF Taken(Frame) /\ Counts(Frame) THEN counted \cup {Frame} ELSE counted
  /\ lost' = IF Taken(Frame) THEN lost ELSE lost \cup {Frame}
  /\ UNCHANGED <<cellVars, ran, moved>>

FeedbackArrives ==
  /\ FramesArrive /\ air # <<>> /\ Frame.type = "FEEDBACK"
  /\ air' = Tail(air)
  /\ \/ Taken(Frame) /\ Measure(Frame.src) /\ UNCHANGED phyFrames
     \/ ~Taken(Frame) /\ UNCHANGED cellVars
  /\ UNCHANGED <<networkType, ueVars, relayVars, sent, asked, ran, counted, lost, moved>>

\* The other frames a UE sends or receives are measured too, whatever else goes on.
\* Only the next main loop looks at the areas, so that their order is immaterial.
OtherFrameArrives == \E u \in Ues :
  /\ FramesArrive /\ air = <<>>
  /\ MeasureOther(u)
  /\ UNCHANGED <<networkType, ueVars, relayVars, air, sent, asked, ran, counted, lost, moved>>

NextTti ==
  /\ FramesArrive /\ air = <<>>
  /\ air' = sent /\ sent' = <<>>
  /\ ran' = 0
  /\ UNCHANGED <<cellVars, networkType, ueVars, relayVars, asked, counted, lost, moved>>

\* What happens in every TTI, and moves the simulation to the next.
Tick == MainLoop \/ ArrivesAtUe \/ ArrivesAtEnb \/ FeedbackArrives \/ NextTti

Next == DataArrives \/ Feedback \/ DoHandover \/ OtherFrameArrives \/ Tick

Spec == Init /\ [][Next]_vars

\* Simulation time goes on.
FairSpec == Spec /\ WF_vars(Tick)

-----------------------------------------------------------------------------
(***************************************************************************)
(* Properties.                                                             *)
(***************************************************************************)
\* The binder's count of whom a UE relays for is exact, whatever is under way:
\* the requests it has sent on that its eNodeB has not replied to yet, and for
\* ever those that never reached an eNodeB because the relay changed its cell.
\* In a Social network it counts down only, once for every reply.
Relaying(m, r) ==
  \/ m.type \in {"FWD", "HOP_FWD"} /\ m.src = r
  \/ m.type \in {"REP", "HOP_REP"} /\ m.dst = r

RelayCountExact == \A r \in Ues :
  qtdRelay[r] =
    Cardinality({m \in Frames \cup lost : Relaying(m, r)})
    - Cardinality({m \in Frames \cup lost \cup counted : m.type = "SOC_ANSW" /\ m.src = r})

\* A UE does not ask again while its request is under way: the response window is
\* long enough for the four frames of a relayed request, and too short only for
\* the last of the five frames of one with a hop.
OneRequestUnderWay == \A u \in Ues :
  Cardinality({m \in Frames : m.request # 0 /\ asked[m.request] = u /\ m.type # "HOP_ANSW"})
    <= 1

\* Every request ends, is counted at most once, and is lost only after UEs moved:
\* no relay is ever refused its blocks.
RequestsOf(S) == {m.request : m \in S} \ {0}

Service == INSTANCE CainService WITH
  open <- RequestsOf(Frames),
  counted <- RequestsOf(counted),
  lost <- RequestsOf(lost),
  moving <- moved

ImplementsService == Service!Spec
=============================================================================
