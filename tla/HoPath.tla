------------------------------- MODULE HoPath -------------------------------
(***************************************************************************)
(* The path of the datagrams for one UE: the packet gateway, which tunnels *)
(* each to the eNodeB that serves the UE then (GtpUserSimplified), the     *)
(* IP2lte of the eNodeBs, which tunnel, hold or pass them down, the X2     *)
(* between these (LteHandoverManager, LteX2Manager, GtpUserX2), and the    *)
(* queues of RLC and MAC down to the UE.  Paths keep the order of what     *)
(* they carry; control messages of X2 (SCTP, several streams) need not.    *)
(* An exception of the code ends the simulation: thrown stays TRUE.        *)
(***************************************************************************)
EXTENDS HoPhy, Sequences, SequencesExt

CONSTANTS
  NoEnb,             \* no eNodeB
  Datagrams          \* the datagrams for the UE

ASSUME HoPathAssumption == NoEnb \notin Enbs

VARIABLES
  sent,              \* datagrams the gateway has sent
  toEnb,             \* datagrams in the tunnel of the gateway to each eNodeB
  x2Data,            \* datagrams in the tunnels of X2, by destination
  x2Control,         \* handover commands in transit over X2
  forwarding,        \* hoForwarding_ of each eNodeB for the UE
  holding,           \* the eNodeBs with the UE in hoHolding_
  hoFromX2, hoFromIp,\* the queues of these names of each eNodeB, for the UE
  stack,             \* datagrams in the RLC and MAC of each eNodeB under the id of the UE
  misdirected,       \* and those for the UE there under the id of another eNodeB
  air,               \* datagrams in a frame on the air, with their eNodeB
  received,          \* datagrams the UE received
  lost,              \* datagrams deleted on the way
  thrown             \* has an exception ended the simulation

queueVars == <<hoFromX2, hoFromIp, stack, misdirected>>
endVars == <<received, lost, thrown>>
pathVars == <<sent, toEnb, x2Data, x2Control, forwarding, holding, queueVars, air, endVars>>

Queues == [Enbs -> Seq(Datagrams)]

\* A command names the eNodeB it goes to and the handover it is about.
Commands == [type : {"start", "complete"}, to : Enbs, handover : Nat]

PathTypeOK ==
  /\ sent \subseteq Datagrams
  /\ toEnb \in Queues /\ x2Data \in Queues
  /\ hoFromX2 \in Queues /\ hoFromIp \in Queues
  /\ stack \in Queues /\ misdirected \in Queues
  /\ x2Control \subseteq Commands
  /\ forwarding \in [Enbs -> Enbs \cup {NoEnb}]
  /\ holding \subseteq Enbs
  /\ air \subseteq [datagram : Datagrams, from : Enbs]
  /\ received \subseteq Datagrams /\ lost \subseteq Datagrams
  /\ thrown \in BOOLEAN

NoDatagrams == [e \in Enbs |-> <<>>]

PathInit ==
  /\ sent = {}
  /\ toEnb = NoDatagrams /\ x2Data = NoDatagrams
  /\ hoFromX2 = NoDatagrams /\ hoFromIp = NoDatagrams
  /\ stack = NoDatagrams /\ misdirected = NoDatagrams
  /\ x2Control = {}
  /\ forwarding = [e \in Enbs |-> NoEnb]
  /\ holding = {}
  /\ air = {} /\ received = {} /\ lost = {} /\ thrown = FALSE

\* How many places a datagram is in.
PlacesOf(queue, d) == UNION {{e} \X {i \in DOMAIN queue[e] : queue[e][i] = d} : e \in Enbs}

PlacesIn(queue, d) == Cardinality(PlacesOf(queue, d))

Places(d) ==
  PlacesIn(toEnb, d) + PlacesIn(x2Data, d) + PlacesIn(hoFromX2, d) + PlacesIn(hoFromIp, d)
    + PlacesIn(stack, d) + PlacesIn(misdirected, d) + Cardinality({f \in air : f.datagram = d})
    + Cardinality({d} \cap received) + Cardinality({d} \cap lost)

-----------------------------------------------------------------------------
(***************************************************************************)
(* From the gateway to the stack of an eNodeB.                             *)
(***************************************************************************)
\* TrafficFlowFilterSimplified asks the binder for the next hop of the UE.
FindTrafficFlow == master

\* The gateway tunnels a datagram to the eNodeB of the moment.
GatewaySends == \E d \in Datagrams \ sent :
  /\ sent' = sent \cup {d}
  /\ toEnb' = [toEnb EXCEPT ![FindTrafficFlow] = Append(@, d)]
  /\ UNCHANGED <<x2Data, x2Control, forwarding, holding, queueVars, air, endVars>>

\* forwardDataToTargetEnb and the tunnel of GtpUserX2.
ForwardDataToTargetEnb(d, e) == x2Data' = [x2Data EXCEPT ![e] = Append(@, d)]

Tunnelled(d, e) ==
  /\ forwarding[e] # NoEnb
  /\ ForwardDataToTargetEnb(d, forwarding[e])
  /\ UNCHANGED <<hoFromIp, stack, misdirected>>

\* Mutant: whether the UE is in hoHolding_ is not asked.
HeldAlways(d, e) ==
  /\ forwarding[e] = NoEnb /\ e # master
  /\ hoFromIp' = [hoFromIp EXCEPT ![e] = Append(@, d)]
  /\ UNCHANGED <<x2Data, stack, misdirected>>

Held(d, e) ==
  /\ forwarding[e] = NoEnb /\ e \in holding
  /\ hoFromIp' = [hoFromIp EXCEPT ![e] = Append(@, d)]
  /\ UNCHANGED <<x2Data, stack, misdirected>>

\* The next hop of the UE passes the datagram down under the id of the UE.
PassedDown(d, e) ==
  /\ forwarding[e] = NoEnb /\ e \notin holding
  /\ e = master
  /\ stack' = [stack EXCEPT ![e] = Append(@, d)]
  /\ UNCHANGED <<x2Data, hoFromIp, misdirected>>

\* LtePdcpRrcEnb::getDestId of another eNodeB takes the next hop for a relay and
\* addresses the datagram to it.
Misdirected(d, e) ==
  /\ forwarding[e] = NoEnb /\ e \notin holding
  /\ e # master
  /\ misdirected' = [misdirected EXCEPT ![e] = Append(@, d)]
  /\ UNCHANGED <<x2Data, hoFromIp, stack>>

FromIpEnb == \E e \in Enbs :
  /\ toEnb[e] # <<>>
  /\ toEnb' = [toEnb EXCEPT ![e] = Tail(@)]
  /\ LET d == Head(toEnb[e])
     IN Tunnelled(d, e) \/ Held(d, e) \/ PassedDown(d, e) \/ Misdirected(d, e)
  /\ UNCHANGED <<sent, x2Control, forwarding, holding, hoFromX2, air, endVars>>

\* receiveTunneledPacketOnHandover queues, whatever the state of the handover.
ReceiveTunneled == \E e \in Enbs :
  /\ x2Data[e] # <<>>
  /\ x2Data' = [x2Data EXCEPT ![e] = Tail(@)]
  /\ hoFromX2' = [hoFromX2 EXCEPT ![e] = Append(@, Head(x2Data[e]))]
  /\ UNCHANGED <<sent, toEnb, x2Control, forwarding, holding, hoFromIp, stack, misdirected,
                 air, endVars>>

-----------------------------------------------------------------------------
(***************************************************************************)
(* Handover commands.                                                      *)
(***************************************************************************)
\* sendHandoverCommand, and LteX2Manager::fromStack for one destination.
Command(type, e, h) == [type |-> type, to |-> e, handover |-> h]

\* receiveHandoverCommand, triggerHandoverTarget
StartArrives(c) ==
  /\ c.type = "start"
  /\ x2Control' = x2Control \ {c}
  /\ holding' = holding \cup {c.to}
  /\ UNCHANGED <<sent, toEnb, x2Data, forwarding, queueVars, air, endVars>>

\* receiveHandoverCommand, signalHandoverCompleteSource
CompleteArrives(c) ==
  /\ c.type = "complete"
  /\ x2Control' = x2Control \ {c}
  /\ forwarding' = [forwarding EXCEPT ![c.to] = NoEnb]
  /\ UNCHANGED <<sent, toEnb, x2Data, holding, queueVars, air, endVars>>

\* triggerHandoverSource
TriggerHandoverSource(h) ==
  /\ forwarding' = [forwarding EXCEPT ![master] = candidate]
  /\ x2Control' = x2Control \cup {Command("start", candidate, h)}
  /\ UNCHANGED <<sent, toEnb, x2Data, holding, queueVars, air, endVars>>

\* Mutant: the queue of datagrams from X2 alone is passed down.
FlushedFromX2(queue, e) == queue[e] \o hoFromX2[e]

\* signalHandoverCompleteTarget passes the queues of ALL the UEs down.
FlushedAt(queue, e) == queue[e] \o hoFromX2[e] \o hoFromIp[e]

\* Mutants: the completion is signalled to the target, or to where that tunnels.
CompletionSourceTarget == candidate
CompletionSourceNext == forwarding[candidate]
CompletionSource == master

\* deleteOldBuffers at the old master, for the id of the UE only, then
\* signalHandoverCompleteTarget at the new one, its next hop by now, in one event.
CompleteHandover(h) ==
  /\ lost' = lost \cup Range(stack[master])
  /\ stack' = [stack EXCEPT ![master] = <<>>, ![candidate] = FlushedAt(stack, candidate)]
  /\ hoFromX2' = [hoFromX2 EXCEPT ![candidate] = <<>>]
  /\ hoFromIp' = [hoFromIp EXCEPT ![candidate] = <<>>]
  /\ holding' = holding \ {candidate}
  /\ x2Control' = x2Control \cup {Command("complete", CompletionSource, h)}
  /\ UNCHANGED <<sent, toEnb, x2Data, forwarding, misdirected, air, received, thrown>>

\* Another UE completes its handover to e: the queues of this one are passed
\* down as well, to the next hop if e is not it, but it stays in hoHolding_.
OtherUeCompletes == \E e \in Enbs :
  /\ hoFromX2[e] # <<>> \/ hoFromIp[e] # <<>>
  /\ \/ /\ e = master
        /\ stack' = [stack EXCEPT ![e] = FlushedAt(stack, e)]
        /\ UNCHANGED misdirected
     \/ /\ e # master
        /\ misdirected' = [misdirected EXCEPT ![e] = FlushedAt(misdirected, e)]
        /\ UNCHANGED stack
  /\ hoFromX2' = [hoFromX2 EXCEPT ![e] = <<>>]
  /\ hoFromIp' = [hoFromIp EXCEPT ![e] = <<>>]
  /\ UNCHANGED <<sent, toEnb, x2Data, x2Control, forwarding, holding, air, endVars>>

-----------------------------------------------------------------------------
(***************************************************************************)
(* From the stack of an eNodeB to the UE.                                  *)
(***************************************************************************)
EnbTransmits == \E e \in Enbs :
  /\ stack[e] # <<>>
  /\ stack' = [stack EXCEPT ![e] = Tail(@)]
  /\ air' = air \cup {[datagram |-> Head(stack[e]), from |-> e]}
  /\ UNCHANGED <<sent, toEnb, x2Data, x2Control, forwarding, holding, hoFromX2, hoFromIp,
                 misdirected, endVars>>

\* handleAirFrame deletes a frame that is not from the master.
FrameArrives == \E f \in air :
  /\ air' = air \ {f}
  /\ \/ /\ f.from = master
        /\ received' = received \cup {f.datagram}
        /\ UNCHANGED lost
     \/ /\ f.from # master
        /\ lost' = lost \cup {f.datagram}
        /\ UNCHANGED received
  /\ UNCHANGED <<sent, toEnb, x2Data, x2Control, forwarding, holding, queueVars, thrown>>

\* The scheduler takes up the connection of a misdirected datagram, and
\* LteAmc::existTxParams finds no index for the id of an eNodeB.
ScheduleMisdirected ==
  /\ \E e \in Enbs : misdirected[e] # <<>>
  /\ thrown' = TRUE
  /\ UNCHANGED <<sent, toEnb, x2Data, x2Control, forwarding, holding, queueVars, air,
                 received, lost>>
=============================================================================
