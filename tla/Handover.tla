------------------------------ MODULE Handover ------------------------------
(***************************************************************************)
(* Handovers of a UE: the decision of its PHY and the path of the          *)
(* datagrams meant for it, which the decision moves from one eNodeB to     *)
(* another.  The events of a turn of broadcasts have one simulation time,  *)
(* so nothing else happens in between.  Nothing happens after an exception.*)
(***************************************************************************)
EXTENDS HoPath

CONSTANT MaxHandovers        \* bound: handovers of a behaviour

ASSUME HandoverAssumption == MaxHandovers \in Nat

VARIABLES
  handovers,         \* handovers triggered so far
  outrun,            \* did a command ever arrive, or fail to, after its handover
  startedLate        \* eNodeBs where a "start" arrived with the UE not on its way
                     \* there, and to which it has not come since

historyVars == <<handovers, outrun, startedLate>>
vars == <<phyVars, pathVars, historyVars>>

HoTypeOK ==
  /\ PhyTypeOK
  /\ PathTypeOK
  /\ handovers \in 0 .. MaxHandovers
  /\ outrun \in BOOLEAN
  /\ startedLate \subseteq Enbs

Init ==
  /\ PhyInit
  /\ PathInit
  /\ handovers = 0
  /\ outrun = FALSE
  /\ startedLate = {}

-----------------------------------------------------------------------------
Decide ==
  /\ ~thrown /\ handovers < MaxHandovers
  /\ Broadcast \/ OutOfRange \/ NextTurn
  /\ UNCHANGED <<pathVars, historyVars>>

\* A command of the handover before is still on its way.
TriggerHandover ==
  /\ ~thrown /\ handovers < MaxHandovers
  /\ PhyTrigger
  /\ TriggerHandoverSource(handovers + 1)
  /\ handovers' = handovers + 1
  /\ outrun' = (outrun \/ x2Control # {})
  /\ UNCHANGED startedLate

\* The UE is there before the command that announces it.
DoHandover ==
  /\ ~thrown
  /\ PhyDoHandover
  /\ CompleteHandover(handovers)
  /\ outrun' = (outrun \/ \E c \in x2Control : c.type = "start")
  /\ startedLate' = startedLate \ {candidate}
  /\ UNCHANGED handovers

DatagramStep ==
  /\ ~thrown /\ TurnOver
  /\ GatewaySends \/ FromIpEnb \/ ReceiveTunneled \/ OtherUeCompletes \/ EnbTransmits
       \/ FrameArrives \/ ScheduleMisdirected
  /\ UNCHANGED <<phyVars, historyVars>>

\* A "start" puts the UE in hoHolding_ whether or not it is still to come.
CommandArrives ==
  /\ ~thrown /\ TurnOver
  /\ \E c \in x2Control :
       \/ /\ StartArrives(c)
          /\ startedLate' = IF trigger /\ c.to = candidate THEN startedLate
                            ELSE startedLate \cup {c.to}
       \/ CompleteArrives(c) /\ UNCHANGED startedLate
  /\ UNCHANGED <<phyVars, handovers, outrun>>

Next == Decide \/ TriggerHandover \/ DoHandover \/ DatagramStep \/ CommandArrives

Spec == Init /\ [][Next]_vars

CompleteArrivesAt(e) ==
  CommandArrives /\ \E c \in x2Control : c.to = e /\ c.type = "complete" /\ c \notin x2Control'

\* A turn takes no time, a timer that is scheduled fires, and X2 delivers every
\* command; turns go on for ever, so these are enabled again and again only.
FairSpec ==
  /\ Spec
  /\ WF_vars(Decide /\ ~TurnOver) /\ WF_vars(TriggerHandover) /\ SF_vars(DoHandover)
  /\ \A e \in Enbs : SF_vars(CompleteArrivesAt(e))

-----------------------------------------------------------------------------
(***************************************************************************)
(* Properties.                                                             *)
(***************************************************************************)

\* triggerHandover asserts that the candidate is not the master: whatever the
\* order of the broadcasts, a starter that is still scheduled has a target.
StarterHasTarget == starter => candidate # master /\ ~trigger

\* The hysteresis protects the candidate as well as the master: the UE may leave
\* its master for a cell it heard less well, but never for one the master, as
\* last heard, is louder than by the hysteresis.
NotForMuchWeaker == starter \/ trigger => ~Louder(masterRssi, chosenAt)

\* No datagram is duplicated or forgotten on the way: each that was sent is in
\* one place, whatever queues a handover empties and wherever the flush of these
\* puts it: in the queue of the UE, or in the one misaddressed to its master.
InOnePlace == \A d \in Datagrams : Places(d) = IF d \in sent THEN 1 ELSE 0

\* An eNodeB tunnels datagrams of the UE away only while the UE is handing over
\* from it, to the very target, or while the completion is on its way.
NoTunnelLeft ==
  \A e \in Enbs : forwarding[e] # NoEnb =>
    \/ trigger /\ e = master /\ forwarding[e] = candidate
    \/ \E c \in x2Control : c.type = "complete" /\ c.to = e

\* As long as no command was outrun, source and target agree with the UE: the
\* source tunnels during the whole handover, and only the target holds.
PathFollowsHandover ==
  ~outrun =>
    /\ trigger => forwarding[master] = candidate
    /\ \A e \in holding : trigger /\ e = candidate

\* Every tunnel is closed in the end, also when handovers overtake commands,
\* unless the simulation ends before.
TunnelCloses ==
  \A e \in Enbs : forwarding[e] # NoEnb ~> forwarding[e] = NoEnb \/ thrown

\* A datagram held back from the UE is released in the end: by the completion of
\* the handover it is held for, also when the UE hands over again.  The exception
\* is an eNodeB where a "start" came late, for no completion releases it there.
HeldReleased ==
  \A e \in Enbs :
    hoFromIp[e] # <<>> ~> hoFromIp[e] = <<>> \/ e \in startedLate \/ thrown
=============================================================================
