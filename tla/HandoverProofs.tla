--------------------------- MODULE HandoverProofs ---------------------------
(***************************************************************************)
(* Proofs about Handover, for every number of eNodeBs, datagrams, levels   *)
(* and handovers: HoIInv is an inductive invariant of Spec, and so is,     *)
(* under it, that a map tells where each datagram is.  One lemma per       *)
(* action shows that its step preserves the one, and one the other.        *)
(***************************************************************************)
EXTENDS HandoverInv, SequenceTheorems, FiniteSetTheorems, TLAPS

\* A level that is not higher is not louder.
LEMMA NotLouder ==
  ASSUME NEW a \in Nat, NEW b \in Nat, a <= b
  PROVE  ~Louder(a, b)
<1>1. CASE HysteresisFactor = 0
  BY <1>1 DEF Louder
<1>2. CASE HysteresisFactor # 0
  <2> DEFINE F == HysteresisFactor
  <2>1. F \in Nat
    BY HoPhyAssumption
  <2>2. PICK k \in Nat : b = a + k
    BY b - a \in Nat
  <2>3. b * (F + 1) = a * F + a + k * F + k
    BY <2>1, <2>2
  <2>4. k * F \in Nat /\ a * F \in Nat
    BY <2>1, <2>2
  <2>5. ~(a * F > b * (F + 1))
    <3> HIDE DEF F
    <3> QED BY <2>2, <2>3, <2>4
  <2> QED
    BY <1>2, <2>5 DEF Louder
<1> QED
  BY <1>1, <1>2

\* A louder level is higher.
LEMMA LouderIsHigher ==
  ASSUME NEW a \in Nat, NEW b \in Nat, Louder(a, b)
  PROVE  a > b
BY NotLouder

LEMMA LevelTypes == HoTypeOK =>
  masterRssi \in Nat /\ candidateRssi \in Nat /\ chosenAt \in Nat
BY HoPhyAssumption DEF HoTypeOK, PhyTypeOK

LEMMA InitOk == Init => HoIInv
<1> SUFFICES ASSUME Init PROVE HoIInv
  OBVIOUS
<1> USE DEF Init, PhyInit, PathInit
<1>1. PhyTypeOK
  BY DEF PhyTypeOK
<1>2. NoDatagrams \in Queues
  <2>1. <<>> \in Seq(Datagrams)
    OBVIOUS
  <2> QED
    BY <2>1 DEF Queues, NoDatagrams
<1>2a. PathTypeOK
  BY <1>2, Zenon DEF PathTypeOK
<1>2b. handovers \in 0 .. MaxHandovers
  BY HandoverAssumption
<1>2c. outrun \in BOOLEAN /\ startedLate \subseteq Enbs
  OBVIOUS
<1>3. HoTypeOK
  BY <1>1, <1>2a, <1>2b, <1>2c, Zenon DEF HoTypeOK
<1>4. StarterHasTarget /\ NotForMuchWeaker /\ Levels
  BY DEF StarterHasTarget, NotForMuchWeaker, Levels
<1>5. NoTunnelLeft /\ CommandsInTime /\ PathFollowsHandover
  BY DEF NoTunnelLeft, CommandsInTime, PathFollowsHandover
<1>6. HeldForArrival /\ OnlyMasterSends
  BY DEF HeldForArrival, OnlyMasterSends, NoDatagrams
<1> QED
  BY <1>3, <1>4, <1>5, <1>6 DEF HoIInv

-----------------------------------------------------------------------------
\* The part of the invariant about the path, when the PHY variables it reads
\* and the path stay.
LEMMA PathUnchanged ==
  ASSUME HoIInv, UNCHANGED <<pathVars, historyVars, master, trigger>>,
         trigger => candidate' = candidate
  PROVE  /\ PathTypeOK' /\ NoTunnelLeft' /\ CommandsInTime' /\ PathFollowsHandover'
         /\ HeldForArrival' /\ OnlyMasterSends'
<1> USE DEF HoIInv, HoTypeOK, pathVars, queueVars, endVars, historyVars
<1>1. PathTypeOK' /\ NoTunnelLeft' /\ CommandsInTime'
  BY DEF PathTypeOK, NoTunnelLeft, CommandsInTime
<1>2. PathFollowsHandover' /\ HeldForArrival' /\ OnlyMasterSends'
  BY DEF PathFollowsHandover, HeldForArrival, OnlyMasterSends
<1> QED
  BY <1>1, <1>2

LEMMA BroadcastOk ==
  ASSUME HoIInv, Broadcast, UNCHANGED <<pathVars, historyVars>>
  PROVE  HoIInv'
<1>1. PICK e \in toHear, rssi \in Rssi :
        /\ toHear' = toHear \ {e}
        /\ \/ Evaluates /\ HandoverHandler(e, rssi)
           \/ ~Evaluates /\ UNCHANGED <<masterRssi, candidate, candidateRssi, starter,
                                        chosenAt>>
        /\ UNCHANGED <<master, trigger>>
  BY DEF Broadcast
<1>2. /\ rssi \in Nat /\ e \in Enbs
      /\ masterRssi \in Nat /\ candidateRssi \in Nat /\ chosenAt \in Nat
  BY LevelTypes, HoPhyAssumption DEF HoIInv, HoTypeOK, PhyTypeOK
<1>3. trigger => candidate' = candidate
  BY <1>1 DEF Evaluates
<1>4. /\ PathTypeOK' /\ NoTunnelLeft' /\ CommandsInTime' /\ PathFollowsHandover'
      /\ HeldForArrival' /\ OnlyMasterSends'
  BY <1>1, <1>3, PathUnchanged
<1>5. PhyTypeOK'
  BY <1>1, <1>2 DEF HoIInv, HoTypeOK, PhyTypeOK, HandoverHandler, HearLouderMaster,
     HearLouderOther, HearMaster, HearOther
<1>6. HoTypeOK'
  BY <1>4, <1>5 DEF HoIInv, HoTypeOK, historyVars
<1>7. StarterHasTarget' /\ NotForMuchWeaker' /\ Levels'
  <2>1. CASE ~Evaluates
    BY <1>1, <2>1 DEF HoIInv, StarterHasTarget, NotForMuchWeaker, Levels, Evaluates
  <2>2. CASE Evaluates /\ HearLouderMaster(e, rssi)
    BY <1>1, <1>2, <2>2 DEF HoIInv, StarterHasTarget, NotForMuchWeaker, Levels, Evaluates,
       HearLouderMaster
  <2>3. CASE Evaluates /\ HearLouderOther(e, rssi)
    <3>1. rssi > candidateRssi /\ masterRssi <= rssi
      BY <1>2, <2>3, LouderIsHigher DEF HearLouderOther, HoIInv, Levels
    <3>2. ~Louder(masterRssi, rssi)
      BY <1>2, <3>1, NotLouder
    <3> QED
      BY <1>1, <1>2, <2>3, <3>1, <3>2 DEF HoIInv, StarterHasTarget, NotForMuchWeaker,
         Levels, Evaluates, HearLouderOther
  <2>4. CASE Evaluates /\ HearMaster(e, rssi)
    BY <1>1, <1>2, <2>4 DEF HoIInv, StarterHasTarget, NotForMuchWeaker, Levels, Evaluates,
       HearMaster
  <2>5. CASE Evaluates /\ HearOther(e, rssi)
    BY <1>1, <1>2, <2>5 DEF HoIInv, StarterHasTarget, NotForMuchWeaker, Levels, Evaluates,
       HearOther
  <2> QED
    BY <1>1, <2>1, <2>2, <2>3, <2>4, <2>5 DEF HandoverHandler
<1> QED
  BY <1>4, <1>6, <1>7 DEF HoIInv

LEMMA DecideOk ==
  ASSUME HoIInv, Decide
  PROVE  HoIInv'
<1>1. CASE Broadcast
  BY <1>1, BroadcastOk DEF Decide
<1>2. CASE OutOfRange
  <2>1. HoTypeOK' /\ StarterHasTarget' /\ NotForMuchWeaker' /\ Levels'
    BY <1>2, PathUnchanged DEF Decide, OutOfRange, HoIInv, HoTypeOK, PhyTypeOK,
       historyVars, StarterHasTarget, NotForMuchWeaker, Levels
  <2> QED
    BY <1>2, <2>1, PathUnchanged DEF Decide, OutOfRange, HoIInv
<1>3. CASE NextTurn
  <2>1. HoTypeOK' /\ StarterHasTarget' /\ NotForMuchWeaker' /\ Levels'
    BY <1>3, PathUnchanged DEF Decide, NextTurn, HoIInv, HoTypeOK, PhyTypeOK,
       historyVars, StarterHasTarget, NotForMuchWeaker, Levels
  <2> QED
    BY <1>3, <2>1, PathUnchanged DEF Decide, NextTurn, HoIInv
<1> QED
  BY <1>1, <1>2, <1>3 DEF Decide

-----------------------------------------------------------------------------
LEMMA TriggerHandoverOk ==
  ASSUME HoIInv, TriggerHandover
  PROVE  HoIInv'
<1>0. /\ handovers \in 0 .. MaxHandovers /\ handovers < MaxHandovers
      /\ handovers' = handovers + 1 /\ MaxHandovers \in Nat
  BY HandoverAssumption DEF HoIInv, HoTypeOK, TriggerHandover
<1>1. /\ starter /\ ~starter' /\ trigger'
      /\ UNCHANGED <<master, masterRssi, candidate, candidateRssi, toHear, chosenAt>>
  BY DEF TriggerHandover, PhyTrigger
<1>2. /\ forwarding' = [forwarding EXCEPT ![master] = candidate]
      /\ x2Control' = x2Control \cup {Command("start", candidate, handovers + 1)}
      /\ UNCHANGED <<sent, toEnb, x2Data, holding, queueVars, air, endVars, startedLate>>
  BY DEF TriggerHandover, TriggerHandoverSource
<1>3. master \in Enbs /\ candidate \in Enbs /\ candidate # master /\ ~trigger
  BY <1>1 DEF HoIInv, HoTypeOK, PhyTypeOK, StarterHasTarget
<1>4. PhyTypeOK'
  BY <1>1 DEF TriggerHandover, PhyTrigger, HoIInv, HoTypeOK, PhyTypeOK
<1>5. PathTypeOK'
  <2>1. x2Control' \subseteq Commands
    BY <1>0, <1>2, <1>3 DEF HoIInv, HoTypeOK, PathTypeOK, Commands, Command
  <2>2. forwarding' \in [Enbs -> Enbs \cup {NoEnb}]
    BY <1>2, <1>3 DEF HoIInv, HoTypeOK, PathTypeOK
  <2> QED
    BY <1>2, <2>1, <2>2 DEF HoIInv, HoTypeOK, PathTypeOK, Queues, queueVars, endVars
<1>6. outrun' \in BOOLEAN /\ startedLate' \subseteq Enbs
  BY Zenon DEF TriggerHandover, HoIInv, HoTypeOK
<1>7. StarterHasTarget' /\ NotForMuchWeaker' /\ Levels'
  BY <1>1, <1>3 DEF HoIInv, StarterHasTarget, NotForMuchWeaker, Levels, Louder
<1>8. NoTunnelLeft'
  BY <1>1, <1>2, <1>3 DEF HoIInv, HoTypeOK, PathTypeOK, NoTunnelLeft
<1>9. CommandsInTime'
  <2> SUFFICES ASSUME ~outrun', NEW c \in x2Control'
               PROVE  c.type = "start" /\ c.to = candidate
    BY <1>1 DEF CommandsInTime
  <2>1. x2Control = {}
    BY DEF TriggerHandover
  <2> QED
    BY <1>2, <2>1 DEF Command
<1>10. PathFollowsHandover'
  <2> SUFFICES ASSUME ~outrun'
               PROVE  forwarding'[master] = candidate /\ holding' = {}
    BY <1>1 DEF PathFollowsHandover
  <2>1. ~outrun
    BY DEF TriggerHandover
  <2> QED
    BY <1>2, <1>3, <2>1 DEF HoIInv, HoTypeOK, PathTypeOK, PathFollowsHandover
<1>11. HeldForArrival' /\ OnlyMasterSends'
  BY <1>1, <1>2, <1>3 DEF HoIInv, HeldForArrival, OnlyMasterSends, queueVars
<1> QED
  BY <1>0, <1>4, <1>5, <1>6, <1>7, <1>8, <1>9, <1>10, <1>11 DEF HoIInv, HoTypeOK

-----------------------------------------------------------------------------
\* What is passed down at an eNodeB are datagrams.
LEMMA FlushedType ==
  ASSUME HoTypeOK, NEW queue \in Queues, NEW e \in Enbs
  PROVE  FlushedAt(queue, e) \in Seq(Datagrams)
BY DEF HoTypeOK, PathTypeOK, Queues, FlushedAt

LEMMA DoHandoverOk ==
  ASSUME HoIInv, DoHandover
  PROVE  HoIInv'
<1>1. /\ trigger /\ ~trigger' /\ master' = candidate /\ masterRssi' = candidateRssi
      /\ chosenAt' = 0
      /\ UNCHANGED <<candidate, candidateRssi, starter, toHear>>
      /\ toHear = {}
  BY DEF DoHandover, PhyDoHandover, TurnOver
<1>2. /\ stack' = [stack EXCEPT ![master] = <<>>, ![candidate] = FlushedAt(stack, candidate)]
      /\ lost' = lost \cup Range(stack[master])
      /\ hoFromX2' = [hoFromX2 EXCEPT ![candidate] = <<>>]
      /\ hoFromIp' = [hoFromIp EXCEPT ![candidate] = <<>>]
      /\ holding' = holding \ {candidate}
      /\ x2Control' = x2Control \cup {Command("complete", master, handovers)}
      /\ startedLate' = startedLate \ {candidate}
      /\ UNCHANGED <<sent, toEnb, x2Data, forwarding, misdirected, air, received, thrown>>
  BY DEF DoHandover, CompleteHandover, CompletionSource
<1>3. master \in Enbs /\ candidate \in Enbs /\ ~starter /\ candidate # master
  BY <1>1 DEF HoIInv, HoTypeOK, PhyTypeOK, StarterHasTarget, Levels
<1>4. PhyTypeOK'
  BY <1>1 DEF DoHandover, PhyDoHandover, HoIInv, HoTypeOK, PhyTypeOK
<1>5. PathTypeOK'
  <2> USE DEF HoIInv, HoTypeOK, PathTypeOK
  <2>1. x2Control' \subseteq Commands
    <3>1. Command("complete", master, handovers) \in Commands
      BY <1>3, HandoverAssumption DEF Command, Commands
    <3> QED
      BY <1>2, <3>1
  <2>2. <<>> \in Seq(Datagrams) /\ FlushedAt(stack, candidate) \in Seq(Datagrams)
    BY <1>3, FlushedType
  <2>3. stack' \in Queues /\ hoFromX2' \in Queues /\ hoFromIp' \in Queues
    BY <1>2, <2>2 DEF Queues
  <2>4. lost' \subseteq Datagrams
    <3>1. stack[master] \in Seq(Datagrams)
      BY <1>3 DEF Queues
    <3>2. Range(stack[master]) \subseteq Datagrams
      BY <3>1 DEF Range
    <3> QED
      BY <1>2, <3>2
  <2> QED
    BY <1>2, <2>1, <2>3, <2>4
<1>6. outrun' \in BOOLEAN /\ handovers' \in 0 .. MaxHandovers
  BY Zenon DEF DoHandover, HoIInv, HoTypeOK
<1>6a. startedLate' \subseteq Enbs
  BY <1>2 DEF HoIInv, HoTypeOK
<1>7. StarterHasTarget' /\ NotForMuchWeaker' /\ Levels'
  <2>1. candidateRssi \in Nat
    BY LevelTypes DEF HoIInv
  <2> QED
    BY <1>1, <1>3, <2>1 DEF StarterHasTarget, NotForMuchWeaker, Levels
<1>8. NoTunnelLeft'
  <2> SUFFICES ASSUME NEW e \in Enbs, forwarding[e] # NoEnb
               PROVE  \E c \in x2Control' : c.type = "complete" /\ c.to = e
    BY <1>2 DEF NoTunnelLeft
  <2>1. CASE e = master
    <3> DEFINE c == Command("complete", master, handovers)
    <3>1. c \in x2Control' /\ c.type = "complete" /\ c.to = master
      BY <1>2 DEF Command
    <3> QED
      BY <2>1, <3>1, Zenon
  <2>2. CASE e # master
    BY <1>2, <2>2 DEF HoIInv, NoTunnelLeft
  <2> QED
    BY <2>1, <2>2
<1>9. CommandsInTime'
  <2> SUFFICES ASSUME ~outrun', NEW c \in x2Control'
               PROVE  c.type = "complete"
    BY <1>1 DEF CommandsInTime
  <2>1. ~outrun /\ \A d \in x2Control : d.type # "start"
    BY DEF DoHandover
  <2>2. x2Control = {}
    BY <1>1, <2>1 DEF HoIInv, CommandsInTime
  <2> QED
    BY <1>2, <2>2 DEF Command
<1>10. PathFollowsHandover'
  <2> SUFFICES ASSUME ~outrun' PROVE holding' = {}
    BY <1>1 DEF PathFollowsHandover
  <2>1. ~outrun
    BY DEF DoHandover
  <2> QED
    BY <1>2, <2>1 DEF HoIInv, PathFollowsHandover
<1>11. HeldForArrival'
  <2>1. \A e \in Enbs : e # candidate => hoFromIp'[e] = hoFromIp[e]
    BY <1>2 DEF HoIInv, HoTypeOK, PathTypeOK, Queues
  <2>2. hoFromIp'[candidate] = <<>>
    BY <1>2, <1>3 DEF HoIInv, HoTypeOK, PathTypeOK, Queues
  <2> QED
    BY <1>2, <2>1, <2>2 DEF HoIInv, HeldForArrival
<1>12. OnlyMasterSends'
  <2>1. \A e \in Enbs : e # candidate => stack'[e] = <<>>
    BY <1>2 DEF HoIInv, HoTypeOK, PathTypeOK, Queues, OnlyMasterSends
  <2> QED
    BY <1>1, <2>1 DEF OnlyMasterSends
<1> QED
  BY <1>4, <1>5, <1>6, <1>6a, <1>7, <1>8, <1>9, <1>10, <1>11, <1>12 DEF HoIInv, HoTypeOK

-----------------------------------------------------------------------------
\* The part of the invariant about the PHY, when its variables stay.
LEMMA PhyUnchanged ==
  ASSUME HoIInv, UNCHANGED <<phyVars, handovers, outrun>>
  PROVE  /\ PhyTypeOK' /\ StarterHasTarget' /\ NotForMuchWeaker' /\ Levels'
         /\ handovers' \in 0 .. MaxHandovers /\ outrun' \in BOOLEAN
<1> USE DEF HoIInv, HoTypeOK, phyVars
<1>1. PhyTypeOK' /\ handovers' \in 0 .. MaxHandovers /\ outrun' \in BOOLEAN
  BY DEF PhyTypeOK
<1>2. StarterHasTarget' /\ NotForMuchWeaker' /\ Levels'
  BY DEF StarterHasTarget, NotForMuchWeaker, Levels, Louder
<1> QED
  BY <1>1, <1>2

\* A step of a datagram leaves the commands and the state of the eNodeBs alone.
LEMMA DatagramKeeps ==
  ASSUME HoIInv, UNCHANGED <<phyVars, historyVars, x2Control, forwarding, holding>>
  PROVE  NoTunnelLeft' /\ CommandsInTime' /\ PathFollowsHandover'
BY DEF HoIInv, NoTunnelLeft, CommandsInTime, PathFollowsHandover, phyVars, historyVars

\* One that leaves hoFromIp alone keeps what is held, and one that leaves the
\* stack alone, what is to be sent.
LEMMA HeldKeeps ==
  ASSUME HoIInv, UNCHANGED <<phyVars, historyVars, holding>>
  PROVE  /\ (\A e \in Enbs : hoFromIp'[e] # <<>> => hoFromIp[e] # <<>> \/ e \in holding)
              => HeldForArrival'
         /\ (\A e \in Enbs : stack'[e] # <<>> => stack[e] # <<>> \/ e = master)
              => OnlyMasterSends'
BY DEF HoIInv, HeldForArrival, OnlyMasterSends, phyVars, historyVars

\* What a step of a datagram has to show.
LEMMA DatagramSuffices ==
  ASSUME HoIInv, UNCHANGED <<phyVars, historyVars, x2Control, forwarding, holding>>,
         PathTypeOK',
         \A e \in Enbs : hoFromIp'[e] # <<>> => hoFromIp[e] # <<>> \/ e \in holding,
         \A e \in Enbs : stack'[e] # <<>> => stack[e] # <<>> \/ e = master
  PROVE  HoIInv'
<1>1. UNCHANGED <<handovers, outrun, startedLate>>
  BY DEF historyVars
<1> QED
  BY <1>1, PhyUnchanged, DatagramKeeps, HeldKeeps DEF HoIInv, HoTypeOK

\* What appending and taking do to the queues.
LEMMA QueueTypes ==
  ASSUME NEW q \in Queues, NEW e \in Enbs, NEW d \in Datagrams
  PROVE  /\ [q EXCEPT ![e] = Append(q[e], d)] \in Queues
         /\ q[e] # <<>> => /\ [q EXCEPT ![e] = Tail(q[e])] \in Queues
                           /\ Head(q[e]) \in Datagrams
<1>1. q[e] \in Seq(Datagrams)
  BY DEF Queues
<1>2. Append(q[e], d) \in Seq(Datagrams)
  BY <1>1
<1>3. q[e] # <<>> => Tail(q[e]) \in Seq(Datagrams) /\ Head(q[e]) \in Datagrams
  BY <1>1
<1> QED
  BY <1>2, <1>3 DEF Queues

LEMMA DatagramStepOk ==
  ASSUME HoIInv, DatagramStep
  PROVE  HoIInv'
<1> USE DEF HoIInv, HoTypeOK, queueVars, endVars
<1>1. UNCHANGED <<phyVars, historyVars>>
  BY DEF DatagramStep
<1>2. /\ toEnb \in Queues /\ x2Data \in Queues /\ hoFromX2 \in Queues
      /\ hoFromIp \in Queues /\ stack \in Queues /\ misdirected \in Queues
      /\ master \in Enbs
  BY DEF PathTypeOK, PhyTypeOK
<1>3. CASE GatewaySends
  <2>1. PICK d \in Datagrams \ sent :
          /\ sent' = sent \cup {d}
          /\ toEnb' = [toEnb EXCEPT ![master] = Append(toEnb[master], d)]
          /\ UNCHANGED <<x2Data, x2Control, forwarding, holding, queueVars, air, endVars>>
    BY <1>3 DEF GatewaySends, FindTrafficFlow
  <2>2. toEnb' \in Queues
    BY <1>2, <2>1, QueueTypes
  <2>3. PathTypeOK'
    BY <2>1, <2>2 DEF PathTypeOK
  <2> QED
    BY <1>1, <2>1, <2>3, DatagramSuffices
<1>4. CASE FromIpEnb
  <2>1. PICK e \in Enbs :
          /\ toEnb[e] # <<>>
          /\ toEnb' = [toEnb EXCEPT ![e] = Tail(toEnb[e])]
          /\ \/ Tunnelled(Head(toEnb[e]), e) \/ Held(Head(toEnb[e]), e)
             \/ PassedDown(Head(toEnb[e]), e) \/ Misdirected(Head(toEnb[e]), e)
          /\ UNCHANGED <<sent, x2Control, forwarding, holding, hoFromX2, air, endVars>>
    BY <1>4 DEF FromIpEnb
  <2>2. toEnb' \in Queues /\ Head(toEnb[e]) \in Datagrams
    <3>1. toEnb[e] \in Seq(Datagrams)
      BY <1>2 DEF Queues
    <3>2. Head(toEnb[e]) \in Datagrams
      BY <2>1, <3>1
    <3> QED
      BY <1>2, <2>1, <3>2, QueueTypes
  <2> DEFINE d == Head(toEnb[e])
  <2>3. CASE Tunnelled(d, e)
    <3>1. forwarding[e] \in Enbs
      BY <2>3 DEF Tunnelled, PathTypeOK
    <3>2. x2Data' \in Queues /\ UNCHANGED <<hoFromIp, stack, misdirected>>
      BY <1>2, <2>2, <2>3, <3>1, QueueTypes DEF Tunnelled, ForwardDataToTargetEnb
    <3>3. PathTypeOK'
      BY <2>1, <2>2, <3>2 DEF PathTypeOK
    <3> QED
      BY <1>1, <2>1, <3>2, <3>3, DatagramSuffices
  <2>4. CASE Held(d, e)
    <3>1. /\ hoFromIp' = [hoFromIp EXCEPT ![e] = Append(hoFromIp[e], d)] /\ e \in holding
          /\ UNCHANGED <<x2Data, stack, misdirected>>
      BY <2>4 DEF Held
    <3>2. hoFromIp' \in Queues
      BY <1>2, <2>2, <3>1, QueueTypes
    <3>3. PathTypeOK'
      BY <2>1, <2>2, <3>1, <3>2 DEF PathTypeOK
    <3>4. \A f \in Enbs : hoFromIp'[f] # <<>> => hoFromIp[f] # <<>> \/ f \in holding
      BY <1>2, <3>1 DEF Queues
    <3> QED
      BY <1>1, <2>1, <3>1, <3>3, <3>4, DatagramSuffices
  <2>5. CASE PassedDown(d, e)
    <3>1. /\ stack' = [stack EXCEPT ![e] = Append(stack[e], d)] /\ e = master
          /\ UNCHANGED <<x2Data, hoFromIp, misdirected>>
      BY <2>5 DEF PassedDown
    <3>2. stack' \in Queues
      BY <1>2, <2>2, <3>1, QueueTypes
    <3>3. PathTypeOK'
      BY <2>1, <2>2, <3>1, <3>2 DEF PathTypeOK
    <3>4. \A f \in Enbs : stack'[f] # <<>> => stack[f] # <<>> \/ f = master
      BY <1>2, <3>1 DEF Queues
    <3> QED
      BY <1>1, <2>1, <3>1, <3>3, <3>4, DatagramSuffices
  <2>6. CASE Misdirected(d, e)
    <3>1. /\ misdirected' = [misdirected EXCEPT ![e] = Append(misdirected[e], d)]
          /\ UNCHANGED <<x2Data, hoFromIp, stack>>
      BY <2>6 DEF Misdirected
    <3>2. misdirected' \in Queues
      BY <1>2, <2>2, <3>1, QueueTypes
    <3>3. PathTypeOK'
      BY <2>1, <2>2, <3>1, <3>2 DEF PathTypeOK
    <3> QED
      BY <1>1, <2>1, <3>1, <3>3, DatagramSuffices
  <2> QED
    BY <2>1, <2>3, <2>4, <2>5, <2>6
<1>5. CASE ReceiveTunneled
  <2>1. PICK e \in Enbs :
          /\ x2Data[e] # <<>>
          /\ x2Data' = [x2Data EXCEPT ![e] = Tail(x2Data[e])]
          /\ hoFromX2' = [hoFromX2 EXCEPT ![e] = Append(hoFromX2[e], Head(x2Data[e]))]
          /\ UNCHANGED <<sent, toEnb, x2Control, forwarding, holding, hoFromIp, stack,
                         misdirected, air, endVars>>
    BY <1>5 DEF ReceiveTunneled
  <2>2. x2Data[e] \in Seq(Datagrams)
    BY <1>2 DEF Queues
  <2>3. Head(x2Data[e]) \in Datagrams
    BY <2>1, <2>2
  <2>4. x2Data' \in Queues /\ hoFromX2' \in Queues
    BY <1>2, <2>1, <2>3, QueueTypes
  <2>5. PathTypeOK'
    BY <2>1, <2>4 DEF PathTypeOK
  <2> QED
    BY <1>1, <2>1, <2>5, DatagramSuffices
<1>6. CASE OtherUeCompletes
  <2>1. PICK e \in Enbs :
          /\ \/ /\ e = master
                /\ stack' = [stack EXCEPT ![e] = FlushedAt(stack, e)]
                /\ UNCHANGED misdirected
             \/ /\ e # master
                /\ misdirected' = [misdirected EXCEPT ![e] = FlushedAt(misdirected, e)]
                /\ UNCHANGED stack
          /\ hoFromX2' = [hoFromX2 EXCEPT ![e] = <<>>]
          /\ hoFromIp' = [hoFromIp EXCEPT ![e] = <<>>]
          /\ UNCHANGED <<sent, toEnb, x2Data, x2Control, forwarding, holding, air, endVars>>
    BY <1>6 DEF OtherUeCompletes
  <2>2. /\ <<>> \in Seq(Datagrams)
        /\ FlushedAt(stack, e) \in Seq(Datagrams)
        /\ FlushedAt(misdirected, e) \in Seq(Datagrams)
    BY <1>2, FlushedType
  <2>3. /\ stack' \in Queues /\ misdirected' \in Queues
        /\ hoFromX2' \in Queues /\ hoFromIp' \in Queues
    BY <1>2, <2>1, <2>2 DEF Queues
  <2>4. PathTypeOK'
    BY <2>1, <2>3 DEF PathTypeOK
  <2>5. /\ \A f \in Enbs : hoFromIp'[f] # <<>> => hoFromIp[f] # <<>>
        /\ \A f \in Enbs : stack'[f] # <<>> => stack[f] # <<>> \/ f = master
    BY <1>2, <2>1 DEF Queues
  <2> QED
    BY <1>1, <2>1, <2>4, <2>5, DatagramSuffices
<1>7. CASE EnbTransmits
  <2>1. PICK e \in Enbs :
          /\ stack[e] # <<>>
          /\ stack' = [stack EXCEPT ![e] = Tail(stack[e])]
          /\ air' = air \cup {[datagram |-> Head(stack[e]), from |-> e]}
          /\ UNCHANGED <<sent, toEnb, x2Data, x2Control, forwarding, holding, hoFromX2,
                         hoFromIp, misdirected, endVars>>
    BY <1>7 DEF EnbTransmits
  <2>2. stack[e] \in Seq(Datagrams)
    BY <1>2 DEF Queues
  <2>3. Head(stack[e]) \in Datagrams
    BY <2>1, <2>2
  <2>4. stack' \in Queues
    BY <1>2, <2>1, <2>3, QueueTypes
  <2>5. PathTypeOK'
    BY <2>1, <2>3, <2>4 DEF PathTypeOK
  <2>6. \A f \in Enbs : stack'[f] # <<>> => stack[f] # <<>>
    BY <1>2, <2>1 DEF Queues
  <2> QED
    BY <1>1, <2>1, <2>5, <2>6, DatagramSuffices
<1>8. CASE FrameArrives
  <2>1. PathTypeOK'
    BY <1>8 DEF FrameArrives, PathTypeOK
  <2> QED
    BY <1>1, <1>8, <2>1, DatagramSuffices DEF FrameArrives
<1>9. CASE ScheduleMisdirected
  <2>1. PathTypeOK'
    BY <1>9 DEF ScheduleMisdirected, PathTypeOK
  <2> QED
    BY <1>1, <1>9, <2>1, DatagramSuffices DEF ScheduleMisdirected
<1> QED
  BY <1>3, <1>4, <1>5, <1>6, <1>7, <1>8, <1>9 DEF DatagramStep

-----------------------------------------------------------------------------
LEMMA CommandArrivesOk ==
  ASSUME HoIInv, CommandArrives
  PROVE  HoIInv'
<1> USE DEF HoIInv, HoTypeOK, queueVars, endVars
<1>1. UNCHANGED <<phyVars, handovers, outrun>>
  BY DEF CommandArrives
<1>2. PICK c \in x2Control :
        \/ /\ StartArrives(c)
           /\ startedLate' = IF trigger /\ c.to = candidate THEN startedLate
                             ELSE startedLate \cup {c.to}
        \/ CompleteArrives(c) /\ UNCHANGED startedLate
  BY DEF CommandArrives
<1>3. c.to \in Enbs
  BY DEF PathTypeOK, Commands
<1>4. CASE /\ StartArrives(c)
           /\ startedLate' = IF trigger /\ c.to = candidate THEN startedLate
                             ELSE startedLate \cup {c.to}
  <2>1. /\ c.type = "start"
        /\ x2Control' = x2Control \ {c}
        /\ holding' = holding \cup {c.to}
        /\ UNCHANGED <<sent, toEnb, x2Data, forwarding, queueVars, air, endVars>>
    BY <1>4 DEF StartArrives
  <2>2. PathTypeOK' /\ startedLate' \subseteq Enbs
    BY <1>3, <1>4, <2>1 DEF PathTypeOK
  <2>3. NoTunnelLeft'
    BY <1>1, <2>1 DEF NoTunnelLeft, phyVars
  <2>4. CommandsInTime'
    BY <1>1, <2>1 DEF CommandsInTime, phyVars
  <2>5. PathFollowsHandover'
    BY <1>1, <2>1 DEF PathFollowsHandover, CommandsInTime, phyVars
  <2>6. HeldForArrival'
    <3>1. \A e \in holding' : (trigger /\ e = candidate) \/ e \in startedLate'
      BY <1>4, <2>1 DEF HeldForArrival
    <3> QED
      BY <1>1, <2>1, <3>1 DEF HeldForArrival, phyVars
  <2>7. OnlyMasterSends'
    BY <1>1, <2>1 DEF OnlyMasterSends, phyVars
  <2> QED
    BY <1>1, <2>2, <2>3, <2>4, <2>5, <2>6, <2>7, PhyUnchanged
<1>5. CASE CompleteArrives(c) /\ UNCHANGED startedLate
  <2>1. /\ c.type = "complete"
        /\ x2Control' = x2Control \ {c}
        /\ forwarding' = [forwarding EXCEPT ![c.to] = NoEnb]
        /\ UNCHANGED <<sent, toEnb, x2Data, holding, queueVars, air, endVars>>
    BY <1>5 DEF CompleteArrives
  <2>2. PathTypeOK'
    BY <2>1 DEF PathTypeOK
  <2>3. NoTunnelLeft'
    BY <1>1, <2>1 DEF NoTunnelLeft, PathTypeOK, phyVars
  <2>4. CommandsInTime'
    BY <1>1, <2>1 DEF CommandsInTime, phyVars
  <2>5. PathFollowsHandover'
    BY <1>1, <2>1 DEF PathFollowsHandover, CommandsInTime, phyVars
  <2>6. HeldForArrival' /\ OnlyMasterSends'
    BY <1>1, <1>5, <2>1 DEF HeldForArrival, OnlyMasterSends, phyVars
  <2> QED
    BY <1>1, <1>5, <2>2, <2>3, <2>4, <2>5, <2>6, PhyUnchanged
<1> QED
  BY <1>2, <1>4, <1>5

-----------------------------------------------------------------------------
\* HoIInv holds in every reachable state.
THEOREM HoInductive == Spec => []HoIInv
<1>1. Init => HoIInv
  BY InitOk
<1>2. HoIInv /\ [Next]_vars => HoIInv'
  <2> SUFFICES ASSUME HoIInv, [Next]_vars PROVE HoIInv'
    OBVIOUS
  <2>1. CASE Decide
    BY <2>1, DecideOk
  <2>2. CASE TriggerHandover
    BY <2>2, TriggerHandoverOk
  <2>3. CASE DoHandover
    BY <2>3, DoHandoverOk
  <2>4. CASE DatagramStep
    BY <2>4, DatagramStepOk
  <2>5. CASE CommandArrives
    BY <2>5, CommandArrivesOk
  <2>6. CASE UNCHANGED vars
    <3>1. UNCHANGED <<phyVars, pathVars, historyVars>>
      BY <2>6 DEF vars
    <3>2. UNCHANGED <<master, trigger, candidate>>
      BY <3>1 DEF phyVars
    <3> QED
      BY <3>1, <3>2, PhyUnchanged, PathUnchanged DEF HoIInv, HoTypeOK, historyVars
  <2> QED
    BY <2>1, <2>2, <2>3, <2>4, <2>5, <2>6 DEF Next
<1> QED
  BY <1>1, <1>2, PTL DEF Spec

\* Every variable of the UE's PHY and of the eNodeBs keeps its type.
THEOREM HoTypeCorrect == Spec => []HoTypeOK
BY HoInductive, PTL DEF HoIInv

\* The assertion of triggerHandover never fails.
THEOREM StartersHaveTargets == Spec => []StarterHasTarget
BY HoInductive, PTL DEF HoIInv

\* The UE never leaves its master for a cell that the master, as last heard, is
\* louder than by the hysteresis.
THEOREM DecisionIsSound == Spec => []NotForMuchWeaker
BY HoInductive, PTL DEF HoIInv

\* An eNodeB that tunnels datagrams away will be told to stop.
THEOREM TunnelsAreClosed == Spec => []NoTunnelLeft
BY HoInductive, PTL DEF HoIInv

\* As long as no command is outrun, the source tunnels during the whole handover
\* and only the target holds.
THEOREM PathFollows == Spec => []PathFollowsHandover
BY HoInductive, PTL DEF HoIInv

\* A datagram is held only at the eNodeB the UE is on its way to, where its arrival
\* releases it, or where a "start" came too late to be followed by an arrival.
THEOREM HeldOnlyForArrival == Spec => []HeldForArrival
BY HoInductive, PTL DEF HoIInv

\* What is queued in RLC and MAC under the id of the UE is at its master: none is
\* left at a former one, whatever tunnels, holds and flushes there were.
THEOREM OldMastersAreSilent == Spec => []OnlyMasterSends
BY HoInductive, PTL DEF HoIInv

-----------------------------------------------------------------------------
(***************************************************************************)
(* Where the datagrams are: what the operations on queues do to the sets   *)
(* that these list.                                                        *)
(***************************************************************************)
LEMMA ListsNothing == Lists(<<>>, {})
BY DEF Lists

LEMMA ListsAppended ==
  ASSUME NEW q, NEW S, NEW d, Lists(q, S), d \notin S
  PROVE  Lists(Append(q, d), S \cup {d})
<1> DEFINE r == Append(q, d)
           T == S \cup {d}
<1>1. q \in Seq(S) /\ q \in Seq(T) /\ Len(q) \in Nat
  BY DEF Lists
<1>2. /\ r \in Seq(T) /\ Len(r) = Len(q) + 1 /\ r[Len(q) + 1] = d
      /\ \A i \in 1 .. Len(q) : r[i] = q[i] /\ r[i] # d
  BY <1>1
<1>3. ASSUME NEW i \in 1 .. Len(r), NEW j \in 1 .. Len(r), r[i] = r[j]
      PROVE  i = j
  <2>1. CASE i \in 1 .. Len(q) /\ j \in 1 .. Len(q)
    BY <1>2, <1>3, <2>1 DEF Lists
  <2>2. CASE i \notin 1 .. Len(q) /\ j \notin 1 .. Len(q)
    <3>1. i = Len(q) + 1 /\ j = Len(q) + 1
      BY <1>1, <1>2, <2>2
    <3> QED
      BY <3>1
  <2>3. CASE i \in 1 .. Len(q) /\ j \notin 1 .. Len(q)
    <3>1. j = Len(q) + 1
      BY <1>1, <1>2, <2>3
    <3> QED
      BY <1>2, <1>3, <2>3, <3>1
  <2>4. CASE i \notin 1 .. Len(q) /\ j \in 1 .. Len(q)
    <3>1. i = Len(q) + 1
      BY <1>1, <1>2, <2>4
    <3> QED
      BY <1>2, <1>3, <2>4, <3>1
  <2> QED
    BY <2>1, <2>2, <2>3, <2>4
<1>4. ASSUME NEW c \in T
      PROVE  \E i \in 1 .. Len(r) : r[i] = c
  <2>1. CASE c = d
    BY <1>1, <1>2, <2>1
  <2>2. CASE c \in S
    <3>1. PICK i \in 1 .. Len(q) : q[i] = c
      BY <2>2 DEF Lists
    <3> QED
      BY <1>1, <1>2, <3>1
  <2> QED
    BY <2>1, <2>2
<1> QED
  BY <1>2, <1>3, <1>4, Zenon DEF Lists

LEMMA ListsTail ==
  ASSUME NEW q, NEW S, Lists(q, S), q # <<>>
  PROVE  Head(q) \in S /\ Lists(Tail(q), S \ {Head(q)})
<1> DEFINE r == Tail(q)
           T == S \ {Head(q)}
<1>1. q \in Seq(S) /\ Len(q) \in Nat \ {0} /\ Head(q) = q[1] /\ q[1] \in S
  BY DEF Lists
<1>2. /\ r \in Seq(S) /\ Len(r) = Len(q) - 1
      /\ \A i \in 1 .. Len(r) : r[i] = q[i + 1]
  BY <1>1
<1>3. \A i \in 1 .. Len(r) : i + 1 \in 1 .. Len(q) /\ i + 1 # 1
  BY <1>1, <1>2
<1>4. \A i \in 1 .. Len(r) : r[i] \in T
  <2> SUFFICES ASSUME NEW i \in 1 .. Len(r) PROVE r[i] \in T
    OBVIOUS
  <2>1. q[i + 1] # q[1]
    <3>1. 1 \in 1 .. Len(q)
      BY <1>1
    <3> QED
      BY <1>3, <3>1 DEF Lists
  <2> QED
    BY <1>1, <1>2, <1>3, <2>1
<1>5. r \in Seq(T)
  <2>1. Len(r) \in Nat /\ r \in [1 .. Len(r) -> S]
    BY <1>2, LenProperties, Zenon
  <2>2. r \in [1 .. Len(r) -> T]
    BY <1>4, <2>1
  <2> QED
    BY <2>1, <2>2, SeqDef, Zenon
<1>6. ASSUME NEW i \in 1 .. Len(r), NEW j \in 1 .. Len(r), r[i] = r[j]
      PROVE  i = j
  <2>1. i + 1 = j + 1
    BY <1>2, <1>3, <1>6 DEF Lists
  <2> QED
    BY <2>1, <1>2
<1>7. ASSUME NEW c \in T
      PROVE  \E i \in 1 .. Len(r) : r[i] = c
  <2>1. PICK i \in 1 .. Len(q) : q[i] = c
    BY DEF Lists
  <2>2. i # 1
    BY <1>1, <2>1
  <2>3. i - 1 \in 1 .. Len(r) /\ (i - 1) + 1 = i
    BY <1>1, <1>2, <2>2
  <2> QED
    BY <1>2, <2>1, <2>3
<1> QED
  BY <1>1, <1>5, <1>6, <1>7, Zenon DEF Lists

LEMMA ListsJoined ==
  ASSUME NEW p, NEW q, NEW S, NEW T, Lists(p, S), Lists(q, T), S \cap T = {}
  PROVE  Lists(p \o q, S \cup T)
<1> DEFINE r == p \o q
           U == S \cup T
           n == Len(p)
           m == Len(q)
<1>1. /\ p \in Seq(S) /\ p \in Seq(U) /\ q \in Seq(T) /\ q \in Seq(U)
      /\ n \in Nat /\ m \in Nat
  BY DEF Lists
<1>2. /\ r \in Seq(U) /\ Len(r) = n + m
      /\ \A i \in 1 .. n : r[i] = p[i] /\ r[i] \in S
  BY <1>1
<1>3. \A j \in 1 .. m : r[n + j] = q[j] /\ r[n + j] \in T
  BY <1>1
<1>4. \A i \in 1 .. (n + m) : i \in 1 .. n \/ \E j \in 1 .. m : i = n + j
  <2> SUFFICES ASSUME NEW i \in 1 .. (n + m), i \notin 1 .. n
               PROVE  \E j \in 1 .. m : i = n + j
    BY Zenon
  <2> HIDE DEF n, m
  <2>1. i - n \in 1 .. m /\ i = n + (i - n)
    BY <1>1
  <2> QED
    BY <2>1, Zenon
<1> HIDE DEF n, m, r
<1>5. ASSUME NEW i \in 1 .. (n + m), NEW j \in 1 .. (n + m), r[i] = r[j]
      PROVE  i = j
  <2>1. CASE i \in 1 .. n /\ j \in 1 .. n
    BY <1>2, <1>5, <2>1 DEF Lists, n
  <2>2. CASE i \notin 1 .. n /\ j \notin 1 .. n
    <3>1. PICK k \in 1 .. m : i = n + k
      BY <1>4, <2>2, Zenon
    <3>2. PICK l \in 1 .. m : j = n + l
      BY <1>4, <2>2, Zenon
    <3>3. q[k] = q[l]
      BY <1>3, <1>5, <3>1, <3>2
    <3>4. k = l
      BY <3>3 DEF Lists, m
    <3> QED
      BY <3>1, <3>2, <3>4
  <2>3. CASE i \in 1 .. n /\ j \notin 1 .. n
    <3>1. PICK l \in 1 .. m : j = n + l
      BY <1>4, <2>3, Zenon
    <3>2. r[i] \in S /\ r[j] \in T
      BY <1>2, <1>3, <2>3, <3>1
    <3> QED
      BY <1>5, <3>2
  <2>4. CASE i \notin 1 .. n /\ j \in 1 .. n
    <3>1. PICK k \in 1 .. m : i = n + k
      BY <1>4, <2>4, Zenon
    <3>2. r[i] \in T /\ r[j] \in S
      BY <1>2, <1>3, <2>4, <3>1
    <3> QED
      BY <1>5, <3>2
  <2> QED
    BY <2>1, <2>2, <2>3, <2>4
<1>6. ASSUME NEW c \in U
      PROVE  \E i \in 1 .. (n + m) : r[i] = c
  <2>1. CASE c \in S
    <3>1. PICK i \in 1 .. n : p[i] = c
      BY <2>1 DEF Lists, n
    <3>2. i \in 1 .. (n + m)
      BY <1>1
    <3> QED
      BY <1>2, <3>1, <3>2
  <2>2. CASE c \in T
    <3>1. PICK j \in 1 .. m : q[j] = c
      BY <2>2 DEF Lists, m
    <3>2. n + j \in 1 .. (n + m)
      BY <1>1
    <3> QED
      BY <1>3, <3>1, <3>2
  <2> QED
    BY <2>1, <2>2
<1>7. Lists(r, U)
  BY <1>2, <1>5, <1>6, Zenon DEF Lists
<1> QED
  BY <1>7 DEF r

-----------------------------------------------------------------------------
\* The datagrams of S moved to a place, and a kind of place that stays as it was.
Moved(w, S, kind, e) == [d \in Datagrams |-> IF d \in S THEN <<kind, e>> ELSE w[d]]
Keeps(w, v, kind) == \A d \in Datagrams : w[d][1] = kind \/ v[d][1] = kind => v[d] = w[d]

LEMMA KeepsQueued ==
  ASSUME NEW w, NEW v, NEW kind, NEW queue, Keeps(w, v, kind), Queued(w, queue, kind)
  PROVE  Queued(v, queue, kind)
<1>1. \A e \in Enbs : Those(v, kind, e) = Those(w, kind, e)
  BY DEF Keeps, Those
<1> QED
  BY <1>1 DEF Queued

LEMMA KeepsOnAir ==
  ASSUME NEW w, NEW v, NEW frames, Keeps(w, v, "air"), OnAir(w, frames)
  PROVE  OnAir(v, frames)
<1>1. \A e \in Enbs : Those(v, "air", e) = Those(w, "air", e)
  BY DEF Keeps, Those
<1> QED
  BY <1>1 DEF OnAir

LEMMA KeepsOfKind ==
  ASSUME NEW w, NEW v, NEW kind, Keeps(w, v, kind)
  PROVE  OfKind(v, kind) = OfKind(w, kind)
BY DEF Keeps, OfKind

\* A move touches the kind it starts from and the kind it ends in only.
LEMMA MovedKeeps ==
  ASSUME NEW w, NEW S, NEW from, NEW kind, NEW e, NEW other, S \subseteq OfKind(w, from),
         other # from, other # kind
  PROVE  Keeps(w, Moved(w, S, kind, e), other)
BY DEF Moved, Keeps, OfKind

LEMMA MovedType ==
  ASSUME NEW w \in Maps, NEW S, NEW kind, NEW e, <<kind, e>> \in Slots
  PROVE  Moved(w, S, kind, e) \in Maps
BY DEF Moved, Maps

\* What a move takes from a kind of place, and what it adds to one.
LEMMA MovedKinds ==
  ASSUME NEW w, NEW S, NEW from, NEW kind, NEW e, S \subseteq OfKind(w, from), from # kind
  PROVE  /\ OfKind(Moved(w, S, kind, e), from) = OfKind(w, from) \ S
         /\ OfKind(Moved(w, S, kind, e), kind) = OfKind(w, kind) \cup S
BY DEF Moved, OfKind

LEMMA ThoseOfKind ==
  ASSUME NEW w, NEW kind, NEW e
  PROVE  Those(w, kind, e) \subseteq OfKind(w, kind)
BY DEF Those, OfKind

LEMMA TailQueued ==
  ASSUME NEW w, NEW q \in [Enbs -> Seq(Datagrams)], NEW kind, NEW e \in Enbs, q[e] # <<>>,
         Queued(w, q, kind), NEW to, NEW at, to # kind
  PROVE  /\ Head(q[e]) \in Those(w, kind, e)
         /\ Queued(Moved(w, {Head(q[e])}, to, at), [q EXCEPT ![e] = Tail(q[e])], kind)
<1> DEFINE d == Head(q[e])
           v == Moved(w, {d}, to, at)
<1>1. d \in Those(w, kind, e) /\ Lists(Tail(q[e]), Those(w, kind, e) \ {d})
  BY ListsTail DEF Queued
<1>2. \A f : Those(v, kind, f) = Those(w, kind, f) \ {d}
  <2>1. {d} \subseteq OfKind(w, kind)
    BY <1>1, ThoseOfKind
  <2> HIDE DEF d
  <2> QED
    BY <2>1, kind # to DEF Moved, Those, OfKind
<1>3. \A f \in Enbs : f # e => Those(v, kind, f) = Those(w, kind, f)
  <2>1. \A f : f # e => d \notin Those(w, kind, f)
    BY <1>1 DEF Those
  <2> HIDE DEF d, v
  <2> QED
    BY <1>2, <2>1
<1> HIDE DEF v, d
<1>4. Queued(v, [q EXCEPT ![e] = Tail(q[e])], kind)
  BY <1>1, <1>2, <1>3 DEF Queued
<1> QED
  BY <1>1, <1>4 DEF v, d

LEMMA JoinedQueued ==
  ASSUME NEW w, NEW q \in [Enbs -> Seq(Datagrams)], NEW kind, NEW e \in Enbs, NEW p, NEW S,
         NEW from, S \subseteq OfKind(w, from), from # kind, Queued(w, q, kind), Lists(p, S)
  PROVE  Queued(Moved(w, S, kind, e), [q EXCEPT ![e] = q[e] \o p], kind)
<1> DEFINE v == Moved(w, S, kind, e)
<1>1. /\ Those(v, kind, e) = Those(w, kind, e) \cup S
      /\ \A f : f # e => Those(v, kind, f) = Those(w, kind, f)
  <2>1. \A c \in Datagrams : v[c] = IF c \in S THEN <<kind, e>> ELSE w[c]
    BY DEF Moved
  <2>2. S \subseteq Datagrams /\ \A c \in S : \A f : w[c] # <<kind, f>>
    BY DEF OfKind
  <2> HIDE DEF v
  <2>3. Those(v, kind, e) = Those(w, kind, e) \cup S
    BY <2>1, <2>2 DEF Those
  <2>4. \A f : f # e => Those(v, kind, f) = Those(w, kind, f)
    BY <2>1, <2>2 DEF Those
  <2> QED
    BY <2>3, <2>4
<1>2. Those(w, kind, e) \cap S = {}
  BY DEF Those, OfKind
<1>3. Lists(q[e] \o p, Those(v, kind, e))
  BY <1>1, <1>2, ListsJoined DEF Queued
<1> HIDE DEF v
<1>4. Queued(v, [q EXCEPT ![e] = q[e] \o p], kind)
  BY <1>1, <1>3 DEF Queued
<1> QED
  BY <1>4 DEF v

LEMMA AppendQueued ==
  ASSUME NEW w, NEW q \in [Enbs -> Seq(Datagrams)], NEW kind, NEW e \in Enbs, NEW d,
         NEW from, d \in OfKind(w, from), from # kind, Queued(w, q, kind)
  PROVE  Queued(Moved(w, {d}, kind, e), [q EXCEPT ![e] = Append(q[e], d)], kind)
<1> DEFINE v == Moved(w, {d}, kind, e)
<1>1. /\ Those(v, kind, e) = Those(w, kind, e) \cup {d}
      /\ \A f : f # e => Those(v, kind, f) = Those(w, kind, f)
  <2>1. \A c \in Datagrams : v[c] = IF c = d THEN <<kind, e>> ELSE w[c]
    BY DEF Moved
  <2>2. d \in Datagrams /\ \A f : w[d] # <<kind, f>>
    BY DEF OfKind
  <2> HIDE DEF v
  <2>3. Those(v, kind, e) = Those(w, kind, e) \cup {d}
    BY <2>1, <2>2 DEF Those
  <2>4. \A f : f # e => Those(v, kind, f) = Those(w, kind, f)
    BY <2>1, <2>2 DEF Those
  <2> QED
    BY <2>3, <2>4
<1>2. d \notin Those(w, kind, e)
  BY DEF Those, OfKind
<1>3. Lists(Append(q[e], d), Those(w, kind, e) \cup {d})
  <2>1. Lists(q[e], Those(w, kind, e))
    BY DEF Queued
  <2> QED
    BY <1>2, <2>1, ListsAppended
<1> HIDE DEF v
<1>4. Queued(v, [q EXCEPT ![e] = Append(q[e], d)], kind)
  BY <1>1, <1>3 DEF Queued
<1> QED
  BY <1>4 DEF v

LEMMA EmptiedQueued ==
  ASSUME NEW w, NEW q \in [Enbs -> Seq(Datagrams)], NEW kind, NEW e \in Enbs,
         Queued(w, q, kind), NEW to, NEW at, to # kind
  PROVE  Queued(Moved(w, Those(w, kind, e), to, at), [q EXCEPT ![e] = <<>>], kind)
<1> DEFINE S == Those(w, kind, e)
           v == Moved(w, S, to, at)
<1>1. \A f : Those(v, kind, f) = Those(w, kind, f) \ S
  <2>1. S \subseteq OfKind(w, kind)
    BY ThoseOfKind, Zenon
  <2> HIDE DEF S
  <2> QED
    BY <2>1, kind # to DEF Moved, Those, OfKind
<1>2. Those(v, kind, e) = {} /\ \A f : f # e => Those(v, kind, f) = Those(w, kind, f)
  <2>1. \A f : f # e => Those(w, kind, f) \cap S = {}
    BY DEF Those
  <2> HIDE DEF v
  <2> QED
    BY <1>1, <2>1
<1> HIDE DEF v, S
<1>3. Queued(v, [q EXCEPT ![e] = <<>>], kind)
  BY <1>2, ListsNothing DEF Queued
<1> QED
  BY <1>3 DEF v, S

\* A flush: those that hoFromX2 and hoFromIp list follow in queue c, of a kind of
\* their own.
FlushedTo(w, v, a, b, c, to, e) ==
  /\ Queued(v, [a EXCEPT ![e] = <<>>], "hoFromX2")
  /\ Queued(v, [b EXCEPT ![e] = <<>>], "hoFromIp")
  /\ Queued(v, [c EXCEPT ![e] = c[e] \o a[e] \o b[e]], to)
  /\ \A kind : kind \notin {"hoFromX2", "hoFromIp", to} => Keeps(w, v, kind)

LEMMA FlushedQueued ==
  ASSUME NEW w \in Maps, NEW e \in Enbs,
         NEW a \in [Enbs -> Seq(Datagrams)], Queued(w, a, "hoFromX2"),
         NEW b \in [Enbs -> Seq(Datagrams)], Queued(w, b, "hoFromIp"),
         NEW c \in [Enbs -> Seq(Datagrams)], NEW to \in {"stack", "misdirected"},
         Queued(w, c, to)
  PROVE  \E v \in Maps : FlushedTo(w, v, a, b, c, to, e)
<1> DEFINE S == Those(w, "hoFromX2", e)
           u == Moved(w, S, to, e)
           T == Those(u, "hoFromIp", e)
           v == Moved(u, T, to, e)
           a1 == [a EXCEPT ![e] = <<>>]
           b1 == [b EXCEPT ![e] = <<>>]
           c1 == [c EXCEPT ![e] = c[e] \o a[e]]
           c2 == [c1 EXCEPT ![e] = c1[e] \o b[e]]
<1>1. S \subseteq OfKind(w, "hoFromX2") /\ T \subseteq OfKind(u, "hoFromIp")
  BY ThoseOfKind
<1>2. <<to, e>> \in Slots
  BY DEF Slots
<1>3. u \in Maps
  BY <1>2, MovedType
<1>4. v \in Maps
  BY <1>2, <1>3, MovedType
<1>5. \A kind : kind \notin {"hoFromX2", to} => Keeps(w, u, kind)
  <2> HIDE DEF S
  <2> QED
    BY <1>1, MovedKeeps
<1>6. \A kind : kind \notin {"hoFromIp", to} => Keeps(u, v, kind)
  <2> HIDE DEF T, u
  <2> QED
    BY <1>1, MovedKeeps
<1>7. Queued(u, a1, "hoFromX2") /\ Queued(u, b, "hoFromIp") /\ Queued(u, c1, to)
  <2>1. Queued(u, a1, "hoFromX2")
    BY EmptiedQueued
  <2>2. Queued(u, b, "hoFromIp")
    <3> HIDE DEF u
    <3> QED
      BY <1>5, KeepsQueued
  <2>3. Lists(a[e], S)
    BY DEF Queued
  <2>4. Queued(u, c1, to)
    <3> HIDE DEF S
    <3> QED
      BY <1>1, <2>3, JoinedQueued
  <2> QED
    BY <2>1, <2>2, <2>4
<1>8. c1 \in [Enbs -> Seq(Datagrams)]
  BY c[e] \o a[e] \in Seq(Datagrams)
<1>9. Queued(v, a1, "hoFromX2") /\ Queued(v, b1, "hoFromIp") /\ Queued(v, c2, to)
  <2> HIDE DEF u, a1, c1
  <2>1. Queued(v, b1, "hoFromIp")
    BY <1>7, EmptiedQueued
  <2>2. Queued(v, a1, "hoFromX2")
    <3> HIDE DEF v
    <3> QED
      BY <1>6, <1>7, KeepsQueued
  <2>3. Lists(b[e], T)
    BY <1>7 DEF Queued
  <2>4. Queued(v, c2, to)
    <3> HIDE DEF T
    <3> QED
      BY <1>1, <1>7, <1>8, <2>3, JoinedQueued
  <2> QED
    BY <2>1, <2>2, <2>4
<1>10. c2 = [c EXCEPT ![e] = c[e] \o a[e] \o b[e]]
  OBVIOUS
<1>11. \A kind : kind \notin {"hoFromX2", "hoFromIp", to} => Keeps(w, v, kind)
  <2> HIDE DEF u, v
  <2> QED
    BY <1>5, <1>6 DEF Keeps
<1> HIDE DEF v, c2, u
<1>12. FlushedTo(w, v, a, b, c, to, e)
  BY <1>9, <1>10, <1>11 DEF FlushedTo
<1> QED
  BY <1>4, <1>12

-----------------------------------------------------------------------------
\* What a step has to show of the map after it, of each kind of place.
LEMMA PlacedLater ==
  ASSUME NEW w, Whereabouts(w), NEW v \in Maps,
         Queued(v, toEnb', "toEnb") \/ (toEnb' = toEnb /\ Keeps(w, v, "toEnb")),
         Queued(v, x2Data', "x2Data") \/ (x2Data' = x2Data /\ Keeps(w, v, "x2Data")),
         Queued(v, hoFromX2', "hoFromX2")
           \/ (hoFromX2' = hoFromX2 /\ Keeps(w, v, "hoFromX2")),
         Queued(v, hoFromIp', "hoFromIp")
           \/ (hoFromIp' = hoFromIp /\ Keeps(w, v, "hoFromIp")),
         Queued(v, stack', "stack") \/ (stack' = stack /\ Keeps(w, v, "stack")),
         Queued(v, misdirected', "misdirected")
           \/ (misdirected' = misdirected /\ Keeps(w, v, "misdirected")),
         OnAir(v, air') \/ (air' = air /\ Keeps(w, v, "air")),
         received' = OfKind(v, "received")
           \/ (received' = received /\ Keeps(w, v, "received")),
         lost' = OfKind(v, "lost") \/ (lost' = lost /\ Keeps(w, v, "lost")),
         Datagrams \ sent' = OfKind(v, "unsent") \/ (sent' = sent /\ Keeps(w, v, "unsent"))
  PROVE  Placed'
<1> USE DEF Whereabouts
<1>1. Queued(v, toEnb', "toEnb")
  BY KeepsQueued
<1>2. Queued(v, x2Data', "x2Data")
  BY KeepsQueued
<1>3. Queued(v, hoFromX2', "hoFromX2")
  BY KeepsQueued
<1>4. Queued(v, hoFromIp', "hoFromIp")
  BY KeepsQueued
<1>5. Queued(v, stack', "stack")
  BY KeepsQueued
<1>5a. Queued(v, misdirected', "misdirected")
  BY KeepsQueued
<1>6. OnAir(v, air')
  <2>1. CASE OnAir(v, air')
    BY <2>1
  <2>2. CASE air' = air /\ Keeps(w, v, "air")
    BY <2>2, KeepsOnAir
  <2> QED
    BY <2>1, <2>2
<1>7. received' = OfKind(v, "received")
  BY KeepsOfKind
<1>8. lost' = OfKind(v, "lost")
  BY KeepsOfKind
<1>9. Datagrams \ sent' = OfKind(v, "unsent")
  BY KeepsOfKind
<1>10. Whereabouts(v)'
  BY <1>1, <1>2, <1>3, <1>4, <1>5, <1>5a, <1>6, <1>7, <1>8, <1>9, Zenon
<1> QED
  BY <1>10 DEF Placed

\* The queues have their types.
LEMMA QueuesTyped ==
  ASSUME HoTypeOK
  PROVE  /\ toEnb \in [Enbs -> Seq(Datagrams)] /\ x2Data \in [Enbs -> Seq(Datagrams)]
         /\ hoFromX2 \in [Enbs -> Seq(Datagrams)] /\ hoFromIp \in [Enbs -> Seq(Datagrams)]
         /\ stack \in [Enbs -> Seq(Datagrams)] /\ misdirected \in [Enbs -> Seq(Datagrams)]
         /\ master \in Enbs /\ candidate \in Enbs
         /\ \A e \in Enbs : forwarding[e] # NoEnb => forwarding[e] \in Enbs
BY DEF HoTypeOK, PathTypeOK, PhyTypeOK, Queues

\* A move touches two kinds of place.
LEMMA MovedRest ==
  ASSUME NEW w, NEW S, NEW from, NEW kind, NEW e, S \subseteq OfKind(w, from)
  PROVE  \A other : other \notin {from, kind} => Keeps(w, Moved(w, S, kind, e), other)
BY MovedKeeps

LEMMA GatewaySendsPlaced ==
  ASSUME HoTypeOK, NEW w \in Maps, Whereabouts(w), GatewaySends
  PROVE  Placed'
<1> USE QueuesTyped
<1>1. PICK d \in Datagrams \ sent :
        /\ sent' = sent \cup {d}
        /\ toEnb' = [toEnb EXCEPT ![master] = Append(toEnb[master], d)]
        /\ UNCHANGED <<x2Data, queueVars, air, received, lost>>
  BY DEF GatewaySends, FindTrafficFlow, endVars
<1> DEFINE v == Moved(w, {d}, "toEnb", master)
<1>2. d \in OfKind(w, "unsent") /\ {d} \subseteq OfKind(w, "unsent")
  BY DEF Whereabouts
<1>3. Queued(v, toEnb', "toEnb")
  BY <1>1, <1>2, AppendQueued DEF Whereabouts
<1>4. Datagrams \ sent' = OfKind(v, "unsent")
  <2>1. OfKind(v, "unsent") = OfKind(w, "unsent") \ {d}
    BY DEF Moved, OfKind
  <2> HIDE DEF v
  <2> QED
    BY <1>1, <2>1 DEF Whereabouts
<1>5. \A kind : kind \notin {"unsent", "toEnb"} => Keeps(w, v, kind)
  BY <1>2, MovedRest
<1>6. v \in Maps
  <2>1. <<"toEnb", master>> \in Slots
    BY DEF Slots
  <2> QED
    BY <2>1, MovedType
<1> HIDE DEF v
<1> QED
  BY <1>1, <1>3, <1>4, <1>5, <1>6, PlacedLater DEF queueVars

LEMMA FromIpEnbPlaced ==
  ASSUME HoTypeOK, NEW w \in Maps, Whereabouts(w), FromIpEnb
  PROVE  Placed'
<1> USE QueuesTyped
<1>1. PICK e \in Enbs :
        /\ toEnb[e] # <<>>
        /\ toEnb' = [toEnb EXCEPT ![e] = Tail(toEnb[e])]
        /\ \/ Tunnelled(Head(toEnb[e]), e) \/ Held(Head(toEnb[e]), e)
           \/ PassedDown(Head(toEnb[e]), e) \/ Misdirected(Head(toEnb[e]), e)
        /\ UNCHANGED <<sent, hoFromX2, air, received, lost>>
  BY DEF FromIpEnb, endVars
<1> DEFINE d == Head(toEnb[e])
<1>2. ASSUME NEW to, NEW at, to # "toEnb"
      PROVE  /\ {d} \subseteq OfKind(w, "toEnb")
             /\ Queued(Moved(w, {d}, to, at), toEnb', "toEnb")
  <2>1. Queued(w, toEnb, "toEnb")
    BY DEF Whereabouts
  <2> QED
    BY <1>1, <1>2, <2>1, TailQueued, ThoseOfKind
<1>3. d \in OfKind(w, "toEnb")
  <2>1. "x2Data" # "toEnb"
    OBVIOUS
  <2>2. {d} \subseteq OfKind(w, "toEnb")
    BY <1>2, <2>1
  <2> QED
    BY <2>2
<1> HIDE DEF d
<1>4. CASE Tunnelled(d, e)
  <2>1. /\ forwarding[e] \in Enbs
        /\ x2Data' = [x2Data EXCEPT ![forwarding[e]] = Append(x2Data[forwarding[e]], d)]
        /\ UNCHANGED <<hoFromIp, stack, misdirected>>
    BY <1>4 DEF Tunnelled, ForwardDataToTargetEnb
  <2> DEFINE v == Moved(w, {d}, "x2Data", forwarding[e])
  <2>2. Queued(v, toEnb', "toEnb")
    BY <1>2
  <2>3. Queued(v, x2Data', "x2Data")
    BY <1>3, <2>1, AppendQueued DEF Whereabouts
  <2>4. \A kind : kind \notin {"toEnb", "x2Data"} => Keeps(w, v, kind)
    BY <1>3, MovedRest
  <2>5. v \in Maps
    <3>1. <<"x2Data", forwarding[e]>> \in Slots
      BY <2>1 DEF Slots
    <3> QED
      BY <3>1, MovedType
  <2> HIDE DEF v
  <2> QED
    BY <1>1, <2>1, <2>2, <2>3, <2>4, <2>5, PlacedLater
<1>5. CASE Held(d, e)
  <2>1. /\ hoFromIp' = [hoFromIp EXCEPT ![e] = Append(hoFromIp[e], d)]
        /\ UNCHANGED <<x2Data, stack, misdirected>>
    BY <1>5 DEF Held
  <2> DEFINE v == Moved(w, {d}, "hoFromIp", e)
  <2>2. Queued(v, toEnb', "toEnb")
    BY <1>2
  <2>3. Queued(v, hoFromIp', "hoFromIp")
    BY <1>3, <2>1, AppendQueued DEF Whereabouts
  <2>4. \A kind : kind \notin {"toEnb", "hoFromIp"} => Keeps(w, v, kind)
    BY <1>3, MovedRest
  <2>5. v \in Maps
    <3>1. <<"hoFromIp", e>> \in Slots
      BY DEF Slots
    <3> QED
      BY <3>1, MovedType
  <2> HIDE DEF v
  <2> QED
    BY <1>1, <2>1, <2>2, <2>3, <2>4, <2>5, PlacedLater
<1>6. CASE PassedDown(d, e)
  <2>1. /\ stack' = [stack EXCEPT ![e] = Append(stack[e], d)]
        /\ UNCHANGED <<x2Data, hoFromIp, misdirected>>
    BY <1>6 DEF PassedDown
  <2> DEFINE v == Moved(w, {d}, "stack", e)
  <2>2. Queued(v, toEnb', "toEnb")
    BY <1>2
  <2>3. Queued(v, stack', "stack")
    BY <1>3, <2>1, AppendQueued DEF Whereabouts
  <2>4. \A kind : kind \notin {"toEnb", "stack"} => Keeps(w, v, kind)
    BY <1>3, MovedRest
  <2>5. v \in Maps
    <3>1. <<"stack", e>> \in Slots
      BY DEF Slots
    <3> QED
      BY <3>1, MovedType
  <2> HIDE DEF v
  <2> QED
    BY <1>1, <2>1, <2>2, <2>3, <2>4, <2>5, PlacedLater
<1>7. CASE Misdirected(d, e)
  <2>1. /\ misdirected' = [misdirected EXCEPT ![e] = Append(misdirected[e], d)]
        /\ UNCHANGED <<x2Data, hoFromIp, stack>>
    BY <1>7 DEF Misdirected
  <2> DEFINE v == Moved(w, {d}, "misdirected", e)
  <2>2. Queued(v, toEnb', "toEnb")
    BY <1>2
  <2>3. Queued(v, misdirected', "misdirected")
    BY <1>3, <2>1, AppendQueued DEF Whereabouts
  <2>4. \A kind : kind \notin {"toEnb", "misdirected"} => Keeps(w, v, kind)
    BY <1>3, MovedRest
  <2>5. v \in Maps
    <3>1. <<"misdirected", e>> \in Slots
      BY DEF Slots
    <3> QED
      BY <3>1, MovedType
  <2> HIDE DEF v
  <2> QED
    BY <1>1, <2>1, <2>2, <2>3, <2>4, <2>5, PlacedLater
<1> QED
  BY <1>1, <1>4, <1>5, <1>6, <1>7 DEF d

LEMMA ReceiveTunneledPlaced ==
  ASSUME HoTypeOK, NEW w \in Maps, Whereabouts(w), ReceiveTunneled
  PROVE  Placed'
<1> USE QueuesTyped
<1>1. PICK e \in Enbs :
        /\ x2Data[e] # <<>>
        /\ x2Data' = [x2Data EXCEPT ![e] = Tail(x2Data[e])]
        /\ hoFromX2' = [hoFromX2 EXCEPT ![e] = Append(hoFromX2[e], Head(x2Data[e]))]
        /\ UNCHANGED <<sent, toEnb, hoFromIp, stack, misdirected, air, received, lost>>
  BY DEF ReceiveTunneled, endVars
<1> DEFINE d == Head(x2Data[e])
           v == Moved(w, {d}, "hoFromX2", e)
<1>2. d \in Those(w, "x2Data", e) /\ Queued(v, x2Data', "x2Data")
  <2>1. Queued(w, x2Data, "x2Data") /\ "hoFromX2" # "x2Data"
    BY DEF Whereabouts
  <2> QED
    BY <1>1, <2>1, TailQueued
<1>3. d \in OfKind(w, "x2Data")
  BY <1>2, ThoseOfKind
<1>4. hoFromX2' = [hoFromX2 EXCEPT ![e] = Append(hoFromX2[e], d)]
  BY <1>1
<1> HIDE DEF d
<1>5. Queued(v, hoFromX2', "hoFromX2")
  BY <1>3, <1>4, AppendQueued DEF Whereabouts
<1>6. \A kind : kind \notin {"x2Data", "hoFromX2"} => Keeps(w, v, kind)
  BY <1>3, MovedRest
<1>7. v \in Maps
  <2>1. <<"hoFromX2", e>> \in Slots
    BY DEF Slots
  <2> QED
    BY <2>1, MovedType
<1> HIDE DEF v
<1> QED
  BY <1>1, <1>2, <1>5, <1>6, <1>7, PlacedLater

LEMMA OtherUeCompletesPlaced ==
  ASSUME HoTypeOK, NEW w \in Maps, Whereabouts(w), OtherUeCompletes
  PROVE  Placed'
<1> USE QueuesTyped
<1>1. PICK e \in Enbs :
        /\ \/ /\ stack' = [stack EXCEPT ![e] = stack[e] \o hoFromX2[e] \o hoFromIp[e]]
              /\ UNCHANGED misdirected
           \/ /\ misdirected' =
                   [misdirected EXCEPT ![e] = misdirected[e] \o hoFromX2[e] \o hoFromIp[e]]
              /\ UNCHANGED stack
        /\ hoFromX2' = [hoFromX2 EXCEPT ![e] = <<>>]
        /\ hoFromIp' = [hoFromIp EXCEPT ![e] = <<>>]
        /\ UNCHANGED <<sent, toEnb, x2Data, air, received, lost>>
  BY DEF OtherUeCompletes, FlushedAt, endVars
<1>2. CASE /\ stack' = [stack EXCEPT ![e] = stack[e] \o hoFromX2[e] \o hoFromIp[e]]
           /\ UNCHANGED misdirected
  <2>1. PICK v \in Maps : FlushedTo(w, v, hoFromX2, hoFromIp, stack, "stack", e)
    BY FlushedQueued DEF Whereabouts
  <2>2. /\ Queued(v, hoFromX2', "hoFromX2") /\ Queued(v, hoFromIp', "hoFromIp")
        /\ Queued(v, stack', "stack")
        /\ \A kind : kind \notin {"hoFromX2", "hoFromIp", "stack"} => Keeps(w, v, kind)
    BY <1>1, <1>2, <2>1 DEF FlushedTo
  <2> QED
    BY <1>1, <1>2, <2>2, PlacedLater
<1>3. CASE /\ misdirected' =
                [misdirected EXCEPT ![e] = misdirected[e] \o hoFromX2[e] \o hoFromIp[e]]
           /\ UNCHANGED stack
  <2>1. PICK v \in Maps :
          FlushedTo(w, v, hoFromX2, hoFromIp, misdirected, "misdirected", e)
    BY FlushedQueued DEF Whereabouts
  <2>2. /\ Queued(v, hoFromX2', "hoFromX2") /\ Queued(v, hoFromIp', "hoFromIp")
        /\ Queued(v, misdirected', "misdirected")
        /\ \A kind : kind \notin {"hoFromX2", "hoFromIp", "misdirected"} => Keeps(w, v, kind)
    BY <1>1, <1>3, <2>1 DEF FlushedTo
  <2> QED
    BY <1>1, <1>3, <2>2, PlacedLater
<1> QED
  BY <1>1, <1>2, <1>3

LEMMA EnbTransmitsPlaced ==
  ASSUME HoTypeOK, NEW w \in Maps, Whereabouts(w), EnbTransmits
  PROVE  Placed'
<1>1. PICK e \in Enbs :
        /\ stack[e] # <<>>
        /\ stack' = [stack EXCEPT ![e] = Tail(stack[e])]
        /\ air' = air \cup {[datagram |-> Head(stack[e]), from |-> e]}
        /\ UNCHANGED <<sent, toEnb, x2Data, hoFromX2, hoFromIp, misdirected, received, lost>>
  BY DEF EnbTransmits, endVars
<1> DEFINE d == Head(stack[e])
           v == Moved(w, {d}, "air", e)
<1>2. d \in Those(w, "stack", e) /\ Queued(v, stack', "stack")
  <2>1. Queued(w, stack, "stack") /\ "air" # "stack"
    BY DEF Whereabouts
  <2> QED
    BY <1>1, <2>1, TailQueued, QueuesTyped
<1>3. d \in OfKind(w, "stack")
  BY <1>2, ThoseOfKind
<1>4. air' = air \cup {[datagram |-> d, from |-> e]}
  BY <1>1
<1> HIDE DEF d
<1>5. OnAir(v, air')
  <2>1. d \in Datagrams /\ \A f : w[d] # <<"air", f>>
    BY <1>3 DEF OfKind
  <2>2. \A c \in Datagrams : v[c] = IF c = d THEN <<"air", e>> ELSE w[c]
    BY DEF Moved
  <2> HIDE DEF v
  <2>3. \A c \in Datagrams, f \in Enbs :
          c \in Those(v, "air", f) <=> c \in Those(w, "air", f) \/ (c = d /\ f = e)
    <3> SUFFICES ASSUME NEW c \in Datagrams, NEW f \in Enbs
                 PROVE  v[c] = <<"air", f>> <=> w[c] = <<"air", f>> \/ (c = d /\ f = e)
      BY DEF Those
    <3>1. CASE c = d
      <4>1. v[c] = <<"air", e>> /\ w[c] # <<"air", f>>
        BY <2>1, <2>2, <3>1
      <4>2. <<"air", e>> = <<"air", f>> <=> f = e
        OBVIOUS
      <4> QED
        BY <3>1, <4>1, <4>2, Zenon
    <3>2. CASE c # d
      BY <2>2, <3>2
    <3> QED
      BY <3>1, <3>2
  <2>4. \A c \in Datagrams, f \in Enbs :
          [datagram |-> c, from |-> f] \in air'
            <=> [datagram |-> c, from |-> f] \in air \/ (c = d /\ f = e)
    BY <1>4
  <2>5. OnAir(w, air)
    BY DEF Whereabouts
  <2> QED
    BY <2>3, <2>4, <2>5 DEF OnAir
<1>6. \A kind : kind \notin {"stack", "air"} => Keeps(w, v, kind)
  BY <1>3, MovedRest
<1>7. v \in Maps
  <2>1. <<"air", e>> \in Slots
    BY DEF Slots
  <2> QED
    BY <2>1, MovedType
<1> HIDE DEF v
<1> QED
  BY <1>1, <1>2, <1>5, <1>6, <1>7, PlacedLater

LEMMA FrameArrivesPlaced ==
  ASSUME HoTypeOK, NEW w \in Maps, Whereabouts(w), FrameArrives
  PROVE  Placed'
<1>1. PICK f \in air :
        /\ air' = air \ {f}
        /\ \/ received' = received \cup {f.datagram} /\ UNCHANGED lost
           \/ lost' = lost \cup {f.datagram} /\ UNCHANGED received
        /\ UNCHANGED <<sent, toEnb, x2Data, queueVars>>
  BY DEF FrameArrives
<1>2. PICK d \in Datagrams, e \in Enbs : f = [datagram |-> d, from |-> e]
  BY DEF HoTypeOK, PathTypeOK
<1>3. w[d] = <<"air", e>> /\ d \in OfKind(w, "air") /\ f.datagram = d
  BY <1>2 DEF Whereabouts, OnAir, Those, OfKind
<1>4. ASSUME NEW kind
      PROVE  OnAir(Moved(w, {d}, kind, NoEnb), air')
  <2> DEFINE v == Moved(w, {d}, kind, NoEnb)
  <2>1. \A c \in Datagrams : v[c] = IF c = d THEN <<kind, NoEnb>> ELSE w[c]
    BY DEF Moved
  <2>2. OnAir(w, air)
    BY DEF Whereabouts
  <2> HIDE DEF v
  <2>3. \A c \in Datagrams, g \in Enbs :
          [datagram |-> c, from |-> g] \in air'
            <=> [datagram |-> c, from |-> g] \in air /\ ~(c = d /\ g = e)
    BY <1>1, <1>2
  <2>4. \A c \in Datagrams, g \in Enbs :
          c \in Those(v, "air", g) <=> c \in Those(w, "air", g) /\ ~(c = d /\ g = e)
    <3> SUFFICES ASSUME NEW c \in Datagrams, NEW g \in Enbs
                 PROVE  v[c] = <<"air", g>> <=> w[c] = <<"air", g>> /\ ~(c = d /\ g = e)
      BY DEF Those
    <3>1. CASE c = d
      <4>1. v[c] # <<"air", g>>
        BY <2>1, <3>1, HoPathAssumption
      <4>2. w[c] = <<"air", g>> => g = e
        BY <1>3, <3>1
      <4> QED
        BY <3>1, <4>1, <4>2, Zenon
    <3>2. CASE c # d
      BY <2>1, <3>2
    <3> QED
      BY <3>1, <3>2
  <2>5. OnAir(v, air')
    BY <2>2, <2>3, <2>4 DEF OnAir
  <2> QED
    BY <2>5 DEF v
<1>5. ASSUME NEW kind, kind \in {"received", "lost"}
      PROVE  /\ Moved(w, {d}, kind, NoEnb) \in Maps
             /\ \A other : other \notin {"air", kind}
                            => Keeps(w, Moved(w, {d}, kind, NoEnb), other)
             /\ OfKind(Moved(w, {d}, kind, NoEnb), kind) = OfKind(w, kind) \cup {d}
  <2>1. <<kind, NoEnb>> \in Slots
    BY <1>5 DEF Slots
  <2>2. OfKind(Moved(w, {d}, kind, NoEnb), kind) = OfKind(w, kind) \cup {d}
    BY <1>3 DEF Moved, OfKind
  <2>3. {d} \subseteq OfKind(w, "air")
    BY <1>3
  <2> QED
    BY <2>1, <2>2, <2>3, MovedType, MovedRest
<1>6. CASE received' = received \cup {f.datagram} /\ UNCHANGED lost
  <2> DEFINE v == Moved(w, {d}, "received", NoEnb)
  <2>1. /\ v \in Maps /\ OnAir(v, air')
        /\ OfKind(v, "received") = OfKind(w, "received") \cup {d}
        /\ \A other : other \notin {"air", "received"} => Keeps(w, v, other)
    BY <1>4, <1>5
  <2> HIDE DEF v
  <2>2. received' = OfKind(v, "received")
    BY <1>3, <1>6, <2>1 DEF Whereabouts
  <2> QED
    BY <1>1, <1>6, <2>1, <2>2, PlacedLater DEF queueVars
<1>7. CASE lost' = lost \cup {f.datagram} /\ UNCHANGED received
  <2> DEFINE v == Moved(w, {d}, "lost", NoEnb)
  <2>1. /\ v \in Maps /\ OnAir(v, air')
        /\ OfKind(v, "lost") = OfKind(w, "lost") \cup {d}
        /\ \A other : other \notin {"air", "lost"} => Keeps(w, v, other)
    BY <1>4, <1>5
  <2> HIDE DEF v
  <2>2. lost' = OfKind(v, "lost")
    BY <1>3, <1>7, <2>1 DEF Whereabouts
  <2> QED
    BY <1>1, <1>7, <2>1, <2>2, PlacedLater DEF queueVars
<1> QED
  BY <1>1, <1>6, <1>7

LEMMA DoHandoverPlaced ==
  ASSUME HoIInv, NEW w \in Maps, Whereabouts(w), DoHandover
  PROVE  Placed'
<1> DEFINE dropped == Those(w, "stack", master)
           cleared == [stack EXCEPT ![master] = <<>>]
           down == stack[candidate] \o hoFromX2[candidate] \o hoFromIp[candidate]
<1>1. /\ stack' = [stack EXCEPT ![master] = <<>>, ![candidate] = down]
      /\ lost' = lost \cup Range(stack[master])
      /\ hoFromX2' = [hoFromX2 EXCEPT ![candidate] = <<>>]
      /\ hoFromIp' = [hoFromIp EXCEPT ![candidate] = <<>>]
      /\ UNCHANGED <<sent, toEnb, x2Data, misdirected, air, received>>
  BY DEF DoHandover, CompleteHandover, FlushedAt
<1>2. HoTypeOK /\ candidate # master
  BY DEF DoHandover, PhyDoHandover, HoIInv, Levels
<1> USE <1>2, QueuesTyped
<1>3. PICK u : u = Moved(w, dropped, "lost", NoEnb)
  OBVIOUS
<1>4. u \in Maps
  <2>1. <<"lost", NoEnb>> \in Slots
    BY DEF Slots
  <2> QED
    BY <1>3, <2>1, MovedType
<1>5. dropped \subseteq OfKind(w, "stack")
  BY ThoseOfKind
<1>6. \A kind : kind \notin {"stack", "lost"} => Keeps(w, u, kind)
  <2> HIDE DEF dropped
  <2> QED
    BY <1>3, <1>5, MovedRest
<1>7. Queued(u, cleared, "stack")
  <2>1. Queued(w, stack, "stack") /\ "lost" # "stack"
    BY DEF Whereabouts
  <2> QED
    BY <1>3, <2>1, EmptiedQueued
<1>8. OfKind(u, "lost") = lost'
  <2>1. Range(stack[master]) = dropped
    <3>1. Lists(stack[master], dropped)
      BY DEF Whereabouts, Queued
    <3>2. /\ stack[master] \in Seq(dropped)
          /\ \A d \in dropped : \E i \in 1 .. Len(stack[master]) : stack[master][i] = d
      BY <3>1, Zenon DEF Lists
    <3>3. Range(stack[master]) = {stack[master][i] : i \in 1 .. Len(stack[master])}
      BY <3>2, RangeEquality
    <3>4. \A i \in 1 .. Len(stack[master]) : stack[master][i] \in dropped
      BY <3>2, ElementOfSeq
    <3> HIDE DEF dropped
    <3> QED
      BY <3>2, <3>3, <3>4
  <2>2. OfKind(u, "lost") = OfKind(w, "lost") \cup dropped
    <3> HIDE DEF dropped
    <3> QED
      BY <1>3, <1>5 DEF Moved, OfKind
  <2> QED
    BY <1>1, <2>1, <2>2 DEF Whereabouts
<1>9. Queued(u, hoFromX2, "hoFromX2") /\ Queued(u, hoFromIp, "hoFromIp")
  BY <1>6, KeepsQueued DEF Whereabouts
<1>10. cleared \in [Enbs -> Seq(Datagrams)]
  OBVIOUS
<1>11. stack' = [cleared EXCEPT ![candidate] =
                   cleared[candidate] \o hoFromX2[candidate] \o hoFromIp[candidate]]
  BY <1>1
<1> HIDE DEF cleared, dropped, down
<1>12. PICK v \in Maps : FlushedTo(u, v, hoFromX2, hoFromIp, cleared, "stack", candidate)
  BY <1>4, <1>7, <1>9, <1>10, FlushedQueued
<1>12a. /\ Queued(v, hoFromX2', "hoFromX2") /\ Queued(v, hoFromIp', "hoFromIp")
        /\ Queued(v, stack', "stack")
        /\ \A kind : kind \notin {"hoFromX2", "hoFromIp", "stack"} => Keeps(u, v, kind)
  BY <1>1, <1>11, <1>12, Zenon DEF FlushedTo
<1>13. lost' = OfKind(v, "lost")
  <2>1. Keeps(u, v, "lost")
    BY <1>12a
  <2> QED
    BY <1>8, <2>1, KeepsOfKind
<1>14. \A kind : kind \notin {"hoFromX2", "hoFromIp", "stack", "lost"} => Keeps(w, v, kind)
  BY <1>6, <1>12a DEF Keeps
<1> QED
  BY <1>1, <1>12a, <1>13, <1>14, PlacedLater

LEMMA InitPlaced == Init => Placed
<1> SUFFICES ASSUME Init PROVE Placed
  OBVIOUS
<1> DEFINE v == [d \in Datagrams |-> <<"unsent", NoEnb>>]
<1>1. /\ sent = {} /\ air = {} /\ received = {} /\ lost = {}
      /\ toEnb = NoDatagrams /\ x2Data = NoDatagrams
      /\ hoFromX2 = NoDatagrams /\ hoFromIp = NoDatagrams
      /\ stack = NoDatagrams /\ misdirected = NoDatagrams
  BY DEF Init, PathInit
<1>2. v \in Maps
  BY DEF Maps, Slots
<1>3. \A kind, e : kind # "unsent" => Those(v, kind, e) = {} /\ OfKind(v, kind) = {}
  BY DEF Those, OfKind
<1>4. OfKind(v, "unsent") = Datagrams
  BY DEF OfKind
<1> HIDE DEF v
<1>5. ASSUME NEW kind, kind # "unsent"
      PROVE  Queued(v, NoDatagrams, kind)
  <2>1. \A e \in Enbs : Those(v, kind, e) = {}
    BY <1>3, <1>5
  <2> QED
    BY <2>1, ListsNothing DEF Queued, NoDatagrams
<1>6. OnAir(v, air)
  BY <1>1, <1>3 DEF OnAir
<1>7. /\ Queued(v, toEnb, "toEnb") /\ Queued(v, x2Data, "x2Data")
      /\ Queued(v, hoFromX2, "hoFromX2") /\ Queued(v, hoFromIp, "hoFromIp")
      /\ Queued(v, stack, "stack") /\ Queued(v, misdirected, "misdirected")
  BY <1>1, <1>5
<1>8. /\ received = OfKind(v, "received") /\ lost = OfKind(v, "lost")
      /\ Datagrams \ sent = OfKind(v, "unsent")
  BY <1>1, <1>3, <1>4
<1> QED
  BY <1>2, <1>6, <1>7, <1>8 DEF Placed, Whereabouts

LEMMA NextPlaced == HoIInv /\ Placed /\ [Next]_vars => Placed'
<1> SUFFICES ASSUME HoIInv, Placed, [Next]_vars PROVE Placed'
  OBVIOUS
<1>1. HoTypeOK
  BY DEF HoIInv
<1>2. PICK w \in Maps : Whereabouts(w)
  BY DEF Placed
<1>3. ASSUME UNCHANGED <<sent, toEnb, x2Data, queueVars, air, received, lost>>
      PROVE  Placed'
  <2>1. \A kind : Keeps(w, w, kind)
    BY DEF Keeps
  <2> QED
    BY <1>2, <1>3, <2>1, PlacedLater DEF queueVars
<1>4. CASE Decide
  BY <1>3, <1>4 DEF Decide, pathVars, endVars
<1>5. CASE TriggerHandover
  BY <1>3, <1>5 DEF TriggerHandover, TriggerHandoverSource, endVars
<1>6. CASE DoHandover
  BY <1>2, <1>6, DoHandoverPlaced
<1>7. CASE DatagramStep
  <2>1. GatewaySends \/ FromIpEnb \/ ReceiveTunneled \/ OtherUeCompletes \/ EnbTransmits
          \/ FrameArrives \/ ScheduleMisdirected
    BY <1>7 DEF DatagramStep
  <2>2. CASE ScheduleMisdirected
    BY <1>3, <2>2 DEF ScheduleMisdirected
  <2> QED
    BY <1>1, <1>2, <2>1, <2>2, GatewaySendsPlaced, FromIpEnbPlaced, ReceiveTunneledPlaced,
       OtherUeCompletesPlaced, EnbTransmitsPlaced, FrameArrivesPlaced
<1>8. CASE CommandArrives
  BY <1>3, <1>8 DEF CommandArrives, StartArrives, CompleteArrives, endVars
<1>9. CASE UNCHANGED vars
  BY <1>3, <1>9 DEF vars, pathVars, endVars
<1> QED
  BY <1>4, <1>5, <1>6, <1>7, <1>8, <1>9 DEF Next

-----------------------------------------------------------------------------
(***************************************************************************)
(* A map of the datagrams leaves one place for each.                       *)
(***************************************************************************)

LEMMA PlacesInQueue ==
  ASSUME NEW w \in Maps, NEW queue \in [Enbs -> Seq(Datagrams)], NEW d \in Datagrams,
         NEW kind \in {"toEnb", "x2Data", "hoFromX2", "hoFromIp", "stack", "misdirected"},
         Queued(w, queue, kind)
  PROVE  PlacesIn(queue, d) = IF w[d][1] = kind THEN 1 ELSE 0
<1>1. \A e \in Enbs :
        queue[e] \in Seq(Those(w, kind, e)) /\ DOMAIN queue[e] = 1 .. Len(queue[e])
  BY LenProperties DEF Queued, Lists
<1>2. \A e \in Enbs : \A i \in DOMAIN queue[e] : queue[e][i] \in Those(w, kind, e)
  BY <1>1, ElementOfSeq
<1>3. \A p \in PlacesOf(queue, d) :
        /\ p[1] \in Enbs /\ p[2] \in DOMAIN queue[p[1]] /\ p = <<p[1], p[2]>>
        /\ queue[p[1]][p[2]] = d
  BY DEF PlacesOf
<1>4. \A e \in Enbs : \A i \in DOMAIN queue[e] :
        queue[e][i] = d => <<e, i>> \in PlacesOf(queue, d)
  BY DEF PlacesOf
<1>5. CASE w[d][1] = kind
  <2>1. PICK e \in Enbs : w[d] = <<kind, e>>
    BY <1>5 DEF Maps, Slots
  <2>2. PICK i \in 1 .. Len(queue[e]) : queue[e][i] = d
    BY <2>1 DEF Queued, Lists, Those
  <2>3. <<e, i>> \in PlacesOf(queue, d)
    BY <1>1, <1>4, <2>2
  <2>4. ASSUME NEW p \in PlacesOf(queue, d)
        PROVE  p = <<e, i>>
    <3>1. d \in Those(w, kind, p[1])
      BY <1>2, <1>3
    <3>2. p[1] = e
      BY <2>1, <3>1 DEF Those
    <3>3. p[2] \in 1 .. Len(queue[e]) /\ queue[e][p[2]] = d
      BY <1>1, <1>3, <3>2
    <3>4. p[2] = i
      BY <2>2, <3>3 DEF Queued, Lists
    <3> QED
      BY <1>3, <3>2, <3>4
  <2>5. PlacesOf(queue, d) = {<<e, i>>}
    BY <2>3, <2>4
  <2> QED
    BY <1>5, <2>5, FS_Singleton DEF PlacesIn
<1>6. CASE w[d][1] # kind
  <2>1. \A e : d \notin Those(w, kind, e)
    BY <1>6 DEF Those
  <2>2. PlacesOf(queue, d) = {}
    BY <1>2, <1>3, <2>1
  <2> QED
    BY <1>6, <2>2, FS_EmptySet DEF PlacesIn
<1> QED
  BY <1>5, <1>6

LEMMA PlacedInOnePlace == HoTypeOK /\ Placed => InOnePlace
<1> SUFFICES ASSUME HoTypeOK, Placed, NEW d \in Datagrams
             PROVE  Places(d) = IF d \in sent THEN 1 ELSE 0
  BY DEF InOnePlace
<1>1. PICK w \in Maps : Whereabouts(w)
  BY DEF Placed
<1> USE <1>1
<1> DEFINE kind == w[d][1]
           In(k) == IF kind = k THEN 1 ELSE 0
<1>2. PlacesIn(toEnb, d) = In("toEnb") /\ PlacesIn(x2Data, d) = In("x2Data")
  BY PlacesInQueue, QueuesTyped DEF Whereabouts
<1>3. PlacesIn(hoFromX2, d) = In("hoFromX2") /\ PlacesIn(hoFromIp, d) = In("hoFromIp")
  BY PlacesInQueue, QueuesTyped DEF Whereabouts
<1>4. PlacesIn(stack, d) = In("stack") /\ PlacesIn(misdirected, d) = In("misdirected")
  BY PlacesInQueue, QueuesTyped DEF Whereabouts
<1>5. Cardinality({f \in air : f.datagram = d}) = In("air")
  <2>1. \A f \in air : f \in [datagram : Datagrams, from : Enbs]
                         /\ f = [datagram |-> f.datagram, from |-> f.from]
    <3>1. air \subseteq [datagram : Datagrams, from : Enbs]
      BY Zenon DEF HoTypeOK, PathTypeOK
    <3>2. \A f \in [datagram : Datagrams, from : Enbs] :
            f = [datagram |-> f.datagram, from |-> f.from]
      OBVIOUS
    <3> QED
      BY <3>1, <3>2, Zenon
  <2>2. \A e \in Enbs : [datagram |-> d, from |-> e] \in air <=> w[d] = <<"air", e>>
    BY DEF Whereabouts, OnAir, Those
  <2>3. CASE kind = "air"
    <3>1. PICK e \in Enbs : w[d] = <<"air", e>>
      <4>1. w[d] \in Slots /\ w[d][1] = "air"
        BY <2>3 DEF Maps
      <4>2. \A slot \in Slots : slot[1] = "air" => \E e \in Enbs : slot = <<"air", e>>
        BY DEF Slots
      <4> QED
        BY <4>1, <4>2, Zenon
    <3>2. {f \in air : f.datagram = d} = {[datagram |-> d, from |-> e]}
      BY <2>1, <2>2, <3>1
    <3> QED
      BY <2>3, <3>2, FS_Singleton
  <2>4. CASE kind # "air"
    <3>1. {f \in air : f.datagram = d} = {}
      BY <2>1, <2>2, <2>4
    <3> QED
      BY <2>4, <3>1, FS_EmptySet
  <2> QED
    BY <2>3, <2>4
<1>6. Cardinality({d} \cap received) = In("received")
  <2>1. {d} \cap received = IF kind = "received" THEN {d} ELSE {}
    BY DEF Whereabouts, OfKind
  <2> QED
    BY <2>1, FS_Singleton, FS_EmptySet
<1>7. Cardinality({d} \cap lost) = In("lost")
  <2>1. {d} \cap lost = IF kind = "lost" THEN {d} ELSE {}
    BY DEF Whereabouts, OfKind
  <2> QED
    BY <2>1, FS_Singleton, FS_EmptySet
<1>8. d \in sent <=> kind # "unsent"
  BY DEF Whereabouts, OfKind
<1>9. kind \in {"toEnb", "x2Data", "hoFromX2", "hoFromIp", "stack", "misdirected", "air",
                "unsent", "received", "lost"}
  BY DEF Maps, Slots
<1> HIDE DEF kind
<1>10. Places(d) = In("toEnb") + In("x2Data") + In("hoFromX2") + In("hoFromIp") + In("stack")
                     + In("misdirected") + In("air") + In("received") + In("lost")
  BY <1>2, <1>3, <1>4, <1>5, <1>6, <1>7 DEF Places
<1> QED
  BY <1>8, <1>9, <1>10

\* No datagram is duplicated or forgotten: whatever queues a handover, or the
\* completion of another UE's, empties, each that the gateway sent is in one queue
\* (that of a connection to another eNodeB, where one that is not the master passed
\* it down), in one frame, received, or counted as lost with the stack of the old
\* master or a frame that came from an eNodeB other than the master.
THEOREM NoneForgotten == Spec => []InOnePlace
<1>1. Init => Placed
  BY InitPlaced
<1>2. HoIInv /\ Placed /\ [Next]_vars => Placed'
  BY NextPlaced
<1>3. HoIInv /\ Placed => InOnePlace
  BY PlacedInOnePlace DEF HoIInv
<1> QED
  BY <1>1, <1>2, <1>3, HoInductive, PTL DEF Spec
=============================================================================
