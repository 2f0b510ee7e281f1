------------------------------- MODULE HoPhy --------------------------------
(***************************************************************************)
(* How the PHY of a UE decides to hand over (LtePhyUe): every eNodeB       *)
(* broadcasts once in a turn, all at the same simulation time; a starter   *)
(* fires a moment after the turn in which a louder cell was heard, and the *)
(* handover itself one latency later.                                      *)
(***************************************************************************)
EXTENDS Naturals, FiniteSets

CONSTANTS
  Enbs,              \* the eNodeBs
  Rssi,              \* the levels a broadcast can be heard with
  HysteresisFactor   \* hysteresisFactor_ (10 in the code); 0: no hysteresis

ASSUME HoPhyAssumption ==
  /\ Rssi \subseteq Nat \ {0}
  /\ HysteresisFactor \in Nat

VARIABLES
  master,            \* masterId_, which is also nextHop_ of the UE in the binder
  masterRssi,        \* currentMasterRssi_
  candidate,         \* candidateMasterId_
  candidateRssi,     \* candidateMasterRssi_
  starter,           \* handoverStarter_ is scheduled
  trigger,           \* handoverTrigger_ is scheduled, and the UE in ueHandoverTriggered_
  toHear,            \* the eNodeBs whose broadcast of this turn is still to come
  chosenAt           \* the level at which the candidate was heard when it was chosen

phyVars == <<master, masterRssi, candidate, candidateRssi, starter, trigger, toHear,
             chosenAt>>

PhyTypeOK ==
  /\ master \in Enbs /\ candidate \in Enbs
  /\ masterRssi \in Rssi \cup {0}
  /\ candidateRssi \in Rssi \cup {0}
  /\ chosenAt \in Rssi \cup {0}
  /\ starter \in BOOLEAN /\ trigger \in BOOLEAN
  /\ toHear \subseteq Enbs

PhyInit ==
  /\ master \in Enbs
  /\ candidate = master
  /\ masterRssi = 0 /\ candidateRssi = 0 /\ chosenAt = 0
  /\ starter = FALSE /\ trigger = FALSE
  /\ toHear = {}

\* rssi > level + hysteresisTh_, where every assignment to candidateMasterRssi_
\* is followed by one of that level / hysteresisFactor_ to hysteresisTh_.
Louder(rssi, level) ==
  IF HysteresisFactor = 0 THEN rssi > level
  ELSE rssi * HysteresisFactor > level * (HysteresisFactor + 1)

-----------------------------------------------------------------------------
(***************************************************************************)
(* handoverHandler: the four outcomes of a broadcast of eNodeB e.          *)
(***************************************************************************)
\* Mutant: the candidate stays, and its starter.
HearLouderMasterUnheeded(e, rssi) ==
  /\ e = master /\ Louder(rssi, candidateRssi)
  /\ masterRssi' = rssi
  /\ candidateRssi' = rssi
  /\ UNCHANGED <<candidate, starter, chosenAt>>

\* Mutant: the starter is not cancelled.
HearLouderMasterUncancelled(e, rssi) ==
  /\ e = master /\ Louder(rssi, candidateRssi)
  /\ masterRssi' = rssi
  /\ candidate' = master
  /\ candidateRssi' = rssi
  /\ UNCHANGED <<starter, chosenAt>>

HearLouderMaster(e, rssi) ==
  /\ e = master /\ Louder(rssi, candidateRssi)
  /\ masterRssi' = rssi
  /\ candidate' = master
  /\ candidateRssi' = rssi
  /\ starter' = FALSE
  /\ chosenAt' = 0

HearLouderOther(e, rssi) ==
  /\ e # master /\ Louder(rssi, candidateRssi)
  /\ candidate' = e
  /\ candidateRssi' = rssi
  /\ starter' = TRUE
  /\ chosenAt' = rssi
  /\ UNCHANGED masterRssi

\* The level of the candidate is forgotten, the candidate is not.
HearMaster(e, rssi) ==
  /\ e = master /\ ~Louder(rssi, candidateRssi)
  /\ masterRssi' = rssi
  /\ candidateRssi' = rssi
  /\ UNCHANGED <<candidate, starter, chosenAt>>

HearOther(e, rssi) ==
  /\ e # master /\ ~Louder(rssi, candidateRssi)
  /\ UNCHANGED <<masterRssi, candidate, candidateRssi, starter, chosenAt>>

HandoverHandler(e, rssi) ==
  \/ HearLouderMaster(e, rssi) \/ HearLouderOther(e, rssi)
  \/ HearMaster(e, rssi) \/ HearOther(e, rssi)

\* Mutant: broadcasts are evaluated while the handover is under way.
EvaluatesAlways == TRUE

\* handleAirFrame drops broadcasts while the handover is under way.
Evaluates == ~trigger

Broadcast == \E e \in toHear, rssi \in Rssi :
  /\ toHear' = toHear \ {e}
  /\ \/ Evaluates /\ HandoverHandler(e, rssi)
     \/ ~Evaluates /\ UNCHANGED <<masterRssi, candidate, candidateRssi, starter, chosenAt>>
  /\ UNCHANGED <<master, trigger>>

\* A cell that is out of range this turn.
OutOfRange == \E e \in toHear :
  /\ toHear' = toHear \ {e}
  /\ UNCHANGED <<master, masterRssi, candidate, candidateRssi, starter, trigger, chosenAt>>

TurnOver == toHear = {}

NextTurn ==
  /\ TurnOver /\ ~starter
  /\ toHear' = Enbs
  /\ UNCHANGED <<master, masterRssi, candidate, candidateRssi, starter, trigger, chosenAt>>

-----------------------------------------------------------------------------
\* The part of triggerHandover that concerns the PHY and the binder.
PhyTrigger ==
  /\ TurnOver /\ starter
  /\ starter' = FALSE
  /\ trigger' = TRUE
  /\ UNCHANGED <<master, masterRssi, candidate, candidateRssi, toHear, chosenAt>>

\* The part of doHandover that concerns the PHY and the binder.
PhyDoHandover ==
  /\ TurnOver /\ trigger
  /\ trigger' = FALSE
  /\ master' = candidate
  /\ masterRssi' = candidateRssi
  /\ chosenAt' = 0
  /\ UNCHANGED <<candidate, candidateRssi, starter, toHear>>
=============================================================================
