----------------------------- MODULE CainCells ------------------------------
(***************************************************************************)
(* Which cell a CAIN UE belongs to, as four places know it: the eNodeB     *)
(* nearest to it at its last feedback (EnbUe of the binder), the eNodeB it *)
(* is attached to (nextHop_ of the binder, masterId_ of its PHY, cellId_   *)
(* of its MAC), the handovers that are to bring the two together, and the  *)
(* areas in which the eNodeBs have measured it.                            *)
(* Only the one of the other three that changes is named in an action.     *)
(***************************************************************************)
EXTENDS Naturals, FiniteSets

CONSTANTS
  NumUes,              \* UEs, with LtePhyUeD2D, in the order of their modules
  Enbs,                \* the eNodeBs
  FirstEnb,            \* the one whose id every UE starts with
  Movers,              \* bound: the UEs that ever send another feedback
  MaxPhyFrames,        \* bound: feedbacks after the first of each UE, and other
                       \* frames that are measured
  MaxTriggers          \* bound: handovers of a UE that are scheduled at a time

Ues == 1 .. NumUes

ASSUME CainCellsAssumption ==
  /\ NumUes \in Nat
  /\ FirstEnb \in Enbs
  /\ Enbs \cap Ues = {}
  /\ Movers \subseteq Ues
  /\ MaxPhyFrames \in Nat /\ MaxTriggers \in Nat

VARIABLES
  enbOf,               \* EnbUe
  nextHop,             \* nextHop_, masterId_, cellId_
  candidate,           \* candidateMasterId_
  triggers,            \* messages handoverTrigger that are scheduled
  area,                \* mapUe of each eNodeB: 1 strong, 2 weak, 0 never measured
  phyFrames            \* feedbacks sent so far, and other frames measured

cellVars == <<enbOf, nextHop, candidate, triggers, area, phyFrames>>

CellsTypeOK ==
  /\ enbOf \in [Ues -> Enbs]
  /\ nextHop \in [Ues -> Enbs]
  /\ candidate \in [Ues -> Enbs]
  /\ triggers \in [Ues -> 0 .. MaxTriggers]
  /\ area \in [Enbs -> [Ues -> 0 .. 2]]
  /\ phyFrames \in 0 .. MaxPhyFrames

\* Every UE has sent its first feedback, in the cell it starts with.
CellsInit ==
  /\ enbOf = [u \in Ues |-> FirstEnb]
  /\ nextHop = enbOf /\ candidate = enbOf
  /\ triggers = [u \in Ues |-> 0]
  /\ area \in {a \in [Enbs -> [Ues -> 0 .. 2]] :
       \A e \in Enbs, u \in Ues : a[e][u] = 0 <=> enbOf[u] # e}
  /\ phyFrames = 0

-----------------------------------------------------------------------------
\* The UE of a feedback that finds eNodeB e nearest: every such feedback
\* schedules one more handover as long as the UE is not attached to e.
SendFeedback(u, e) ==
  /\ phyFrames < MaxPhyFrames
  /\ phyFrames' = phyFrames + 1
  /\ enbOf' = [enbOf EXCEPT ![u] = e]
  /\ \/ e = nextHop[u] /\ UNCHANGED <<candidate, triggers>>
     \/ /\ e # nextHop[u] /\ triggers[u] < MaxTriggers
        /\ candidate' = [candidate EXCEPT ![u] = e]
        /\ triggers' = [triggers EXCEPT ![u] = @ + 1]
  /\ UNCHANGED <<nextHop, area>>

\* Each of the scheduled handovers is executed, the last ones from a cell to itself.
CellsDoHandover(u) ==
  /\ triggers[u] > 0
  /\ triggers' = [triggers EXCEPT ![u] = @ - 1]
  /\ nextHop' = [nextHop EXCEPT ![u] = candidate[u]]
  /\ UNCHANGED <<enbOf, candidate, area, phyFrames>>

\* An eNodeB takes frames only from the UEs attached to it.
Takes(e, u) == nextHop[u] = e

\* The power of a frame is measured where it arrives: the UE that sent it, or that
\* it was sent to, is in one area or the other of the cell the binder names by then.
Measure(u) == \E a \in 1 .. 2 :
  /\ area' = [area EXCEPT ![enbOf[u]][u] = a]
  /\ UNCHANGED <<enbOf, nextHop, candidate, triggers>>

\* Any frame but a feedback: data, or a broadcast of an eNodeB.
MeasureOther(u) ==
  /\ phyFrames < MaxPhyFrames
  /\ phyFrames' = phyFrames + 1
  /\ Measure(u)

-----------------------------------------------------------------------------
\* Who may relay for u: a strong UE of the cell.  Which one is nearest, or has
\* the most social weight, is left open.
Relays(u) == {r \in Ues \ {u} : area[enbOf[u]][r] = 1}

\* Who may be a hop between u and its relay: a weak UE of the cell.
Hops(u, relay) == {h \in Ues \ {u, relay} : area[enbOf[u]][h] = 2}

NeedsRelay(u) == area[enbOf[u]][u] = 2
=============================================================================
