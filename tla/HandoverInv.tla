---------------------------- MODULE HandoverInv -----------------------------
(***************************************************************************)
(* The inductive invariant of Handover, in its parts.                      *)
(***************************************************************************)
EXTENDS Handover

\* What the decision of the PHY rests on: the master was never heard louder than
\* the candidate's level is remembered, and a candidate whose master is still to
\* be heard in this turn is remembered with the level it was chosen at.
Levels ==
  /\ masterRssi <= candidateRssi
  /\ starter /\ master \in toHear => candidateRssi = chosenAt
  /\ trigger => candidate # master

\* While the UE hands over, only the command that announces it can be in
\* transit, and at other times only completions, unless commands were outrun.
CommandsInTime ==
  ~outrun =>
    \A c \in x2Control : IF trigger THEN c.type = "start" /\ c.to = candidate
                         ELSE c.type = "complete"

\* Only an eNodeB with the UE in hoHolding_ has datagrams in hoFromIp_, and the
\* UE is in hoHolding_ because it is on its way there, or was when the "start" left.
HeldForArrival ==
  /\ \A e \in Enbs : hoFromIp[e] # <<>> => e \in holding
  /\ \A e \in holding : (trigger /\ e = candidate) \/ e \in startedLate

\* The queues of RLC and MAC have nothing under the id of a UE but at its master:
\* deleteOldBuffers emptied those of the masters before.
OnlyMasterSends == \A e \in Enbs : stack[e] # <<>> => e = master

HoIInv ==
  /\ HoTypeOK
  /\ StarterHasTarget
  /\ NotForMuchWeaker
  /\ Levels
  /\ NoTunnelLeft
  /\ CommandsInTime
  /\ PathFollowsHandover
  /\ HeldForArrival
  /\ OnlyMasterSends

-----------------------------------------------------------------------------
(***************************************************************************)
(* Where each datagram is: w maps it to a kind of place and an eNodeB.     *)
(***************************************************************************)
Slots == ({"toEnb", "x2Data", "hoFromX2", "hoFromIp", "stack", "misdirected", "air"}
             \X Enbs)
           \cup ({"unsent", "received", "lost"} \X {NoEnb})

Maps == [Datagrams -> Slots]

\* The datagrams that w maps to a place, and to a kind of place.
Those(w, kind, e) == {d \in Datagrams : w[d] = <<kind, e>>}
OfKind(w, kind) == {d \in Datagrams : w[d][1] = kind}

\* A queue lists a set: it holds its elements, each once.
Lists(q, S) ==
  /\ q \in Seq(S)
  /\ \A i, j \in 1 .. Len(q) : q[i] = q[j] => i = j
  /\ \A d \in S : \E i \in 1 .. Len(q) : q[i] = d

\* The queues of the eNodeBs hold what w says.
Queued(w, queue, kind) == \A e \in Enbs : Lists(queue[e], Those(w, kind, e))

OnAir(w, frames) ==
  \A d \in Datagrams, e \in Enbs :
    [datagram |-> d, from |-> e] \in frames <=> d \in Those(w, "air", e)

\* w tells where the datagrams are.
Whereabouts(w) ==
  /\ Queued(w, toEnb, "toEnb") /\ Queued(w, x2Data, "x2Data")
  /\ Queued(w, hoFromX2, "hoFromX2") /\ Queued(w, hoFromIp, "hoFromIp")
  /\ Queued(w, stack, "stack") /\ Queued(w, misdirected, "misdirected")
  /\ OnAir(w, air)
  /\ received = OfKind(w, "received") /\ lost = OfKind(w, "lost")
  /\ Datagrams \ sent = OfKind(w, "unsent")

\* Each datagram is in one place.
Placed == \E w \in Maps : Whereabouts(w)
=============================================================================
