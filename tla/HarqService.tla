---------------------------- MODULE HarqService -----------------------------
(***************************************************************************)
(* What the uplink H-ARQ promises to the MAC above it, without processes,  *)
(* feedback, grants or time: a PDU is sent at most MaxHarqRtx + 1 times,   *)
(* never again once it was passed up, and passed up at most once, only     *)
(* after it was sent and while its sender still answers for it; and the    *)
(* sender lets go of it only when it was passed up, or sent that often, or *)
(* when everything is interrupted.                                         *)
(***************************************************************************)
EXTENDS Naturals

CONSTANTS
  Pdus,          \* identities of PDUs
  MaxHarqRtx     \* retransmissions of a PDU

VARIABLES
  pending,       \* the PDUs the sender answers for, with their transmissions
  delivered      \* PDUs passed up that are not forgotten yet

vars == <<pending, delivered>>

PendingPdus == {r.pdu : r \in pending}

Init == pending = {} /\ delivered = {}

Accept == \E p \in Pdus \ (PendingPdus \cup delivered) :
  /\ pending' = pending \cup {[pdu |-> p, tries |-> 0]}
  /\ UNCHANGED delivered

Transmit == \E r \in pending :
  /\ r.tries <= MaxHarqRtx /\ r.pdu \notin delivered
  /\ pending' = (pending \ {r}) \cup {[r EXCEPT !.tries = @ + 1]}
  /\ UNCHANGED delivered

Deliver == \E S \in SUBSET {r \in pending : r.tries > 0 /\ r.pdu \notin delivered} :
  /\ delivered' = delivered \cup {r.pdu : r \in S}
  /\ UNCHANGED pending

Release == \E r \in pending :
  /\ r.pdu \in delivered \/ r.tries = MaxHarqRtx + 1
  /\ pending' = pending \ {r}
  /\ UNCHANGED delivered

\* A mode switch or a handover.
Interrupt == pending' = {} /\ UNCHANGED delivered

\* The identity of a PDU nobody names any more may be used again.
Forget ==
  /\ delivered' \in SUBSET delivered
  /\ PendingPdus \cap delivered \subseteq delivered'
  /\ UNCHANGED pending

Next == Accept \/ Transmit \/ Deliver \/ Release \/ Interrupt \/ Forget

Spec == Init /\ [][Next]_vars
=============================================================================
