----------------------------- MODULE AmService ------------------------------
(***************************************************************************)
(* What RLC AM promises, without windows, reports, timers or a link: the   *)
(* sender takes SDUs in order, sends each again at most MaxRtx times, and  *)
(* gives one up only after that; the receiver passes an SDU up once, and   *)
(* only while the sender still answers for it; and the sender is done with *)
(* SDUs in order, each passed up or given up.                              *)
(***************************************************************************)
EXTENDS Integers

CONSTANTS
  NumSdus,       \* SDUs, numbered from 0
  MaxRtx         \* retransmissions of an SDU

VARIABLES
  taken,         \* SDUs taken from the upper layer
  retried,       \* how often each was sent again
  givenUp,       \* SDUs given up that the sender still answers for
  passed,        \* SDUs passed up
  done           \* SDUs the sender is done with

vars == <<taken, retried, givenUp, passed, done>>

Sdus == 0 .. NumSdus - 1
Open == done .. taken - 1

Init ==
  /\ taken = 0 /\ done = 0
  /\ retried = [k \in Sdus |-> 0]
  /\ givenUp = {} /\ passed = {}

Accept ==
  /\ taken < NumSdus
  /\ taken' = taken + 1
  /\ UNCHANGED <<retried, givenUp, passed, done>>

Retry == \E k \in Open \ givenUp :
  /\ retried[k] < MaxRtx
  /\ retried' = [retried EXCEPT ![k] = @ + 1]
  /\ UNCHANGED <<taken, givenUp, passed, done>>

GiveUp == \E k \in Open :
  /\ retried[k] = MaxRtx
  /\ givenUp' = givenUp \cup {k}
  /\ UNCHANGED <<taken, retried, passed, done>>

\* A copy still in the air may arrive after the SDU was given up.
PassUp == \E k \in Open \ passed :
  /\ passed' = passed \cup {k}
  /\ UNCHANGED <<taken, retried, givenUp, done>>

Finish == \E n \in Open :
  /\ done .. n \subseteq passed \cup givenUp
  /\ done' = n + 1
  /\ givenUp' = {k \in givenUp : k > n}
  /\ UNCHANGED <<taken, retried, passed>>

Next == Accept \/ Retry \/ GiveUp \/ PassUp \/ Finish

Spec == Init /\ [][Next]_vars
=============================================================================
