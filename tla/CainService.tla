---------------------------- MODULE CainService -----------------------------
(***************************************************************************)
(* What the CAIN additions promise for a request of a UE, without relays,  *)
(* messages or time: it ends, it is counted at most once, and it is lost   *)
(* only once UEs move between cells.                                       *)
(***************************************************************************)
CONSTANT Requests

VARIABLES
  open,                \* requests somebody still has to answer for
  counted,             \* requests an eNodeB has counted
  lost,                \* requests that ended without
  moving               \* has any UE left its first cell

vars == <<open, counted, lost, moving>>

Init == open = {} /\ counted = {} /\ lost = {} /\ moving = FALSE

Ask == \E q \in Requests \ (open \cup counted \cup lost) :
  /\ open' = open \cup {q}
  /\ UNCHANGED <<counted, lost, moving>>

Count(q) ==
  /\ q \in open
  /\ open' = open \ {q}
  /\ counted' = counted \cup {q}
  /\ UNCHANGED <<lost, moving>>

Lose(q) ==
  /\ q \in open /\ moving
  /\ open' = open \ {q}
  /\ lost' = lost \cup {q}
  /\ UNCHANGED <<counted, moving>>

Move == moving' = TRUE /\ UNCHANGED <<open, counted, lost>>

Next == Ask \/ Move \/ \E q \in Requests : Count(q) \/ Lose(q)

Spec == Init /\ [][Next]_vars /\ \A q \in Requests : WF_vars(Count(q) \/ Lose(q))
=============================================================================
