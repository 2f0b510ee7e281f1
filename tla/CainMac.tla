------------------------------ MODULE CainMac -------------------------------
(***************************************************************************)
(* The RAC messages of the CAIN networks: how the MAC of a UE asks         *)
(* (checkRAC), how UEs relay the request (handleCainMsg), how the eNodeB   *)
(* answers the relay and counts the request (macHandleRac).                *)
(* Ids of requests are not in the code; a message carries that of the      *)
(* request it serves.  Distances, coordinates, social weights and the      *)
(* flags served and relay that only feed statistics are left out.          *)
(***************************************************************************)
EXTENDS CainCells, Integers, Sequences

CONSTANTS
  NetworkTypes,        \* the values of networkType that are considered
  RaRespWin,           \* raRespWinStart_, 3 in the code
  NumSenders,          \* bound: UEs whose applications send, the first ones
  MaxRequests          \* bound: requests

ASSUME CainMacAssumption ==
  /\ NetworkTypes \subseteq {"CAIN", "Social", "4G"}
  /\ NumSenders \in 0 .. NumUes
  /\ RaRespWin \in Nat
  /\ MaxRequests \in Nat

Senders == 1 .. NumSenders

VARIABLES
  networkType,
  backlog,             \* UEs with a MAC buffer that is not empty
  racRequested,        \* UEs with racRequested_ or racD2DMulticastRequested_
  raRespTimer,
  qtdRelay,            \* of each UE, at the binder: whom it relays for
  allocated,           \* UEs whose allocatedRbs flag is set at the binder
  air,                 \* frames that arrive in this TTI, in the order they were sent
  sent,                \* frames sent in this TTI
  asked                \* the UE of each request so far

ueVars == <<backlog, racRequested, raRespTimer>>
relayVars == <<qtdRelay, allocated>>
macVars == <<networkType, ueVars, relayVars, air, sent, asked>>

Requests == 1 .. MaxRequests

Nodes == Ues \cup Enbs

UpTypes == {"FWD", "HOP_FWD", "SOC_FWD", "ANSW", "HOP_ANSW", "SOC_ANSW", "DIR", "LTE"}
ReplyTypes == {"REP", "HOP_REP", "SOC_REP"}

\* Request 0: a feedback.  relay and enb are what a message says of the way on.
Messages ==
  [type : UpTypes \cup {"FEEDBACK"}, src : Ues, dst : Enbs, request : 0 .. MaxRequests]
  \cup [type : ReplyTypes, src : Enbs, dst : Ues, request : Requests, ok : BOOLEAN]
  \cup [type : {"NOTIFY", "HOP_REL", "SOC_NTF"}, src : Ues, dst : Ues, request : Requests,
        enb : Enbs]
  \cup [type : {"HOP_NTF"}, src : Ues, dst : Ues, request : Requests, relay : Ues, enb : Enbs]

MacTypeOK ==
  /\ networkType \in NetworkTypes
  /\ backlog \subseteq Senders
  /\ racRequested \subseteq Ues
  /\ raRespTimer \in [Ues -> 0 .. RaRespWin]
  /\ DOMAIN qtdRelay = Ues
  /\ \A u \in Ues : qtdRelay[u] \in -MaxRequests .. MaxRequests
  /\ allocated \subseteq Ues
  /\ air \in Seq(Messages) /\ sent \in Seq(Messages)
  /\ asked \in Seq(Ues) /\ Len(asked) <= MaxRequests

MacInit ==
  /\ networkType \in NetworkTypes
  /\ backlog = {} /\ racRequested = {}
  /\ raRespTimer = [u \in Ues |-> 0]
  /\ qtdRelay = [u \in Ues |-> 0]
  /\ allocated = {}
  /\ air = <<>> /\ sent = <<>>
  /\ asked = <<>>

-----------------------------------------------------------------------------
(***************************************************************************)
(* checkRAC.                                                               *)
(***************************************************************************)
Request == Len(asked) + 1

ToEnb(type, u, e, q) == [type |-> type, src |-> u, dst |-> e, request |-> q]

\* A request goes directly to the cell of the MAC ...
Direct(u, type) ==
  [frame |-> ToEnb(type, u, nextHop[u], Request), relay |-> u]

\* ... or to a UE that is to forward it to the cell the binder knows.
Via(u, type, relay) ==
  [frame |-> [type |-> type, src |-> u, dst |-> relay, request |-> Request, enb |-> enbOf[u]],
   relay |-> relay]

ViaHop(u, hop, relay) ==
  [frame |-> [type |-> "HOP_NTF", src |-> u, dst |-> hop, request |-> Request,
              relay |-> relay, enb |-> enbOf[u]],
   relay |-> relay]

\* checkCAINType: with a hop only if the nearest relay is too far.
CheckCAINType(u) ==
  IF NeedsRelay(u) /\ Relays(u) # {}
  THEN {Via(u, "NOTIFY", r) : r \in Relays(u)} \cup
       {ViaHop(u, p[1], p[2]) : p \in {p \in Ues \X Relays(u) : p[1] \in Hops(u, p[2])}}
  ELSE {Direct(u, "DIR")}

\* checkSocialId: only relays near enough that u has heard of.
CheckSocialId(u) ==
  {Direct(u, "DIR")} \cup
    IF NeedsRelay(u) THEN {Via(u, "SOC_NTF", r) : r \in Relays(u)} ELSE {}

\* checkLteMsg, which returns nothing for a UE the cell never measured.
CheckLteMsg(u) ==
  CASE area[enbOf[u]][u] = 1 -> {Direct(u, "LTE")}
    [] area[enbOf[u]][u] = 2 -> {Direct(u, "DIR")}
    [] OTHER -> {Direct(u, "LTE"), Direct(u, "DIR")}

Choices(u) ==
  CASE networkType = "CAIN" -> CheckCAINType(u)
    [] networkType = "Social" -> CheckSocialId(u)
    [] networkType = "4G" -> CheckLteMsg(u)

\* Mutant: the relay is chosen, its blocks are not granted.
AllocatesNone(u, choice) == {}

\* The binder grants the relay its blocks when the request is made.
Allocates(u, choice) == IF choice.relay = u THEN {} ELSE {choice.relay}

\* Mutant: a request that was not answered is repeated at once.
RequestsRacAtOnce(u) ==
  /\ raRespTimer[u] = 0
  /\ u \in backlog /\ Request \in Requests
  /\ \E choice \in Choices(u) :
       /\ sent' = Append(sent, choice.frame)
       /\ allocated' = allocated \cup Allocates(u, choice)
  /\ asked' = Append(asked, u)
  /\ racRequested' = racRequested \cup {u}
  /\ raRespTimer' = [raRespTimer EXCEPT ![u] = RaRespWin]

RequestsRac(u) ==
  /\ raRespTimer[u] = 0 /\ u \notin racRequested
  /\ u \in backlog /\ Request \in Requests
  /\ \E choice \in Choices(u) :
       /\ sent' = Append(sent, choice.frame)
       /\ allocated' = allocated \cup Allocates(u, choice)
  /\ asked' = Append(asked, u)
  /\ racRequested' = racRequested \cup {u}
  /\ raRespTimer' = [raRespTimer EXCEPT ![u] = RaRespWin]

\* Mutant: the timer runs on below zero.
WaitsForResponseAlways(u) ==
  /\ raRespTimer' = [raRespTimer EXCEPT ![u] = @ - 1]
  /\ UNCHANGED <<sent, allocated, asked, racRequested>>

WaitsForResponse(u) ==
  /\ raRespTimer[u] > 0
  /\ raRespTimer' = [raRespTimer EXCEPT ![u] = @ - 1]
  /\ UNCHANGED <<sent, allocated, asked, racRequested>>

\* The request before was not answered, and is given up.
ClearsRequest(u) ==
  /\ raRespTimer[u] = 0 /\ u \in racRequested
  /\ racRequested' = racRequested \ {u}
  /\ UNCHANGED <<sent, allocated, asked, raRespTimer>>

NothingToRequest(u) ==
  /\ raRespTimer[u] = 0 /\ u \notin racRequested
  /\ u \notin backlog \/ Request \notin Requests
  /\ UNCHANGED <<sent, allocated, asked, racRequested, raRespTimer>>

\* No backoff: no failure is ever reported in these networks.
CheckRac(u) ==
  /\ WaitsForResponse(u) \/ ClearsRequest(u) \/ RequestsRac(u) \/ NothingToRequest(u)
  /\ UNCHANGED <<networkType, backlog, qtdRelay, air>>

-----------------------------------------------------------------------------
(***************************************************************************)
(* handleCainMsg: a frame reaches the UE it is meant for.                  *)
(***************************************************************************)
IncreaseRelay(u) == qtdRelay' = [qtdRelay EXCEPT ![u] = @ + 1]
DecreaseRelay(u) == qtdRelay' = [qtdRelay EXCEPT ![u] = @ - 1]

Forward(m) ==
  CASE m.type = "NOTIFY" -> ToEnb("FWD", m.dst, m.enb, m.request)
    [] m.type = "HOP_REL" -> ToEnb("HOP_FWD", m.dst, m.enb, m.request)
    [] m.type = "SOC_NTF" -> ToEnb("SOC_FWD", m.dst, enbOf[m.dst], m.request)

\* Mutant: a relay behind a hop is not counted.
HandleForwardUncounted(m) ==
  /\ m.type \in {"NOTIFY", "HOP_REL"}
  /\ IF m.type = "NOTIFY" THEN IncreaseRelay(m.dst) ELSE UNCHANGED qtdRelay
  /\ sent' = Append(sent, Forward(m))

HandleForward(m) ==
  /\ m.type \in {"NOTIFY", "HOP_REL"}
  /\ IncreaseRelay(m.dst)
  /\ sent' = Append(sent, Forward(m))

HandleSocial(m) ==
  /\ m.type = "SOC_NTF"
  /\ sent' = Append(sent, Forward(m))
  /\ UNCHANGED qtdRelay

HandleHop(m) ==
  /\ m.type = "HOP_NTF"
  /\ sent' = Append(sent, [type |-> "HOP_REL", src |-> m.dst, dst |-> m.relay,
                            request |-> m.request, enb |-> m.enb])
  /\ UNCHANGED qtdRelay

Answer(m) ==
  CASE m.type = "REP" -> ToEnb("ANSW", m.dst, m.src, m.request)
    [] m.type = "HOP_REP" -> ToEnb("HOP_ANSW", m.dst, m.src, m.request)
    [] m.type = "SOC_REP" -> ToEnb("SOC_ANSW", m.dst, enbOf[m.dst], m.request)

\* The request is dropped when the eNodeB had no blocks for the relay.
HandleReply(m) ==
  /\ m.type \in ReplyTypes
  /\ DecreaseRelay(m.dst)
  /\ sent' = IF m.ok THEN Append(sent, Answer(m)) ELSE sent

HandleCainMsg(m) ==
  /\ m.dst \in Ues
  /\ HandleForward(m) \/ HandleSocial(m) \/ HandleHop(m) \/ HandleReply(m)
  /\ UNCHANGED <<networkType, ueVars, allocated, asked>>

-----------------------------------------------------------------------------
(***************************************************************************)
(* macHandleRac of the eNodeB, behind the filter of its PHY.               *)
(***************************************************************************)
Reply(m, type) ==
  [type |-> type, src |-> m.dst, dst |-> m.src, request |-> m.request,
   ok |-> m.src \in allocated]

Replies(m) ==
  CASE m.type = "FWD" -> <<Reply(m, "REP")>>
    [] m.type = "HOP_FWD" -> <<Reply(m, "HOP_REP")>>
    [] m.type = "SOC_FWD" -> <<Reply(m, "SOC_REP")>>
    [] OTHER -> <<>>

\* What an eNodeB counts is not answered: the UE that asked learns nothing.
Counts(m) == m.type \in {"ANSW", "HOP_ANSW", "SOC_ANSW", "DIR", "LTE"}

MacHandleRac(m) ==
  /\ m.dst \in Enbs /\ m.type # "FEEDBACK"
  /\ sent' = IF Takes(m.dst, m.src) THEN sent \o Replies(m) ELSE sent
  /\ UNCHANGED <<networkType, ueVars, relayVars, asked>>
=============================================================================
