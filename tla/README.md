# SimuLTE, in TLA+

SimuLTE simulates the user plane of LTE in OMNeT++. A simulation is a program of
modules that exchange messages in simulated time, and its protocol code is real:
hybrid ARQ, RLC, handover over X2 and D2D mode switches run as in a stack, and a
`throw cRuntimeError` of theirs ends the simulation. This directory models that
code, checks the models with TLC and proves what holds for all the constants with
TLAPS. Paths below are relative to `src/src/` of the repository.

## 1. The system and its parts

| Component | State it keeps | Operations | Talks to |
|---|---|---|---|
| H-ARQ buffers (`stack/mac/buffer/harq`) | per peer: processes of units; status, PDU, transmission count, counters of empty and selected units, `dropped_`; at the receiver status, PDU, verdict, time, one count per process | `insertPdu`, `markSelected`, `sendSelectedDown`, `receiveHarqFeedback`, `forceDropProcess`; `insertPdu`, `extractCorrectPdus`, `purgeCorruptedPdus` | MAC main loops, the peer over the PHY |
| H-ARQ for D2D (`buffer/harq_d2d`) | the same, and a mirror at the eNodeB | the same, with other addressees | two UEs and the eNodeB |
| MAC of the UE (`mac/layer/LteMacUe*`) | `currentHarq_`, `firstTx`, `schedulingGrant_`, RAC and BSR flags, queues and virtual buffers | `handleSelfMessage`, `macSduRequest`, `macPduMake`, `macHandleGrant`, `macHandleRac`, mode switch, `doHandover` | RLC (requests and fragments), H-ARQ, PHY |
| MAC of the eNodeB (`mac/layer/LteMacEnb*`) | Rx and Tx buffers per UE, BSR buffers, `connDesc_`, `connDescIn_` | main loop: extract, RAC, schedule, request SDUs, purge; mode switch | schedulers, H-ARQ, PHY |
| Schedulers (`mac/scheduler`, `scheduling_modules`, `allocator`, `amc`) | `harqStatus_`, active connections, allotted blocks | `updateHarqDescs`, `rtxschedule`, `racschedule`, `scheduleGrant` | MAC of the eNodeB |
| RLC AM (`rlc/am`) | windows, PDU buffers, received and discarded flags, timers, MRW state | `addPdus`, `discard`, `handleControlPacket`, `enque`, `sendStatusReport`, `moveRxWindow` | PDCP, MAC, the peer |
| RLC UM (`rlc/um`) | SDU queue, reordering window, the SDU being reassembled | `rlcPduMake`, `enque`, `reassemble`, reordering timer | PDCP, MAC |
| Timers (`common/timer`) | one or several deadlines over one self message | `start`, `add`, `remove`, `handle` | RLC AM, RLC UM |
| PDCP/RRC (`pdcp_rrc`) | connection table, sequence numbers | header handling, choice of logical channel | IP2lte, RLC |
| Handover (`phy/layer/LtePhyUe`, `handoverManager`, `corenetwork/lteip/IP2lte`, `x2`) | candidate and serving eNodeB; `hoForwarding_`, `hoHolding_`, `hoFromX2_`, `hoFromIp_` | `triggerHandover`, `doHandover`, start and completion commands, tunnelled datagrams | the eNodeBs over X2, MAC and RLC (buffers deleted) |
| CAIN relay protocol (additions in `mac/layer/LteMacUeRealistic`, `LteMacEnb`, `phy/layer/LtePhyUeD2D`, `corenetwork/binder`, `phy/ChannelModel`) | `racRequested_`, response timer; at the binder `EnbUe`, `qtdRelay`, `allocatedRbs`; `mapUe` of every eNodeB | `checkRAC`, `checkCAINType`, `checkSocialId`, `checkLteMsg`, `handleCainMsg`, `macHandleRac`, `sendFeedback` | UEs with UEs, UEs with eNodeBs, both with the binder |
| D2D mode selection, CoMP | preferred mode per pair; block requests per cell | periodic decision | MAC, X2 |
| PHY, channel model, feedback | positions, CQI, interference | reception, SINR, decider | everything below MAC |
| Binder, deployer, EPC, core network, applications, world, simulations | tables and traffic | look-ups, encapsulation, generators | all |

How the uplink goes round, TTI by TTI: the eNodeB schedules and sends a grant; one
TTI later the UE has it and, in its main loop, retransmits a buffered PDU or asks
RLC for SDUs, makes a PDU and puts it in the H-ARQ process `currentHarq_`; at the
end of the TTI `flushHarqBuffers` sends it down. The PDU arrives one TTI later, is
evaluated for `HARQ_FB_EVALUATION_INTERVAL` = 3 TTIs and answered; the feedback
takes one TTI more. No message carries a time or a grant's process: both ends
count TTIs (`currentHarq_` and `harqStatus_`) and rely on counting alike.

What makes it hard: the two ends act on their own clocks within a TTI, in the
order of message priorities; PDUs, feedback and grants are in the air while a
mode switch or a handover empties one end; feedback is matched by process number
and PDU id only; there is no timer in the H-ARQ; a dozen checks end the whole
simulation when the ends disagree. What makes each component correct:

* H-ARQ: no check fails; an answer meets the PDU it is for; every transmission has
  exactly one answer; the ends count transmissions alike; a PDU is passed up at
  most once and freed only when passed up or exhausted; retransmissions happen.
* MAC main loops: a grant is used for the process it is for; no SDU is taken from a
  queue and lost; virtual buffers mirror real ones.
* RLC AM: an SDU is passed up once and complete, or given up after every
  retransmission; the windows stay nested; nothing is acknowledged that did not
  arrive.
* RLC UM: an SDU is passed up at most once, in order and with its size; every position
  the window is addressed at exists; no PDU waits for ever for one that is missing;
  the losses that statistics see are the real ones.
* Timers: an event fires once, at its deadline, unless removed.
* Handover: the UE leaves for another cell, and never for a much weaker one; a
  datagram is neither duplicated nor forgotten; a source tunnels during the handover
  and no longer; a datagram is held only where the UE is about to arrive, and released
  when it does.
* CAIN: every request ends and is counted at most once; a UE does not ask twice; the
  number of UEs that one relays for is what the binder says.

`PROJECT.json` lists the hazards at their lines, and with each the properties that
cover it or the step of the plan that will.

## 2. Plan

Built, in this order:

1. **H-ARQ of the uplink**: `HarqCommon`, `HarqTx`, `HarqRx` (the two ends),
   `HarqUplink` (the ends composed with both MAC main loops, the scheduler and the
   air), `HarqUplinkInv` (inductive invariant), `HarqUplinkProofs`; `HarqService`, the
   abstract promise, `HarqRefinement`, which says that `HarqUplink` keeps it, and
   `HarqRefinementProofs`; `HarqGrantProofs`.
2. **RLC AM**: `AmCommon`, `AmTx`, `AmRx`, `AmLink` over a link that loses and
   reorders, `AmLinkInv`, `AmLinkProofs`; `AmService`, `AmRefinement` and
   `AmRefinementProofs`.
3. **Handover**: `HoPhy` (the decision of the UE), `HoPath` (the datagrams and the
   commands), `Handover`, which composes them, `HandoverInv`, `HandoverProofs`.
4. **RLC UM**: `UmTx`, `UmRx`, `UmLink` over a link that loses and reorders, with mode
   switches and handovers, its service `UmService`, `UmLinkInv` (inductive invariant) and
   `UmLinkProofs`.
5. **CAIN**: `CainCells` (who belongs to which cell, in whose view), `CainMac` (the
   messages), `Cain` (a network, TTI by TTI), its service `CainService`, and `CainProofs`.

To follow:

6. `HarqDownlink`: the same buffers with several codewords, `firstAvailable` and the
   downlink scheduler.
7. **MAC of the UE**: RAC without CAIN, BSR, the LCG scheduler and `macPduMake` over
   virtual buffers, which the hazards without a property wait for.
8. `MultiTimer` as an implementation of a set of deadlines; liveness of RLC AM;
   the allocator and deficit round robin as algorithms.

Everything that is proved about is written with recursive functions or folds, never
with RECURSIVE operators, one action per operation, and named assumptions.

## 3. The modules

| Module | Models | Lines of code it follows |
|---|---|---|
| `HarqCommon` | processes, units, PDU identities, errors | `LteCommon.h`, constructors |
| `HarqTx` | one transmission buffer: the status, PDU and count of each unit, and the counters kept by hand | `LteHarqBufferTx.cc`, `LteHarqProcessTx.cc`, `LteHarqUnitTx.cc` |
| `HarqRx` | one reception buffer, with the H-ARQ steps of the node's main loop | `LteHarqBufferRx.cc`, `LteHarqProcessRx.cc` |
| `HarqUplink` | one UE and its eNodeB, EXTENDS both | `LteMacUeRealistic(D2D).cc`, `LteMacEnbRealistic(D2D).cc`, `LteSchedulerEnbUl.cc`, `LteMacBase.cc` |
| `HarqUplinkInv` | the inductive invariant `IInv` | no code |
| `HarqUplinkProofs`, `HarqGrantProofs` | theorems | no code |
| `MCHarqUplink` | what the configurations need | no code |
| `AmCommon` | SDUs, sequence numbers and fragments, the PDUs in the air | `LteRlcDefs.h`, `LteRlcAmPdu.cc` |
| `AmTx` | the transmission entity | `AmTxQueue.cc`, `TTimer.cc` |
| `AmRx` | the reception entity | `AmRxQueue.cc` |
| `AmLink` | one connection, EXTENDS both | `LteRlcAm.cc` |
| `AmLinkInv` | the inductive invariant `AmIInv` | no code |
| `AmLinkProofs` | theorems | no code |
| `MCAmLink` | layouts of fragments for the configurations | no code |
| `AmService`, `AmRefinement`, `AmRefinementProofs` | what RLC AM promises; the mapping; the theorem | no code |
| `HarqService`, `HarqRefinement`, `HarqRefinementProofs` | what the uplink H-ARQ promises; the mapping; the theorems | no code |
| `HoPhy` | one UE: candidate, hysteresis, starter, trigger | `LtePhyUe.cc` |
| `HoPath` | the datagrams for it and the commands between eNodeBs | `IP2lte.cc`, `LteHandoverManager.cc`, `LteX2Manager.cc`, `GtpUserX2.cc`, `TrafficFlowFilterSimplified.cc` |
| `Handover` | both, EXTENDS `HoPath` | the order in which `triggerHandover` and `doHandover` call the others |
| `HandoverInv`, `HandoverProofs`, `MCHandover` | the inductive invariants `HoIInv` and `Placed`, theorems, configuration | no code |
| `UmTx` | the sending entity: queue, PDUs cut to the room there is | `UmTxEntity.cc`, `LteRlcUmRealistic.cc` |
| `UmRx` | the receiving entity: window, timer, reassembly | `UmRxEntity.cc` |
| `UmLink` | one connection, EXTENDS `UmRx` | `LteRlcUmRealistic(D2D).cc` |
| `UmService` | what RLC UM promises | no code |
| `UmLinkInv` | the inductive invariant `UmIInv`: the stream of bytes behind the PDUs | no code |
| `UmLinkProofs` | lemmas about loops and the theorems | no code |
| `CainCells` | the cell of each UE, in four views | `LtePhyUeD2D.cc`, `LtePhyUe.cc`, `LtePhyEnbD2D.cc`, `LteBinder.cc`, `LteRealisticChannelModel.cc` |
| `CainMac` | requests, relaying, answers | `LteMacUeRealisticD2D.cc`, `LteMacEnb.cc`, `LteMacUe.cc`, `LteBinder.cc` |
| `Cain` | a network, EXTENDS `CainMac` | the order of events in a TTI |
| `CainService` | what becomes of a request | no code |
| `CainProofs` | the inductive invariant `CainIInv`, theorems | no code |
| `MCUmLink`, `MCCain` | configurations | no code |

### H-ARQ of the uplink

State and actions. A *unit* is a pair of process and codeword; each member of
`LteHarqUnitTx` and `LteHarqProcessRx` is a function over units (`txStatus`,
`rxPdu`, ...) or over processes (`numEmptyUnits`, `rxCount`). A check of the code
that throws is a disjunct of the operation that sets `thrown`, after which nothing
happens. Inside a TTI `ueStep` and `enbStep` say how far each node is: the UE's
loop (`UeTickNoGrant`, `UeTickRetransmit`, `UeTickRequestSdu`,
`UeTickNothingToSend`), the answer of RLC (`UeMakePdu`), the flush; the eNodeB's
loop (`EnbTickRtx`, `EnbTickOther`, by the grant that leaves). They interleave
freely, more than the queue of OMNeT++ allows. When both are done the frames of the
TTI before arrive in any order (`DataArrives`, `FeedbackArrives`, `GrantArrives`),
and `NextTti` moves time. A mode switch is posted to the nodes of a member of
`SwitchScopes` at the start of a TTI and each node handles it before its loop
(`UeModeSwitch`, `EnbModeSwitch`); `HandOver` happens between two TTIs, its delay
not being a whole number of them.

What is abstracted:

* A PDU is an identity. `Pdus` is a small set; an identity is reused when neither
  end nor the air names it (`FreshPdus`), and the UE asks for no SDU while none is
  free. The OMNeT++ id of a real PDU is never reused.
* Whether the decider finds a PDU correct is nondeterministic, and so is whether
  the bands have room for a retransmission and whether a UE earns a grant by RAC
  or BSR.
* `UeTickRetransmit` allows any number of transport blocks from 1 on. The uplink
  fills codeword 0 only, so the jumbo branch of `TxMarkSelected` is in the model
  for the downlink and is not taken in these runs.
* When the UE answers a grant with RLC data, the BSR-only PDU made inside the loop
  without waiting for RLC is the same step as `UeMakePdu`.
* Not there: periodic grants (no eNodeB class produces one), `numEmptyProc_` (read
  only by `firstAvailable`), `forceDropUnit` and `selfNack` (not called by these
  classes), the sidelink, and several Tx buffers in one UE.
* After a handover the process number the new eNodeB has for the UE is any one, or
  none: its `harqStatus_` entry may remain from an earlier stay.
* The UE's `currentHarq` moves on in every TTI in which no SDU is requested from RLC
  (`LteMacUeRealistic.cc:607`), one without a grant included (`UeTickNoGrant`). The comment
  at lines 447-448, "no harq counter is updated since no transmission is sent", is not what
  the code does, and grants would meet other processes if it were.
* `RxPurges` is the one difference between the classes for the H-ARQ: the purge
  loop of `LteMacEnb` runs, the one of `LteMacEnbRealistic` does not (finding 1).

### RLC AM

State and actions. `AmTx` has one action for each way into `AmTxQueue`: an SDU
(`TxEnque`), an acknowledgement, the acknowledgement of a command, and the three
timers; `AmRx` those of `AmRxQueue`: a data PDU, a command, the report timer. What
they call is an operator inside the action (`AddPdus`, `CheckForMrw`,
`StatusReport`, `CompleteSdu`, ...). SDUs are numbered, and `FirstSn` gives the
sequence number each starts with, so a PDU is a number: what `isFirst`, `isLast`
and `getSnoMainPacket` say of it follows. The vectors and arrays by position in a
window are sets of sequence numbers, except that `Shifted` translates what
`moveRxWindow` does to the positions. `rxReceived` and `pduBuffer` are separate
because that function treats them differently.

The events of a `TMultiTimer` all have the same timeout and fire in the order they
were started: `dueBefore` keeps that order for `pduTimer_`, and for `mrwTimer_` it
is the order of the numbers. Between different timers the model assumes no order,
their timeouts being parameters. A status report may be left out at any time, which
is what `ackReportInterval_` does.

The link delivers each PDU once, in any order, or loses it: the H-ARQ below gives up
after maxHarqRtx and its processes finish out of order (`PassedUpOnce` here builds on
`NoRedelivery` there). `SduArrives` offers an SDU only when at most `Load` PDUs are
then in the transmit window. `Load` is the load the run assumes of the traffic, and
no part of the code.

What is abstracted: sizes in bytes and control information (`knowsPeer` says whether
the receiver has any), statistics, the maps of `LteRlcAm` from a connection to its
entities, and `deleteQueues`. `AmRxQueue::discard` and `computeWindowShift` have no
caller. The assertion on ownership at the end of `handleControlPacket`, which only
a debug build evaluates, is left out.

*The service.* `AmService` has an SDU accepted, sent again at most maxRtx times, given
up only after that, passed up once and only while the sender still answers for it,
and finished in order. The mapping takes the sender's window for what it answers for.

### Handover

State and actions. Every eNodeB broadcasts at the same simulation time, so a *turn* of
broadcasts is a set `toHear` that empties in any order; each broadcast has one of the
four outcomes of `handoverHandler`, or the cell is out of range. `handoverStarter_`
fires a moment after the turn and `handoverTrigger_` one latency later; `triggerHandover`
and `doHandover` run in one event each with all they call at the eNodeBs, so
`TriggerHandover` and `DoHandover` are one step with the PHY, the tunnels and the
buffers in it. The path of a datagram is a queue for each hop (gateway to eNodeB, X2,
`hoFromX2_`, `hoFromIp_`, the stack of RLC and MAC, the air). Commands over X2 are a
set: SCTP has several streams, and a command may arrive after the handover it belongs
to, or after the next one. `outrun` remembers that this ever happened, `startedLate` the
eNodeBs that had a START only after its handover.

A datagram that reaches an eNodeB which neither tunnels nor holds goes down its stack
under the id of the UE only at the next hop of the UE (`PassedDown`). Elsewhere
`LtePdcpRrcEnb::getDestId` takes the next hop for a relay, as its comments say, and addresses
the datagram to that eNodeB (`Misdirected`): it is in a connection of that id, where
`deleteQueues` of the UE does not find it, and is never sent to the UE. When the
scheduler takes that connection up, `LteAmc::existTxParams` throws
(`ScheduleMisdirected`): the flag `thrown` ends the simulation, and with it every
action of `Handover`. Levels are
integers, the hysteresis that of the code (a candidate is louder by a tenth). The
completion of another UE's handover is `OtherUeCompletes`, since
`signalHandoverCompleteTarget` flushes the queues of all the UEs: into the stack where this
UE is attached, to the wrong address where it has not arrived. The uplink of a UE
that hands over is in `HarqUplink` (`HandOver`).

Behaviours the model made plain and no document contradicts: a START that arrives
after the completion leaves the UE in `hoHolding_` until it comes back, and datagrams from
IP are held there, for ever if it never does; a datagram from the gateway that reaches the
old eNodeB after its tunnel was closed, and one that another UE's completion flushes too
early, is readdressed as above and ends the simulation when it is scheduled; the late
completion of one handover closes the tunnel of the next one from the same cell; a
datagram tunnelled after the completion waits in `hoFromX2_` until any UE completes a
handover there (the TODO of `IP2lte.cc`); `deleteOldBuffers` drops datagrams that the
old eNodeB had already passed down, so a handover loses data (`lost`).

### RLC UM

State and actions. A PDU is its number, two framing flags and its *chunks*, an SDU
number with a length each. `RlcPduMake` fills any room in `Spaces`: whole SDUs from the
queue and the first part of the next. `EnquePdu` is `enque` with all it calls: the
multicast window that its first PDU sets, discarding, the shift of the window, the
checks that throw, the move of the reordering variable and of the timer, and the
reassembly of what the shift pushes out and of what is in order. `TimerExpires` is the
event of t-reordering. Reassembly is two loops, over PDUs and over their chunks, on a
record with the SDU under assembly, what was passed up and what was counted lost; both
are recursive functions over an interval, so that they can be proved about. `LeaveMode` and
`ReturnToMode` are `rlcHandleD2DModeSwitch` at both ends, of the entities of the old and
the new mode; `HandOver` is `deleteQueues`.

The modelled numbering starts at 0 and PDCP never starts it again. `resetFlag_` is
initialised FALSE and nothing sets it, so its branches are not there: after a mode
switch or a handover the next SDU is compared with `lastSnoDelivered_` = 0, and all
numbers before it count as lost, contrary to what its comments intend; that is why
`LossesAreExact` is stated until the first restart. A lost SDU number 0 is never
counted. Mode switches and handovers are modelled for unicast connections; the DL leg of an
infrastructure flow, for which the old mode has nothing to do, is left out. SDUs have
one size, headers have no length, and a PDU without data is left out, having no number.

### CAIN

The CAIN additions let a UE with a weak signal ask for the channel through a UE with a
strong one. A request goes directly (DIR, LTE) or to a relay (NOTIFY, SOC_NTF), perhaps
over a hop (HOP_NTF, HOP_REL); the relay forwards it to its eNodeB (FWD, HOP_FWD, SOC_FWD),
the eNodeB replies to the relay (REP, ...) and the relay answers (ANSW, ...), which the
eNodeB counts. All of it rests on global tables of the binder that are read at
different times.

State and actions. A TTI is the expiry of timers (`DataArrives`, `Feedback`,
`DoHandover`, in any order), the main loops of the UEs in the order of their modules
(`MainLoop`, one `checkRAC` each), and the arrival of the frames sent one TTI before, in
the order they were sent (`ArrivesAtUe`, `ArrivesAtEnb`, `FeedbackArrives`): OMNeT++
dispatches events of one time and priority in the order they were scheduled. Requests
are numbered, which the code does not do, so that properties can speak of one. The cell
of a UE is `enbOf` (the nearest at its last feedback), `nextHop` (where it is attached),
`candidate`, and the `area` each eNodeB has measured it in: `getSINR` calls `createAreaMap`
for every frame, so a feedback that is taken measures the UE, and so does any other frame
it sends or receives, the broadcast of an eNodeB among them (`OtherFrameArrives`). Whichever
eNodeB measures, the area is entered for the cell the binder has for the UE (`enbOf`).

Abstracted: which of the admissible relays and hops is nearest or has the highest
social weight; whether a measurement finds the UE strong or weak; when feedback is sent
and how long a handover takes; `racRequested_` and `racD2DMulticastRequested_` as one
flag; flags and sums that only statistics read. No failure is ever reported, so there
is no backoff.

Behaviours the model made plain: the eNodeB answers none of the requests of these
networks with a RAC success, so a UE asks again every raRespWinStart + 2 TTIs for as
long as it has data; since nothing else sets `allocatedRbs` to false, no relay is refused
(`~m.ok` never happens); a Social network decreases `qtdRelay` without increasing it; the
feedback of a UE near another cell schedules a handover each time it is sent, so several
are executed one after the other, the last from a cell to itself, and each empties the
UE's buffers; a request forwarded by a relay that has just left is dropped by the
PHY of its old eNodeB and stays in `qtdRelay` for ever.

### H-ARQ, the service

`HarqService` knows neither processes nor feedback: a PDU is accepted, sent at most
maxHarqRtx + 1 times and not after it was passed up, passed up at most once, only after
it was sent and while its sender answers for it, and released only when passed up or
exhausted, or by an interruption (mode switch, handover). `Forget` is the reuse of an
identity that nobody names. `HarqRefinement` maps the occupied units to it.

## 4. The runs

| Run | Configuration | Properties | Shows |
|---|---|---|---|
| `uplink` | 4 processes, 2 codewords, FbInterval 1, maxHarqRtx 1, 2 PDUs, mode switches at both ends, handovers, idle first grants | `TypeOK`, `NoError`, `FeedbackIsAwaited`, `CountersMatch`, `WaitingHasAnswer`, `EndsCountAlike`, `NoRedelivery`, `IInv`, `ImplementsService` | the safety of the two buffers, the invariant of the proofs, and that they keep the promise of `HarqService` |
| `sync` | the same with 1 codeword, without switches and handovers | `GrantSynchronized`, `WaitingIsAnswered`, `NackedIsSentAgain` | grants and processes stay in step; every transmission is answered and every refused one repeated |
| `ue_switch` | mode switch at the UE alone | `NoError` | violated: finding 2 |
| `sync_handover` | handovers | `GrantSynchronized` | violated: finding 3 |
| `purge` | `RxPurges` FALSE | `CorruptedArePurged` | violated: finding 1 |
| `am_whole` | 3 SDUs of one PDU, windows of 4, maxRtx 1, Load 2 | `AmTypeOK`, `OnlyWithoutContact`, `WindowsNested`, `ReceivedWasSeen`, `PassedUpOnce`, `NothingSkipped`, `LeftBehindOnlyWhenDone`, `AmIInv`, `ImplementsService` | the safety of a connection under light load, the invariant of the proofs, and that it keeps the promise of `AmService` |
| `am_window` | 6 SDUs of one PDU, Load 4 | `ReceivedWasSeen` | violated: finding 4 |
| `am_fragments` | 2 SDUs of two PDUs, Load 4 | `PassedUpOnce` | violated: finding 5 |
| `am_cut` | the same, transmit window 3, receive window 6 | `PassedUpComplete` | violated: finding 6 |
| `handover` | 2 eNodeBs, 3 levels, 1 datagram, 3 handovers | `HoTypeOK`, `StarterHasTarget`, `NotForMuchWeaker`, `InOnePlace`, `NoTunnelLeft`, `PathFollowsHandover`, `HoIInv`, `TunnelCloses`, `HeldReleased` | the decision is sound in every order of broadcasts; tunnels and holding follow it, also in a ping-pong; every tunnel is closed and every queue of held datagrams is released in the end, but for the exceptions the properties name |
| `um_link` | 3 SDUs of 3 bytes, rooms of 1 and 5, window of 4, unicast and multicast, mode switches and handovers | `UmTypeOK`, `NothingThrown`, `WindowSound`, `LossesAreExact`, `ImplementsService`, `HeldBackNotForever` | no check of the receiver fails and no position outside the window is addressed, SDUs come up in order and once, nothing is held back for ever |
| `cain` | 3 UEs of which 2 send and one moves, 2 eNodeBs, 2 requests, 2 further feedbacks or other measurements, all three network types | `CainTypeOK`, `RelayCountExact`, `OneRequestUnderWay`, `ImplementsService` | the relay count, the response window, and that every request ends, lost only when UEs move |

*Bounds of the H-ARQ runs.* The code has 8 processes, an interval of 3 and maxHarqRtx 3. What the
properties depend on is that a process is used again only after its answer came
back: `NumProc >= FbInterval + 3`. The runs take the smallest link with that slack
at its tightest, 4 and 1, where the feedback of a process arrives in the TTI just
before the process is used again, so a step too many would show; the code's own 8
and 3 leave two TTIs more. maxHarqRtx 1 has a first transmission, a
retransmission and an exhausted process. Two PDUs put two
processes in play at once, each in any phase of its life (three PDUs were run during
development, 919268 states, with the same result); the UE waits when both are in
use, so a lack of identities removes behaviours but adds none, and the proofs cover
every set. The second codeword, always empty, keeps the counters per process honest.
Identities are symmetric; the run with liveness uses no symmetry.

*Bounds of the RLC AM runs.* `Load` 2 is half the receive window of 4: more brings
finding 4, and that is the premise of `am_whole`. Three SDUs let the window move
twice and a PDU of each generation meet a late one of the last. maxRtx 1 has a first
transmission, a repetition and a PDU given up. `AirBound` 3 PDUs in the air (data,
reports and commands together) and `MrwBound` 2 commands let an acknowledgement, a
repeated PDU and a command pass one another, and an older command be answered after
a newer one. Steps that would pass a bound are cut off, so the runs state no
liveness, and deadlock is not checked: an idle connection stops, and so does one at
a bound.

*Bounds of the handover run.* Two eNodeBs and three handovers have a return to the source
(ping-pong) and a third handover while the commands of the first are still on their way.
The levels 10, 11 and 20 are one below, one at and one above what the hysteresis asks
for. One datagram is enough for the properties here, which speak of each datagram by
itself; the order of several is not claimed. Deadlock is not checked: at the bound on
handovers the UE decides no more and the datagrams come to rest; and the simulation stops
when `thrown`. 77670 states; the START that comes too late, with a datagram held after it,
and the throw are among them. The theorems
have none of these bounds.

*Bounds of the RLC UM run.* SDUs of 3 bytes and rooms of 1 and 5 make PDUs that hold a
first, a middle and a last part, two SDUs cut in the middle, and a whole one between
parts. Nine PDUs are possible, so a window of 4 moves several times; 4 and not 3, because
a second gap behind the first, with a PDU after it when the timer expires, needs four
positions. Deadlock is not checked: after the last SDU nothing is left to do.

*Bounds of the CAIN run.* A request with a hop needs three UEs in one cell, and a relay
that moves needs a second cell. Two senders and two requests have one UE ask twice, or
two ask at the same time through the same relay. The mover is the UE that can be
asked to relay for the first and asks itself. `MaxPhyFrames` 2 counts its feedbacks and
the other frames that find any of the UEs in another area: two feedbacks take it away and back,
one and a measurement have a relay grow weak while the UE that asked moves;
`MaxTriggers` 2 lets two handovers be scheduled at a time. RaRespWin is that of the
code. The bounds are in guards of requests and feedbacks, time goes on without
them, so deadlock is checked and liveness is not cut off.

*Fairness.* `WF_vars(Next)` in `HarqUplink`: the event queue of OMNeT++ dispatches the next event,
and every TTI schedules the next. `SF_vars(RtxGranted(a))`: a retransmission that
the scheduler finds pending again and again is granted in the end. The code serves
retransmissions before anything else (`LteSchedulerEnbUl`), but a band can be full
in a given TTI, so this is an assumption on the load and on nothing else: nothing
is assumed of which PDUs are received, or of grants for new data.
`NackedIsSentAgain` needs it, `WaitingIsAnswered` does not.
`Handover`: a turn takes no time and its events follow one another (`WF` of the decision
within a turn and of the trigger), a scheduled handover happens and X2 delivers a
completion, strongly fair because turns of broadcasts go on for ever and interrupt their
being enabled. `TunnelCloses` and `HeldReleased` rest on these; after a throw the simulator
executes nothing, and both allow for it. `UmLink`: a t-reordering timer that runs expires
unless something stops it, weak fairness on the part of the step that can be told from outside; nothing is
assumed of arrivals. `Cain`: simulation time goes on (`WF_vars(Tick)`), and nothing else:
frames need no fairness of their own.

*Mutants.* Every property of a passing run has a mutated operator, defined just
before the original, which changes it as a plausible bug would (a counter that does
not wrap, an abort whose TTI is forgotten, a retransmission looked for one process
too near, ...). With it TLC finds the property violated.

### Findings

1. *The purge does not run* (`LteMacEnbRealistic.cc:440`). The last loop of the main
   loop, "purge from corrupted PDUs all Rx H-HARQ buffers for all users", goes on
   from the iterator that the extraction loop left at the end. Curiously the
   retransmissions of this class depend on it: `rtxschedule` looks for units still
   corrupted when their turn comes, TTIs after the answer. In `LteMacEnb`, where
   the purge works, only a PDU whose answer is made in the very loop that looks at
   its process would be seen, which the real numbers (8, 3) never produce.
2. *A mode switch that reaches the UE alone* (`LteMacEnbRealisticD2D.cc:391`). The
   eNodeB aborts the processes of a UE only if `connDescIn_` holds a connection of
   it, and the map is filled by SDUs that were received. Before the first one, the
   switch empties the processes of a UE that has such a connection of its own, as any UE
   that sends has, and leaves the eNodeB's: the next new PDU
   meets the corrupted old one, and the simulation ends with "New data arriving in
   busy harq process -- this should not happen".
3. *Handover breaks the synchronization of processes* (`LteMacUeRealistic.cc:492`).
   `firstTx` is initialised once in the life of the UE and `harqStatus_` is neither
   erased nor set in a handover. A grant for a retransmission is then used for a
   process with nothing to retransmit, or by a new PDU. The invariants of `uplink`
   hold all the same: what is lost is the retransmission.

4. *Flags left behind by `moveRxWindow`* (`AmRxQueue.cc:694`). The vector is shifted
   in place and only the positions shifted from are cleared. When the window moves by
   more than half its size, positions in the middle are neither overwritten nor
   cleared and keep their flags for other PDUs. The receiver then acknowledges PDUs
   that never came; the sender stops their timers, or finds the position of a new PDU
   marked received and ends the simulation.
5. *The wrong SDU is passed up* (`AmRxQueue.cc:467`). After the backward search
   `firstIndex` becomes 0 whatever the search found. With two fragmented SDUs in the
   window, in order and without a loss, completing the second passes up the first once
   more. If the first fragment is the last one to arrive, `firstIndex` is -1 and
   `passUp` reads a PDU that is not there. `NoAmError` fails with the same constants.
6. *An SDU is passed up without its first fragment* (`AmTxQueue.cc:203`). `discard`
   gives up the fragments of an SDU that are in the window; when the window ended in
   the middle of the SDU the others are sent afterwards. The receiver has moved past
   the first ones, takes `firstSdu_` from the PDU that arrives, and takes that for
   the proof that the SDU began before the window.

Two more that no document contradicts: the default windows, 200 at the sender and 20
at the receiver (`LteRlc.ned`), let a sender of more than 20 PDUs run into the
receiver's check; and a command that reaches a receiver before any data PDU is
answered through a NULL pointer (`OnlyWithoutContact` allows just that).

The opposite of finding 2, a switch that reaches the eNodeB alone, would leave the
UE waiting for ever; no configuration of the code that does this was found.

## 5. The proofs

### H-ARQ of the uplink

`HarqUplinkProofs` proves, for every number of processes, codewords, PDUs, every
feedback interval and maxHarqRtx that the assumptions allow, and for a receiver
that purges or not:

| Theorem | Property |
|---|---|
| `TypeCorrect` | `TypeOK` |
| `Invariance` | `IInv` |
| `NeverThrows` | `NoError` |
| `FeedbackFindsItsPdu` | `FeedbackIsAwaited` |
| `CountersAreRight` | `CountersMatch` |
| `OneAnswerForEach` | `WaitingHasAnswer` |
| `EndsAgree` | `EndsCountAlike` |

*Assumptions.* On the constants: `NumProc >= FbInterval + 3` (8 >= 3 + 3 in the code,
which never checks it), codeword 0 exists, maxHarqRtx below 255 because
`transmissions_` of the receiver is an unsigned char. On the environment, as the
hypothesis of each theorem: `AgreedSwitches`, a mode switch reaches both ends in
the same TTI. Finding 2 is what happens without it.

*Argument.* None of the invariants is inductive. What makes them true is timing:
an answer cannot meet the next PDU of its process because the UE comes round to
the process later than the answer. The model has no clock, so `IInv` derives one:
the *age* of a process is the number of TTIs since it was the UE's current one,
computed from `currentHarq` alone. `AgesTell` gives where a transmission of each age
is (0 being sent, 1 in the air, 2 to FbInterval + 1 under evaluation or its feedback
being sent, FbInterval + 2 its feedback arriving), and since ages tell processes
apart and are at most NumProc - 1, at most one message of a kind is in the air
(`OneAtATime`), it is awaited (`AnswersAwaited`) unless its process was dropped, and
a process whose turn it is has nothing on its way. `SwitchForgets` says what the
two ends still hold while a mode switch has reached one of them and not yet the
other, where `resetHarq` is what protects the receiver. `CountedAlike` relates the
two counts at every stage of a transmission. One lemma per action shows that
`IInv` is preserved, with a step per conjunct.

`HarqRefinementProofs` adds, under the same hypothesis, `NeverPassedUpTwice` (`NoRedelivery`)
and `HarqImplementsService` (`ImplementsService`). What was passed up is not in any
variable of the code: the only trace of it is the answer on its way. `History` says
that this is enough. No two units hold one PDU (`OnePlaceEach`); a PDU passed up and still
held by its sender has an acknowledgement under way (`HeldIsAcknowledged`), which is why it
is not sent again; an acknowledgement names only what was passed up (`AcksAreTrue`), which
is why nothing is let go too early; and as long as the loops of a TTI run, every PDU passed
up has an answer (`DeliveredHasAnswer`), so that a new PDU cannot take its identity. Each
action is a step of the service (`UeMakePdu` is `Accept`, `UeFlush` is `Transmit`,
a loop of the eNodeB is `Deliver`, an answer is `Release`, a switch of the UE or a handover is
`Interrupt`, a new TTI is `Forget`) or a stutter.

`HarqGrantProofs` proves `GrantsStaySynchronized` (`GrantSynchronized`), with two of the
hypotheses of the run `sync`, that the UE stays in its cell (finding 3) and has something
to send with its first grant, but with mode switches of both ends. `GrantInv` follows the first PDU
from the process NumProc - 2 it is sent in to the eNodeB, which starts counting when it has
arrived (`FirstOnItsWay`); from then on the two counters name the same process
(`CountersAgree`), and a grant names the process of the TTI it will be used in
(`GrantsInTime`).

*Not proved, only model-checked.* The two liveness properties.

### RLC AM

`AmLinkProofs` proves, for every number of SDUs, transmit and receive window,
maxRtx, and with no bound on what is in the air or how many commands are sent:

| Theorem | Property |
|---|---|
| `AmInductive` | `AmIInv` |
| `AmTypeCorrect` | `AmTypeOK` |
| `AmChecksHold` | `OnlyWithoutContact` |
| `AmNested` | `WindowsNested` |
| `AmAcksAreTrue` | `ReceivedWasSeen` |
| `AmNoDuplicate` | `PassedUpOnce` |
| `AmSkipsNothing` | `NothingSkipped` |
| `AmLeavesNothing` | `LeftBehindOnlyWhenDone` |

*Assumptions.* Each theorem has two hypotheses on the constants. `OneFragmentEach`:
every SDU fits a PDU (findings 5 and 6 are what happens otherwise). `LightLoad`: at
most half a receive window of PDUs is outstanding (finding 4). TLAPS shows
where the half is needed: in `LightShift`, with it the set of positions that
`moveRxWindow` fails to clear is empty.

*Argument.* What the ends know of each other is in messages that may be old, so
`AmIInv` says of every kind of message in the air what remains true until it
arrives. An acknowledgement covers only numbers that were seen or given up, from
the sender's first number on (`AcksTrue`); a command covers only numbers the sender is
done with (`MrwsCoverDone`); the answer to a command names no number the receiver has
not reached (`MrwAcksTrue`). Numbers below the sender's window are left out of the
first two, because the sender forgets them when it moves, and that is why an old
message does no harm. `Outstanding` bounds the windows by one another and by the
load. `PassedIsFlagged` says that an SDU passed up is known by its flag while the
window holds it, which makes `PassedUpOnce` inductive, and `SettledBehind` that all
behind the receiver's window, seen or given up, was passed up or sent maxRtx times
again. Operators that search a window (`MrwTarget`, `FirstMissing`) are proved
to find the first gap by the well-foundedness of the order of naturals (`FirstGap`).
`AirOnly` and `SeenKeeps` collect what the steps have in common; one lemma per action
remains.

`AmRefinementProofs` adds `AmImplementsService`, the refinement `ImplementsService` under
the same two hypotheses: `ServiceInv` strengthens `AmIInv` by what the mapping needs (a
seen PDU the sender still answers for was passed up or given up first; a PDU
never sent was never sent again), and each action is a step of the service or a stutter:
an acknowledgement and a command answered are `Finish`, a data PDU is `PassUp`, a timer is
`Retry` or `GiveUp`.

*Not proved, only model-checked.* What fragmented SDUs and heavier loads do, where
the properties fail.

### Handover

`HandoverProofs` proves, for every set of eNodeBs, of levels and of datagrams, every
hysteresis factor and number of handovers, without hypotheses:

| Theorem | Property |
|---|---|
| `HoInductive` | `HoIInv` |
| `HoTypeCorrect` | `HoTypeOK` |
| `StartersHaveTargets` | `StarterHasTarget` |
| `DecisionIsSound` | `NotForMuchWeaker` |
| `TunnelsAreClosed` | `NoTunnelLeft` |
| `PathFollows` | `PathFollowsHandover` |
| `NoneForgotten` | `InOnePlace` |
| `HeldOnlyForArrival` | datagrams from IP are held only where the UE is about to arrive, or where a START came late (`HeldForArrival`, a part of `HoIInv`) |
| `OldMastersAreSilent` | only the eNodeB the UE is attached to has datagrams for it in its stack (`OnlyMasterSends`, a part of `HoIInv`) |

*Argument.* `NotForMuchWeaker` is about two levels that are forgotten at different times:
hearing the master lowers the remembered level of the candidate and keeps the candidate.
`Levels` says what is left: the master is never heard louder than the candidate is
remembered, and as long as the master's broadcast of this turn is still to come the
candidate is remembered as it was chosen. `CommandsInTime` says which commands
can be on their way as long as none was outrun; `PathFollowsHandover` is inductive
with it. `NoTunnelLeft` needs no such premise: a tunnel that is open outside a handover
has its completion on the way, whatever else was overtaken. `HeldForArrival` is the safety
behind `HeldReleased`: without a late START, who holds is the target of the handover that
is under way, and its completion passes the queue down. With one nothing of the
kind holds, which is why the property excepts it. `OnlyMasterSends` needs the readdressing
at the other eNodeBs and the deletion of the old buffers.

`InOnePlace` is a sum of cardinalities over queues, which says nothing of the order of a
queue or of what a step moves. `Placed` says it in a form that a step can be followed
in: there is a map `w` of the datagrams to kinds of place and eNodeBs, and each queue lists
exactly the datagrams that `w` maps to it, each once (`Lists`). Every step moves a set of
datagrams from one kind of place to another (`Moved`), the queues of readdressed datagrams
being a kind of their own: one for an arrival or a
transmission, two whole queues for `FlushedAt`, three for the end of a handover, where
`candidate # master` (from `HoIInv`) keeps the stack that is deleted apart from
the one that the queues go to. `PlacedInOnePlace` counts at the end only: a list without
repetition has one position of each datagram or none.

*Not proved, only model-checked.* `TunnelCloses` and `HeldReleased`, liveness properties.

### RLC UM

`UmLinkProofs` proves, for every number and size of SDUs, every set of rooms that the MAC
may offer and every window, unicast and multicast, with losses, reordering, mode switches
and handovers, without hypotheses:

| Theorem | Property |
|---|---|
| `UmInductive` | `UmIInv` |
| `UmTypes` | `UmTypeOK` |
| `UmNothingThrown` | `NothingThrown` |
| `UmWindowSound` | `WindowSound` |
| `UmLossesAreExact` | `LossesAreExact` |
| `UmImplementsService` | `ImplementsService` |

*Argument.* The SDUs in their order are one stream of bytes, and a place in it is an SDU
and an offset. `UmIInv` says that there is a function `begin` from PDU numbers to places
such that every PDU on the link or in the window has the bytes from `begin` of its number
on, up to no further than `begin` of the next, with the framing that its cuts ask for
(`Cuts`), and that the receiver has seen the stream up to `begin[reorderFrom]` (`Seen`): the
SDU it assembles ends there or before, what it passed up is smaller, and what it counted
lost is the rest. `begin` is in no variable of the code; a step that makes a PDU extends it, a mode
switch and a handover begin a new one. For the sender, `MadePduIsCut` and
`RlcPduMakeGoesOn` show that `rlcPduMake` cuts the stream where the last PDU ended and that
its framing is right; for the receiver, `SeenChunk`, `SeenPdu` and `SeenPdus` show that reassembly of PDUs
in order, with any of them missing, goes on from what was seen and finds no SDU of a
wrong size. `ShiftOf`, `PositionOf` and `HeldAfter` are about the window: the position of a PDU
that is not discarded exists and is free, and what is left behind the first gap is
within it. `BuffersWindow` puts both together for `enque`.

The loops of the code are recursive functions over an interval. `Induction` (a set that
contains the first number and with a number the next one contains all, by the least
number that it lacks) and `Iterates` (a loop has a run, so that the function TLC evaluates is
defined) are all that the proofs need to know of them; `ChunkLoop` and `PduLoop` then give
the equations of reassembly, and `LeastOf` what `NextMissing` finds.

The quantifier over functions on all numbers is not for TLC. While `UmIInv` was written,
its parts were checked on the constants of `um_link` but a window of 3 with a history
variable in the place of `begin` (228046 states).

*Not proved, only model-checked.* `HeldBackNotForever`.

### CAIN

`CainProofs` proves, for every number of UEs, eNodeBs, areas, requests, feedbacks,
measurements and handovers:

| Theorem | Property |
|---|---|
| `CainTypeCorrect` | `CainTypeOK` |
| `RelayCountAlwaysExact` | `RelayCountExact` |
| `OneRequestAtATime` | `OneRequestUnderWay` |
| `CainImplementsSafeService` | `ImplementsService` without its fairness |

*Assumptions.* On the constants, `CainCellsAssumption` and what `Cain` adds to it; that a
UE and an eNodeB never have the same id is among them, as `LteBinder::registerNode`
gives them (a node that is both would take its own frames twice).
`OneRequestAtATime` has the hypothesis `RaRespWin >= 3` (the code has raRespWinStart 3): it
takes the four frames of a relayed request to pass before the UE asks again.

*Argument.* `RelayCountExact` is about cardinalities, and one step can consume a frame and
send another that relays the same request. It is inductive with `OneFrameEach`: of each
request there is one frame, or one that ended it, so a step changes each of the counted
sets by one frame at most. `Numbered` keeps a new request apart from all earlier ones,
`RelaysGranted` is why no relay is refused, and `OneCell` says that until a UE finds
another cell nearer, all frames go to and come from the first eNodeB, whence none
can be lost. The proofs look at `Flow`, the frames of this TTI followed by those
of the next, which makes the end of a TTI a stutter and every arrival the loss of
a head. `OneRequestAtATime` adds `WaitInv`: the stage a frame has reached on its way tells
how often the main loop of its UE has run since it asked, and so what its response
timer shows: it has not run out before the fourth frame.

*Not proved, only model-checked.* That every request ends (`ImplementsService` with its
fairness).

Liveness under fairness is beyond TLAPS, as is ENABLED. Induction over data is possible
where it can be stated for a set of numbers, as in `UmLinkProofs`; no theorem needs more.

## 6. What is not modelled

`PROJECT.json` lists every component with its status. A component is `partly` modelled
when the operations named in its note are missing; these are left out altogether:

* *Downlink scheduler, UE scheduler and LCG schedulers, the queues and virtual buffers
  of the MAC*: they are in the plan. Four hazards wait for them and have no property
  (`LteMacBase.cc:101`, `LteMacBase.cc:301`, `LteMacUeRealistic.cc:282` and `:404`).
* *D2D and mirror H-ARQ buffers*: what they inherit is in `HarqTx` and `HarqRx`; the mirror
  comes after the downlink.
* *Scheduling modules, resource allocator, CoMP*: a choice by floating-point rates, a table
  of blocks, a proportional split. The models leave their outcome open.
* *RLC TM and mux, other X2 applications, core network nodes, EPC beyond the tunnel of the
  downlink, applications, world*: forwarding, look-ups and input/output without a protocol
  state of their own.
* *Channel model, feedback computation, AMC*: floating-point arithmetic, which TLC does not
  have. Whether a PDU is received, how loud a cell is, which area a UE is in are open
  choices in the models.
* *Simulations, user interface, fingerprint tests*: configurations and recorded results.

By lines, most of the code is of these last kinds: the two large files of the channel
model, the BLER tables (`PhyPisaData.cc`), the message classes generated from `.msg` files
(`*_m.cc`), headers of accessors, applications and the AMC tables. The models cover the
protocol code, and there the ways that the modules above name; what they cover is
therefore a small part of the lines of the repository, and no faithful model would make
it a large one.
